------------------------------ MODULE Catalog ------------------------------
(***************************************************************************)
(* The catalogue, category -> brand -> product, while administrators edit  *)
(* it and customers read and buy from it: services/admin/catalog.py and    *)
(* the handlers of handlers/admin/{categories, subcategories, products}.py *)
(* and product_manage/, services/catalog.py behind handlers/user/          *)
(* catalog.py, the cached list of categories (utils/cache.py), and the     *)
(* checkout's guard (repositories/visibility.py).                          *)
(*                                                                         *)
(* A task handles one update of an administrator in one transaction: it    *)
(* reads rows without locking them, works out what to write, flushes (rows *)
(* locked, foreign keys checked), answers Telegram, and its middleware     *)
(* commits.  PostgreSQL runs READ COMMITTED, and an UPDATE names only the  *)
(* columns the code changed.  The conversation (FSM) of one administrator  *)
(* is modelled; his double taps and other administrators are other tasks.  *)
(***************************************************************************)
EXTENDS Integers, FiniteSets

CONSTANTS
  Categories, Brands, Products,  \* ids, bound: those there are and ever will be
  Seed,       \* the rows there are at first
  Touched,    \* bound: the rows that are shown, hidden and renamed
  Tasks,      \* updates of administrators handled at a time
  TTL,        \* of the cached list, 60 s
  MaxTime, MaxRuns, MaxChanges,  \* bounds: clock, conversations, commits
  Null, Gone

Ids == Categories \cup Brands \cup Products

\* The columns of the three tables.
Columns == {"up", "category", "on", "pos", "text"}

\* The rows each table may have, and what their links refer to.
Ups(x) == IF x \in Categories THEN {Null} ELSE IF x \in Brands THEN Categories ELSE Brands \cup {Null}
Links(x) == IF x \in Products THEN Categories ELSE {Null}
RowOf(x) == [up : Ups(x), category : Links(x), on : BOOLEAN, pos : Int, text : Nat \cup {Null}]
Parents(r) == {r.up, r.category} \ {Null}

Conversations == {"add", "edit", "brand", "category", "categoryName", "brandName", "price", "description"}

\* Ids tell the tables apart; Null and Gone are neither ids nor columns of rows.
ASSUME CatalogAssumption ==
  /\ Ids \subseteq Nat /\ IsFiniteSet(Ids)
  /\ Categories \cap Brands = {} /\ Categories \cap Products = {} /\ Brands \cap Products = {}
  /\ Null \notin Ids \cup Tasks \cup {Gone} /\ Gone \notin Tasks /\ Null \notin BOOLEAN /\ Null \notin Conversations
  /\ Gone \notin [on : BOOLEAN]
  /\ \A C \in SUBSET (Columns \ {"on"}) : Gone \notin [C -> Int \cup {Null}]
  /\ \A x \in Ids : Null \notin RowOf(x) /\ Gone \notin RowOf(x)
  /\ DOMAIN Seed \cup Touched \subseteq Ids
  /\ \A x \in DOMAIN Seed : Seed[x] \in RowOf(x) /\ Parents(Seed[x]) \subseteq DOMAIN Seed
  /\ TTL \in Nat \ {0} /\ {MaxTime, MaxRuns, MaxChanges} \subseteq Nat

VARIABLES
  row,      \* committed rows by id, Null where there is none; brand rows have
            \* their category in up, products their brand in up (Null in rows
            \* older than brands) and their category again in category
  taken,    \* ids given out: a sequence does not give one twice
  cart,     \* products in a committed cart
  ordered,  \* products of committed orders
  task,     \* the transaction of each task
  dialog,   \* the administrator's FSM state and data
  section,  \* the task inside confirm_once, per wizard that has its own keyed lock
  runs, changes, now,
  cache,    \* the cached list, Null if there is none
  reading,  \* a customer's query of the list under way
  told,     \* of a row, what an administrator was last told of its switch (on), and
            \* how that came out (by): the task that told while its transaction is
            \* open, then Null, or Gone if it was in vain
  hidden,   \* since when customers should not be shown a category
  made      \* how many products there have been of each run of a wizard

db == <<row, taken, cart, ordered>>
customers == <<cache, reading>>
bounds == <<runs, changes, now>>
history == <<told, hidden, made>>
catalogVars == <<db, task, dialog, section, customers, bounds, history>>

Live(S) == {x \in S : row[x] # Null}
CategoryRow(pos, text) == [up |-> Null, category |-> Null, on |-> TRUE, pos |-> pos, text |-> text]
BrandRow(c, pos, text) == [up |-> c, category |-> Null, on |-> TRUE, pos |-> pos, text |-> text]
ProductRow(b, c, text) == [up |-> b, category |-> c, on |-> TRUE, pos |-> 0, text |-> text]

\* What a transaction writes: for some rows a whole row, Gone, or new columns.
Nothing == [x \in {} |-> Gone]
Put(x, columns) == [y \in {x} |-> columns]
With(f, g) == [x \in DOMAIN f \cup DOMAIN g |-> IF x \in DOMAIN g THEN g[x] ELSE f[x]]
\* The ORM's UPDATE: the columns whose value differs from what was read.
Update(x, columns) == LET changed == {f \in DOMAIN columns : columns[f] # row[x][f]}
                      IN  IF changed = {} THEN Nothing ELSE Put(x, [f \in changed |-> columns[f]])
Written(x, columns) == IF columns = Gone THEN Null
                       ELSE IF row[x] = Null THEN columns
                       ELSE With(row[x], columns)
\* The next id of a table's sequence, which never gives one twice.
TakesId(x, S) == /\ x \in S \ taken /\ \A y \in S \ taken : x <= y
                 /\ taken' = taken \cup {x}

NoTask == [pc |-> "idle", id |-> Null, put |-> Nothing, wizard |-> Null, run |-> 0, says |-> Null]
Wrote(t) == task[t].pc \in {"flushed", "answered"}

\* The conversation: which wizard and step, and its data: the row it is about,
\* the links, names (Null: not given yet), whether the data is full, that is
\* holds everything a product has, and whether some of it was lost.
NoFsm == [kind |-> Null, at |-> Null, run |-> 0, id |-> Null, category |-> Null,
          brand |-> Null, on |-> TRUE, text |-> Null, full |-> FALSE, lost |-> FALSE,
          submitted |-> FALSE]

----------------------------------------------------------------------------
\* Order and visibility.

Before(x, y) == row[x].pos < row[y].pos \/ (row[x].pos = row[y].pos /\ x < y)
\* How many of S come before x.
Rank(x, S) == Cardinality({y \in S : Before(y, x)})
Siblings(x) == IF x \in Categories THEN Live(Categories)
               ELSE {b \in Live(Brands) : row[b].up = row[x].up}
BrandsOf(c) == {b \in Live(Brands) : row[b].up = c}
ProductsOf(b) == {p \in Live(Products) : row[p].up = b}
LinkedTo(c) == {p \in Live(Products) : row[p].category = c}
NextPos(S) == LET top == {row[x].pos : x \in S}
              IN  IF S = {} THEN 1 ELSE 1 + CHOOSE n \in top : \A m \in top : m <= n

\* New rows, shown, behind those there are; new names for one.
CreateCategory(c, text) == Put(c, CategoryRow(NextPos(Live(Categories)), text))
CreateSubcategory(b, c, text) == Put(b, BrandRow(c, NextPos(BrandsOf(c)), text))
CreateProduct(p, b, c, text) == Put(p, ProductRow(b, c, text))
SetNames(x, text) == Update(x, [text |-> text])

VisibleCategory(c) == c \in Live(Categories) /\ row[c].on
VisibleBrand(b) == b \in Live(Brands) /\ row[b].on /\ VisibleCategory(row[b].up)
VisibleProduct(p) == p \in Live(Products) /\ row[p].on /\ row[p].up # Null /\ VisibleBrand(row[p].up)

\* Rows older than brands go by their own switch.
Purchasable(p) == VisibleProduct(p) \/ (p \in Live(Products) /\ row[p].on /\ row[p].up = Null)

\* The checkout's guard asks the product's own link to a category.
Sellable(p) == /\ p \in Live(Products) /\ row[p].on /\ VisibleCategory(row[p].category)
               /\ row[p].up = Null \/ row[row[p].up].on

\* The list customers are shown: id, name and place.
ActiveList == LET shown == {c \in Categories : VisibleCategory(c)}
              IN  {[id |-> c, text |-> row[c].text, place |-> Rank(c, shown)] : c \in shown}
Listed(list) == {entry.id : entry \in list}

----------------------------------------------------------------------------
CatalogInit ==
  /\ row = [x \in Ids |-> IF x \in DOMAIN Seed THEN Seed[x] ELSE Null]
  /\ taken = DOMAIN Seed
  /\ cart = {} /\ ordered = {}
  /\ task = [t \in Tasks |-> NoTask]
  /\ dialog = NoFsm /\ section = [k \in {"add", "edit", "brand"} |-> Null]
  /\ runs = 0 /\ changes = 0 /\ now = 0
  /\ cache = Null /\ reading = Null
  /\ told = [x \in Ids |-> [on |-> IF x \in DOMAIN Seed THEN Seed[x].on ELSE TRUE, by |-> Null]]
  /\ hidden = [c \in Categories |-> Null]
  /\ made = [r \in 1..MaxRuns |-> 0]

\* The task has read what it needs and goes on to write put; row x is the one
\* it is about.  says: whether customers will see the row, if that is decided.
Writes(t, x, put, says, wizard) ==
  /\ changes < MaxChanges /\ changes' = changes + 1
  /\ task' = [task EXCEPT ![t] = [pc |-> "ready", id |-> x, put |-> put, wizard |-> wizard,
                                  run |-> IF wizard = "add" THEN dialog.run ELSE 0, says |-> says]]
Plain(t, x, put, says) ==
  /\ task[t].pc = "idle"
  /\ Writes(t, x, put, says, Null)
  /\ UNCHANGED <<db, dialog, section, customers, runs, now, history>>

\* Shown or hidden: the opposite of what was read.
Toggle(t, x) == /\ x \in Live(Touched)
                /\ Plain(t, x, Update(x, [on |-> ~row[x].on]), ~row[x].on)
ToggleCategory(t, c) == c \in Categories /\ Toggle(t, c)
ToggleBrand(t, b) == b \in Brands /\ Toggle(t, b)

\* A product's buttons say which; one that was read so already is not written,
\* but answered all the same.
Switch(t, p, on) == p \in Live(Products \cap Touched) /\ Plain(t, p, Update(p, [on |-> on]), on)
EnableProduct(t, p) == Switch(t, p, TRUE)
DisableProduct(t, p) == Switch(t, p, FALSE)

\* One place up or down among its siblings; all of them are renumbered.  At an
\* end nothing moves.
Move(t, x, step) ==
  LET S == Siblings(x)
      from == Rank(x, S)
      to == from + step
      place(y) == IF y = x THEN to ELSE IF Rank(y, S) = to THEN from ELSE Rank(y, S)
      moved == {y \in S : place(y) # row[y].pos}
  IN  Plain(t, x, IF to \in 0..(Cardinality(S) - 1) THEN [y \in moved |-> [pos |-> place(y)]]
                  ELSE Nothing, Null)
MoveCategory(t, c, step) == c \in Live(Categories) /\ Move(t, c, step)
MoveBrand(t, b, step) == b \in Live(Brands) /\ Move(t, b, step)

\* A brand to another category, behind the brands there.
MoveToCategory(b, c) == Update(b, [up |-> c, pos |-> NextPos(BrandsOf(c))])
Reassign(t, b, c) == /\ b \in Live(Brands) /\ c \in Live(Categories)
                     /\ Plain(t, b, MoveToCategory(b, c), Null)

\* Deleting is refused while something is counted below the row.
CategoryEmpty(c) == BrandsOf(c) = {} /\ LinkedTo(c) = {}
BrandEmpty(b) == ProductsOf(b) = {}
NeverOrdered(p) == p \notin ordered
DeleteCategory(t, c) == c \in Live(Categories) /\ CategoryEmpty(c) /\ Plain(t, c, Put(c, Gone), Null)
DeleteBrand(t, b) == b \in Live(Brands) /\ BrandEmpty(b) /\ Plain(t, b, Put(b, Gone), Null)
DeleteProduct(t, p) == p \in Live(Products) /\ NeverOrdered(p) /\ Plain(t, p, Put(p, Gone), Null)

----------------------------------------------------------------------------
\* Conversations.  What a run types (names, descriptions, a price) is the
\* number of the run.  Starting one drops the data of the one before.

Keeps == UNCHANGED <<db, task, section, customers, changes, now, history>>
NewRun == runs < MaxRuns /\ runs' = runs + 1 /\ Keeps
Begin(kind) == [NoFsm EXCEPT !.kind = kind, !.at = "text", !.run = runs + 1]

StartAddProduct == NewRun /\ dialog' = Begin("add")
StartCreateCategory == NewRun /\ dialog' = Begin("category")
StartCreateSubcategory(c) == c \in Live(Categories) /\ NewRun
                             /\ dialog' = [Begin("brand") EXCEPT !.category = c]
StartEditCategoryName(c) == c \in Live(Categories \cap Touched) /\ NewRun
                            /\ dialog' = [Begin("categoryName") EXCEPT !.id = c, !.category = c]
StartRenameBrand(b) == b \in Live(Brands \cap Touched) /\ NewRun
                       /\ dialog' = [Begin("brandName") EXCEPT !.id = b]

\* An edit starts from a copy of the product.
ProductSnapshot(p) == [Begin("edit") EXCEPT !.id = p, !.category = row[p].category, !.brand = row[p].up,
                                            !.on = row[p].on, !.text = row[p].text, !.full = TRUE]
StartEditProduct(p) == p \in Live(Products) /\ NewRun /\ dialog' = ProductSnapshot(p)

\* A new price or description is asked for over whatever data there is: the
\* run interrupted, its mark of submission too, stays in it.
AskOver(kind, p) ==
  /\ p \in Live(Products \cap Touched)
  /\ IF dialog.run # 0 THEN UNCHANGED runs ELSE runs < MaxRuns /\ runs' = runs + 1
  /\ dialog' = [dialog EXCEPT !.kind = kind, !.at = "text", !.run = runs', !.id = p]
  /\ Keeps
StartEditPrice(p) == AskOver("price", p)
StartEditDescription(p) == AskOver("description", p)

\* The lists of products and a product's view keep the state but put their own
\* data in place of what the conversation gathered, its mark of submission too;
\* before the first text there was nothing to lose.
ShowProducts(lost) ==
  /\ dialog.kind # Null
  /\ lost \/ (dialog.kind \in {"add", "category"} /\ dialog.at = "text")
  /\ dialog' = [NoFsm EXCEPT !.kind = dialog.kind, !.at = dialog.at, !.run = dialog.run, !.lost = lost]
  /\ Keeps /\ UNCHANGED runs

CancelRun(kinds) == dialog.kind \in kinds /\ dialog' = NoFsm /\ Keeps /\ UNCHANGED runs
CancelWizard == CancelRun({"add"})
CancelEdit == CancelRun({"edit", "price", "description"})
CancelCategoryWizard == CancelRun({"category", "categoryName"})
CancelSubcategory == CancelRun({"brand", "brandName"})

\* A step of a wizard, from one state to the next.
Step(kind, at, next) == dialog.kind = kind /\ dialog.at = at /\ dialog' = next /\ Keeps /\ UNCHANGED runs

\* The texts asked for one after another, and the question after the last of
\* them: names and descriptions; flavour, volume and strength.
TextSteps == [text |-> "category", details |-> "price"]

\* Without a category the wizard ends there.
AskCategory(data) == IF Live(Categories) = {} THEN NoFsm ELSE [data EXCEPT !.at = "category"]
PromptNextStep(data, next) == IF next = "category" THEN AskCategory(data) ELSE [data EXCEPT !.at = next]

Typed == [dialog EXCEPT !.text = dialog.run]
ProcessTextStep(at) == Step("add", at, PromptNextStep(Typed, TextSteps[at]))
ProcessEditTextStep(at) == Step("edit", at, PromptNextStep(Typed, TextSteps[at]))
SkipEditTextStep(at) == Step("edit", at, PromptNextStep(dialog, TextSteps[at]))

\* A category without brands ends adding a product; editing goes on without one.
AskSubcategory(data, without) ==
  IF BrandsOf(data.category) # {} THEN [data EXCEPT !.at = "brand"] ELSE without
ProcessCategory(c) ==
  c \in Live(Categories) /\ Step("add", "category", AskSubcategory([dialog EXCEPT !.category = c], NoFsm))
ProcessEditCategory(c) ==
  LET data == [dialog EXCEPT !.category = c]
  IN  /\ c \in Live(Categories)
      /\ Step("edit", "category", AskSubcategory(data, [data EXCEPT !.brand = Null, !.at = "details"]))
SkipEditCategory == Step("edit", "category", [dialog EXCEPT !.at = "details"])

\* Any keyboard of brands still in the chat; a brand of another category is refused.
ProcessSubcategory(b) ==
  b \in BrandsOf(dialog.category) /\ Step("add", "brand", [dialog EXCEPT !.at = "details", !.brand = b])
ProcessEditSubcategory(b) ==
  b \in BrandsOf(dialog.category) /\ Step("edit", "brand", [dialog EXCEPT !.at = "details", !.brand = b])

\* The price; the preview of what the data holds (an exception if something is
\* missing, but in the state that asks for Confirm).
ShowPreview(data) == [data EXCEPT !.at = "confirm"]
ProcessPrice == Step("add", "price", ShowPreview([Typed EXCEPT !.full = ~dialog.lost]))
ProcessEditFullPrice == Step("edit", "price", ShowPreview(Typed))
SkipEditFullPrice == Step("edit", "price", ShowPreview(dialog))

\* The last text of one of these is written at once, by every task it reaches
\* before the conversation is over.  What it was about may be gone; if it was
\* lost, the text is an exception.
LastText(t, kind) == task[t].pc = "idle" /\ dialog.kind = kind /\ dialog.at = "text"
FinishKeeps == UNCHANGED <<row, cart, ordered, section, customers, runs, now, history>>
Retext(t, kind) ==
  /\ LastText(t, kind) /\ dialog.id # Null
  /\ IF row[dialog.id] = Null
     THEN dialog' = NoFsm /\ UNCHANGED <<task, changes>>
     ELSE UNCHANGED dialog /\ Writes(t, dialog.id, SetNames(dialog.id, dialog.run), Null, "text")
  /\ UNCHANGED taken /\ FinishKeeps
ProcessRenameCategory(t) == Retext(t, "categoryName")
ProcessRename(t) == Retext(t, "brandName")
ProcessEditPrice(t) == Retext(t, "price")
ProcessDescriptionStep(t) == Retext(t, "description")

ProcessCreateCategory(t, c) ==
  /\ LastText(t, "category") /\ ~dialog.lost /\ TakesId(c, Categories)
  /\ Writes(t, c, CreateCategory(c, dialog.run), TRUE, "text")
  /\ UNCHANGED dialog /\ FinishKeeps

----------------------------------------------------------------------------
\* confirm_once: a new brand's last name, or Confirm under a product's preview,
\* is let through by the state, then waits for the wizard's keyed lock.  What
\* it finds there is the data of whichever run is under way by then.

LetThrough(t, wizard, data) ==
  /\ task[t].pc = "idle" /\ task' = [task EXCEPT ![t].pc = "queued", ![t].wizard = wizard]
  /\ dialog' = data
  /\ UNCHANGED <<db, section, customers, bounds, history>>
ProcessCreateStep(t) ==
  dialog.kind = "brand" /\ dialog.at = "text" /\ LetThrough(t, "brand", [dialog EXCEPT !.text = dialog.run])
TapConfirm(t, wizard) == dialog.kind = wizard /\ dialog.at = "confirm" /\ LetThrough(t, wizard, dialog)

Holds(t) == \E wizard \in DOMAIN section : section[wizard] = t
Released(t) == [wizard \in DOMAIN section |-> IF section[wizard] = t THEN Null ELSE section[wizard]]

\* Its turn has come; the handler goes no further, and leaves the data like this.
Stops(t, wizard, data) ==
  /\ task[t].pc = "queued" /\ task[t].wizard = wizard /\ section[wizard] = Null
  /\ task' = [task EXCEPT ![t] = NoTask] /\ dialog' = data
  /\ UNCHANGED <<db, section, customers, bounds, history>>
AlreadySubmitted(t, wizard) == dialog.submitted /\ Stops(t, wizard, dialog)

\* Mutant: Confirm without confirm_once: no keyed lock, nothing marked submitted.
OnceEachTap(t, wizard, x, put, says) ==
  /\ task[t].pc = "queued" /\ task[t].wizard = wizard
  /\ Writes(t, x, put, says, wizard)
  /\ UNCHANGED <<row, cart, ordered, dialog, section, customers, runs, now, history>>

\* The first submission: marked, and the block goes on to write put.
Once(t, wizard, x, put, says) ==
  /\ task[t].pc = "queued" /\ task[t].wizard = wizard /\ section[wizard] = Null /\ ~dialog.submitted
  /\ section' = [section EXCEPT ![wizard] = t]
  /\ dialog' = [dialog EXCEPT !.submitted = TRUE]
  /\ Writes(t, x, put, says, wizard)
  /\ UNCHANGED <<row, cart, ordered, customers, runs, now, history>>

\* Data without a category or names: an exception.
CreateBrand(t, b) ==
  IF dialog.category # Null /\ dialog.text # Null
  THEN /\ TakesId(b, Brands)
       /\ Once(t, "brand", b, CreateSubcategory(b, dialog.category, dialog.text), TRUE)
  ELSE b = Null /\ ~dialog.submitted /\ Stops(t, "brand", dialog)

\* Data that lacks something ends the conversation; a brand it must not lack.
ConfirmAddProduct(t, p) ==
  IF dialog.full /\ dialog.brand # Null
  THEN /\ TakesId(p, Products)
       /\ Once(t, "add", p, CreateProduct(p, dialog.brand, dialog.category, dialog.text), TRUE)
  ELSE p = Null /\ ~dialog.submitted /\ Stops(t, "add", IF dialog.full THEN dialog ELSE NoFsm)

\* Mutant: the edit also writes the switch it copied when it began.
EditedSnapshot == With([category |-> dialog.category, text |-> dialog.text, on |-> dialog.on],
                       IF dialog.brand = Null THEN Nothing ELSE [up |-> dialog.brand])

EditedRow == With([category |-> dialog.category, text |-> dialog.text],
                  IF dialog.brand = Null THEN Nothing ELSE [up |-> dialog.brand])

\* A product that is gone ends the conversation; data of no edit is an exception.
ConfirmEditProduct(t, p) ==
  LET known == dialog.id \in Products
  IN  IF known /\ dialog.full /\ row[dialog.id] # Null
      THEN /\ p = dialog.id /\ UNCHANGED taken
           /\ Once(t, "edit", p, Update(p, EditedRow), Null)
      ELSE /\ p = Null /\ ~dialog.submitted
           /\ Stops(t, "edit", IF known /\ row[dialog.id] = Null THEN NoFsm ELSE dialog)

----------------------------------------------------------------------------
\* Writing: foreign keys are RESTRICT, waited for while they are in doubt.

References(put) == {put[x].up : x \in {y \in DOMAIN put : put[y] # Gone /\ "up" \in DOMAIN put[y]}}
                   \cup {put[x].category : x \in {y \in DOMAIN put : put[y] # Gone /\ "category" \in DOMAIN put[y]}}
Deleted(put) == {x \in DOMAIN put : put[x] = Gone}

Waits(t) ==
  \E u \in Tasks \ {t} :
    /\ Wrote(u)
    /\ \/ DOMAIN task[u].put \cap DOMAIN task[t].put # {}
       \/ Deleted(task[u].put) \cap References(task[t].put) # {}
       \/ Deleted(task[t].put) \cap References(task[u].put) # {}

\* Rows that refer to x and are not written by put.
Referring(x, put) == {y \in Live(Ids) \ DOMAIN put : x \in {row[y].up, row[y].category}}
                     \cup ({x} \cap ordered)

\* Mutant: the link to a category is not a foreign key.
RefusedButForLinks(t) ==
  LET put == task[t].put
      ups == {put[x].up : x \in {y \in DOMAIN put : put[y] # Gone /\ "up" \in DOMAIN put[y]}}
  IN  \/ \E x \in ups \ {Null} : row[x] = Null
      \/ \E x \in Deleted(put) : \E y \in Live(Ids) : row[y].up = x
      \/ \E x \in DOMAIN put \ Deleted(put) : row[x] = Null /\ ~({"pos", "text"} \subseteq DOMAIN put[x])

Refused(t) ==
  LET put == task[t].put
  IN  \/ \E x \in References(put) \ {Null} : row[x] = Null
      \/ \E x \in Deleted(put) : Referring(x, put) # {}
      \/ \E x \in DOMAIN put \ Deleted(put) : row[x] = Null /\ ~({"pos", "text"} \subseteq DOMAIN put[x])

\* What t told of a switch, once its transaction is over.
Settled(t, end) == [x \in Ids |-> IF told[x].by = t THEN [told[x] EXCEPT !.by = end] ELSE told[x]]

\* An exception: rolled back, whatever was told; confirm_once lets its wizard be
\* confirmed again.
RollsBack(t, data) ==
  /\ task' = [task EXCEPT ![t] = NoTask] /\ told' = Settled(t, Gone)
  /\ dialog' = IF Holds(t) THEN [data EXCEPT !.submitted = FALSE] ELSE data
  /\ section' = Released(t)
  /\ UNCHANGED <<db, customers, bounds, hidden, made>>
Fail(t) == RollsBack(t, dialog)

\* Before a DELETE the ORM loads what refers to the row, to clear it: brands
\* and links of a category and lines of a cart must not be empty, a product's
\* brand may be.
LoadBelow(t) ==
  LET x == task[t].id
  IN  /\ task[t].pc = "ready" /\ task[t].put = Put(x, Gone)
      /\ IF x \notin Brands /\ (Referring(x, Nothing) # {} \/ x \in cart)
         THEN Fail(t)
         ELSE /\ task' = [task EXCEPT ![t].pc = "loaded",
                             ![t].put = With(@, [p \in ProductsOf(x) |-> [up |-> Null]])]
              /\ UNCHANGED <<db, dialog, section, customers, bounds, history>>

\* The conversation is over with a wizard's last step and with the deletion of
\* a category or a product, whichever conversation it is by then.
EndsConversation(t) ==
  \/ task[t].wizard \notin {Null, "brand"}
  \/ Deleted(task[t].put) \cap (Categories \cup Products) # {}

\* The statements run.  A new brand's block ends here, its conversation later.
Flushes(t) ==
  /\ task[t].pc = IF Deleted(task[t].put) = {} THEN "ready" ELSE "loaded"
  /\ ~Waits(t) /\ ~Refused(t)
  /\ task' = [task EXCEPT ![t].pc = "flushed"]
  /\ dialog' = IF EndsConversation(t) THEN NoFsm ELSE dialog
  /\ section' = IF task[t].wizard = "brand" THEN Released(t) ELSE section
  /\ UNCHANGED <<db, bounds, history>>

\* Mutant: the flush leaves the cached list alone.
FlushKeepsCache(t) == Flushes(t) /\ UNCHANGED customers

\* A category's change invalidates the cached list here, before the commit.
Flush(t) ==
  /\ Flushes(t)
  /\ IF task[t].id \in Categories
     THEN /\ cache' = Null
          /\ reading' = IF reading = Null THEN Null ELSE [reading EXCEPT !.overlapped = TRUE]
     ELSE UNCHANGED customers

Refuse(t) == /\ task[t].pc \in {"ready", "loaded"} /\ ~Waits(t) /\ Refused(t)
             /\ Fail(t)

\* A new brand's conversation is cleared between its flush and its answer.
Concluded(t) == IF task[t].wizard = "brand" /\ task[t].pc = "flushed" THEN NoFsm ELSE dialog

\* The administrator is answered before the commit; with it Confirm of a
\* product lets go of its keyed lock.  A row said to be as it was read was not
\* written, and other tasks may have switched it, or be about to.
Switches(t, x) == x \in DOMAIN task[t].put /\ task[t].put[x] # Gone /\ "on" \in DOMAIN task[t].put[x]
Answer(t) ==
  LET x == task[t].id
      says == task[t].says
      stands == row[x] # Null /\ row[x].on = says /\ \A u \in Tasks : Wrote(u) => ~Switches(u, x)
  IN  /\ task[t].pc = "flushed" /\ task' = [task EXCEPT ![t].pc = "answered"]
      /\ told' = IF says = Null THEN told
                 ELSE [told EXCEPT ![x] = [on |-> says, by |-> IF Switches(t, x) THEN t
                                                              ELSE IF stands THEN Null ELSE Gone]]
      /\ section' = Released(t) /\ dialog' = Concluded(t)
      /\ UNCHANGED <<db, customers, bounds, hidden, made>>

\* Telegram does not take the answer, or what is shown after it, or the commit
\* is lost.
AnswerFails(t) == Wrote(t) /\ RollsBack(t, Concluded(t))

\* The middleware commits when the handler is done.
Commit(t) ==
  LET put == task[t].put
      seen(c) == LET after == IF c \in DOMAIN put THEN Written(c, put[c]) ELSE row[c]
                 IN  after # Null /\ after.on
  IN  /\ task[t].pc = "answered"
      /\ row' = [y \in Ids |-> IF y \in DOMAIN put THEN Written(y, put[y]) ELSE row[y]]
      /\ cart' = cart \ Deleted(put)
      /\ told' = Settled(t, Null)
      /\ hidden' = [c \in Categories |->
                      IF seen(c) THEN Null ELSE IF VisibleCategory(c) THEN now ELSE hidden[c]]
      /\ made' = IF task[t].wizard = "add" THEN [made EXCEPT ![task[t].run] = @ + 1] ELSE made
      /\ task' = [task EXCEPT ![t] = NoTask]
      /\ UNCHANGED <<taken, ordered, dialog, section, customers, bounds>>

----------------------------------------------------------------------------
\* Customers.

CustomerKeeps == UNCHANGED <<row, taken, task, dialog, section, runs, changes, history>>
\* Mutant: served at the very end of its time still.
FreshAtExpiry(time) == cache # Null /\ time <= cache.until

\* Customers are shown the cached list while its time lasts; an expired one is
\* dropped (in the code by the next read of it).
StillFresh(time) == cache # Null /\ time < cache.until

\* The cache is missed: the query's snapshot, and later its result.
ReadList ==
  /\ cache = Null /\ reading = Null
  /\ reading' = [list |-> ActiveList,
                  overlapped |-> \E t \in Tasks : Wrote(t) /\ task[t].id \in Categories]
  /\ CustomerKeeps /\ UNCHANGED <<cart, ordered, cache, now>>

ReadFails == reading # Null /\ reading' = Null
             /\ CustomerKeeps /\ UNCHANGED <<cart, ordered, cache, now>>

\* The list stays cached when its reader's handler fails after this.
FillCache ==
  /\ reading # Null
  /\ cache' = [list |-> reading.list, until |-> now + TTL, overlapped |-> reading.overlapped]
  /\ reading' = Null
  /\ CustomerKeeps /\ UNCHANGED <<cart, ordered, now>>

\* From the product's card, however old.
AddToCart(p) ==
  /\ Purchasable(p) /\ \A t \in Tasks : Wrote(t) => p \notin Deleted(task[t].put)
  /\ cart' = cart \cup {p}
  /\ CustomerKeeps /\ UNCHANGED <<ordered, cache, reading, now>>

\* The order's transaction: its guard lets all products pass, and its lines'
\* foreign key waits for a product being deleted.
PlaceOrder ==
  /\ cart # {} /\ \A p \in cart : Sellable(p)
  /\ \A t \in Tasks : Wrote(t) => Deleted(task[t].put) \cap cart = {}
  /\ ordered' = ordered \cup cart /\ cart' = {}
  /\ CustomerKeeps /\ UNCHANGED <<cache, reading, now>>

\* A query takes less than a tick.
Tick ==
  /\ now < MaxTime /\ now' = now + 1
  /\ reading = Null /\ UNCHANGED reading
  /\ cache' = IF StillFresh(now') THEN cache ELSE Null
  /\ CustomerKeeps /\ UNCHANGED <<cart, ordered>>

----------------------------------------------------------------------------
CatalogNext ==
  \/ \E t \in Tasks :
       \/ \E c \in Categories, step \in {-1, 1} : MoveCategory(t, c, step)
       \/ \E b \in Brands, step \in {-1, 1} : MoveBrand(t, b, step)
       \/ \E c \in Categories : ToggleCategory(t, c) \/ DeleteCategory(t, c) \/ ProcessCreateCategory(t, c)
       \/ \E b \in Brands : ToggleBrand(t, b) \/ DeleteBrand(t, b)
       \/ \E b \in Brands, c \in Categories : Reassign(t, b, c)
       \/ \E p \in Products : EnableProduct(t, p) \/ DisableProduct(t, p) \/ DeleteProduct(t, p)
       \/ ProcessRenameCategory(t) \/ ProcessRename(t) \/ ProcessEditPrice(t) \/ ProcessDescriptionStep(t)
       \/ ProcessCreateStep(t)
       \/ \E wizard \in {"add", "edit"} : TapConfirm(t, wizard)
       \/ \E wizard \in {"add", "edit", "brand"} : AlreadySubmitted(t, wizard)
       \/ \E b \in Brands \cup {Null} : CreateBrand(t, b)
       \/ \E p \in Products \cup {Null} : ConfirmAddProduct(t, p) \/ ConfirmEditProduct(t, p)
       \/ LoadBelow(t) \/ Flush(t) \/ Refuse(t) \/ Answer(t) \/ AnswerFails(t) \/ Commit(t)
  \/ StartAddProduct \/ StartCreateCategory
  \/ \E lost \in BOOLEAN : ShowProducts(lost)
  \/ CancelWizard \/ CancelEdit \/ CancelCategoryWizard \/ CancelSubcategory
  \/ \E c \in Categories : StartCreateSubcategory(c) \/ StartEditCategoryName(c)
  \/ \E b \in Brands : StartRenameBrand(b)
  \/ \E p \in Products : StartEditProduct(p) \/ StartEditPrice(p) \/ StartEditDescription(p)
  \/ \E at \in DOMAIN TextSteps : ProcessTextStep(at) \/ ProcessEditTextStep(at) \/ SkipEditTextStep(at)
  \/ \E c \in Categories : ProcessCategory(c) \/ ProcessEditCategory(c)
  \/ SkipEditCategory
  \/ \E b \in Brands : ProcessSubcategory(b) \/ ProcessEditSubcategory(b)
  \/ ProcessPrice \/ ProcessEditFullPrice \/ SkipEditFullPrice
  \/ \E p \in Products : AddToCart(p)
  \/ ReadList \/ ReadFails \/ FillCache \/ PlaceOrder \/ Tick

CatalogSpec == CatalogInit /\ [][CatalogNext]_catalogVars

----------------------------------------------------------------------------
\* Nothing refers to a row that is gone, whatever was created, moved, sold or
\* ordered between the count of a deletion and its DELETE.
ParentsExist ==
  /\ \A x \in Live(Ids) : {row[x].up, row[x].category} \ {Null} \subseteq Live(Ids)
  /\ cart \cup ordered \subseteq Live(Products)

\* The cached list is the list there is, unless its query overlapped a change
\* of a category: started before its flush or between its flush and commit.
StaleOnlyByOverlap == cache # Null /\ ~cache.overlapped => cache.list = ActiveList

\* However stale the cache, a hidden or deleted category leaves the customers'
\* list within the time to live.
HiddenListedBriefly ==
  cache # Null => \A c \in Listed(cache.list) : hidden[c] # Null => now - hidden[c] < TTL

\* However often Confirm is tapped, a run of the wizard makes one product.
OneProductPerRun == \A r \in 1..MaxRuns : made[r] <= 1

\* What an administrator was last told of a row, shown or hidden, is so once his
\* transaction is committed, and stays so until somebody is told otherwise: no
\* saved edit from an older copy undoes it.
ShownAsTold == \A x \in Live(Ids) : told[x].by = Null => row[x].on = told[x].on

\* visibility.py: a brand's product is sold exactly when customers can see it.
SoldIffVisible ==
  \A p \in Live(Products) : row[p].up # Null => (Sellable(p) <=> VisibleProduct(p))
=============================================================================
