------------------------------ MODULE Checkout ------------------------------
(***************************************************************************)
(* One customer's cart and checkout (handlers/user/cart.py, services/      *)
(* cart.py, handlers/user/checkout.py, services/order.py, services/        *)
(* reward.py).                                                             *)
(*                                                                         *)
(* A session is one update being handled.  Edits of the cart read the item *)
(* without a lock, flush an absolute quantity, answer Telegram and only    *)
(* then commit.  A confirmation runs inside the customer's keyed_lock: it  *)
(* marks the conversation submitted, locks the cart row and the loyalty    *)
(* account, prices the lines, plans the reward, writes the order, deletes  *)
(* the cart items and commits.  The conversation (FSM) lives in the memory *)
(* of the process and every handler but the confirmation changes it        *)
(* without the keyed_lock.                                                 *)
(*                                                                         *)
(* Customers share nothing here but the products, which only admins change *)
(* and the payouts of other customers' orders, which lock the account.     *)
(***************************************************************************)
EXTENDS RewardRules, Sequences

CONSTANTS
  Sessions,      \* updates of this customer, and payouts, handled at once
  Prices,        \* prices admins set
  InitialCart,   \* quantity of each product in the cart at first, 0 for none
  InitialPrice,
  MaxQuantity,   \* MAX_CART_ITEM_QUANTITY
  MaxVisits,     \* bound: confirmations the customer is asked for
  MaxItem        \* bound: cart rows ever inserted

ASSUME CheckoutAssumption ==
  /\ None \notin Sessions \cup [order : Nat, amount : Int]
  /\ Prices \subseteq Nat \ {0}
  /\ InitialCart \in [Products -> 0..MaxQuantity]
  /\ InitialPrice \in [Products -> Prices]
  /\ MaxVisits \in Nat
  /\ MaxItem \in Nat

VARIABLES
  price, onSale,  \* committed products; onSale is their and their parents' is_active
  cart,           \* committed cart_items row of each product, None without one
  lastItem,       \* last value drawn from the sequence of cart_items ids
  orders,         \* committed orders, oldest first
  used,           \* what each reward was used for, None while available
  cartLock, accountLock,  \* the session holding the cart row, the loyalty account
  cartShare,      \* sessions whose inserted item holds the cart row's key share
  itemLock,       \* the session whose uncommitted write is on each product's item
  fsm,            \* the checkout conversation
  keyed,          \* the session inside keyed_lock("checkout:<customer>")
  visit,          \* how often the customer has been asked to confirm
  cancelled,      \* the confirmations they were told "Order cancelled" for
  pc, job         \* where each session is, and what it works on

products == <<price, onSale>>
items == <<cart, lastItem>>
placed == <<orders, used>>
locks == <<cartLock, accountLock, cartShare, itemLock>>
talk == <<fsm, visit, cancelled>>
vars == <<products, items, placed, locks, keyed, talk, pc, job>>

Item == [item : Nat, quantity : 1..MaxQuantity]
OrderItem == [product : Products, quantity : Nat \ {0}, price : Nat]
Order == [visit : Nat, cart : SUBSET Nat, items : SUBSET OrderItem,
          reward : Rewards \cup {None}, total : Nat]
Steps == {"none", "questions", "reward", "confirmation"}

\* "edit" waits to flush, "telling" has flushed and talks; "confirm" waits for
\* the keyed_lock, "place" to "commit" are place_order_from_cart.
Editing == {"edit", "telling"}
Placing == {"place", "account", "clear", "commit", "saved", "refused", "refused_reward"}
Keyed == {"checked", "told"} \cup Placing
Phases == {"idle", "offer", "summary", "cancel", "confirm", "success",
           "payout_wait", "paying"} \cup Editing \cup Keyed

Closed == [step |-> "none", complete |-> FALSE, submitted |-> FALSE, reward |-> None]

Init ==
  /\ price = InitialPrice
  /\ onSale = [p \in Products |-> TRUE]
  /\ cart = [p \in Products |->
       IF InitialCart[p] = 0 THEN None ELSE [item |-> p, quantity |-> InitialCart[p]]]
  /\ lastItem = Max({0} \cup Products)
  /\ orders = <<>>
  /\ used = [r \in Rewards |-> None]
  /\ cartLock = None /\ accountLock = None /\ cartShare = {}
  /\ itemLock = [p \in Products |-> None]
  /\ fsm = Closed
  /\ keyed = None
  /\ visit = 0
  /\ cancelled = {}
  /\ pc = [s \in Sessions |-> "idle"]
  /\ job = [s \in Sessions |-> None]

Go(s, phase) == pc' = [pc EXCEPT ![s] = phase]

\* The end of a session's transaction, committed or rolled back.
Release(s) ==
  /\ cartLock' = IF cartLock = s THEN None ELSE cartLock
  /\ accountLock' = IF accountLock = s THEN None ELSE accountLock
  /\ cartShare' = cartShare \ {s}
  /\ itemLock' = [p \in Products |-> IF itemLock[p] = s THEN None ELSE itemLock[p]]

LeaveKeyedLock(s) == keyed' = IF keyed = s THEN None ELSE keyed

Leave(s, phase) == Go(s, phase) /\ job' = [job EXCEPT ![s] = None]
Finish(s) == Leave(s, "idle")

InCart == {p \in Products : cart[p] # None}

----------------------------------------------------------------------------
\* Admins.

SetPrice(p, n) ==
  /\ price' = [price EXCEPT ![p] = n]
  /\ UNCHANGED <<onSale, items, placed, locks, keyed, talk, pc, job>>

SetOnSale(p) ==
  /\ onSale' = [onSale EXCEPT ![p] = ~@]
  /\ UNCHANGED <<price, items, placed, locks, keyed, talk, pc, job>>

\* A payout credits this customer, for the order of a friend of theirs.
AskPayout(s) ==
  /\ pc[s] = "idle"
  /\ Go(s, "payout_wait")
  /\ UNCHANGED <<products, items, placed, locks, keyed, talk, job>>

Payout(s) ==
  /\ pc[s] = "payout_wait" /\ accountLock = None
  /\ accountLock' = s
  /\ Go(s, "paying")
  /\ UNCHANGED <<products, items, placed, cartLock, cartShare, itemLock, keyed, talk, job>>

CommitPayout(s) ==
  /\ pc[s] = "paying"
  /\ Release(s)
  /\ Finish(s)
  /\ UNCHANGED <<products, items, placed, keyed, talk>>

----------------------------------------------------------------------------
\* The cart.

\* The row as an edit leaves it: capped, and deleted by the step below one.
Edited(kind, row) ==
  CASE kind = "inc" -> [row EXCEPT !.quantity = IF @ < MaxQuantity THEN @ + 1 ELSE @]
    [] kind = "dec" /\ row.quantity > 1 -> [row EXCEPT !.quantity = @ - 1]
    [] OTHER -> None

Update(p, row, kind) == [product |-> p, item |-> row.item, to |-> Edited(kind, row)]

\* "Add to cart" for a product on sale and +, - and remove for an item of the
\* cart: the row is read without a lock and the new quantity computed from it.
Edit(s, kind, p) ==
  /\ pc[s] = "idle"
  /\ cart[p] # None \/ (kind = "inc" /\ onSale[p])
  /\ job' = [job EXCEPT ![s] = IF cart[p] # None THEN Update(p, cart[p], kind)
                               ELSE [product |-> p, item |-> None, to |-> None]]
  /\ Go(s, "edit")
  /\ UNCHANGED <<products, items, placed, locks, keyed, talk>>

\* The flush by primary key waits for the row.  If the row is gone meanwhile an
\* UPDATE fails the handler (StaleDataError) and a DELETE is only warned of.
FlushItem(s) ==
  LET j == job[s] IN
  /\ pc[s] = "edit" /\ j.item # None /\ itemLock[j.product] = None
  /\ IF cart[j.product] # None /\ cart[j.product].item = j.item
     THEN itemLock' = [itemLock EXCEPT ![j.product] = s] /\ Go(s, "telling") /\ UNCHANGED job
     ELSE UNCHANGED itemLock
          /\ IF j.to = None THEN Go(s, "telling") /\ UNCHANGED job ELSE Finish(s)
  /\ UNCHANGED <<products, items, placed, cartLock, accountLock, cartShare, keyed, talk>>

\* add_item without a row: an INSERT, which shares the cart row through its
\* foreign key; after uq_cart_product refuses it the winner's row is read.
InsertItem(s) ==
  LET p == job[s].product IN
  /\ pc[s] = "edit" /\ job[s].item = None /\ itemLock[p] = None
  /\ IF cart[p] # None
     THEN /\ job' = [job EXCEPT ![s] = Update(p, cart[p], "inc")]
          /\ UNCHANGED <<lastItem, itemLock, cartShare, pc>>
     ELSE /\ cartLock = None /\ lastItem < MaxItem
          /\ lastItem' = lastItem + 1
          /\ itemLock' = [itemLock EXCEPT ![p] = s]
          /\ cartShare' = cartShare \cup {s}
          /\ job' = [job EXCEPT ![s].to = [item |-> lastItem + 1, quantity |-> 1]]
          /\ Go(s, "telling")
  /\ UNCHANGED <<products, cart, placed, cartLock, accountLock, keyed, talk>>

\* Telegram has been answered, and the middleware commits.
CommitEdit(s) ==
  /\ pc[s] = "telling"
  /\ cart' = [p \in Products |-> IF itemLock[p] = s THEN job[s].to ELSE cart[p]]
  /\ Release(s)
  /\ Finish(s)
  /\ UNCHANGED <<products, lastItem, placed, keyed, talk>>

----------------------------------------------------------------------------
\* The conversation.

\* cart:checkout with something in the cart.
StartCheckout ==
  /\ InCart # {}
  /\ fsm' = [Closed EXCEPT !.step = "questions"]
  /\ UNCHANGED <<products, items, placed, locks, keyed, visit, cancelled, pc, job>>

\* Name to payment method; the last answer goes on to the rewards.
AnswerQuestions(s) ==
  /\ pc[s] = "idle" /\ fsm.step = "questions"
  /\ fsm' = [fsm EXCEPT !.complete = TRUE]
  /\ Go(s, "offer")
  /\ UNCHANGED <<products, items, placed, locks, keyed, visit, cancelled, job>>

Lines == [p \in InCart |->
            [item |-> cart[p].item, quantity |-> cart[p].quantity, price |-> price[p]]]

Orderable == InCart # {} /\ \A p \in InCart : onSale[p]

\* reward_options.
Options == {r \in Rewards : Orderable /\ used[r] = None /\ Saving(r, Lines) > 0}

\* _offer_rewards: straight on to the summary when there is nothing to offer.
OfferRewards(s) ==
  /\ pc[s] = "offer"
  /\ IF Options = {}
     THEN fsm' = [fsm EXCEPT !.reward = None] /\ Go(s, "summary")
     ELSE fsm' = [fsm EXCEPT !.step = "reward"] /\ Go(s, "idle")
  /\ UNCHANGED <<products, items, placed, locks, keyed, visit, cancelled, job>>

\* checkout_reward; a reward no longer offered has the list offered again.
PickReward(s, r) ==
  /\ pc[s] = "idle" /\ fsm.step = "reward"
  /\ IF r \in Options \cup {None}
     THEN fsm' = [fsm EXCEPT !.reward = r] /\ Go(s, "summary")
     ELSE UNCHANGED fsm /\ Go(s, "offer")
  /\ UNCHANGED <<products, items, placed, locks, keyed, visit, cancelled, job>>

\* _show_confirmation: ends the conversation over an empty cart, drops a reward
\* that no longer applies, and asks.
ShowSummary(s) ==
  /\ pc[s] = "summary" /\ visit < MaxVisits
  /\ IF InCart = {}
     THEN fsm' = Closed /\ UNCHANGED visit
     ELSE /\ fsm' = [fsm EXCEPT !.step = "confirmation",
                       !.reward = IF @ \in Options THEN @ ELSE None]
          /\ visit' = visit + 1
  /\ LeaveKeyedLock(s)
  /\ Finish(s)
  /\ UNCHANGED <<products, items, placed, locks, cancelled>>

\* The cancel button passes its state filter ...
Cancel(s) ==
  /\ pc[s] = "idle" /\ fsm.step # "none"
  /\ job' = [job EXCEPT ![s] = [visit |-> IF fsm.step = "confirmation" THEN visit ELSE 0]]
  /\ Go(s, "cancel")
  /\ UNCHANGED <<products, items, placed, locks, keyed, talk>>

\* ... and after its own awaits clears whatever the conversation is by then.
CancelCheckout(s) ==
  /\ pc[s] = "cancel"
  /\ fsm' = Closed
  /\ cancelled' = cancelled \cup ({job[s].visit} \ {0})
  /\ Finish(s)
  /\ UNCHANGED <<products, items, placed, locks, keyed, visit>>

----------------------------------------------------------------------------
\* checkout_confirm.

\* A tap on Confirm, with the state filter passed.
Confirm(s) ==
  /\ pc[s] = "idle" /\ fsm.step = "confirmation"
  /\ Go(s, "confirm")
  /\ UNCHANGED <<products, items, placed, locks, keyed, talk, job>>

Draft == [visit |-> visit, reward |-> fsm.reward, lines |-> <<>>]

\* Mutant: the state filter trusted, nothing asked again inside the lock.
EnterConfirmUnchecked(s) ==
  /\ pc[s] = "confirm" /\ keyed = None
  /\ keyed' = s
  /\ job' = [job EXCEPT ![s] = Draft]
  /\ Go(s, "checked")
  /\ UNCHANGED <<products, items, placed, locks, talk>>

\* Inside the keyed_lock: already submitted, answers missing, or on.
EnterConfirm(s) ==
  /\ pc[s] = "confirm" /\ keyed = None
  /\ \/ /\ fsm.submitted \/ fsm.step # "confirmation"
        /\ Finish(s)
        /\ UNCHANGED <<fsm, keyed>>
     \/ /\ ~fsm.submitted /\ fsm.step = "confirmation" /\ ~fsm.complete
        /\ fsm' = Closed
        /\ Finish(s)
        /\ UNCHANGED keyed
     \/ /\ ~fsm.submitted /\ fsm.step = "confirmation" /\ fsm.complete
        /\ keyed' = s
        /\ job' = [job EXCEPT ![s] = Draft]
        /\ Go(s, "checked")
        /\ UNCHANGED fsm
  /\ UNCHANGED <<products, items, placed, locks, visit, cancelled>>

\* After the user row was read.
Submit(s) ==
  /\ pc[s] = "checked"
  /\ fsm' = [fsm EXCEPT !.submitted = TRUE]
  /\ Go(s, "place")
  /\ UNCHANGED <<products, items, placed, locks, keyed, visit, cancelled, job>>

\* The city was changed, and the delivery method is not for the new one.
RefuseDelivery(s) ==
  /\ pc[s] = "place"
  /\ Go(s, "refused")
  /\ UNCHANGED <<products, items, placed, locks, keyed, talk, job>>

\* The cart row FOR UPDATE, then its items and their products.
LockCart(s) ==
  /\ pc[s] = "place" /\ cartLock = None /\ cartShare = {}
  /\ cartLock' = s
  /\ job' = [job EXCEPT ![s].lines = Lines]
  /\ Go(s, IF InCart = {} THEN "refused" ELSE "account")
  /\ UNCHANGED <<products, items, placed, accountLock, cartShare, itemLock, keyed, talk>>

\* Mutant: the reward the summary offered not planned again under the lock.
LockAccountTrustsOffer(s) ==
  LET j == job[s] IN
  /\ pc[s] = "account" /\ accountLock = None
  /\ accountLock' = s
  /\ Go(s, IF \E p \in DOMAIN j.lines : ~onSale[p] THEN "refused" ELSE "clear")
  /\ UNCHANGED <<products, items, placed, cartLock, cartShare, itemLock, keyed, talk, job>>

\* The account row; then the products must be on sale and the reward, locked
\* after the account that everyone who takes it holds, available and of use.
LockAccount(s) ==
  LET j == job[s] IN
  /\ pc[s] = "account" /\ accountLock = None
  /\ accountLock' = s
  /\ Go(s, IF \E p \in DOMAIN j.lines : ~onSale[p] THEN "refused"
           ELSE IF j.reward # None /\ (used[j.reward] # None \/ Saving(j.reward, j.lines) = 0)
           THEN "refused_reward" ELSE "clear")
  /\ UNCHANGED <<products, items, placed, cartLock, cartShare, itemLock, keyed, talk, job>>

\* The order and its items are written and the reward bound; then the DELETE of
\* the cart's items waits for every uncommitted write on one.
ClearCart(s) ==
  /\ pc[s] = "clear"
  /\ \A p \in InCart : itemLock[p] = None
  /\ itemLock' = [p \in Products |-> IF p \in InCart THEN s ELSE itemLock[p]]
  /\ Go(s, "commit")
  /\ UNCHANGED <<products, items, placed, cartLock, accountLock, cartShare, keyed, talk, job>>

\* The order a session has written.
DraftOrder(j) ==
  LET saving == IF j.reward = None THEN 0 ELSE Saving(j.reward, j.lines)
  IN  [visit |-> j.visit,
       cart |-> {j.lines[p].item : p \in DOMAIN j.lines},
       items |-> OrderItems(j.reward, j.lines),
       reward |-> j.reward,
       total |-> LinesTotal(j.lines) - saving]

\* Mutant: the cart cleared by somebody else, some other time.
CommitOrderKeepsCart(s) ==
  /\ pc[s] = "commit"
  /\ orders' = Append(orders, DraftOrder(job[s]))
  /\ used' = IF job[s].reward = None THEN used
             ELSE [used EXCEPT ![job[s].reward] =
                    [order |-> Len(orders) + 1, amount |-> Saving(job[s].reward, job[s].lines)]]
  /\ Release(s)
  /\ Leave(s, "saved")
  /\ UNCHANGED <<products, items, keyed, talk>>

CommitOrder(s) ==
  /\ pc[s] = "commit"
  /\ orders' = Append(orders, DraftOrder(job[s]))
  /\ used' = IF job[s].reward = None THEN used
             ELSE [used EXCEPT ![job[s].reward] =
                    [order |-> Len(orders) + 1, amount |-> Saving(job[s].reward, job[s].lines)]]
  /\ cart' = [p \in Products |-> IF itemLock[p] = s THEN None ELSE cart[p]]
  /\ Release(s)
  /\ Leave(s, "saved")
  /\ UNCHANGED <<products, lastItem, keyed, talk>>

\* The order was read back: the conversation is closed inside the keyed_lock,
\* and the customer and then the managers hear of it outside.
CloseCheckout(s) ==
  /\ pc[s] = "saved"
  /\ fsm' = Closed
  /\ LeaveKeyedLock(s)
  /\ Go(s, "success")
  /\ UNCHANGED <<products, items, placed, locks, visit, cancelled, job>>

TellPlaced(s) ==
  /\ pc[s] = "success"
  /\ Finish(s)
  /\ UNCHANGED <<products, items, placed, locks, keyed, talk>>

\* EmptyCartError, InactiveProductError, InvalidDeliveryError.
Refuse(s) ==
  /\ pc[s] = "refused"
  /\ Release(s)
  /\ fsm' = Closed
  /\ Leave(s, "told")
  /\ UNCHANGED <<products, items, placed, keyed, visit, cancelled>>

\* LoyaltyError: the summary again, without the reward, inside the keyed_lock.
RefuseReward(s) ==
  /\ pc[s] = "refused_reward"
  /\ Release(s)
  /\ fsm' = [fsm EXCEPT !.submitted = FALSE, !.reward = None]
  /\ Leave(s, "summary")
  /\ UNCHANGED <<products, items, placed, keyed, visit, cancelled>>

\* Any other error of place_order_from_cart, before its commit or after it:
\* "something went wrong", and the customer may tap Confirm again.
Fail(s) ==
  /\ pc[s] \in {"place", "account", "clear", "commit", "saved"} /\ visit < MaxVisits
  /\ Release(s)
  /\ fsm' = [fsm EXCEPT !.submitted = FALSE]
  /\ visit' = visit + 1
  /\ Leave(s, "told")
  /\ UNCHANGED <<products, items, placed, keyed, cancelled>>

Told(s) ==
  /\ pc[s] = "told"
  /\ LeaveKeyedLock(s)
  /\ Finish(s)
  /\ UNCHANGED <<products, items, placed, locks, talk>>

----------------------------------------------------------------------------
\* An exception nothing in the handler catches, Telegram's among them.
Abort(s) ==
  /\ pc[s] \notin {"idle"} \cup Placing
  /\ Release(s)
  /\ LeaveKeyedLock(s)
  /\ Finish(s)
  /\ UNCHANGED <<products, items, placed, talk>>

\* The process dies; conversations and locks die with it.
Crash ==
  /\ cartLock' = None /\ accountLock' = None /\ cartShare' = {}
  /\ itemLock' = [p \in Products |-> None]
  /\ fsm' = Closed
  /\ keyed' = None
  /\ pc' = [s \in Sessions |-> "idle"]
  /\ job' = [s \in Sessions |-> None]
  /\ UNCHANGED <<products, items, placed, visit, cancelled>>

EditCart(s) ==
  \/ \E p \in Products, kind \in {"inc", "dec", "rm"} : Edit(s, kind, p)
  \/ FlushItem(s) \/ InsertItem(s) \/ CommitEdit(s)

Converse(s) ==
  \/ AnswerQuestions(s) \/ OfferRewards(s) \/ ShowSummary(s)
  \/ \E r \in Rewards \cup {None} : PickReward(s, r)
  \/ Cancel(s) \/ CancelCheckout(s)

PlaceOrder(s) ==
  \/ Confirm(s) \/ EnterConfirm(s) \/ Submit(s)
  \/ RefuseDelivery(s) \/ LockCart(s) \/ LockAccount(s) \/ ClearCart(s) \/ CommitOrder(s)
  \/ CloseCheckout(s) \/ TellPlaced(s)
  \/ Refuse(s) \/ RefuseReward(s) \/ Fail(s) \/ Told(s)

Next ==
  \/ \E p \in Products : SetOnSale(p) \/ \E n \in Prices : SetPrice(p, n)
  \/ StartCheckout
  \/ Crash
  \/ \E s \in Sessions :
       \/ EditCart(s) \/ Converse(s) \/ PlaceOrder(s) \/ Abort(s)
       \/ AskPayout(s) \/ Payout(s) \/ CommitPayout(s)

Spec == Init /\ [][Next]_vars

----------------------------------------------------------------------------
\* Properties.

\* Every cart row and every order line holds at least one unit and no more than
\* the cap (the check constraints of models/cart.py and models/order.py), and
\* no order is charged less than nothing.
TypeOK ==
  /\ price \in [Products -> Prices] /\ onSale \in [Products -> BOOLEAN]
  /\ cart \in [Products -> Item \cup {None}]
  /\ \A i \in 1..Len(orders) : orders[i] \in Order
  /\ used \in [Rewards -> [order : Nat, amount : Nat] \cup {None}]
  /\ cartLock \in Sessions \cup {None} /\ accountLock \in Sessions \cup {None}
  /\ cartShare \subseteq Sessions
  /\ itemLock \in [Products -> Sessions \cup {None}]
  /\ fsm \in [step : Steps, complete : BOOLEAN, submitted : BOOLEAN,
              reward : Rewards \cup {None}]
  /\ keyed \in Sessions \cup {None}
  /\ pc \in [Sessions -> Phases]

\* What was in the cart is ordered at most once, and once ordered it is out of
\* the cart: a double tap, a retry after an error that came too late to undo
\* the order, a crash between the commit and the answer.
EachItemOrderedOnce ==
  \A i \in 1..Len(orders) :
    /\ \A j \in 1..Len(orders) \ {i} : orders[i].cart \cap orders[j].cart = {}
    /\ \A p \in InCart : cart[p].item \notin orders[i].cart

\* The customer is asked before every order: however often they tap Confirm,
\* and whatever else they tap meanwhile, one summary (or one "something went
\* wrong") makes one order at most.
OneOrderPerSummary ==
  \A i, j \in 1..Len(orders) : orders[i].visit = orders[j].visit => i = j

\* The charged total is what the order's items add up to, less the discount it
\* was granted; a reward is bound to the one order that carries it, for what it
\* took off (docs/loyalty.md: one reward per order, used once).
TotalExplained ==
  /\ \A i \in 1..Len(orders) :
       LET o == orders[i]
           off == IF o.reward = None THEN 0
                  ELSE IF Terms[o.reward].kind = "free_bottle" THEN 0
                  ELSE used[o.reward].amount
       IN  /\ o.total = ItemsTotal(o.items) - off
           /\ o.reward # None => used[o.reward] # None /\ used[o.reward].order = i
  /\ \A r \in Rewards : used[r] # None => orders[used[r].order].reward = r

\* Whoever was told "Order cancelled" for a summary can tap its Confirm, or have
\* a tap on it still waiting, and nothing of it is let in: only a confirmation
\* that had entered before the cancellation goes on to an order.
CancelStopsConfirm ==
  [][\A s \in Sessions : pc[s] = "confirm" /\ pc'[s] = "checked" => visit \notin cancelled]_vars
==============================================================================
