---------------------------- MODULE CheckoutProofs ----------------------------
(***************************************************************************)
(* Proofs about Checkout, for any number of updates and payouts at once,   *)
(* any products, rewards, prices, quantities and confirmations: nothing is *)
(* ordered twice, a summary makes one order at most, a cancellation stops  *)
(* the confirmations that come after it, and every total is explained by   *)
(* the order's own items and the one reward it used.                       *)
(***************************************************************************)
EXTENDS Checkout, FiniteSetTheorems, WellFoundedInduction, TLAPS

Row == [item : Nat, quantity : Nat \ {0}]
Talk == [step : Steps, complete : BOOLEAN, submitted : BOOLEAN, reward : Rewards \cup {None}]

\* Between the keyed_lock and the commit, the order is still to be written.
Unordered == {"checked", "place", "account", "clear", "commit", "refused", "refused_reward"}
Clearing == {"account", "clear", "commit"}
Submitted == {"place"} \cup Clearing

Kinds ==
  /\ \E S : orders \in Seq(S)
  /\ visit \in Nat /\ lastItem \in Nat
  /\ cart \in [Products -> Row \cup {None}]
  /\ itemLock \in [Products -> Sessions \cup {None}]
  /\ cartLock \in Sessions \cup {None} /\ cartShare \subseteq Sessions
  /\ keyed \in Sessions \cup {None}
  /\ fsm \in Talk
  /\ pc \in [Sessions -> Phases]
  /\ job = [s \in Sessions |-> job[s]]

\* The cart rows that became orders.
Gone == UNION {orders[i].cart : i \in 1..Len(orders)}
Fresh == 0..lastItem \ Gone

\* What is in the cart was not ordered, and numbers are never drawn again.
ItemsInv ==
  /\ Gone \subseteq 0..lastItem
  /\ \A p \in InCart : cart[p].item \in Fresh
  /\ cartLock # None => cartShare = {}

\* What an edit and a confirmation work on.
ShapeInv(s) ==
  /\ pc[s] = "edit" =>
       /\ job[s].product \in Products
       /\ job[s] = [product |-> job[s].product, item |-> job[s].item, to |-> job[s].to]
  /\ pc[s] \in {"checked", "place"} =>
       job[s] = [visit |-> job[s].visit, reward |-> job[s].reward, lines |-> job[s].lines]

\* What an edit will commit is its product's row, with the number the row has,
\* or a row of its own.
EditInv(s) ==
  /\ pc[s] = "edit" /\ job[s].item # None /\ job[s].to # None =>
       job[s].to \in Row /\ job[s].to.item = job[s].item
  /\ s \in cartShare => pc[s] = "telling"
  /\ \A p \in Products : itemLock[p] = s =>
       \/ pc[s] = "commit"
       \/ /\ pc[s] = "telling"
          /\ job[s].to # None => job[s].to \in Row
          /\ \/ s \in cartShare /\ job[s].to.item \in Fresh
             \/ /\ cart[p] # None
                /\ job[s].to # None => job[s].to.item = cart[p].item

\* Whoever holds the cart row orders what was not ordered, and takes all of it.
PlaceInv(s) ==
  /\ pc[s] \in Clearing =>
       /\ cartLock = s
       /\ \A p \in DOMAIN job[s].lines : job[s].lines[p].item \in Fresh
  /\ pc[s] = "commit" => \A p \in InCart : itemLock[p] = s

\* A confirmation is alone in the keyed_lock, every order is of an earlier one,
\* and its own summary is not unsubmitted behind its back.
TalkInv(s) ==
  /\ pc[s] \in Keyed => keyed = s
  /\ pc[s] \in Unordered =>
       /\ job[s].visit \in 0..visit
       /\ \A i \in 1..Len(orders) : orders[i].visit < job[s].visit
  /\ pc[s] \in Submitted /\ job[s].visit = visit /\ fsm.step = "confirmation" => fsm.submitted
  /\ pc[s] = "cancel" => job[s].visit \in 0..visit

\* A summary whose Confirm would be let in was not ordered and not cancelled.
SummaryInv ==
  /\ \A i \in 1..Len(orders) : orders[i].visit \in 0..visit
  /\ cancelled \subseteq 0..visit
  /\ fsm.step = "confirmation" => visit \notin cancelled
  /\ fsm.step = "confirmation" /\ ~fsm.submitted =>
       \A i \in 1..Len(orders) : orders[i].visit # visit

SessionInv(s) == ShapeInv(s) /\ EditInv(s) /\ PlaceInv(s) /\ TalkInv(s)

\* The inductive invariant.
IInv ==
  /\ Kinds /\ ItemsInv /\ SummaryInv
  /\ EachItemOrderedOnce /\ OneOrderPerSummary
  /\ \A s \in Sessions : SessionInv(s)

\* What the sessions do, and what happens around them.
Acts(s) == EditCart(s) \/ Converse(s) \/ PlaceOrder(s) \/ Abort(s)
             \/ AskPayout(s) \/ Payout(s) \/ CommitPayout(s)
Around == (\E p \in Products : SetOnSale(p) \/ \E n \in Prices : SetPrice(p, n)) \/ StartCheckout

----------------------------------------------------------------------------
\* The largest of finitely many numbers: of a smallest set that had none, take
\* one number away.
LEMMA Largest ==
  ASSUME NEW S \in SUBSET Nat, IsFiniteSet(S), S # {}
  PROVE  Max(S) \in S /\ \A x \in S : x <= Max(S)
<1> DEFINE HasLargest(T) == \E x \in T : \A y \in T : x >= y
           sizes == {Cardinality(T) : T \in {U \in SUBSET S : U # {} /\ ~HasLargest(U)}}
<1>1. \A T \in SUBSET S : IsFiniteSet(T) /\ Cardinality(T) \in Nat
  BY FS_Subset, FS_CardinalityType
<1>2. sizes = {}
  <2> SUFFICES ASSUME sizes # {} PROVE FALSE
    OBVIOUS
  <2>1. sizes \subseteq Nat
    BY <1>1
  <2>2. PICK n \in sizes : \A m \in sizes : <<m, n>> \notin OpToRel(<, Nat)
    BY <2>1, NatLessThanWellFounded, WFMin, Zenon
  <2>3. PICK T \in SUBSET S : T # {} /\ ~HasLargest(T) /\ n = Cardinality(T)
    OBVIOUS
  <2>4. PICK x \in T : TRUE
    BY <2>3
  <2> DEFINE U == T \ {x}
  <2>5. IsFiniteSet(U) /\ Cardinality(U) = n - 1 /\ U \in SUBSET S
    BY <1>1, <2>3, <2>4, FS_RemoveElement
  <2>6. Cardinality(U) \notin sizes
    <3>1. n \in Nat /\ Cardinality(U) \in Nat /\ Cardinality(U) < n
      BY <1>1, <2>1, <2>5
    <3>2. <<Cardinality(U), n>> \in OpToRel(<, Nat)
      BY <3>1 DEF OpToRel
    <3> QED BY <2>2, <3>2
  <2>7. U = {} \/ HasLargest(U)
    BY <2>5, <2>6
  <2>8. HasLargest(T)
    <3>1. CASE U = {}
      <4>1. \A y \in T : y = x /\ x \in Nat
        BY <3>1, <2>4
      <4> QED BY <2>4, <4>1
    <3>2. CASE HasLargest(U)
      <4>1. PICK m \in U : \A y \in U : m >= y
        BY <3>2
      <4>2. x \in Nat /\ m \in Nat /\ T \subseteq Nat /\ m \in T
        BY <2>4
      <4>3. CASE m >= x
        BY <4>1, <4>2, <4>3
      <4>4. CASE x >= m
        BY <4>1, <4>2, <4>4, <2>4
      <4> QED BY <4>2, <4>3, <4>4
    <3> QED BY <2>7, <3>1, <3>2
  <2> QED BY <2>3, <2>8
<1>3. HasLargest(S)
  BY <1>2
<1> QED BY <1>3 DEF Max

\* What a session does is nothing to what another one has.
LEMMA Elsewhere ==
  ASSUME Kinds, NEW s \in Sessions, Acts(s), NEW t \in Sessions \ {s}
  PROVE  /\ pc'[t] = pc[t] /\ job'[t] = job[t]
         /\ cartLock' = t <=> cartLock = t
         /\ t \in cartShare' <=> t \in cartShare
         /\ \A p \in Products : itemLock'[p] = t <=> itemLock[p] = t
         /\ keyed = t => keyed' = t
<1> USE CheckoutAssumption DEF Kinds, Go, Leave, Finish, Release, LeaveKeyedLock, locks
<1>1. CASE EditCart(s)
  BY <1>1 DEF EditCart, Edit, FlushItem, InsertItem, CommitEdit
<1>2. CASE Converse(s)
  BY <1>2 DEF Converse, AnswerQuestions, OfferRewards, ShowSummary, PickReward, Cancel, CancelCheckout
<1>3. CASE Confirm(s) \/ EnterConfirm(s) \/ Submit(s) \/ RefuseDelivery(s) \/ LockCart(s)
           \/ LockAccount(s) \/ ClearCart(s)
  BY <1>3 DEF Confirm, EnterConfirm, Submit, RefuseDelivery, LockCart, LockAccount, ClearCart, InCart
<1>4. CASE CommitOrder(s) \/ CloseCheckout(s) \/ TellPlaced(s) \/ Refuse(s) \/ RefuseReward(s)
           \/ Fail(s) \/ Told(s)
  BY <1>4 DEF CommitOrder, CloseCheckout, TellPlaced, Refuse, RefuseReward, Fail, Told
<1>5. CASE Abort(s) \/ AskPayout(s) \/ Payout(s) \/ CommitPayout(s)
  BY <1>5 DEF Abort, AskPayout, Payout, CommitPayout
<1> QED BY <1>1, <1>2, <1>3, <1>4, <1>5 DEF Acts, PlaceOrder

\* A row an edit computes from another one keeps its number.
LEMMA EditedKeepsItem ==
  ASSUME NEW kind, NEW row \in Row, Edited(kind, row) # None
  PROVE  Edited(kind, row) \in Row /\ Edited(kind, row).item = row.item
BY DEF Edited, Row

\* An order appended is the last one; those before it stay.
LEMMA Ordered ==
  ASSUME NEW S, NEW all \in Seq(S), NEW new
  PROVE  /\ \E T : Append(all, new) \in Seq(T)
         /\ Len(Append(all, new)) = Len(all) + 1 /\ Len(all) \in Nat
         /\ \A i \in 1..Len(all) : Append(all, new)[i] = all[i]
         /\ Append(all, new)[Len(all) + 1] = new
<1>1. all \in Seq(S \cup {new})
  OBVIOUS
<1>2. Append(all, new) \in Seq(S \cup {new})
  BY <1>1
<1>3. \E T : Append(all, new) \in Seq(T)
  BY <1>2
<1> QED BY <1>1, <1>3

LEMMA KindsStep ==
  ASSUME IInv, NEW s \in Sessions, Acts(s)
  PROVE  Kinds'
<1>1. Kinds /\ SessionInv(s)
  BY DEF IInv
<1>2. (\E S : orders \in Seq(S))' /\ (visit \in Nat)' /\ (lastItem \in Nat)'
  <2>1. CASE EditCart(s)
    BY <1>1, <2>1 DEF EditCart, Edit, FlushItem, InsertItem, CommitEdit, Kinds, talk, placed, items
  <2>2. CASE Converse(s)
    BY <1>1, <2>2 DEF Converse, AnswerQuestions, OfferRewards, ShowSummary, PickReward, Cancel,
                      CancelCheckout, Kinds, talk, placed, items
  <2>3. CASE CommitOrder(s)
    BY <1>1, <2>3, Ordered DEF CommitOrder, Kinds, talk
  <2>4. CASE PlaceOrder(s) /\ ~CommitOrder(s)
    BY <1>1, <2>4 DEF PlaceOrder, Confirm, EnterConfirm, Submit, RefuseDelivery, LockCart,
                      LockAccount, ClearCart, CloseCheckout, TellPlaced, Refuse, RefuseReward,
                      Fail, Told, Kinds, talk, placed, items
  <2>5. CASE Abort(s) \/ AskPayout(s) \/ Payout(s) \/ CommitPayout(s)
    BY <1>1, <2>5 DEF Abort, AskPayout, Payout, CommitPayout, Kinds, talk, placed, items
  <2> QED BY <2>1, <2>2, <2>3, <2>4, <2>5 DEF Acts
<1>3. (cart \in [Products -> Row \cup {None}])'
  <2>1. CASE CommitEdit(s)
    <3>1. \A p \in Products : itemLock[p] = s => job[s].to \in Row \cup {None}
      BY <1>1, <2>1 DEF SessionInv, EditInv, CommitEdit
    <3> QED BY <1>1, <2>1, <3>1 DEF CommitEdit, Kinds
  <2>2. CASE CommitOrder(s)
    BY <1>1, <2>2 DEF CommitOrder, Kinds
  <2>3. CASE cart' = cart
    BY <1>1, <2>3 DEF Kinds
  <2> QED BY <2>1, <2>2, <2>3
          DEF Acts, EditCart, Edit, FlushItem, InsertItem, Converse, AnswerQuestions,
              OfferRewards, ShowSummary, PickReward, Cancel, CancelCheckout, PlaceOrder, Confirm,
              EnterConfirm, Submit, RefuseDelivery, LockCart, LockAccount, ClearCart,
              CloseCheckout, TellPlaced, Refuse, RefuseReward, Fail, Told, Abort, AskPayout,
              Payout, CommitPayout, items
<1>4. /\ (itemLock \in [Products -> Sessions \cup {None}])'
      /\ (cartLock \in Sessions \cup {None})' /\ (cartShare \subseteq Sessions)'
      /\ (keyed \in Sessions \cup {None})'
  <2> USE <1>1 DEF Kinds, Release, LeaveKeyedLock, locks
  <2>1. CASE EditCart(s)
    BY <2>1 DEF EditCart, Edit, FlushItem, InsertItem, CommitEdit
  <2>2. CASE Converse(s)
    BY <2>2 DEF Converse, AnswerQuestions, OfferRewards, ShowSummary, PickReward, Cancel,
                CancelCheckout
  <2>3. CASE Confirm(s) \/ EnterConfirm(s) \/ Submit(s) \/ RefuseDelivery(s) \/ LockCart(s)
             \/ LockAccount(s) \/ ClearCart(s)
    BY <2>3 DEF Confirm, EnterConfirm, Submit, RefuseDelivery, LockCart, LockAccount, ClearCart, InCart
  <2>4. CASE CommitOrder(s) \/ CloseCheckout(s) \/ TellPlaced(s) \/ Refuse(s) \/ RefuseReward(s)
             \/ Fail(s) \/ Told(s)
    BY <2>4 DEF CommitOrder, CloseCheckout, TellPlaced, Refuse, RefuseReward, Fail, Told
  <2>5. CASE Abort(s) \/ AskPayout(s) \/ Payout(s) \/ CommitPayout(s)
    BY <2>5 DEF Abort, AskPayout, Payout, CommitPayout
  <2> QED BY <2>1, <2>2, <2>3, <2>4, <2>5 DEF Acts, PlaceOrder
<1>5. (fsm \in Talk)'
  <2> USE <1>1 DEF Kinds, Talk, Steps, talk
  <2>1. Closed \in Talk
    BY DEF Closed
  <2>2. CASE EditCart(s)
    BY <2>2 DEF EditCart, Edit, FlushItem, InsertItem, CommitEdit
  <2>3. CASE Converse(s)
    BY <2>1, <2>3 DEF Converse, AnswerQuestions, OfferRewards, ShowSummary, PickReward, Cancel,
                CancelCheckout, Options
  <2>4. CASE PlaceOrder(s)
    BY <2>1, <2>4 DEF PlaceOrder, Confirm, EnterConfirm, Submit, RefuseDelivery, LockCart,
                      LockAccount, ClearCart, CommitOrder, CloseCheckout, TellPlaced, Refuse,
                      RefuseReward, Fail, Told
  <2>5. CASE Abort(s) \/ AskPayout(s) \/ Payout(s) \/ CommitPayout(s)
    BY <2>5 DEF Abort, AskPayout, Payout, CommitPayout
  <2> QED BY <2>2, <2>3, <2>4, <2>5 DEF Acts
<1>6. (pc \in [Sessions -> Phases])' /\ (job = [t \in Sessions |-> job[t]])'
  <2> USE <1>1 DEF Kinds, Go, Leave, Finish
  <2>1. CASE EditCart(s)
    BY <2>1 DEF EditCart, Edit, FlushItem, InsertItem, CommitEdit, Phases, Editing
  <2>2. CASE Converse(s)
    BY <2>2 DEF Converse, AnswerQuestions, OfferRewards, ShowSummary, PickReward, Cancel,
                CancelCheckout, Phases
  <2>3. CASE Confirm(s) \/ EnterConfirm(s) \/ Submit(s) \/ RefuseDelivery(s) \/ LockCart(s)
             \/ LockAccount(s) \/ ClearCart(s)
    BY <2>3 DEF Confirm, EnterConfirm, Submit, RefuseDelivery, LockCart, LockAccount, ClearCart,
                Phases, Keyed, Placing
  <2>4. CASE CommitOrder(s) \/ CloseCheckout(s) \/ TellPlaced(s) \/ Refuse(s) \/ RefuseReward(s)
             \/ Fail(s) \/ Told(s)
    BY <2>4 DEF CommitOrder, CloseCheckout, TellPlaced, Refuse, RefuseReward, Fail, Told,
                Phases, Keyed, Placing
  <2>5. CASE Abort(s) \/ AskPayout(s) \/ Payout(s) \/ CommitPayout(s)
    BY <2>5 DEF Abort, AskPayout, Payout, CommitPayout, Phases
  <2> QED BY <2>1, <2>2, <2>3, <2>4, <2>5 DEF Acts, PlaceOrder
<1> QED BY <1>2, <1>3, <1>4, <1>5, <1>6 DEF Kinds

----------------------------------------------------------------------------
\* Cart rows are written by committed edits and orders, and numbers drawn by
\* inserts; nobody takes the cart's row under an insert.
LEMMA OnlyCommitsWrite ==
  ASSUME Kinds, NEW s \in Sessions, Acts(s), ~CommitEdit(s), ~CommitOrder(s)
  PROVE  /\ UNCHANGED <<cart, orders>>
         /\ ~InsertItem(s) =>
              /\ lastItem' = lastItem /\ cartShare' \subseteq cartShare
              /\ cartLock' # None => cartLock' = cartLock \/ cartShare = {}
<1> USE DEF items, placed, locks, Release
<1>1. CASE EditCart(s)
  BY <1>1 DEF EditCart, Edit, FlushItem, InsertItem
<1>2. CASE Converse(s)
  BY <1>2 DEF Converse, AnswerQuestions, OfferRewards, ShowSummary, PickReward, Cancel, CancelCheckout
<1>3. CASE PlaceOrder(s)
  BY <1>3 DEF PlaceOrder, Confirm, EnterConfirm, Submit, RefuseDelivery, LockCart, LockAccount,
              ClearCart, CloseCheckout, TellPlaced, Refuse, RefuseReward, Fail, Told
<1>4. CASE Abort(s) \/ AskPayout(s) \/ Payout(s) \/ CommitPayout(s)
  BY <1>4 DEF Abort, AskPayout, Payout, CommitPayout
<1> QED BY <1>1, <1>2, <1>3, <1>4 DEF Acts

LEMMA InsertEffect ==
  ASSUME Kinds, NEW s \in Sessions, InsertItem(s)
  PROVE  /\ UNCHANGED <<cart, orders, cartLock>>
         /\ \/ lastItem' = lastItem /\ cartShare' = cartShare
            \/ lastItem' = lastItem + 1 /\ cartLock = None
BY DEF InsertItem, placed

\* The order a commit writes takes exactly the rows it read under the cart's row.
LEMMA CommitOrderEffect ==
  ASSUME IInv, NEW s \in Sessions, CommitOrder(s)
  PROVE  /\ Len(orders) \in Nat /\ Len(orders') = Len(orders) + 1
         /\ \A i \in 1..Len(orders) : orders'[i] = orders[i]
         /\ orders'[Len(orders) + 1].cart = {job[s].lines[p].item : p \in DOMAIN job[s].lines}
         /\ orders'[Len(orders) + 1].visit = job[s].visit
         /\ orders'[Len(orders) + 1].cart \subseteq Fresh
         /\ Gone' = Gone \cup orders'[Len(orders) + 1].cart
         /\ lastItem' = lastItem /\ InCart' = {} /\ cartShare = {} /\ cartLock = s
<1>1. Kinds /\ SessionInv(s) /\ ItemsInv /\ pc[s] = "commit"
  BY DEF IInv, CommitOrder
<1>2. PICK S : orders \in Seq(S)
  BY <1>1 DEF Kinds
<1>3. orders' = Append(orders, DraftOrder(job[s]))
  BY DEF CommitOrder
<1>4. /\ Len(orders) \in Nat /\ Len(orders') = Len(orders) + 1
      /\ \A i \in 1..Len(orders) : orders'[i] = orders[i]
      /\ orders'[Len(orders) + 1] = DraftOrder(job[s])
  BY <1>2, <1>3, Ordered
<1>5. /\ DraftOrder(job[s]).cart = {job[s].lines[p].item : p \in DOMAIN job[s].lines}
      /\ DraftOrder(job[s]).visit = job[s].visit
  BY DEF DraftOrder
<1>6. /\ {job[s].lines[p].item : p \in DOMAIN job[s].lines} \subseteq Fresh
      /\ cartLock = s /\ cartShare = {}
  BY <1>1, CheckoutAssumption DEF SessionInv, PlaceInv, Clearing, ItemsInv, Fresh
<1>7. Gone' = Gone \cup DraftOrder(job[s]).cart
  <2>1. 1..Len(orders') = 1..Len(orders) \cup {Len(orders) + 1}
    BY <1>4
  <2>2. Gone' = UNION {orders'[i].cart : i \in 1..Len(orders) \cup {Len(orders) + 1}}
    BY <2>1 DEF Gone
  <2> QED BY <1>4, <2>2 DEF Gone
<1>8. InCart' = {}
  <2>1. \A p \in InCart : itemLock[p] = s
    BY <1>1 DEF SessionInv, PlaceInv
  <2>2. \A p \in Products : cart'[p] = IF itemLock[p] = s THEN None ELSE cart[p]
    BY DEF CommitOrder
  <2> QED BY <2>1, <2>2 DEF InCart
<1> QED BY <1>4, <1>5, <1>6, <1>7, <1>8 DEF CommitOrder

\* A committed edit leaves its product's row, or a row of its own, or none.
LEMMA CommitEditEffect ==
  ASSUME IInv, NEW s \in Sessions, CommitEdit(s)
  PROVE  /\ UNCHANGED <<orders, lastItem>>
         /\ \A p \in InCart' : cart'[p].item \in Fresh
         /\ \A p \in Products : itemLock[p] # s => cart'[p] = cart[p]
         /\ \A p \in Products : itemLock[p] = s /\ cart[p] = None => s \in cartShare
<1>1. Kinds /\ SessionInv(s) /\ ItemsInv /\ pc[s] = "telling"
  BY DEF IInv, CommitEdit
<1>2. UNCHANGED <<orders, lastItem>>
  BY DEF CommitEdit, placed
<1>3. \A p \in Products : cart'[p] = IF itemLock[p] = s THEN job[s].to ELSE cart[p]
  BY DEF CommitEdit
<1>4. ASSUME NEW p \in InCart' PROVE cart'[p].item \in Fresh
  <2>1. p \in Products /\ cart'[p] # None
    BY DEF InCart
  <2>2. cart[p] # None => cart[p].item \in Fresh
    BY <1>1, <2>1 DEF ItemsInv, InCart
  <2> QED BY <1>1, <1>3, <2>1, <2>2 DEF SessionInv, EditInv
<1>5. \A p \in Products : itemLock[p] = s /\ cart[p] = None => s \in cartShare
  BY <1>1 DEF SessionInv, EditInv
<1> QED BY <1>2, <1>3, <1>4, <1>5

LEMMA ItemsStep ==
  ASSUME IInv, NEW s \in Sessions, Acts(s)
  PROVE  ItemsInv' /\ EachItemOrderedOnce'
<1>1. Kinds /\ ItemsInv /\ EachItemOrderedOnce
  BY DEF IInv
<1>2. CASE CommitOrder(s)
  <2> DEFINE new == orders'[Len(orders) + 1].cart
  <2>1. /\ Len(orders) \in Nat /\ Len(orders') = Len(orders) + 1
        /\ \A i \in 1..Len(orders) : orders'[i] = orders[i]
        /\ new \subseteq Fresh /\ Gone' = Gone \cup new
        /\ lastItem' = lastItem /\ InCart' = {} /\ cartShare = {}
    BY <1>2, CommitOrderEffect
  <2>2. ItemsInv'
    BY <1>1, <1>2, <2>1 DEF ItemsInv, Fresh, CommitOrder, Release
  <2>3. \A i \in 1..Len(orders) : orders[i].cart \cap new = {}
    BY <2>1 DEF Fresh, Gone
  <2>4. EachItemOrderedOnce'
    BY <1>1, <2>1, <2>3 DEF EachItemOrderedOnce
  <2> QED BY <2>2, <2>4
<1>3. CASE CommitEdit(s)
  <2>1. UNCHANGED <<orders, lastItem>> /\ \A p \in InCart' : cart'[p].item \in Fresh
    BY <1>3, CommitEditEffect
  <2>2. Gone' = Gone /\ Fresh' = Fresh
    BY <2>1 DEF Gone, Fresh
  <2>3. ItemsInv'
    BY <1>1, <1>3, <2>1, <2>2 DEF ItemsInv, CommitEdit, Release
  <2>4. \A i \in 1..Len(orders) : \A p \in InCart' : cart'[p].item \notin orders[i].cart
    BY <2>1 DEF Fresh, Gone
  <2>5. EachItemOrderedOnce'
    BY <1>1, <2>1, <2>4 DEF EachItemOrderedOnce
  <2> QED BY <2>3, <2>5
<1>4. CASE ~CommitOrder(s) /\ ~CommitEdit(s)
  <2>1. UNCHANGED <<cart, orders>>
    BY <1>1, <1>4, OnlyCommitsWrite
  <2>2. Gone' = Gone /\ InCart' = InCart
    BY <2>1 DEF Gone, InCart
  <2>3. lastItem' \in {lastItem, lastItem + 1} /\ lastItem \in Nat
    BY <1>1, <1>4, OnlyCommitsWrite, InsertEffect DEF Kinds
  <2>4. cartLock' # None => cartShare' = {}
    BY <1>1, <1>4, OnlyCommitsWrite, InsertEffect DEF ItemsInv
  <2>5. ItemsInv'
    BY <1>1, <2>1, <2>2, <2>3, <2>4 DEF ItemsInv, Fresh
  <2>6. EachItemOrderedOnce'
    BY <1>1, <2>1, <2>2 DEF EachItemOrderedOnce
  <2> QED BY <2>5, <2>6
<1> QED BY <1>2, <1>3, <1>4

----------------------------------------------------------------------------
\* What another session does leaves an edit and an order under way as they are.
LEMMA OthersItems ==
  ASSUME IInv, NEW s \in Sessions, Acts(s), NEW t \in Sessions \ {s}
  PROVE  EditInv(t)' /\ PlaceInv(t)'
<1>1. /\ Kinds /\ SessionInv(s) /\ SessionInv(t) /\ ItemsInv
      /\ None \notin Sessions
  BY CheckoutAssumption DEF IInv
<1>2. /\ pc'[t] = pc[t] /\ job'[t] = job[t]
      /\ cartLock' = t <=> cartLock = t
      /\ t \in cartShare' <=> t \in cartShare
      /\ \A p \in Products : itemLock'[p] = t <=> itemLock[p] = t
  BY <1>1, Elsewhere
<1>3. CASE CommitOrder(s)
  <2>1. cartShare = {} /\ cartLock = s /\ InCart' = {}
    BY <1>3, CommitOrderEffect
  <2>2. \A p \in Products : itemLock[p] = t => cart'[p] = cart[p]
    BY <1>3 DEF CommitOrder
  <2>3. EditInv(t)'
    BY <1>1, <1>2, <2>1, <2>2 DEF SessionInv, EditInv
  <2>4. PlaceInv(t)'
    BY <1>1, <1>2, <2>1 DEF SessionInv, PlaceInv, Clearing
  <2> QED BY <2>3, <2>4
<1>4. CASE CommitEdit(s)
  <2>1. /\ UNCHANGED <<orders, lastItem>>
        /\ \A p \in Products : itemLock[p] # s => cart'[p] = cart[p]
        /\ \A p \in Products : itemLock[p] = s /\ cart[p] = None => s \in cartShare
    BY <1>4, CommitEditEffect
  <2>2. Fresh' = Fresh
    BY <2>1 DEF Fresh, Gone
  <2>3. EditInv(t)'
    BY <1>1, <1>2, <2>1, <2>2 DEF SessionInv, EditInv
  <2>4. pc[t] = "commit" => cartLock = t /\ cartShare = {}
    BY <1>1 DEF SessionInv, PlaceInv, Clearing, ItemsInv
  <2>5. pc[t] = "commit" => \A p \in InCart' : p \in InCart
    BY <2>1, <2>4 DEF InCart
  <2>6. PlaceInv(t)'
    <3>1. pc[t] = "commit" => \A p \in InCart' : itemLock'[p] = t
      BY <1>1, <1>2, <2>5 DEF SessionInv, PlaceInv, InCart
    <3> QED BY <1>1, <1>2, <2>2, <3>1 DEF SessionInv, PlaceInv
  <2> QED BY <2>3, <2>6
<1>5. CASE ~CommitOrder(s) /\ ~CommitEdit(s)
  <2>1. UNCHANGED <<cart, orders>>
    BY <1>1, <1>5, OnlyCommitsWrite
  <2>2. lastItem' \in {lastItem, lastItem + 1} /\ lastItem \in Nat
    BY <1>1, <1>5, OnlyCommitsWrite, InsertEffect DEF Kinds
  <2>3. Fresh \subseteq Fresh'
    BY <2>1, <2>2 DEF Fresh, Gone
  <2>4. EditInv(t)'
    BY <1>1, <1>2, <2>1, <2>3 DEF SessionInv, EditInv
  <2>5. PlaceInv(t)'
    <3>1. InCart' = InCart /\ \A p \in InCart : p \in Products
      BY <2>1 DEF InCart
    <3> QED BY <1>1, <1>2, <2>3, <3>1 DEF SessionInv, PlaceInv
  <2> QED BY <2>4, <2>5
<1> QED BY <1>3, <1>4, <1>5

\* A session that holds no row of the cart has nothing to keep about it.
LEMMA NothingHeld ==
  ASSUME NEW s \in Sessions, s \notin cartShare', \A p \in Products : itemLock'[p] # s,
         pc'[s] \notin {"edit"} \cup Clearing
  PROVE  EditInv(s)' /\ PlaceInv(s)'
BY DEF EditInv, PlaceInv, Clearing

LEMMA HeldNothing ==
  ASSUME IInv, NEW s \in Sessions, pc[s] \notin {"telling", "commit"}
  PROVE  s \notin cartShare /\ \A p \in Products : itemLock[p] # s
BY DEF IInv, SessionInv, EditInv

\* Edits and confirmations are drawn up whole.
LEMMA ShapeStep ==
  ASSUME IInv, NEW s \in Sessions, Acts(s)
  PROVE  ShapeInv(s)'
<1>1. Kinds /\ ShapeInv(s)
  BY DEF IInv, SessionInv
<1> USE DEF Kinds, Go, Leave, Finish, ShapeInv
<1>2. CASE EditCart(s)
  <2>1. ASSUME NEW p \in Products, NEW kind, Edit(s, kind, p) PROVE ShapeInv(s)'
    BY <1>1, <2>1 DEF Edit, Update
  <2>2. CASE FlushItem(s) \/ InsertItem(s) \/ CommitEdit(s)
    BY <1>1, <2>2 DEF FlushItem, InsertItem, CommitEdit, Update
  <2> QED BY <1>2, <2>1, <2>2 DEF EditCart
<1>3. CASE Converse(s)
  BY <1>1, <1>3 DEF Converse, AnswerQuestions, OfferRewards, ShowSummary, PickReward, Cancel, CancelCheckout
<1>4. CASE Confirm(s) \/ EnterConfirm(s) \/ Submit(s) \/ RefuseDelivery(s) \/ LockCart(s)
           \/ LockAccount(s) \/ ClearCart(s)
  BY <1>1, <1>4 DEF Confirm, EnterConfirm, Submit, RefuseDelivery, LockCart, LockAccount, ClearCart, Draft
<1>5. CASE CommitOrder(s) \/ CloseCheckout(s) \/ TellPlaced(s) \/ Refuse(s) \/ RefuseReward(s)
           \/ Fail(s) \/ Told(s)
  BY <1>1, <1>5 DEF CommitOrder, CloseCheckout, TellPlaced, Refuse, RefuseReward, Fail, Told
<1>6. CASE Abort(s) \/ AskPayout(s) \/ Payout(s) \/ CommitPayout(s)
  BY <1>1, <1>6 DEF Abort, AskPayout, Payout, CommitPayout
<1> QED BY <1>2, <1>3, <1>4, <1>5, <1>6 DEF Acts, PlaceOrder

LEMMA SelfItems ==
  ASSUME IInv, NEW s \in Sessions, Acts(s)
  PROVE  EditInv(s)' /\ PlaceInv(s)'
<1>1. Kinds /\ SessionInv(s) /\ ItemsInv /\ None \notin Sessions
  BY CheckoutAssumption DEF IInv
<1>2. ASSUME Release(s), pc'[s] \notin {"edit"} \cup Clearing
      PROVE  EditInv(s)' /\ PlaceInv(s)'
  BY <1>1, <1>2, NothingHeld DEF Release, Kinds
<1>3. ASSUME UNCHANGED <<cartShare, itemLock>>, pc[s] \notin {"telling", "commit"},
             pc'[s] \notin {"edit"} \cup Clearing
      PROVE  EditInv(s)' /\ PlaceInv(s)'
  BY <1>3, NothingHeld, HeldNothing
<1>4. ASSUME NEW p \in Products, NEW kind, Edit(s, kind, p) PROVE EditInv(s)' /\ PlaceInv(s)'
  <2>1. /\ pc[s] = "idle" /\ pc'[s] = "edit" /\ UNCHANGED <<cartShare, itemLock>>
        /\ job'[s] = IF cart[p] # None THEN Update(p, cart[p], kind)
                     ELSE [product |-> p, item |-> None, to |-> None]
    BY <1>1, <1>4 DEF Edit, Go, Kinds, locks
  <2>2. job'[s].to # None => job'[s].to \in Row /\ job'[s].to.item = job'[s].item
    BY <1>1, <2>1, EditedKeepsItem DEF Update, Kinds
  <2> QED BY <2>1, <2>2, HeldNothing DEF EditInv, PlaceInv, Clearing
<1>5. CASE FlushItem(s)
  <2> DEFINE q == job[s].product
  <2>1. pc[s] = "edit" /\ UNCHANGED <<cart, orders, lastItem, cartShare>>
    BY <1>5 DEF FlushItem, items, placed
  <2>2. CASE pc'[s] = "idle" /\ UNCHANGED itemLock
    BY <1>3, <2>1, <2>2 DEF Clearing
  <2>3. CASE /\ pc'[s] = "telling" /\ job'[s] = job[s]
             /\ \/ UNCHANGED itemLock
                \/ /\ itemLock' = [itemLock EXCEPT ![q] = s]
                   /\ cart[q] # None /\ cart[q].item = job[s].item
    <3>1. job[s].to # None => job[s].to \in Row /\ job[s].to.item = job[s].item
      BY <1>1, <1>5 DEF SessionInv, EditInv, FlushItem
    <3>2. \A p \in Products : itemLock'[p] = s => p = q /\ cart[q] # None /\ cart[q].item = job[s].item
      BY <1>1, <2>1, <2>3, HeldNothing DEF Kinds
    <3> QED BY <2>1, <2>3, <3>1, <3>2, HeldNothing DEF EditInv, PlaceInv, Clearing
  <2> QED BY <1>1, <1>5, <2>2, <2>3 DEF FlushItem, Finish, Leave, Go, Kinds
<1>6. CASE InsertItem(s)
  <2> DEFINE q == job[s].product
  <2>1. pc[s] = "edit" /\ s \notin cartShare /\ \A p \in Products : itemLock[p] # s
    BY <1>6, HeldNothing DEF InsertItem
  <2>2. CASE cart[q] # None /\ UNCHANGED <<itemLock, cartShare, pc>> /\ job'[s] = Update(q, cart[q], "inc")
    <3>1. job'[s].to # None => job'[s].to \in Row /\ job'[s].to.item = job'[s].item
      <4>1. cart[q] \in Row
        BY <1>1, <2>1, <2>2 DEF SessionInv, ShapeInv, Kinds
      <4> QED BY <2>2, <4>1, EditedKeepsItem DEF Update
    <3> QED BY <2>1, <2>2, <3>1 DEF EditInv, PlaceInv, Clearing
  <2>3. CASE /\ lastItem' = lastItem + 1 /\ orders' = orders /\ pc'[s] = "telling"
             /\ itemLock' = [itemLock EXCEPT ![q] = s] /\ s \in cartShare'
             /\ job'[s].to = [item |-> lastItem + 1, quantity |-> 1]
    <3>1. job'[s].to \in Row /\ job'[s].to.item \in Fresh'
      <4>1. lastItem + 1 \notin Gone /\ lastItem + 1 \in Nat
        BY <1>1 DEF ItemsInv, Kinds
      <4> QED BY <2>3, <4>1 DEF Row, Fresh, Gone
    <3> QED BY <2>3, <3>1 DEF EditInv, PlaceInv, Clearing
  <2>4. q \in Products /\ job[s] = [product |-> q, item |-> job[s].item, to |-> job[s].to]
    BY <1>1, <2>1 DEF SessionInv, ShapeInv
  <2>5. CASE cart[q] # None
    BY <1>1, <1>6, <2>2, <2>5 DEF InsertItem, Kinds
  <2>6. CASE cart[q] = None
    <3> DEFINE row == [item |-> lastItem + 1, quantity |-> 1]
    <3>1. /\ lastItem' = lastItem + 1 /\ orders' = orders
          /\ itemLock' = [itemLock EXCEPT ![q] = s] /\ s \in cartShare'
          /\ job' = [job EXCEPT ![s].to = row] /\ Go(s, "telling")
      BY <1>6, <2>6 DEF InsertItem, placed
    <3>2. pc'[s] = "telling"
      BY <1>1, <3>1 DEF Go, Kinds
    <3>3. job'[s] = [job[s] EXCEPT !.to = row]
      BY <1>1, <3>1 DEF Kinds
    <3>4. job'[s].to = row
      BY <2>4, <3>3
    <3> QED BY <2>3, <3>1, <3>2, <3>4
  <2> QED BY <2>5, <2>6
<1>7. CASE CommitEdit(s) \/ CommitOrder(s) \/ Refuse(s) \/ RefuseReward(s) \/ Fail(s)
           \/ Abort(s) \/ CommitPayout(s)
  <2>1. Release(s) /\ pc'[s] \in {"idle", "saved", "told", "summary"}
    BY <1>1, <1>7 DEF CommitEdit, CommitOrder, Refuse, RefuseReward, Fail, Abort, CommitPayout,
                      Finish, Leave, Go, Kinds
  <2> QED BY <1>2, <2>1 DEF Clearing
<1>8. CASE Converse(s)
  <2>1. /\ UNCHANGED <<cartShare, itemLock>> /\ pc[s] \in {"idle", "offer", "summary", "cancel"}
        /\ pc'[s] \in {"idle", "offer", "summary", "cancel"}
    BY <1>1, <1>8 DEF Converse, AnswerQuestions, OfferRewards, ShowSummary, PickReward, Cancel,
                      CancelCheckout, Finish, Leave, Go, Kinds, locks
  <2> QED BY <1>3, <2>1 DEF Clearing
<1>9. CASE \/ Confirm(s) \/ EnterConfirm(s) \/ Submit(s) \/ RefuseDelivery(s)
           \/ CloseCheckout(s) \/ TellPlaced(s) \/ Told(s) \/ AskPayout(s) \/ Payout(s)
  <2>1. /\ UNCHANGED <<cartShare, itemLock>>
        /\ pc[s] \in {"idle", "confirm", "checked", "place", "saved", "success", "told", "payout_wait"}
        /\ pc'[s] \in {"confirm", "checked", "place", "refused", "success", "idle",
                       "payout_wait", "paying"}
    BY <1>1, <1>9 DEF Confirm, EnterConfirm, Submit, RefuseDelivery, CloseCheckout, TellPlaced,
                      Told, AskPayout, Payout, Finish, Leave, Go, Kinds, locks
  <2> QED BY <1>3, <2>1 DEF Clearing
<1>10. CASE LockCart(s)
  <2>1. /\ pc[s] = "place" /\ pc'[s] \in {"refused", "account"} /\ cartLock' = s
        /\ UNCHANGED <<cart, orders, lastItem, cartShare, itemLock>> /\ job'[s].lines = Lines
    <3>1. job' = [job EXCEPT ![s].lines = Lines] /\ job'[s] = [job[s] EXCEPT !.lines = Lines]
      BY <1>1, <1>10 DEF LockCart, Kinds
    <3>2. job'[s].lines = Lines
      BY <1>1, <1>10, <3>1 DEF SessionInv, ShapeInv, LockCart
    <3> QED BY <1>1, <1>10, <3>2 DEF LockCart, Go, Kinds, items, placed
  <2>2. Fresh' = Fresh
    BY <2>1 DEF Fresh, Gone
  <2>3. \A p \in DOMAIN Lines : Lines[p].item \in Fresh
    BY <1>1 DEF Lines, ItemsInv
  <2> QED BY <2>1, <2>2, <2>3, HeldNothing DEF EditInv, PlaceInv, Clearing
<1>11. CASE LockAccount(s)
  <2>1. /\ pc[s] = "account" /\ pc'[s] \in {"refused", "refused_reward", "clear"}
        /\ UNCHANGED <<cart, orders, lastItem, cartLock, cartShare, itemLock, job>>
    BY <1>1, <1>11 DEF LockAccount, Go, Kinds, items, placed
  <2>2. Fresh' = Fresh
    BY <2>1 DEF Fresh, Gone
  <2> QED BY <1>1, <2>1, <2>2, HeldNothing DEF SessionInv, EditInv, PlaceInv, Clearing
<1>12. CASE ClearCart(s)
  <2>1. /\ pc[s] = "clear" /\ pc'[s] = "commit"
        /\ UNCHANGED <<cart, orders, lastItem, cartLock, cartShare, job>>
        /\ \A p \in InCart : itemLock'[p] = s
    BY <1>1, <1>12 DEF ClearCart, Go, Kinds, items, placed, InCart
  <2>2. Fresh' = Fresh /\ InCart' = InCart
    BY <2>1 DEF Fresh, Gone, InCart
  <2> QED BY <1>1, <2>1, <2>2, HeldNothing DEF SessionInv, EditInv, PlaceInv, Clearing
<1> QED BY <1>4, <1>5, <1>6, <1>7, <1>8, <1>9, <1>10, <1>11, <1>12
        DEF Acts, EditCart, PlaceOrder

----------------------------------------------------------------------------
\* What a step may do to the conversation: end or restart it, ask anew, go on
\* with it, take back a submission, or order.
EndsTalk(s) ==
  /\ fsm'.step # "confirmation" /\ UNCHANGED <<visit, orders>>
  /\ \/ cancelled' = cancelled
     \/ pc[s] = "cancel" /\ cancelled' = cancelled \cup ({job[s].visit} \ {0})
AsksAnew == visit' = visit + 1 /\ UNCHANGED <<cancelled, orders>>
GoesOn ==
  /\ UNCHANGED <<visit, cancelled, orders>>
  /\ fsm'.step = fsm.step /\ (fsm.submitted => fsm'.submitted)
TakesBack(s) ==
  pc[s] = "refused_reward" /\ fsm'.step = fsm.step /\ UNCHANGED <<visit, cancelled, orders>>
Orders(s) == CommitOrder(s) /\ UNCHANGED <<fsm, visit, cancelled>>

LEMMA TalkEffect ==
  ASSUME Kinds, NEW s \in Sessions, Acts(s)
  PROVE  EndsTalk(s) \/ AsksAnew \/ GoesOn \/ TakesBack(s) \/ Orders(s)
<1> USE DEF Kinds, Talk, talk, placed, EndsTalk, AsksAnew, GoesOn, TakesBack, Orders
<1>1. Closed.step # "confirmation"
  BY DEF Closed
<1>2. CASE EditCart(s)
  BY <1>2 DEF EditCart, Edit, FlushItem, InsertItem, CommitEdit
<1>3. CASE Converse(s)
  <2>1. CASE AnswerQuestions(s) \/ OfferRewards(s) \/ Cancel(s)
             \/ \E r \in Rewards \cup {None} : PickReward(s, r)
    BY <2>1 DEF AnswerQuestions, OfferRewards, PickReward, Cancel
  <2>2. CASE ShowSummary(s)
    BY <1>1, <2>2 DEF ShowSummary
  <2>3. CASE CancelCheckout(s)
    BY <1>1, <2>3 DEF CancelCheckout
  <2> QED BY <1>3, <2>1, <2>2, <2>3 DEF Converse
<1>4. CASE Confirm(s) \/ EnterConfirm(s) \/ Submit(s) \/ RefuseDelivery(s) \/ LockCart(s)
           \/ LockAccount(s) \/ ClearCart(s)
  BY <1>1, <1>4 DEF Confirm, EnterConfirm, Submit, RefuseDelivery, LockCart, LockAccount, ClearCart
<1>5. CASE CommitOrder(s) \/ CloseCheckout(s) \/ TellPlaced(s) \/ Refuse(s)
  BY <1>1, <1>5 DEF CommitOrder, CloseCheckout, TellPlaced, Refuse
<1>6. CASE RefuseReward(s) \/ Fail(s) \/ Told(s)
  BY <1>6 DEF RefuseReward, Fail, Told
<1>7. CASE Abort(s) \/ AskPayout(s) \/ Payout(s) \/ CommitPayout(s)
  BY <1>7 DEF Abort, AskPayout, Payout, CommitPayout
<1> QED BY <1>2, <1>3, <1>4, <1>5, <1>6, <1>7 DEF Acts, PlaceOrder

\* How a session comes to hold the keyed_lock, to be placing and to be cancelling.
LEMMA Path ==
  ASSUME IInv, NEW s \in Sessions, Acts(s)
  PROVE  /\ pc'[s] \in Keyed => \/ pc[s] \in Keyed /\ keyed' = keyed
                                \/ EnterConfirm(s) /\ keyed' = s
         /\ pc'[s] \in Unordered => \/ pc[s] \in Unordered /\ job'[s].visit = job[s].visit
                                    \/ /\ EnterConfirm(s) /\ job'[s].visit = visit
                                       /\ fsm.step = "confirmation" /\ ~fsm.submitted
         /\ pc'[s] \in Submitted => pc[s] \in Submitted \/ (fsm'.submitted /\ pc[s] = "checked")
         /\ pc'[s] = "cancel" => job'[s].visit \in {visit, 0} /\ visit' = visit
<1>1. Kinds /\ ShapeInv(s)
  BY DEF IInv, SessionInv
<1> USE DEF Kinds, Go, Leave, Finish, Keyed, Placing, Unordered, Submitted, Clearing
<1>2. CASE EditCart(s)
  BY <1>1, <1>2 DEF EditCart, Edit, FlushItem, InsertItem, CommitEdit
<1>3. CASE Converse(s)
  BY <1>1, <1>3 DEF Converse, AnswerQuestions, OfferRewards, ShowSummary, PickReward, Cancel,
                    CancelCheckout, talk
<1>4. CASE EnterConfirm(s)
  BY <1>1, <1>4 DEF EnterConfirm, Draft
<1>5. CASE Submit(s)
  BY <1>1, <1>5 DEF Submit, Talk
<1>6. CASE Confirm(s) \/ RefuseDelivery(s) \/ LockAccount(s) \/ ClearCart(s)
  BY <1>1, <1>6 DEF Confirm, RefuseDelivery, LockAccount, ClearCart
<1>7. CASE LockCart(s)
  BY <1>1, <1>7 DEF LockCart, ShapeInv
<1>8. CASE CommitOrder(s) \/ CloseCheckout(s) \/ TellPlaced(s) \/ Refuse(s) \/ RefuseReward(s)
           \/ Fail(s) \/ Told(s)
  BY <1>1, <1>8 DEF CommitOrder, CloseCheckout, TellPlaced, Refuse, RefuseReward, Fail, Told
<1>9. CASE Abort(s) \/ AskPayout(s) \/ Payout(s) \/ CommitPayout(s)
  BY <1>1, <1>9 DEF Abort, AskPayout, Payout, CommitPayout
<1> QED BY <1>2, <1>3, <1>4, <1>5, <1>6, <1>7, <1>8, <1>9 DEF Acts, PlaceOrder

\* The keyed_lock has one holder.
LEMMA Alone ==
  ASSUME IInv, NEW s \in Sessions, NEW t \in Sessions \ {s}, pc[t] \in Keyed
  PROVE  pc[s] \notin Keyed
BY DEF IInv, SessionInv, TalkInv

LEMMA SummaryStep ==
  ASSUME IInv, NEW s \in Sessions, Acts(s)
  PROVE  SummaryInv' /\ OneOrderPerSummary'
<1>1. Kinds /\ SummaryInv /\ OneOrderPerSummary /\ TalkInv(s) /\ visit \in Nat
  BY DEF IInv, SessionInv, Kinds
<1>2. CASE EndsTalk(s)
  BY <1>1, <1>2 DEF EndsTalk, SummaryInv, OneOrderPerSummary, TalkInv
<1>3. CASE AsksAnew
  BY <1>1, <1>3 DEF AsksAnew, SummaryInv, OneOrderPerSummary
<1>4. CASE GoesOn
  BY <1>1, <1>4 DEF GoesOn, SummaryInv, OneOrderPerSummary, Kinds, Talk
<1>5. CASE TakesBack(s)
  <2>1. \A i \in 1..Len(orders) : orders[i].visit # visit
    BY <1>1, <1>5 DEF TakesBack, TalkInv, Unordered, SummaryInv
  <2> QED BY <1>1, <1>5, <2>1 DEF TakesBack, SummaryInv, OneOrderPerSummary
<1>6. CASE Orders(s)
  <2>1. /\ Len(orders) \in Nat /\ Len(orders') = Len(orders) + 1
        /\ \A i \in 1..Len(orders) : orders'[i] = orders[i]
        /\ orders'[Len(orders) + 1].visit = job[s].visit
    BY <1>6, CommitOrderEffect DEF Orders
  <2>2. /\ job[s].visit \in 0..visit
        /\ \A i \in 1..Len(orders) : orders[i].visit < job[s].visit
        /\ job[s].visit = visit /\ fsm.step = "confirmation" => fsm.submitted
    BY <1>1, <1>6 DEF Orders, CommitOrder, TalkInv, Unordered, Submitted, Clearing
  <2>3. 1..Len(orders') = 1..Len(orders) \cup {Len(orders) + 1}
    BY <2>1
  <2>4. \A i \in 1..Len(orders') : orders'[i].visit \in 0..visit
    BY <1>1, <2>1, <2>2, <2>3 DEF SummaryInv
  <2>5. fsm.step = "confirmation" /\ ~fsm.submitted =>
          \A i \in 1..Len(orders') : orders'[i].visit # visit
    BY <1>1, <2>1, <2>2, <2>3 DEF SummaryInv
  <2>6. \A i \in 1..Len(orders) : orders'[i].visit # orders'[Len(orders) + 1].visit
    BY <1>1, <2>1, <2>2 DEF SummaryInv
  <2>7. OneOrderPerSummary'
    BY <1>1, <2>1, <2>3, <2>6 DEF OneOrderPerSummary
  <2> QED BY <1>1, <1>6, <2>4, <2>5, <2>7 DEF Orders, SummaryInv
<1> QED BY <1>1, <1>2, <1>3, <1>4, <1>5, <1>6, TalkEffect

\* What another session does under a confirmation.
LEMMA OthersTalk ==
  ASSUME IInv, NEW s \in Sessions, Acts(s), NEW t \in Sessions \ {s}
  PROVE  TalkInv(t)'
<1>1. Kinds /\ SummaryInv /\ TalkInv(t) /\ TalkInv(s) /\ visit \in Nat
  BY DEF IInv, SessionInv, Kinds
<1>2. pc'[t] = pc[t] /\ job'[t] = job[t] /\ (keyed = t => keyed' = t)
  BY <1>1, Elsewhere
<1>3. pc[t] \in Keyed => pc[s] \notin Keyed
  BY Alone
<1>4. Unordered \subseteq Keyed /\ Submitted \subseteq Unordered /\ "cancel" \notin Keyed
  BY DEF Unordered, Keyed, Placing, Submitted, Clearing
<1>5. CASE EndsTalk(s) \/ AsksAnew \/ GoesOn
  BY <1>1, <1>2, <1>4, <1>5 DEF EndsTalk, AsksAnew, GoesOn, TalkInv
<1>6. CASE TakesBack(s) \/ Orders(s)
  <2>1. pc[t] \notin Keyed /\ visit' = visit
    BY <1>3, <1>6 DEF TakesBack, Orders, CommitOrder, Keyed, Placing
  <2> QED BY <1>1, <1>2, <1>4, <2>1 DEF TalkInv
<1> QED BY <1>1, <1>5, <1>6, TalkEffect

LEMMA SelfTalk ==
  ASSUME IInv, NEW s \in Sessions, Acts(s)
  PROVE  TalkInv(s)'
<1>1. Kinds /\ SummaryInv /\ TalkInv(s) /\ visit \in Nat
  BY DEF IInv, SessionInv, Kinds
<1>2. pc'[s] \in Keyed => keyed' = s
  BY <1>1, Path DEF TalkInv
<1>3. visit' \in {visit, visit + 1} /\ (orders' = orders \/ CommitOrder(s))
  BY <1>1, TalkEffect DEF EndsTalk, AsksAnew, GoesOn, TakesBack, Orders
<1>4. ASSUME pc'[s] \in Unordered
      PROVE  /\ job'[s].visit \in 0..visit' /\ orders' = orders
             /\ \A i \in 1..Len(orders) : orders[i].visit < job'[s].visit
  <2>1. orders' = orders
    BY <1>1, <1>3, <1>4 DEF CommitOrder, Leave, Go, Kinds, Unordered
  <2>2. CASE pc[s] \in Unordered /\ job'[s].visit = job[s].visit
    BY <1>1, <1>3, <2>1, <2>2 DEF TalkInv
  <2>3. CASE job'[s].visit = visit /\ fsm.step = "confirmation" /\ ~fsm.submitted
    BY <1>1, <1>3, <2>1, <2>3 DEF SummaryInv
  <2> QED BY <1>4, <2>2, <2>3, Path
<1>5. ASSUME pc'[s] \in Submitted, job'[s].visit = visit', fsm'.step = "confirmation"
      PROVE  fsm'.submitted
  <2>1. Submitted \subseteq Unordered /\ "refused_reward" \notin Submitted
    BY DEF Submitted, Unordered, Clearing
  <2>2. CASE pc[s] \in Submitted
    <3>1. job'[s].visit = job[s].visit /\ job[s].visit \in 0..visit
      <4>1. ~EnterConfirm(s)
        BY <2>2 DEF EnterConfirm, Submitted, Clearing
      <4> QED BY <1>1, <1>5, <2>1, <2>2, <4>1, Path DEF TalkInv
    <3>2. ~EndsTalk(s) /\ ~AsksAnew /\ ~TakesBack(s)
      BY <1>1, <1>5, <2>1, <2>2, <3>1 DEF EndsTalk, AsksAnew, TakesBack
    <3> QED BY <1>1, <1>5, <2>2, <3>1, <3>2, TalkEffect DEF GoesOn, Orders, TalkInv
  <2>3. CASE pc[s] \notin Submitted
    BY <1>5, <2>3, Path
  <2> QED BY <2>2, <2>3
<1>6. pc'[s] = "cancel" => job'[s].visit \in 0..visit'
  BY <1>1, Path
<1> QED BY <1>2, <1>4, <1>5, <1>6 DEF TalkInv

----------------------------------------------------------------------------
\* Admins, the start of a conversation and a crash disturb none of it.
LEMMA AroundKeeps ==
  ASSUME IInv, Around
  PROVE  IInv'
<1>1. /\ UNCHANGED <<items, placed, locks, keyed, visit, cancelled, pc, job>>
      /\ fsm' = fsm \/ (fsm' \in Talk /\ fsm'.step = "questions")
  BY DEF Around, SetOnSale, SetPrice, StartCheckout, Closed, Talk, Steps, talk
<1>2. UNCHANGED <<cart, lastItem, orders, cartLock, cartShare, itemLock>>
  BY <1>1 DEF items, placed, locks
<1>3. Gone' = Gone /\ Fresh' = Fresh /\ InCart' = InCart
  BY <1>2 DEF Gone, Fresh, InCart
<1>4. Kinds' /\ ItemsInv' /\ EachItemOrderedOnce' /\ OneOrderPerSummary'
  BY <1>1, <1>2, <1>3 DEF IInv, Kinds, ItemsInv, EachItemOrderedOnce, OneOrderPerSummary
<1>5. SummaryInv'
  BY <1>1, <1>2 DEF IInv, SummaryInv
<1>6. ASSUME NEW s \in Sessions PROVE SessionInv(s)'
  <2>1. ShapeInv(s)' /\ EditInv(s)' /\ PlaceInv(s)'
    BY <1>1, <1>2, <1>3 DEF IInv, SessionInv, ShapeInv, EditInv, PlaceInv
  <2>2. TalkInv(s)'
    BY <1>1, <1>2 DEF IInv, SessionInv, TalkInv
  <2> QED BY <2>1, <2>2 DEF SessionInv
<1> QED BY <1>4, <1>5, <1>6 DEF IInv

LEMMA CrashKeeps ==
  ASSUME IInv, Crash
  PROVE  IInv'
<1>1. /\ UNCHANGED <<cart, lastItem, orders, visit, cancelled>>
      /\ cartLock' = None /\ cartShare' = {} /\ keyed' = None /\ fsm' = Closed
      /\ itemLock' = [p \in Products |-> None]
      /\ pc' = [s \in Sessions |-> "idle"] /\ job' = [s \in Sessions |-> None]
  BY DEF Crash, items, placed
<1>2. Gone' = Gone /\ Fresh' = Fresh /\ InCart' = InCart
  BY <1>1 DEF Gone, Fresh, InCart
<1>3. Closed \in Talk /\ Closed.step = "none"
  BY DEF Closed, Talk, Steps
<1>4. Kinds'
  BY <1>1, <1>3 DEF IInv, Kinds, Phases
<1>5. ItemsInv' /\ EachItemOrderedOnce' /\ OneOrderPerSummary' /\ SummaryInv'
  BY <1>1, <1>2, <1>3 DEF IInv, ItemsInv, EachItemOrderedOnce, OneOrderPerSummary, SummaryInv
<1>6. ASSUME NEW s \in Sessions PROVE SessionInv(s)'
  BY <1>1, CheckoutAssumption DEF SessionInv, ShapeInv, EditInv, PlaceInv, TalkInv, Clearing,
                                  Submitted, Unordered, Keyed, Placing
<1> QED BY <1>4, <1>5, <1>6 DEF IInv

LEMMA ActsKeep ==
  ASSUME IInv, NEW s \in Sessions, Acts(s)
  PROVE  IInv'
<1>1. Kinds' /\ ItemsInv' /\ SummaryInv' /\ EachItemOrderedOnce' /\ OneOrderPerSummary'
  BY KindsStep, ItemsStep, SummaryStep
<1>2. SessionInv(s)'
  BY ShapeStep, SelfItems, SelfTalk DEF SessionInv
<1>3. ASSUME NEW t \in Sessions \ {s} PROVE SessionInv(t)'
  <2>1. EditInv(t)' /\ PlaceInv(t)' /\ TalkInv(t)'
    BY OthersItems, OthersTalk
  <2>2. ShapeInv(t)'
    BY Elsewhere DEF IInv, SessionInv, ShapeInv
  <2> QED BY <2>1, <2>2 DEF SessionInv
<1> QED BY <1>1, <1>2, <1>3 DEF IInv

LEMMA InitInv ==
  ASSUME Init
  PROVE  IInv
<1>1. lastItem \in Nat /\ \A p \in Products : p \in 0..lastItem
  <2> DEFINE S == {0} \cup Products
  <2>1. S \in SUBSET Nat /\ S # {} /\ 0 \in Nat
    BY TermsAssumption
  <2>2. IsFiniteSet(S)
    BY TermsAssumption, FS_Singleton, FS_Union
  <2>3. Max(S) \in S /\ \A x \in S : x <= Max(S)
    BY <2>1, <2>2, Largest
  <2>4. lastItem = Max(S)
    BY DEF Init
  <2>5. lastItem \in S /\ \A x \in S : x <= lastItem
    BY <2>3, <2>4
  <2>6. \A p \in Products : p \in Nat /\ p <= lastItem
    BY <2>1, <2>5
  <2> QED BY <2>1, <2>5, <2>6
<1> USE DEF Init
<1>2. Closed \in Talk /\ Closed.step = "none"
  BY DEF Closed, Talk, Steps
<1>3. orders \in Seq({}) /\ Len(orders) = 0
  OBVIOUS
<1>4. cart \in [Products -> Row \cup {None}]
  BY CheckoutAssumption, TermsAssumption DEF Row
<1>5. Kinds
  BY <1>1, <1>2, <1>3, <1>4 DEF Kinds, Phases
<1>6. Gone = {} /\ 1..Len(orders) = {}
  BY <1>3 DEF Gone
<1>7. ItemsInv
  <2>1. \A p \in InCart : cart[p].item = p /\ p \in Products
    BY DEF InCart
  <2> QED BY <1>1, <1>6, <2>1 DEF ItemsInv, Fresh
<1>8. SummaryInv /\ EachItemOrderedOnce /\ OneOrderPerSummary
  BY <1>2, <1>6 DEF SummaryInv, EachItemOrderedOnce, OneOrderPerSummary
<1>9. ASSUME NEW s \in Sessions PROVE SessionInv(s)
  BY CheckoutAssumption DEF SessionInv, ShapeInv, EditInv, PlaceInv, TalkInv, Clearing,
                            Submitted, Unordered, Keyed, Placing
<1> QED BY <1>5, <1>7, <1>8, <1>9 DEF IInv

LEMMA NextInv ==
  ASSUME IInv, [Next]_vars
  PROVE  IInv'
<1>1. CASE Around
  BY <1>1, AroundKeeps
<1>2. CASE Crash
  BY <1>2, CrashKeeps
<1>3. CASE \E s \in Sessions : Acts(s)
  BY <1>3, ActsKeep
<1>4. CASE UNCHANGED vars
  BY <1>4 DEF vars, products, items, placed, locks, talk, IInv, Kinds, ItemsInv, SummaryInv,
              EachItemOrderedOnce, OneOrderPerSummary, SessionInv, ShapeInv, EditInv, PlaceInv,
              TalkInv, Gone, Fresh, InCart
<1> QED BY <1>1, <1>2, <1>3, <1>4 DEF Next, Around, Acts

\* Whatever is tapped, edited, retried or lost, the rows of the cart, the locks
\* on them, the conversation and the orders agree.
THEOREM CheckoutInvariant == Spec => []IInv
<1>1. Init => IInv
  BY InitInv
<1>2. IInv /\ [Next]_vars => IInv'
  BY NextInv
<1> QED BY <1>1, <1>2, PTL DEF Spec

\* What was in the cart is ordered once at most, and out of the cart from then
\* on: place_order_from_cart holds the cart's row from its read to its commit.
THEOREM NothingOrderedTwice == Spec => []EachItemOrderedOnce
<1>1. IInv => EachItemOrderedOnce
  BY DEF IInv
<1> QED BY <1>1, CheckoutInvariant, PTL

\* One "Confirm your order" makes one order at most: checkout_confirm asks again
\* inside the keyed_lock, and what it takes back is asked for anew.
THEOREM OneOrderForEachSummary == Spec => []OneOrderPerSummary
<1>1. IInv => OneOrderPerSummary
  BY DEF IInv
<1> QED BY <1>1, CheckoutInvariant, PTL

\* Once the customer was told that a summary is cancelled, no tap on its Confirm
\* gets into the keyed_lock.
THEOREM CancelledStaysCancelled == Spec => CancelStopsConfirm
<1>1. IInv /\ [Next]_vars =>
        [\A s \in Sessions : pc[s] = "confirm" /\ pc'[s] = "checked" => visit \notin cancelled]_vars
  <2> SUFFICES ASSUME IInv, Next, NEW s \in Sessions, pc[s] = "confirm", pc'[s] = "checked"
               PROVE  visit \notin cancelled
    OBVIOUS
  <2>1. Kinds /\ SummaryInv
    BY DEF IInv
  <2>2. ~Around /\ ~Crash
    BY DEF Around, Crash, SetOnSale, SetPrice, StartCheckout
  <2>3. PICK t \in Sessions : Acts(t)
    BY <2>2 DEF Next, Around, Acts
  <2>4. Acts(s)
    BY <2>1, <2>3, Elsewhere
  <2>5. fsm.step = "confirmation"
    BY <2>4, Path DEF Unordered
  <2> QED BY <2>1, <2>5 DEF SummaryInv
<1> QED BY <1>1, CheckoutInvariant, PTL DEF Spec, CancelStopsConfirm

----------------------------------------------------------------------------
\* Sums.  A fold over a set is a recursive function on its subsets; g is the
\* one that sums the values v over each set of D.
SumsTo(D, v, g) ==
  g = [s \in D |-> IF s = {} THEN 0
                   ELSE LET x == CHOOSE x \in s : TRUE IN v[x] + g[s \ {x}]]
Sums(S, v, g) == SumsTo(SUBSET S, v, g)

\* Of the subsets of a finite set for which something holds, one is smallest.
LEMMA Smallest ==
  ASSUME NEW S, IsFiniteSet(S), NEW Bad \in SUBSET (SUBSET S), Bad # {}
  PROVE  \E T \in Bad : \A U \in Bad : U \subseteq T => U = T
<1>1. FiniteSubsetsOf(S) = SUBSET S
  BY FS_FiniteSubsetsOfFinite
<1>2. IsWellFoundedOn(StrictSubsetOrdering(S), SUBSET S)
  BY <1>1, FS_StrictSubsetOrderingWellFounded
<1>3. PICK T \in Bad : \A U \in Bad : <<U, T>> \notin StrictSubsetOrdering(S)
  BY <1>2, WFMin, Zenon
<1>4. ASSUME NEW U \in Bad, U \subseteq T PROVE U = T
  BY <1>3, <1>4 DEF StrictSubsetOrdering
<1> QED BY <1>4

\* There is such a function: on the subsets of one element more, take the value
\* of the chosen one and the sum that was there for the rest.
LEMMA SumExists ==
  ASSUME NEW S, IsFiniteSet(S), NEW v
  PROVE  \E g : Sums(S, v, g)
<1> DEFINE Small(n) == {s \in SUBSET S : Cardinality(s) <= n}
           missing == {n \in 0..Cardinality(S) : ~ \E g : SumsTo(Small(n), v, g)}
<1>1. Cardinality(S) \in Nat
  BY FS_CardinalityType
<1>2. \A s \in SUBSET S : IsFiniteSet(s) /\ Cardinality(s) \in Nat /\ Cardinality(s) <= Cardinality(S)
                          /\ (Cardinality(s) = 0 <=> s = {})
  BY FS_Subset, FS_CardinalityType, FS_EmptySet
<1>3. missing = {}
  <2> SUFFICES ASSUME missing # {} PROVE FALSE
    OBVIOUS
  <2>1. missing \subseteq 0..Cardinality(S) /\ missing \subseteq Nat
    BY <1>1
  <2>2. PICK n \in missing : \A m \in missing : <<m, n>> \notin OpToRel(<, Nat)
    BY <2>1, NatLessThanWellFounded, WFMin, Zenon
  <2>3. n \in Nat /\ n <= Cardinality(S) /\ ~ \E g : SumsTo(Small(n), v, g)
    <3> HIDE DEF Small
    <3> QED BY <1>1, <2>1
  <2>4. CASE n = 0
    <3> DEFINE g == [s \in Small(n) |-> 0]
    <3>1. \A s \in Small(n) : s = {}
      BY <1>2, <2>4
    <3>2. g = [s \in Small(n) |-> IF s = {} THEN 0
                ELSE LET x == CHOOSE x \in s : TRUE IN v[x] + g[s \ {x}]]
      BY <3>1
    <3> QED BY <2>3, <3>2 DEF SumsTo
  <2>5. CASE n # 0
    <3>1. n - 1 \in 0..Cardinality(S) /\ n - 1 \notin missing
      <4>1. n - 1 \in Nat /\ n - 1 \in 0..Cardinality(S) /\ n - 1 < n
        BY <1>1, <2>3, <2>5
      <4>2. <<n - 1, n>> \in OpToRel(<, Nat)
        BY <2>3, <4>1 DEF OpToRel
      <4> QED BY <2>2, <4>1, <4>2
    <3>2. PICK g : SumsTo(Small(n - 1), v, g)
      BY <3>1
    <3> DEFINE h == [s \in Small(n) |-> IF s = {} THEN 0
                       ELSE LET x == CHOOSE x \in s : TRUE IN v[x] + g[s \ {x}]]
    <3>3. \A s \in Small(n - 1) : s \in Small(n) /\ h[s] = g[s]
      <4>1. \A s \in Small(n - 1) : s \in Small(n)
        <5>1. \A s \in SUBSET S : Cardinality(s) <= n - 1 => Cardinality(s) <= n
          BY <1>2, <2>3
        <5> QED BY <5>1
      <4>2. \A s \in Small(n - 1) : g[s] = IF s = {} THEN 0
              ELSE LET x == CHOOSE x \in s : TRUE IN v[x] + g[s \ {x}]
        BY <3>2 DEF SumsTo
      <4> QED BY <4>1, <4>2
    <3>4. ASSUME NEW s \in Small(n), s # {}
          PROVE  LET x == CHOOSE x \in s : TRUE IN s \ {x} \in Small(n - 1)
      <4> DEFINE x == CHOOSE x \in s : TRUE
      <4>1. x \in s
        BY <3>4
      <4> HIDE DEF x
      <4>2. Cardinality(s \ {x}) = Cardinality(s) - 1 /\ s \ {x} \in SUBSET S
        BY <1>2, <4>1, FS_RemoveElement
      <4>3. Cardinality(s \ {x}) <= n - 1
        BY <1>2, <2>3, <3>4, <4>2
      <4>4. s \ {x} \in Small(n - 1)
        BY <4>2, <4>3
      <4> QED BY <4>4 DEF x
    <3>5. ASSUME NEW s \in Small(n)
          PROVE  h[s] = IF s = {} THEN 0 ELSE LET x == CHOOSE x \in s : TRUE IN v[x] + h[s \ {x}]
      <4>1. CASE s = {}
        BY <4>1
      <4>2. CASE s # {}
        <5> DEFINE x == CHOOSE x \in s : TRUE
        <5>1. h[s] = v[x] + g[s \ {x}]
          BY <4>2
        <5>2. h[s \ {x}] = g[s \ {x}]
          BY <3>3, <3>4, <4>2
        <5> QED BY <4>2, <5>1, <5>2
      <4> QED BY <4>1, <4>2
    <3>6. h = [s \in Small(n) |-> h[s]]
      OBVIOUS
    <3> HIDE DEF h
    <3>7. h = [s \in Small(n) |-> IF s = {} THEN 0
                 ELSE LET x == CHOOSE x \in s : TRUE IN v[x] + h[s \ {x}]]
      BY <3>5, <3>6
    <3> QED BY <2>3, <3>7 DEF SumsTo
  <2> QED BY <2>4, <2>5
<1>4. Small(Cardinality(S)) = SUBSET S
  BY <1>2
<1>5. \E g : SumsTo(Small(Cardinality(S)), v, g)
  <2>1. Cardinality(S) \in 0..Cardinality(S)
    BY <1>1
  <2> QED BY <1>3, <2>1
<1> QED BY <1>4, <1>5 DEF Sums

Pick(T) == CHOOSE x \in T : TRUE

LEMMA SumEmpty ==
  ASSUME NEW S, NEW v, NEW g, Sums(S, v, g)
  PROVE  g[{}] = 0
BY DEF Sums, SumsTo

LEMMA SumAt ==
  ASSUME NEW S, NEW v, NEW g, Sums(S, v, g), NEW T \in SUBSET S, T # {}
  PROVE  Pick(T) \in T /\ g[T] = v[Pick(T)] + g[T \ {Pick(T)}]
<1>1. Pick(T) \in T
  BY DEF Pick
<1>2. g[T] = v[Pick(T)] + g[T \ {Pick(T)}]
  BY DEF Sums, SumsTo, Pick
<1> QED BY <1>1, <1>2

LEMMA SumIsFunction ==
  ASSUME NEW S, NEW v, NEW g, Sums(S, v, g)
  PROVE  g = [s \in SUBSET S |-> g[s]]
<1> DEFINE e(s) == IF s = {} THEN 0 ELSE LET x == CHOOSE x \in s : TRUE IN v[x] + g[s \ {x}]
<1>1. g = [s \in SUBSET S |-> e(s)]
  BY Zenon DEF Sums, SumsTo
<1> HIDE DEF e
<1> QED BY <1>1

\* A sum of integers is one, and there is one function only.
LEMMA SumIsInt ==
  ASSUME NEW S, IsFiniteSet(S), NEW v, \A x \in S : v[x] \in Int, NEW g, Sums(S, v, g)
  PROVE  \A T \in SUBSET S : g[T] \in Int
<1> DEFINE Bad == {T \in SUBSET S : g[T] \notin Int}
<1> SUFFICES ASSUME Bad # {} PROVE FALSE
  OBVIOUS
<1>1. PICK T \in Bad : \A U \in Bad : U \subseteq T => U = T
  <2>1. Bad \in SUBSET (SUBSET S)
    OBVIOUS
  <2> HIDE DEF Bad
  <2> QED BY <2>1, Smallest
<1>2. T # {} /\ T \in SUBSET S
  BY SumEmpty
<1>3. PICK x \in T : g[T] = v[x] + g[T \ {x}]
  <2>1. Pick(T) \in T /\ g[T] = v[Pick(T)] + g[T \ {Pick(T)}]
    BY <1>2, SumAt
  <2> QED BY <2>1
<1>4. T \ {x} \notin Bad /\ T \ {x} \in SUBSET S
  BY <1>1, <1>3
<1> QED BY <1>3, <1>4

LEMMA SumUnique ==
  ASSUME NEW S, IsFiniteSet(S), NEW v, NEW g, Sums(S, v, g), NEW h, Sums(S, v, h)
  PROVE  g = h
<1> DEFINE Bad == {T \in SUBSET S : g[T] # h[T]}
<1>1. Bad = {}
  <2> SUFFICES ASSUME Bad # {} PROVE FALSE
    OBVIOUS
  <2>1. PICK T \in Bad : \A U \in Bad : U \subseteq T => U = T
    <3>1. Bad \in SUBSET (SUBSET S)
      OBVIOUS
    <3> HIDE DEF Bad
    <3> QED BY <3>1, Smallest
  <2>2. T # {} /\ T \in SUBSET S
    <3>1. g[{}] = 0 /\ h[{}] = 0
      BY SumEmpty
    <3> QED BY <3>1
  <2>3. PICK x \in T : g[T] = v[x] + g[T \ {x}] /\ h[T] = v[x] + h[T \ {x}]
    <3>1. Pick(T) \in T /\ g[T] = v[Pick(T)] + g[T \ {Pick(T)}]
      BY <2>2, SumAt
    <3>2. h[T] = v[Pick(T)] + h[T \ {Pick(T)}]
      BY <2>2, SumAt
    <3> QED BY <3>1, <3>2
  <2>5. T \ {x} \notin Bad /\ T \ {x} \in SUBSET S
    BY <2>1, <2>3
  <2> QED BY <2>2, <2>3, <2>5
<1>2. g = [s \in SUBSET S |-> g[s]] /\ h = [s \in SUBSET S |-> h[s]]
  BY SumIsFunction
<1> QED BY <1>1, <1>2

\* Whichever element is taken out, its value is what the sum loses.
LEMMA SumTakeOut ==
  ASSUME NEW S, IsFiniteSet(S), NEW v, \A x \in S : v[x] \in Int, NEW g, Sums(S, v, g),
         NEW T \in SUBSET S, NEW x \in T
  PROVE  g[T] = v[x] + g[T \ {x}]
<1> DEFINE Bad == {U \in SUBSET S : \E y \in U : g[U] # v[y] + g[U \ {y}]}
<1>1. Bad = {}
  <2> SUFFICES ASSUME Bad # {} PROVE FALSE
    OBVIOUS
  <2>1. PICK U \in Bad : \A W \in Bad : W \subseteq U => W = U
    <3>1. Bad \in SUBSET (SUBSET S)
      OBVIOUS
    <3> HIDE DEF Bad
    <3> QED BY <3>1, Smallest
  <2>2. PICK y \in U : g[U] # v[y] + g[U \ {y}]
    BY <2>1
  <2>3. PICK c \in U : g[U] = v[c] + g[U \ {c}]
    <3>1. U \in SUBSET S /\ U # {}
      BY <2>1, <2>2
    <3> HIDE DEF Bad
    <3>2. Pick(U) \in U /\ g[U] = v[Pick(U)] + g[U \ {Pick(U)}]
      BY <3>1, SumAt
    <3> QED BY <3>2
  <2>4. c # y
    BY <2>2, <2>3
  <2> DEFINE R == (U \ {c}) \ {y}
  <2>5. R = (U \ {y}) \ {c} /\ R \in SUBSET S
    BY <2>1
  <2>6. g[U \ {c}] = v[y] + g[R]
    <3>1. U \ {c} \notin Bad /\ U \ {c} \in SUBSET S /\ y \in U \ {c}
      BY <2>1, <2>2, <2>3, <2>4
    <3> QED BY <3>1
  <2>7. g[U \ {y}] = v[c] + g[R]
    <3>1. U \ {y} \notin Bad /\ U \ {y} \in SUBSET S /\ c \in U \ {y}
      BY <2>1, <2>2, <2>3, <2>4
    <3> QED BY <2>5, <3>1
  <2>8. v[c] \in Int /\ v[y] \in Int /\ g[R] \in Int
    BY <2>1, <2>2, <2>3, <2>5, SumIsInt
  <2> HIDE DEF R
  <2> QED BY <2>2, <2>3, <2>6, <2>7, <2>8
<1> QED BY <1>1

FiniteSums(S, v, g) == IsFiniteSet(S) /\ (\A x \in S : v[x] \in Int) /\ Sums(S, v, g)

\* b takes the elements of T one for one to those of I, of the same values.
OneForOne(T, v, b, I, w) ==
  /\ \A x \in T : w[b[x]] = v[x]
  /\ \A x, y \in T : b[x] = b[y] => x = y
  /\ I = {b[x] : x \in T}

\* Sums of the same values, one for one, are the same.
LEMMA SumSame ==
  ASSUME NEW S, NEW v, NEW g, FiniteSums(S, v, g), NEW R, NEW w, NEW h, FiniteSums(R, w, h),
         NEW b, NEW T \in SUBSET S, NEW I \in SUBSET R, OneForOne(T, v, b, I, w)
  PROVE  g[T] = h[I]
<1>0. Sums(S, v, g) /\ Sums(R, w, h) /\ IsFiniteSet(S) /\ IsFiniteSet(R) /\ \A x \in R : w[x] \in Int
  BY DEF FiniteSums
<1>1. /\ \A x \in T : w[b[x]] = v[x]
      /\ \A x, y \in T : b[x] = b[y] => x = y
      /\ I = {b[x] : x \in T}
  BY DEF OneForOne
<1> DEFINE Bad == {U \in SUBSET T : g[U] # h[{b[x] : x \in U}]}
<1>2. Bad = {}
  <2> SUFFICES ASSUME Bad # {} PROVE FALSE
    OBVIOUS
  <2>1. PICK U \in Bad : \A W \in Bad : W \subseteq U => W = U
    <3>1. Bad \in SUBSET (SUBSET S)
      OBVIOUS
    <3> HIDE DEF Bad
    <3> QED BY <1>0, <3>1, Smallest
  <2> DEFINE image(W) == {b[x] : x \in W}
  <2>2. U # {}
    <3>1. g[{}] = 0 /\ h[{}] = 0
      BY <1>0, SumEmpty
    <3>2. image({}) = {}
      OBVIOUS
    <3> QED BY <2>1, <3>1, <3>2
  <2>3. PICK x \in U : g[U] = v[x] + g[U \ {x}]
    <3>1. U \in SUBSET S
      BY <2>1
    <3> HIDE DEF Bad, image
    <3>2. Pick(U) \in U /\ g[U] = v[Pick(U)] + g[U \ {Pick(U)}]
      BY <1>0, <2>2, <3>1, SumAt
    <3> QED BY <3>2
  <2>4. image(U \ {x}) = image(U) \ {b[x]}
    <3>1. \A y \in U : y \in T
      BY <2>1
    <3> QED BY <1>1, <2>3, <3>1
  <2>5. image(U) \in SUBSET R /\ b[x] \in image(U)
    BY <1>1, <2>1, <2>3
  <2>6. h[image(U)] = w[b[x]] + h[image(U) \ {b[x]}]
    <3>1. PICK V : V = image(U)
      OBVIOUS
    <3> HIDE DEF image
    <3>2. PICK y : y = b[x]
      OBVIOUS
    <3>3. V \in SUBSET R /\ y \in V
      BY <2>5, <3>1, <3>2
    <3>4. h[V] = w[y] + h[V \ {y}]
      BY <1>0, <3>3, SumTakeOut
    <3> QED BY <3>1, <3>2, <3>4
  <2>7. U \ {x} \in SUBSET T /\ U \ {x} \notin Bad
    BY <2>1, <2>3
  <2>8. g[U \ {x}] = h[image(U \ {x})]
    BY <2>7
  <2>9. w[b[x]] = v[x]
    BY <1>1, <2>1, <2>3
  <2> QED BY <2>1, <2>3, <2>4, <2>6, <2>8, <2>9
<1>3. T \notin Bad
  BY <1>2
<1> QED BY <1>1, <1>3

\* What a cart's lines and an order's items add up to, as such sums.
LineValues(lines) == [p \in DOMAIN lines |-> lines[p].price * lines[p].quantity]
ItemValues(sold) == [i \in sold |-> i.price * i.quantity]

\* The fold of the model sums the values of all its elements.
LEMMA LinesTotalSum ==
  ASSUME NEW lines, IsFiniteSet(DOMAIN lines),
         NEW g, Sums(DOMAIN lines, LineValues(lines), g)
  PROVE  LinesTotal(lines) = g[DOMAIN lines]
<1> DEFINE D == DOMAIN lines
           v == LineValues(lines)
           Fold(h) == h = [s \in SUBSET D |-> IF s = {} THEN 0
                             ELSE LET x == CHOOSE x \in s : TRUE
                                  IN lines[x].price * lines[x].quantity + h[s \ {x}]]
           eh(h, s) == IF s = {} THEN 0 ELSE LET x == CHOOSE x \in s : TRUE
                         IN lines[x].price * lines[x].quantity + h[s \ {x}]
           ev(h, s) == IF s = {} THEN 0 ELSE LET x == CHOOSE x \in s : TRUE IN v[x] + h[s \ {x}]
<1>1. \A h : \A s \in SUBSET D : eh(h, s) = ev(h, s)
  <2> TAKE h
  <2> TAKE s \in SUBSET D
  <2>1. CASE s = {}
    BY <2>1
  <2>2. CASE s # {}
    <3>1. (CHOOSE x \in s : TRUE) \in s
      BY <2>2
    <3>2. \A x \in s : v[x] = lines[x].price * lines[x].quantity
      BY DEF LineValues
    <3> QED BY <2>2, <3>1, <3>2
  <2> QED BY <2>1, <2>2
<1>2. \A h : Fold(h) <=> Sums(D, v, h)
  <2> TAKE h
  <2>1. [s \in SUBSET D |-> eh(h, s)] = [s \in SUBSET D |-> ev(h, s)]
    <3> HIDE DEF eh, ev
    <3> QED BY <1>1
  <2>2. Fold(h) <=> h = [s \in SUBSET D |-> eh(h, s)]
    OBVIOUS
  <2>3. Sums(D, v, h) <=> h = [s \in SUBSET D |-> ev(h, s)]
    BY DEF Sums, SumsTo
  <2> HIDE DEF Fold, eh, ev
  <2> QED BY <2>1, <2>2, <2>3
<1>3. \A h : Fold(h) <=> h = g
  <2>1. \A h : Sums(D, v, h) => h = g
    BY SumUnique
  <2> HIDE DEF Fold
  <2> QED BY <1>2, <2>1
<1>4. (CHOOSE h : Fold(h)) = g
  <2> HIDE DEF Fold
  <2> QED BY <1>3
<1>5. LinesTotal(lines) = (CHOOSE h : Fold(h))[D]
  BY DEF LinesTotal, MapThenSumSet, MapThenFoldSet
<1> QED BY <1>4, <1>5

LEMMA ItemsTotalSum ==
  ASSUME NEW sold, IsFiniteSet(sold), NEW g, Sums(sold, ItemValues(sold), g)
  PROVE  ItemsTotal(sold) = g[sold]
<1> DEFINE v == ItemValues(sold)
           Fold(h) == h = [s \in SUBSET sold |-> IF s = {} THEN 0
                             ELSE LET x == CHOOSE x \in s : TRUE
                                  IN x.price * x.quantity + h[s \ {x}]]
           eh(h, s) == IF s = {} THEN 0 ELSE LET x == CHOOSE x \in s : TRUE
                         IN x.price * x.quantity + h[s \ {x}]
           ev(h, s) == IF s = {} THEN 0 ELSE LET x == CHOOSE x \in s : TRUE IN v[x] + h[s \ {x}]
<1>1. \A h : \A s \in SUBSET sold : eh(h, s) = ev(h, s)
  <2> TAKE h
  <2> TAKE s \in SUBSET sold
  <2>1. CASE s = {}
    BY <2>1
  <2>2. CASE s # {}
    <3>1. (CHOOSE x \in s : TRUE) \in s
      BY <2>2
    <3>2. \A x \in s : v[x] = x.price * x.quantity
      BY DEF ItemValues
    <3> QED BY <2>2, <3>1, <3>2
  <2> QED BY <2>1, <2>2
<1>2. \A h : Fold(h) <=> Sums(sold, v, h)
  <2> TAKE h
  <2>1. [s \in SUBSET sold |-> eh(h, s)] = [s \in SUBSET sold |-> ev(h, s)]
    <3> HIDE DEF eh, ev
    <3> QED BY <1>1
  <2>2. Fold(h) <=> h = [s \in SUBSET sold |-> eh(h, s)]
    OBVIOUS
  <2>3. Sums(sold, v, h) <=> h = [s \in SUBSET sold |-> ev(h, s)]
    BY DEF Sums, SumsTo
  <2> HIDE DEF Fold, eh, ev
  <2> QED BY <2>1, <2>2, <2>3
<1>3. \A h : Fold(h) <=> h = g
  <2>1. \A h : Sums(sold, v, h) => h = g
    BY SumUnique
  <2> HIDE DEF Fold
  <2> QED BY <1>2, <2>1
<1>4. (CHOOSE h : Fold(h)) = g
  <2> HIDE DEF Fold
  <2> QED BY <1>3
<1>5. ItemsTotal(sold) = (CHOOSE h : Fold(h))[sold]
  BY DEF ItemsTotal, MapThenSumSet, MapThenFoldSet
<1> QED BY <1>4, <1>5

----------------------------------------------------------------------------
\* What a reward takes off.

\* What a function makes of finitely many arguments is finite.
LEMMA FiniteImage ==
  ASSUME NEW S, IsFiniteSet(S), NEW f
  PROVE  IsFiniteSet({f[x] : x \in S})
<1> DEFINE g == [x \in S |-> f[x]]
           image == {f[x] : x \in S}
<1>1. g \in Surjection(S, image)
  BY DEF Surjection
<1>2. PICK h : h = g
  OBVIOUS
<1>3. PICK T : T = image
  OBVIOUS
<1>4. h \in Surjection(S, T)
  BY <1>1, <1>2, <1>3
<1>5. IsFiniteSet(T)
  BY <1>4, FS_Surjection
<1> QED BY <1>3, <1>5

\* Lines read from a cart: some products, at least one unit of each, at a price.
Priced(lines) ==
  /\ DOMAIN lines \subseteq Products
  /\ \A p \in DOMAIN lines : lines[p].quantity \in Nat \ {0} /\ lines[p].price \in Nat \ {0}

LEMMA PricedSums ==
  ASSUME NEW lines, Priced(lines)
  PROVE  /\ IsFiniteSet(DOMAIN lines)
         /\ \A p \in DOMAIN lines : LineValues(lines)[p] \in Int
         /\ \E g : Sums(DOMAIN lines, LineValues(lines), g)
         /\ LinesTotal(lines) \in Int
<1>1. IsFiniteSet(DOMAIN lines)
  BY TermsAssumption, FS_Subset DEF Priced
<1>2. \A p \in DOMAIN lines : LineValues(lines)[p] \in Int
  BY DEF Priced, LineValues
<1>3. PICK g : Sums(DOMAIN lines, LineValues(lines), g)
  BY <1>1, SumExists
<1>4. LinesTotal(lines) = g[DOMAIN lines]
  BY <1>1, <1>3, LinesTotalSum
<1>5. g[DOMAIN lines] \in Int
  <2>1. PICK v : v = LineValues(lines)
    OBVIOUS
  <2>2. DOMAIN lines \in SUBSET (DOMAIN lines)
    OBVIOUS
  <2> QED BY <1>1, <1>2, <1>3, <2>1, <2>2, SumIsInt
<1> QED BY <1>1, <1>2, <1>3, <1>4, <1>5

\* The bottle made free is one of the lines.
LEMMA FreeIsALine ==
  ASSUME NEW r \in Rewards, NEW lines, Priced(lines)
  PROVE  FreeProduct(r, lines) \in DOMAIN lines \cup {None}
<1> DEFINE cap == Terms[r].cap
           eligible == {p \in DOMAIN lines : lines[p].quantity > 0 /\ lines[p].price <= cap}
           dearest == {p \in eligible : \A q \in eligible : lines[q].price <= lines[p].price}
           prices == {lines[p].price : p \in eligible}
<1> SUFFICES ASSUME eligible # {} PROVE Min(dearest) \in DOMAIN lines
  BY DEF FreeProduct, ChooseFreeBottle
<1>1. IsFiniteSet(eligible)
  BY PricedSums, FS_Subset
<1>2. Max(prices) \in prices /\ \A x \in prices : x <= Max(prices)
  <2>1. IsFiniteSet(prices)
    <3> DEFINE f == [p \in DOMAIN lines |-> lines[p].price]
    <3>1. prices = {f[p] : p \in eligible}
      OBVIOUS
    <3> HIDE DEF eligible, prices, f
    <3> QED BY <1>1, <3>1, FiniteImage
  <2>2. prices \in SUBSET Nat /\ prices # {}
    BY DEF Priced
  <2> HIDE DEF prices
  <2> QED BY <2>1, <2>2, Largest
<1>3. dearest # {}
  <2>1. PICK p \in eligible : lines[p].price = Max(prices)
    BY <1>2
  <2>2. \A q \in eligible : lines[q].price \in prices
    OBVIOUS
  <2>3. p \in dearest
    <3> HIDE DEF prices, eligible
    <3> QED BY <1>2, <2>1, <2>2
  <2> QED BY <2>3
<1>4. dearest \subseteq Nat /\ dearest \subseteq DOMAIN lines
  BY TermsAssumption DEF Priced
<1>5. \E p \in dearest : \A q \in dearest : p <= q
  <2> HIDE DEF dearest
  <2>1. PICK p \in dearest : \A q \in dearest : <<q, p>> \notin OpToRel(<, Nat)
    BY <1>3, <1>4, NatLessThanWellFounded, WFMin, Zenon
  <2>2. \A q \in dearest : q \in Nat /\ p \in Nat /\ ~(q < p)
    BY <1>4, <2>1 DEF OpToRel
  <2>3. \A q \in dearest : p <= q
    <3> TAKE q \in dearest
    <3>1. q \in Nat /\ p \in Nat /\ ~(q < p)
      BY <2>2
    <3> QED BY <3>1
  <2> QED BY <2>3
<1>6. Min(dearest) \in dearest
  <2> HIDE DEF dearest
  <2> QED BY <1>5 DEF Min
<1> QED BY <1>4, <1>6

\* The rows an order has of the lines: what is paid of each product.
SoldRow(lines, paid, p) == [product |-> p, quantity |-> paid[p], price |-> lines[p].price]

\* An order's rows add up to what is paid of its lines.
LEMMA SoldSum ==
  ASSUME NEW lines, Priced(lines), NEW paid, \A p \in DOMAIN lines : paid[p] \in Nat,
         NEW some \in SUBSET (DOMAIN lines),
         NEW R, {SoldRow(lines, paid, p) : p \in some} \subseteq R,
         NEW w, \A i \in R : w[i] = i.price * i.quantity, NEW h, FiniteSums(R, w, h),
         NEW v, v = [p \in DOMAIN lines |-> lines[p].price * paid[p]],
         NEW g, Sums(DOMAIN lines, v, g)
  PROVE  h[{SoldRow(lines, paid, p) : p \in some}] = g[some]
<1>1. PICK D : D = DOMAIN lines
  OBVIOUS
<1>2. IsFiniteSet(D) /\ some \in SUBSET D /\ Sums(D, v, g)
  BY <1>1, PricedSums
<1>3. \A p \in D : v[p] = lines[p].price * paid[p] /\ v[p] \in Int
  <2>1. \A p \in D : lines[p].price \in Nat /\ paid[p] \in Nat
    BY <1>1 DEF Priced
  <2> QED BY <1>1, <2>1
<1> DEFINE row == [p \in D |-> SoldRow(lines, paid, p)]
<1>4. PICK b : b = row
  OBVIOUS
<1>5. \A p \in some : b[p] = SoldRow(lines, paid, p)
  BY <1>2, <1>4
<1>6. \A p \in some : b[p] \in R /\ w[b[p]] = v[p]
  <2>1. \A p \in some : SoldRow(lines, paid, p) \in R
    OBVIOUS
  <2>2. \A p \in some : SoldRow(lines, paid, p).price * SoldRow(lines, paid, p).quantity = v[p]
    BY <1>2, <1>3 DEF SoldRow
  <2> QED BY <1>5, <2>1, <2>2
<1>7. \A p, q \in some : b[p] = b[q] => p = q
  <2>1. \A p \in some : SoldRow(lines, paid, p).product = p
    BY DEF SoldRow
  <2> HIDE DEF row
  <2>2. \A p \in some : b[p].product = p
    BY <1>5, <2>1
  <2> QED BY <2>2
<1>8. PICK I : I = {b[p] : p \in some}
  OBVIOUS
<1>9. OneForOne(some, v, b, I, w)
  BY <1>6, <1>7, <1>8 DEF OneForOne
<1>10. I \in SUBSET R
  BY <1>6, <1>8
<1>11. FiniteSums(D, v, g)
  BY <1>2, <1>3 DEF FiniteSums
<1>12. g[some] = h[I]
  <2> HIDE DEF row
  <2> QED BY <1>2, <1>9, <1>10, <1>11, SumSame
<1>13. I = {SoldRow(lines, paid, p) : p \in some}
  BY <1>5, <1>8
<1> QED BY <1>12, <1>13

\* A sum is what it is without an element that counts for nothing.
LEMMA SumWithoutZero ==
  ASSUME NEW S, NEW v, NEW g, FiniteSums(S, v, g), NEW T \in SUBSET S, NEW x, v[x] = 0
  PROVE  g[T] = g[T \ {x}]
<1>1. CASE x \in T
  <2>1. IsFiniteSet(S) /\ (\A y \in S : v[y] \in Int) /\ Sums(S, v, g)
    BY DEF FiniteSums
  <2>2. T \ {x} \in SUBSET S
    OBVIOUS
  <2>3. g[T] = v[x] + g[T \ {x}]
    BY <1>1, <2>1, SumTakeOut
  <2>4. g[T \ {x}] \in Int
    BY <2>1, <2>2, SumIsInt
  <2> QED BY <2>3, <2>4
<1>2. CASE x \notin T
  <2>1. T \ {x} = T
    BY <1>2
  <2> QED BY <2>1
<1> QED BY <1>1, <1>2

\* One unit taken from one line takes its price from the sum.
LEMMA OneUnitLess ==
  ASSUME NEW S, NEW v, NEW g, FiniteSums(S, v, g), NEW w, NEW h, FiniteSums(S, w, h),
         NEW f \in S, NEW c \in Int, w[f] = v[f] - c, \A x \in S \ {f} : w[x] = v[x]
  PROVE  h[S] = g[S] - c
<1>1. /\ IsFiniteSet(S) /\ Sums(S, v, g) /\ Sums(S, w, h)
      /\ \A x \in S : v[x] \in Int /\ w[x] \in Int
  BY DEF FiniteSums
<1>2. PICK T : T = S \ {f}
  OBVIOUS
<1>3. S \in SUBSET S /\ T \in SUBSET S
  BY <1>2
<1>4. g[S] = v[f] + g[T]
  BY <1>1, <1>2, <1>3, SumTakeOut
<1>5. h[S] = w[f] + h[T]
  <2>1. \A x \in S : w[x] \in Int
    BY <1>1
  <2>2. h[S] = w[f] + h[S \ {f}]
    BY <1>1, <1>3, <2>1, SumTakeOut
  <2> QED BY <1>2, <2>2
<1>6. PICK b : b = [x \in S |-> x]
  OBVIOUS
<1>7. OneForOne(T, v, b, T, w)
  <2>1. \A x \in T : b[x] = x /\ w[x] = v[x]
    BY <1>2, <1>3, <1>6
  <2>2. T = {b[x] : x \in T}
    BY <2>1
  <2> QED BY <2>1, <2>2 DEF OneForOne
<1>8. g[T] = h[T]
  BY <1>3, <1>7, SumSame
<1>9. g[T] \in Int /\ v[f] \in Int
  BY <1>1, <1>3, SumIsInt
<1> QED BY <1>4, <1>5, <1>8, <1>9

\* An order's rows add up to the lines, less one unit of what is free.
LEMMA RowsAddUp ==
  ASSUME NEW lines, Priced(lines), NEW r \in Rewards \cup {None},
         NEW free, free = IF r = None THEN None ELSE FreeProduct(r, lines)
  PROVE  /\ ItemsTotal(OrderItems(r, lines)) =
              LinesTotal(lines) - (IF free = None THEN 0 ELSE lines[free].price)
         /\ free \in DOMAIN lines \cup {None}
<1>1. free \in DOMAIN lines \cup {None} /\ None \notin DOMAIN lines
  BY TermsAssumption, FreeIsALine DEF Priced
<1>2. PICK D : D = DOMAIN lines
  OBVIOUS
<1>3. IsFiniteSet(D) /\ \A p \in D : lines[p].quantity \in Nat \ {0} /\ lines[p].price \in Nat \ {0}
  BY <1>2, PricedSums DEF Priced
<1> DEFINE left(p) == lines[p].quantity - (IF p = free THEN 1 ELSE 0)
<1>4. PICK paid : paid = [p \in D |-> left(p)]
  OBVIOUS
<1>5. \A p \in D : paid[p] = left(p) /\ paid[p] \in Nat
  BY <1>3, <1>4
<1>6. PICK some : some = {p \in D : paid[p] > 0}
  OBVIOUS
<1> DEFINE rows == {SoldRow(lines, paid, p) : p \in some}
           gift(p) == [product |-> p, quantity |-> 1, price |-> 0]
           gifts == {gift(p) : p \in {free} \cap D}
<1>7. OrderItems(r, lines) = rows \cup gifts
  <2>1. OrderItems(r, lines) =
          {[product |-> p, quantity |-> left(p), price |-> lines[p].price] : p \in {q \in D : left(q) > 0}}
          \cup gifts
    BY <1>2 DEF OrderItems
  <2>2. some = {q \in D : left(q) > 0}
    BY <1>5, <1>6
  <2>3. \A p \in some : SoldRow(lines, paid, p) =
          [product |-> p, quantity |-> left(p), price |-> lines[p].price]
    BY <1>5, <1>6 DEF SoldRow
  <2> HIDE DEF left, gifts
  <2> QED BY <2>1, <2>2, <2>3
<1>8. PICK R : R = rows \cup gifts
  OBVIOUS
<1>9. IsFiniteSet(R)
  <2>1. IsFiniteSet(rows)
    <3>1. PICK b : b = [p \in D |-> SoldRow(lines, paid, p)]
      OBVIOUS
    <3>2. rows = {b[p] : p \in some}
      BY <1>6, <3>1
    <3>3. IsFiniteSet(some)
      BY <1>3, <1>6, FS_Subset
    <3> HIDE DEF rows
    <3> QED BY <3>2, <3>3, FiniteImage
  <2>2. IsFiniteSet(gifts)
    <3>1. gifts = {} \/ gifts = {gift(free)}
      OBVIOUS
    <3>2. PICK x : x = gift(free)
      OBVIOUS
    <3>3. IsFiniteSet({}) /\ IsFiniteSet({x})
      BY FS_EmptySet, FS_Singleton
    <3> HIDE DEF gifts, gift
    <3> QED BY <3>1, <3>2, <3>3
  <2> HIDE DEF rows, gifts
  <2> QED BY <1>8, <2>1, <2>2, FS_Union
<1>10. \A i \in R : i.price * i.quantity \in Int
  <2>1. \A p \in some : SoldRow(lines, paid, p).price * SoldRow(lines, paid, p).quantity \in Int
    BY <1>3, <1>5, <1>6 DEF SoldRow
  <2>2. \A p \in {free} \cap D : gift(p).price * gift(p).quantity \in Int
    OBVIOUS
  <2> HIDE DEF gift
  <2> QED BY <1>8, <2>1, <2>2
<1>11. PICK w : w = ItemValues(R)
  OBVIOUS
<1>12. \A i \in R : w[i] = i.price * i.quantity /\ w[i] \in Int
  BY <1>10, <1>11 DEF ItemValues
<1>13. PICK h : Sums(R, w, h)
  BY <1>9, SumExists
<1>14. FiniteSums(R, w, h)
  BY <1>9, <1>12, <1>13 DEF FiniteSums
<1>15. ItemsTotal(R) = h[R]
  BY <1>9, <1>11, <1>13, ItemsTotalSum
<1>16. PICK u : u = [p \in D |-> lines[p].price * paid[p]]
  OBVIOUS
<1>17. \A p \in D : u[p] = lines[p].price * paid[p] /\ u[p] \in Int
  BY <1>3, <1>5, <1>16
<1>18. PICK k : Sums(D, u, k)
  BY <1>3, SumExists
<1>19. FiniteSums(D, u, k)
  BY <1>3, <1>17, <1>18 DEF FiniteSums
<1>20. h[rows] = k[some]
  <2>1. rows \subseteq R /\ some \in SUBSET D
    BY <1>6, <1>8
  <2>2. \A i \in R : w[i] = i.price * i.quantity
    BY <1>12
  <2> QED BY <1>2, <1>5, <1>14, <1>16, <1>18, <2>1, <2>2, SoldSum
<1>21. h[R] = h[rows]
  <2>1. CASE gifts = {}
    BY <1>8, <2>1
  <2>2. CASE gifts # {}
    <3>1. gifts = {gift(free)} /\ free \in D
      BY <2>2
    <3>2. \A i \in rows : i.price # 0
      BY <1>3, <1>6 DEF SoldRow
    <3>3. gift(free) \notin rows
      BY <3>2
    <3>4. R \ {gift(free)} = rows
      <4> HIDE DEF gift, rows, gifts
      <4> QED BY <1>8, <3>1, <3>3
    <3>5. gift(free) \in R
      <4> HIDE DEF gift, rows, gifts
      <4> QED BY <1>8, <3>1
    <3>6. w[gift(free)] = 0
      BY <1>12, <3>5
    <3>7. R \in SUBSET R
      OBVIOUS
    <3> HIDE DEF gift, rows, gifts
    <3> QED BY <1>14, <3>4, <3>6, <3>7, SumWithoutZero
  <2> QED BY <2>1, <2>2
<1>22. k[some] = k[D]
  <2>1. CASE some = D
    BY <2>1
  <2>2. CASE some # D
    <3>1. PICK p \in D : ~(paid[p] > 0)
      BY <1>6, <2>2
    <3>2. \A q \in D : q # free => paid[q] > 0
      BY <1>3, <1>5
    <3>3. p = free /\ paid[p] = 0
      BY <1>5, <3>1, <3>2
    <3>4. some = D \ {p}
      BY <1>6, <3>2, <3>3
    <3>5. u[p] = 0
      BY <1>3, <1>17, <3>3
    <3>6. D \in SUBSET D
      OBVIOUS
    <3> QED BY <1>19, <3>4, <3>5, <3>6, SumWithoutZero
  <2> QED BY <2>1, <2>2
<1>23. PICK v : v = LineValues(lines)
  OBVIOUS
<1>24. PICK g : Sums(D, v, g)
  BY <1>3, SumExists
<1>25. \A p \in D : v[p] = lines[p].price * lines[p].quantity /\ v[p] \in Int
  BY <1>2, <1>3, <1>23 DEF LineValues
<1>26. FiniteSums(D, v, g)
  BY <1>3, <1>24, <1>25 DEF FiniteSums
<1>27. LinesTotal(lines) = g[D]
  BY <1>2, <1>3, <1>23, <1>24, LinesTotalSum
<1>28. k[D] = g[D] - (IF free = None THEN 0 ELSE lines[free].price)
  <2>1. CASE free = None
    <3>1. \A p \in D : u[p] = v[p]
      <4>1. \A p \in D : paid[p] = lines[p].quantity
        BY <1>1, <1>2, <1>3, <1>5, <2>1
      <4> QED BY <1>17, <1>25, <4>1
    <3>2. u = v
      <4>1. v = [p \in D |-> v[p]]
        BY <1>2, <1>23 DEF LineValues
      <4>2. u = [p \in D |-> u[p]]
        BY <1>16
      <4> QED BY <3>1, <4>1, <4>2
    <3>3. k = g
      BY <1>3, <1>18, <1>24, <3>2, SumUnique
    <3>4. g[D] \in Int
      <4>1. D \in SUBSET D /\ \A p \in D : v[p] \in Int
        BY <1>25
      <4> QED BY <1>3, <1>24, <4>1, SumIsInt
    <3> QED BY <2>1, <3>3, <3>4
  <2>2. CASE free # None
    <3>1. free \in D /\ lines[free].price \in Int
      BY <1>1, <1>2, <1>3, <2>2
    <3>2. u[free] = v[free] - lines[free].price
      <4>1. lines[free].price \in Nat /\ lines[free].quantity \in Nat /\ paid[free] = lines[free].quantity - 1
        BY <1>3, <1>5, <3>1
      <4>2. lines[free].price * (lines[free].quantity - 1)
              = lines[free].price * lines[free].quantity - lines[free].price
        BY <4>1
      <4> QED BY <1>17, <1>25, <3>1, <4>1, <4>2
    <3>3. \A p \in D \ {free} : u[p] = v[p]
      <4>1. \A p \in D \ {free} : paid[p] = lines[p].quantity
        BY <1>3, <1>5
      <4> QED BY <1>17, <1>25, <4>1
    <3>4. PICK c : c = lines[free].price
      OBVIOUS
    <3>5. c \in Int /\ u[free] = v[free] - c
      BY <3>1, <3>2, <3>4
    <3>6. k[D] = g[D] - c
      BY <1>19, <1>26, <3>1, <3>3, <3>5, OneUnitLess
    <3> QED BY <2>2, <3>4, <3>6
  <2> QED BY <2>1, <2>2
<1> QED BY <1>1, <1>7, <1>8, <1>15, <1>20, <1>21, <1>22, <1>27, <1>28

\* The total of a new order is what its rows add up to, less a discount: a free
\* bottle is in the rows already, one unit of it at 0.
LEMMA DraftExplained ==
  ASSUME NEW lines, Priced(lines), NEW r \in Rewards \cup {None}
  PROVE  LinesTotal(lines) - (IF r = None THEN 0 ELSE Saving(r, lines)) =
           ItemsTotal(OrderItems(r, lines))
             - (IF r = None THEN 0 ELSE IF Terms[r].kind = "free_bottle" THEN 0 ELSE Saving(r, lines))
<1>1. PICK free : free = IF r = None THEN None ELSE FreeProduct(r, lines)
  OBVIOUS
<1>2. /\ ItemsTotal(OrderItems(r, lines)) =
           LinesTotal(lines) - (IF free = None THEN 0 ELSE lines[free].price)
      /\ free \in DOMAIN lines \cup {None}
  BY <1>1, RowsAddUp
<1>3. LinesTotal(lines) \in Int
  BY PricedSums
<1>4. free # None => lines[free].price \in Int
  BY <1>2 DEF Priced
<1>5. CASE r = None
  BY <1>1, <1>2, <1>3, <1>5
<1>6. CASE r # None /\ Terms[r].kind = "free_bottle"
  <2>1. Saving(r, lines) = IF free = None THEN 0 ELSE lines[free].price
    BY <1>1, <1>6 DEF Saving
  <2> QED BY <1>2, <1>3, <1>4, <1>6, <2>1
<1>7. CASE r # None /\ Terms[r].kind # "free_bottle"
  <2>1. free = None
    BY <1>1, <1>7 DEF FreeProduct
  <2>2. ItemsTotal(OrderItems(r, lines)) = LinesTotal(lines)
    BY <1>2, <1>3, <2>1
  <2> QED BY <1>7, <2>2
<1> QED BY <1>5, <1>6, <1>7

LEMMA SavingIsInt ==
  ASSUME NEW lines, Priced(lines), NEW r \in Rewards
  PROVE  Saving(r, lines) \in Int
<1>1. CASE Terms[r].kind = "discount_percent"
  <2>1. LinesTotal(lines) \in Int /\ Terms[r].value \in Int
    BY <1>1, TermsAssumption, PricedSums
  <2>2. \A x \in Int, y \in Int : (2 * x * y + 100) \div 200 \in Int
    OBVIOUS
  <2> QED BY <1>1, <2>1, <2>2 DEF Saving, PercentageOff
<1>2. CASE Terms[r].kind # "discount_percent"
  <2>1. FreeProduct(r, lines) \in DOMAIN lines \cup {None}
    BY FreeIsALine
  <2> QED BY <1>2, <2>1 DEF Saving, Priced
<1> QED BY <1>1, <1>2

----------------------------------------------------------------------------
\* What orders were charged.

\* A confirmation orders at prices the lines had, with a reward nobody has used
\* since it was planned under the account's lock.
TermsInv(s) ==
  /\ pc[s] \in {"checked", "place"} \cup Clearing => job[s].reward \in Rewards \cup {None}
  /\ pc[s] \in Clearing => Priced(job[s].lines)
  /\ pc[s] \in {"clear", "commit"} /\ job[s].reward # None => used[job[s].reward] = None

\* With IInv, the inductive invariant of the totals.
MoneyInv ==
  /\ price \in [Products -> Prices]
  /\ DOMAIN used = Rewards
  /\ \A r \in Rewards : used[r] # None => used[r].order \in 1..Len(orders)
  /\ \A i \in 1..Len(orders) : orders[i].reward \in Rewards \cup {None}
  /\ TotalExplained
  /\ \A s \in Sessions : TermsInv(s)

LEMMA OnlyOrdersUse ==
  ASSUME NEW s \in Sessions, Acts(s)
  PROVE  price' = price /\ (~CommitOrder(s) => UNCHANGED <<orders, used>>)
<1> USE DEF products, placed
<1>1. CASE EditCart(s)
  BY <1>1 DEF EditCart, Edit, FlushItem, InsertItem, CommitEdit
<1>2. CASE Converse(s)
  BY <1>2 DEF Converse, AnswerQuestions, OfferRewards, ShowSummary, PickReward, Cancel, CancelCheckout
<1>3. CASE PlaceOrder(s)
  BY <1>3 DEF PlaceOrder, Confirm, EnterConfirm, Submit, RefuseDelivery, LockCart, LockAccount,
              ClearCart, CommitOrder, CloseCheckout, TellPlaced, Refuse, RefuseReward, Fail, Told
<1>4. CASE Abort(s) \/ AskPayout(s) \/ Payout(s) \/ CommitPayout(s)
  BY <1>4 DEF Abort, AskPayout, Payout, CommitPayout
<1> QED BY <1>1, <1>2, <1>3, <1>4 DEF Acts

\* How a session comes to be placing, clearing and committing.
LEMMA PlacePath ==
  ASSUME IInv, NEW s \in Sessions, Acts(s)
  PROVE  /\ pc'[s] \in {"checked", "place"} \cup Clearing =>
              \/ EnterConfirm(s) /\ pc'[s] = "checked" /\ job'[s].reward = fsm.reward
              \/ /\ pc[s] \in {"checked", "place"} \cup Clearing
                 /\ job'[s].reward = job[s].reward
         /\ pc'[s] \in Clearing =>
              \/ LockCart(s) /\ job'[s].lines = Lines
              \/ pc[s] \in Clearing /\ job'[s] = job[s]
         /\ pc'[s] \in {"clear", "commit"} =>
              /\ job'[s] = job[s]
              /\ \/ pc[s] = "clear"
                 \/ pc[s] = "account" /\ (job[s].reward # None => used[job[s].reward] = None)
<1>1. Kinds /\ ShapeInv(s)
  BY DEF IInv, SessionInv
<1> USE DEF Kinds, Go, Leave, Finish, Clearing
<1>2. CASE EditCart(s)
  BY <1>1, <1>2 DEF EditCart, Edit, FlushItem, InsertItem, CommitEdit
<1>3. CASE Converse(s)
  BY <1>1, <1>3 DEF Converse, AnswerQuestions, OfferRewards, ShowSummary, PickReward, Cancel,
                    CancelCheckout, talk
<1>4. CASE EnterConfirm(s)
  BY <1>1, <1>4 DEF EnterConfirm, Draft
<1>5. CASE Confirm(s) \/ RefuseDelivery(s) \/ ClearCart(s) \/ Submit(s)
  BY <1>1, <1>5 DEF Confirm, RefuseDelivery, ClearCart, Submit
<1>6. CASE LockAccount(s)
  BY <1>1, <1>6 DEF LockAccount
<1>7. CASE LockCart(s)
  BY <1>1, <1>7 DEF LockCart, ShapeInv
<1>8. CASE CommitOrder(s) \/ CloseCheckout(s) \/ TellPlaced(s) \/ Refuse(s) \/ RefuseReward(s)
           \/ Fail(s) \/ Told(s)
  BY <1>1, <1>8 DEF CommitOrder, CloseCheckout, TellPlaced, Refuse, RefuseReward, Fail, Told
<1>9. CASE Abort(s) \/ AskPayout(s) \/ Payout(s) \/ CommitPayout(s)
  BY <1>1, <1>9 DEF Abort, AskPayout, Payout, CommitPayout
<1> QED BY <1>2, <1>3, <1>4, <1>5, <1>6, <1>7, <1>8, <1>9 DEF Acts, PlaceOrder

\* The cart's rows, read with their products' prices.
LEMMA LinesPriced ==
  ASSUME Kinds, price \in [Products -> Prices]
  PROVE  Priced(Lines)
BY CheckoutAssumption DEF Kinds, Row, Lines, InCart, Priced

\* An order that is committed explains its total, and disturbs no other's.
LEMMA CommitExplained ==
  ASSUME IInv, MoneyInv, NEW s \in Sessions, CommitOrder(s)
  PROVE  /\ DOMAIN used' = Rewards
         /\ \A r \in Rewards : used'[r] # None => used'[r].order \in 1..Len(orders')
         /\ \A i \in 1..Len(orders') : orders'[i].reward \in Rewards \cup {None}
         /\ TotalExplained'
<1> DEFINE j == job[s]
           n == Len(orders) + 1
           mark == [order |-> n, amount |-> Saving(j.reward, j.lines)]
<1>1. pc[s] = "commit" /\ Kinds /\ TermsInv(s)
  BY DEF CommitOrder, IInv, MoneyInv
<1>2. /\ j.reward \in Rewards \cup {None} /\ Priced(j.lines)
      /\ j.reward # None => used[j.reward] = None
  BY <1>1 DEF TermsInv, Clearing
<1>3. PICK S : orders \in Seq(S)
  BY <1>1 DEF Kinds
<1>4. /\ Len(orders') = n /\ Len(orders) \in Nat
      /\ \A i \in 1..Len(orders) : orders'[i] = orders[i]
      /\ orders'[n] = DraftOrder(j)
  BY <1>3, Ordered DEF CommitOrder
<1>5. /\ DraftOrder(j).reward = j.reward
      /\ DraftOrder(j).total = LinesTotal(j.lines) - (IF j.reward = None THEN 0 ELSE Saving(j.reward, j.lines))
      /\ DraftOrder(j).items = OrderItems(j.reward, j.lines)
  BY DEF DraftOrder
<1>6. /\ used' = IF j.reward = None THEN used ELSE [used EXCEPT ![j.reward] = mark]
      /\ DOMAIN used = Rewards /\ None \notin Rewards
  BY TermsAssumption DEF CommitOrder, MoneyInv
<1>7. j.reward # None => mark.order = n /\ mark.amount = Saving(j.reward, j.lines) /\ mark # None
  <2> SUFFICES ASSUME j.reward # None PROVE mark # None
    OBVIOUS
  <2>1. Saving(j.reward, j.lines) \in Int
    BY <1>2, SavingIsInt
  <2>2. mark \in [order : Nat, amount : Int]
    BY <1>4, <2>1
  <2> QED BY <2>2, CheckoutAssumption
<1> HIDE DEF j, n, mark
<1>8. \A r \in Rewards : used'[r] = IF r = j.reward THEN mark ELSE used[r]
  BY <1>2, <1>6
<1>9. DOMAIN used' = Rewards
  BY <1>6
<1>10. 1..Len(orders') = 1..Len(orders) \cup {n} /\ n \notin 1..Len(orders)
  BY <1>4 DEF n
<1>11. /\ \A r \in Rewards : used[r] # None => used[r].order \in 1..Len(orders)
       /\ \A i \in 1..Len(orders) : orders[i].reward \in Rewards \cup {None}
       /\ TotalExplained
  BY DEF MoneyInv
<1>12. \A r \in Rewards : used'[r] # None => used'[r].order \in 1..Len(orders')
  BY <1>6, <1>7, <1>8, <1>10, <1>11
<1>13. \A i \in 1..Len(orders') : orders'[i].reward \in Rewards \cup {None}
  BY <1>2, <1>4, <1>5, <1>10, <1>11
<1> DEFINE off(r, amount) == IF r = None THEN 0 ELSE IF Terms[r].kind = "free_bottle" THEN 0 ELSE amount
<1>14. ASSUME NEW i \in 1..Len(orders)
       PROVE  /\ orders[i].total = ItemsTotal(orders[i].items) - off(orders[i].reward, used[orders[i].reward].amount)
              /\ orders[i].reward # None =>
                   used[orders[i].reward] # None /\ used[orders[i].reward].order = i
  BY <1>11, Zenon DEF TotalExplained
<1>15. \A r \in Rewards : used[r] # None => orders[used[r].order].reward = r
  BY <1>11, Zenon DEF TotalExplained
<1>16. ASSUME NEW i \in 1..Len(orders)
       PROVE  /\ orders'[i].total = ItemsTotal(orders'[i].items) - off(orders'[i].reward, used'[orders'[i].reward].amount)
              /\ orders'[i].reward # None =>
                   used'[orders'[i].reward] # None /\ used'[orders'[i].reward].order = i
  <2>1. orders'[i] = orders[i]
    BY <1>4
  <2>2. CASE orders[i].reward = None
    <3>1. \A x, y : off(None, x) = off(None, y)
      OBVIOUS
    <3> HIDE DEF off
    <3> QED BY <1>14, <2>1, <2>2, <3>1
  <2>3. CASE orders[i].reward # None
    <3>1. orders[i].reward \in Rewards /\ used[orders[i].reward] # None
      BY <1>11, <1>14, <2>3
    <3>2. used'[orders[i].reward] = used[orders[i].reward]
      BY <1>2, <1>8, <2>3, <3>1
    <3> HIDE DEF off
    <3> QED BY <1>14, <2>1, <3>2
  <2> QED BY <2>2, <2>3
<1>17. /\ orders'[n].total = ItemsTotal(orders'[n].items) - off(orders'[n].reward, used'[orders'[n].reward].amount)
       /\ orders'[n].reward # None =>
            used'[orders'[n].reward] # None /\ used'[orders'[n].reward].order = n
  <2>1. orders'[n].reward = j.reward /\ orders'[n].items = OrderItems(j.reward, j.lines)
    BY <1>4, <1>5
  <2>2. orders'[n].total = LinesTotal(j.lines) - (IF j.reward = None THEN 0 ELSE Saving(j.reward, j.lines))
    BY <1>4, <1>5
  <2>3. LinesTotal(j.lines) - (IF j.reward = None THEN 0 ELSE Saving(j.reward, j.lines)) =
          ItemsTotal(OrderItems(j.reward, j.lines)) - off(j.reward, Saving(j.reward, j.lines))
    BY <1>2, DraftExplained
  <2>4. j.reward # None => used'[j.reward] = mark
    BY <1>2, <1>8
  <2>5. off(j.reward, Saving(j.reward, j.lines)) = off(j.reward, used'[j.reward].amount)
    BY <1>7, <2>4
  <2> HIDE DEF off
  <2> QED BY <1>7, <2>1, <2>2, <2>3, <2>4, <2>5
<1>18. \A r \in Rewards : used'[r] # None => orders'[used'[r].order].reward = r
  <2> TAKE r \in Rewards
  <2>1. CASE r = j.reward
    BY <1>4, <1>5, <1>6, <1>7, <1>8, <2>1
  <2>2. CASE r # j.reward
    BY <1>4, <1>8, <1>11, <1>15, <2>2
  <2> QED BY <2>1, <2>2
<1>19. TotalExplained'
  <2>1. ASSUME NEW i \in 1..Len(orders')
        PROVE  /\ orders'[i].total = ItemsTotal(orders'[i].items) - off(orders'[i].reward, used'[orders'[i].reward].amount)
               /\ orders'[i].reward # None =>
                    used'[orders'[i].reward] # None /\ used'[orders'[i].reward].order = i
    <3> HIDE DEF off
    <3>1. CASE i = n
      BY <1>17, <3>1
    <3>2. CASE i \in 1..Len(orders)
      BY <1>16, <3>2
    <3> QED BY <1>10, <3>1, <3>2
  <2> QED BY <1>18, <2>1, Zenon DEF TotalExplained
<1> QED BY <1>9, <1>12, <1>13, <1>19

LEMMA TermsOthers ==
  ASSUME IInv, MoneyInv, NEW s \in Sessions, Acts(s), NEW t \in Sessions \ {s}
  PROVE  TermsInv(t)'
<1>1. Kinds /\ TermsInv(t)
  BY DEF IInv, MoneyInv
<1>2. pc'[t] = pc[t] /\ job'[t] = job[t]
  BY <1>1, Elsewhere
<1>3. pc[t] \in {"clear", "commit"} => used' = used
  <2>1. CASE CommitOrder(s)
    <3>1. pc[s] \in Keyed
      BY <2>1 DEF CommitOrder, Keyed, Placing
    <3>2. pc[t] \notin Keyed
      BY <3>1, Alone
    <3> QED BY <3>2 DEF Keyed, Placing
  <2>2. CASE ~CommitOrder(s)
    BY <2>2, OnlyOrdersUse
  <2> QED BY <2>1, <2>2
<1> QED BY <1>1, <1>2, <1>3 DEF TermsInv, Priced

LEMMA TermsSelf ==
  ASSUME IInv, MoneyInv, NEW s \in Sessions, Acts(s)
  PROVE  TermsInv(s)'
<1>1. Kinds /\ TermsInv(s) /\ price \in [Products -> Prices]
  BY DEF IInv, MoneyInv
<1>2. pc'[s] \in {"checked", "place"} \cup Clearing => job'[s].reward \in Rewards \cup {None}
  BY <1>1, PlacePath DEF TermsInv, Kinds, Talk
<1>3. pc'[s] \in Clearing => Priced(job'[s].lines)
  <2>1. Priced(Lines)
    BY <1>1, LinesPriced
  <2> QED BY <1>1, <2>1, PlacePath DEF TermsInv
<1>4. pc'[s] \in {"clear", "commit"} /\ job'[s].reward # None => used'[job'[s].reward] = None
  <2>1. CASE pc'[s] \in {"clear", "commit"}
    <3>1. ~CommitOrder(s)
      BY <1>1, <2>1 DEF CommitOrder, Leave, Go, Kinds
    <3>2. used' = used
      BY <3>1, OnlyOrdersUse
    <3> QED BY <1>1, <2>1, <3>2, PlacePath DEF TermsInv
  <2> QED BY <2>1
<1>5. pc'[s] \in Clearing => Priced(job[s].lines)'
  BY <1>3 DEF Priced
<1> QED BY <1>2, <1>4, <1>5 DEF TermsInv

LEMMA MoneyActs ==
  ASSUME IInv, MoneyInv, NEW s \in Sessions, Acts(s)
  PROVE  MoneyInv'
<1>1. price' \in [Products -> Prices]
  BY OnlyOrdersUse DEF MoneyInv
<1>2. \A t \in Sessions : TermsInv(t)'
  BY TermsOthers, TermsSelf
<1>3. CASE CommitOrder(s)
  BY <1>1, <1>2, <1>3, CommitExplained DEF MoneyInv
<1>4. CASE ~CommitOrder(s)
  <2>1. orders' = orders /\ used' = used
    BY <1>4, OnlyOrdersUse
  <2>2. TotalExplained'
    BY <2>1 DEF MoneyInv, TotalExplained
  <2> QED BY <1>1, <1>2, <2>1, <2>2 DEF MoneyInv
<1> QED BY <1>3, <1>4

LEMMA MoneyAround ==
  ASSUME IInv, MoneyInv, Around \/ Crash
  PROVE  MoneyInv'
<1>1. orders' = orders /\ used' = used
  BY DEF Around, Crash, SetOnSale, SetPrice, StartCheckout, placed
<1>2. price' \in [Products -> Prices]
  BY DEF Around, Crash, SetOnSale, SetPrice, StartCheckout, products, MoneyInv
<1>3. TotalExplained'
  BY <1>1 DEF MoneyInv, TotalExplained
<1>4. ASSUME NEW t \in Sessions PROVE TermsInv(t)'
  <2>1. CASE Around
    <3>1. pc' = pc /\ job' = job
      BY <2>1 DEF Around, SetOnSale, SetPrice, StartCheckout
    <3> QED BY <1>1, <3>1 DEF MoneyInv, TermsInv, Priced
  <2>2. CASE Crash
    BY <2>2 DEF Crash, TermsInv, Clearing
  <2> QED BY <2>1, <2>2
<1> QED BY <1>1, <1>2, <1>3, <1>4 DEF MoneyInv

LEMMA MoneyInit ==
  ASSUME Init
  PROVE  MoneyInv
<1> USE DEF Init
<1>1. price \in [Products -> Prices] /\ DOMAIN used = Rewards /\ \A r \in Rewards : used[r] = None
  BY CheckoutAssumption
<1>2. 1..Len(orders) = {}
  OBVIOUS
<1>3. TotalExplained
  BY <1>1, <1>2 DEF TotalExplained
<1>4. \A s \in Sessions : TermsInv(s)
  BY DEF TermsInv, Clearing
<1> QED BY <1>1, <1>2, <1>3, <1>4 DEF MoneyInv

LEMMA MoneyNext ==
  ASSUME IInv, MoneyInv, [Next]_vars
  PROVE  MoneyInv'
<1>1. CASE Around \/ Crash
  BY <1>1, MoneyAround
<1>2. CASE \E s \in Sessions : Acts(s)
  BY <1>2, MoneyActs
<1>3. CASE UNCHANGED vars
  BY <1>3 DEF vars, products, placed, MoneyInv, TotalExplained, TermsInv, Priced
<1> QED BY <1>1, <1>2, <1>3 DEF Next, Around, Acts

\* The charged total is what the order's rows add up to less its discount, and a
\* reward is bound to the one order that carries it: place_order_from_cart plans it
\* again under the account's lock, and binds it in the order's transaction.
THEOREM TotalsExplained == Spec => []TotalExplained
<1>1. Init => MoneyInv
  BY MoneyInit
<1>2. IInv /\ MoneyInv /\ [Next]_vars => MoneyInv'
  BY MoneyNext
<1>3. MoneyInv => TotalExplained
  BY DEF MoneyInv
<1> QED BY <1>1, <1>2, <1>3, CheckoutInvariant, PTL DEF Spec

=============================================================================
