--------------------------- MODULE OrderCompletion ---------------------------
(***************************************************************************)
(* Admins move orders (handlers/admin/orders.py change_order_status,       *)
(* services/admin/orders.py), and a completion settles stamps, milestone   *)
(* spin and referral payout in the same transaction.                       *)
(*                                                                         *)
(* A session is one tap of one admin: an unlocked read of the order, the   *)
(* order row FOR UPDATE with a fresh read, the move, and for a completion  *)
(* the customer's account row, the referral row and the referrer's account *)
(* row.  What it writes is private until it commits.  After the commit it  *)
(* messages the customer, and then both sides of a referral it paid out.   *)
(* Two admins, a double tap and an update delivered twice are sessions.    *)
(***************************************************************************)
EXTENDS OrderRules, SequencesExt

CONSTANTS
  Admins,         \* sessions that can be open at once
  Targets,        \* bound: the statuses admins ask for
  MaxMoves        \* bound: an order moved this often is only tapped in vain

ASSUME CompletionAssumption ==
  /\ None \notin Admins
  /\ Targets \subseteq Statuses
  /\ MaxMoves \in Nat

VARIABLES
  path,          \* committed statuses of each order, oldest first
  ledger,        \* committed stamp rows of each customer, oldest first
  grants,        \* committed spin grants
  qualifiedBy,   \* committed: the order that qualified each customer's referral
  orderLock, accountLock, referralLock,  \* the session holding each row
  pc, tap,       \* where each session is, and the order and status it was asked for
  seen,          \* the order's status as each session last read it
  moved,         \* whether each session's commit moves its order
  rows, won, qualifies,  \* what each session wrote: stamp rows of each customer,
                         \* grants, a referral
  told,          \* status messages each customer received, per order
  news           \* referral payout announcements sent, per referred customer

db == <<path, ledger, grants, qualifiedBy>>
locks == <<orderLock, accountLock, referralLock>>
writes == <<moved, rows, won, qualifies>>
telegram == <<told, news>>
vars == <<db, locks, pc, tap, seen, writes, telegram>>

Status(o) == Last(path[o])

Row == [kind : {"purchase", "referral"}, ref : Orders \cup Customers, amount : Nat]
Grant == [user : Customers, kind : {"purchase_milestone", "referral"},
          ref : Orders \cup Customers]

Holding == {"locked", "award", "booked", "payout", "qualify", "credit_referred",
            "credit_referrer", "spin", "written", "refused"}
Phases == {"idle", "read", "answer", "committed", "news"} \cup Holding

Init ==
  /\ path = [o \in Orders |-> <<InitialStatus[o]>>]
  /\ ledger = [c \in Customers |-> <<>>]
  /\ grants = {}
  /\ qualifiedBy = [c \in Customers |-> None]
  /\ orderLock = [o \in Orders |-> None]
  /\ accountLock = [c \in Customers |-> None]
  /\ referralLock = [c \in Customers |-> None]
  /\ pc = [s \in Admins |-> "idle"]
  /\ tap = [s \in Admins |-> None]
  /\ seen = [s \in Admins |-> None]
  /\ moved = [s \in Admins |-> FALSE]
  /\ rows = [s \in Admins |-> [c \in Customers |-> <<>>]]
  /\ won = [s \in Admins |-> {}]
  /\ qualifies = [s \in Admins |-> FALSE]
  /\ told = [o \in Orders |-> <<>>]
  /\ news = [c \in Customers |-> 0]

OrderOf(s) == tap[s].order
Buyer(s) == Customer[tap[s].order]

Go(s, phase) == pc' = [pc EXCEPT ![s] = phase]

\* A row lock: waits until nobody else holds the row, then holds it.
Acquire(lock, row, s) ==
  /\ lock[row] \in {None, s}
  /\ lock' = [lock EXCEPT ![row] = s]

Free(lock, s) == [row \in DOMAIN lock |-> IF lock[row] = s THEN None ELSE lock[row]]

ReleaseAll(s) ==
  /\ orderLock' = Free(orderLock, s)
  /\ accountLock' = Free(accountLock, s)
  /\ referralLock' = Free(referralLock, s)

Forget(s) ==
  /\ moved' = [moved EXCEPT ![s] = FALSE]
  /\ rows' = [rows EXCEPT ![s] = [c \in Customers |-> <<>>]]
  /\ won' = [won EXCEPT ![s] = {}]
  /\ qualifies' = [qualifies EXCEPT ![s] = FALSE]

----------------------------------------------------------------------------
\* A tap on a status button, from a screen of any age: the order is read
\* without a lock, and a button for the status it has is answered at once.
Tap(s, o, t) ==
  /\ pc[s] = "idle"
  /\ Status(o) # t
  /\ Len(path[o]) <= MaxMoves \/ ~CanTransition(Status(o), t)
  /\ Go(s, "read")
  /\ tap' = [tap EXCEPT ![s] = [order |-> o, target |-> t]]
  /\ seen' = [seen EXCEPT ![s] = Status(o)]
  /\ UNCHANGED <<db, locks, writes, telegram>>

\* Mutant: populate_existing forgotten, the unlocked read is what is decided on.
LockOrderStale(s) ==
  /\ pc[s] = "read"
  /\ Acquire(orderLock, OrderOf(s), s)
  /\ Go(s, "locked")
  /\ UNCHANGED <<db, accountLock, referralLock, tap, seen, writes, telegram>>

LockOrder(s) ==
  /\ pc[s] = "read"
  /\ Acquire(orderLock, OrderOf(s), s)
  /\ seen' = [seen EXCEPT ![s] = Status(OrderOf(s))]
  /\ Go(s, "locked")
  /\ UNCHANGED <<db, accountLock, referralLock, tap, writes, telegram>>

\* Another request moved the order to this status first: changed=False.
AlreadyThere(s) ==
  /\ pc[s] = "locked" /\ seen[s] = tap[s].target
  /\ Go(s, "written")
  /\ UNCHANGED <<db, locks, tap, seen, writes, telegram>>

RefuseMove(s) ==
  /\ pc[s] = "locked" /\ seen[s] # tap[s].target
  /\ ~CanTransition(seen[s], tap[s].target)
  /\ Go(s, "refused")
  /\ UNCHANGED <<db, locks, tap, seen, writes, telegram>>

MoveOrder(s) ==
  /\ pc[s] = "locked" /\ seen[s] # tap[s].target
  /\ CanTransition(seen[s], tap[s].target)
  /\ moved' = [moved EXCEPT ![s] = TRUE]
  /\ Go(s, IF tap[s].target = "completed" THEN "award" ELSE "written")
  /\ UNCHANGED <<db, locks, tap, seen, rows, won, qualifies, telegram>>

----------------------------------------------------------------------------
\* What a completion earned.

\* award_for_order, grant_for_completed_order and settle_for_completed_order
\* all turn an order down that is not a qualifying purchase.
EarnsNothing(s) ==
  /\ pc[s] = "award" /\ ~Qualifies(OrderOf(s))
  /\ Go(s, "written")
  /\ UNCHANGED <<db, locks, tap, seen, writes, telegram>>

\* Which of a customer's rows are purchases, and which book this event.
PurchaseRows(all) == {i \in DOMAIN all : all[i].kind = "purchase"}

RowsFor(all, kind, ref) == {i \in DOMAIN all : all[i].kind = kind /\ all[i].ref = ref}

HasRow(s, u, kind, ref) ==
  RowsFor(ledger[u], kind, ref) # {} \/ RowsFor(rows[s][u], kind, ref) # {}

AddRow(s, u, kind, ref, amount) ==
  rows' = IF HasRow(s, u, kind, ref) THEN rows
          ELSE [rows EXCEPT ![s][u] =
                  Append(@, [kind |-> kind, ref |-> ref, amount |-> amount])]

\* Mutant: an order below the threshold earns no stamps, so nothing is locked.
AwardPurchaseUnlessZero(s) ==
  /\ pc[s] = "award" /\ Qualifies(OrderOf(s))
  /\ IF StampsFor(OrderOf(s)) = 0 THEN UNCHANGED accountLock
     ELSE Acquire(accountLock, Buyer(s), s)
  /\ AddRow(s, Buyer(s), "purchase", OrderOf(s), StampsFor(OrderOf(s)))
  /\ Go(s, "booked")
  /\ UNCHANGED <<db, orderLock, referralLock, tap, seen, moved, won, qualifies, telegram>>

\* award_for_order: the customer's account is locked and the order booked,
\* zero stamps included.
AwardPurchase(s) ==
  /\ pc[s] = "award" /\ Qualifies(OrderOf(s))
  /\ Acquire(accountLock, Buyer(s), s)
  /\ AddRow(s, Buyer(s), "purchase", OrderOf(s), StampsFor(OrderOf(s)))
  /\ Go(s, "booked")
  /\ UNCHANGED <<db, orderLock, referralLock, tap, seen, moved, won, qualifies, telegram>>

\* purchase_number: which of the customer's purchases this session's order is.
PurchaseNumber(s) ==
  Cardinality(PurchaseRows(ledger[Buyer(s)])) + Cardinality(PurchaseRows(rows[s][Buyer(s)]))

\* Mutant: numbered before the row this order added.
GrantMilestoneEarly(s) ==
  /\ pc[s] = "booked"
  /\ won' = IF IsMilestone(PurchaseNumber(s) - 1)
            THEN [won EXCEPT ![s] = @ \cup
                   {[user |-> Buyer(s), kind |-> "purchase_milestone", ref |-> OrderOf(s)]}]
            ELSE won
  /\ Go(s, "payout")
  /\ UNCHANGED <<db, locks, tap, seen, moved, rows, qualifies, telegram>>

\* grant_for_completed_order: one spin per milestone order.
GrantMilestone(s) ==
  /\ pc[s] = "booked"
  /\ won' = IF IsMilestone(PurchaseNumber(s))
            THEN [won EXCEPT ![s] = @ \cup
                   {[user |-> Buyer(s), kind |-> "purchase_milestone", ref |-> OrderOf(s)]}]
            ELSE won
  /\ Go(s, "payout")
  /\ UNCHANGED <<db, locks, tap, seen, moved, rows, qualifies, telegram>>

\* settle_for_completed_order reads the customer's referral without a lock ...
ReadReferral(s) ==
  /\ pc[s] = "payout"
  /\ Go(s, IF Referrer[Buyer(s)] # None /\ qualifiedBy[Buyer(s)] = None
           THEN "qualify" ELSE "written")
  /\ UNCHANGED <<db, locks, tap, seen, writes, telegram>>

\* ... and qualify locks it and reads it again: one order ever qualifies it.
QualifyReferral(s) ==
  /\ pc[s] = "qualify"
  /\ Acquire(referralLock, Buyer(s), s)
  /\ IF qualifiedBy[Buyer(s)] = None
     THEN /\ qualifies' = [qualifies EXCEPT ![s] = TRUE]
          /\ Go(s, "credit_referred")
     ELSE /\ UNCHANGED qualifies
          /\ Go(s, "written")
  /\ UNCHANGED <<db, orderLock, accountLock, tap, seen, moved, rows, won, telegram>>

\* credit_referral for one side, under that side's account lock, unless that
\* side is configured to earn no stamps.
CreditSide(s, u, stamps) ==
  /\ IF stamps = 0 THEN UNCHANGED <<accountLock, rows>>
     ELSE /\ Acquire(accountLock, u, s)
          /\ AddRow(s, u, "referral", Buyer(s), stamps)
  /\ UNCHANGED <<db, orderLock, referralLock, tap, seen, moved, won, qualifies, telegram>>

CreditReferred(s) ==
  /\ pc[s] = "credit_referred"
  /\ CreditSide(s, Buyer(s), ReferredStamps)
  /\ Go(s, "credit_referrer")

CreditReferrer(s) ==
  /\ pc[s] = "credit_referrer"
  /\ CreditSide(s, Referrer[Buyer(s)], ReferrerStamps)
  /\ Go(s, "spin")

\* Mutant: the spin granted to the referred customer.
GrantReferralSpinToFriend(s) ==
  /\ pc[s] = "spin"
  /\ won' = [won EXCEPT ![s] = @ \cup
       {[user |-> Buyer(s), kind |-> "referral", ref |-> Buyer(s)]}]
  /\ Go(s, "written")
  /\ UNCHANGED <<db, locks, tap, seen, moved, rows, qualifies, telegram>>

GrantReferralSpin(s) ==
  /\ pc[s] = "spin"
  /\ won' = IF ReferralSpins = 0 THEN won
            ELSE [won EXCEPT ![s] = @ \cup
                   {[user |-> Referrer[Buyer(s)], kind |-> "referral", ref |-> Buyer(s)]}]
  /\ Go(s, "written")
  /\ UNCHANGED <<db, locks, tap, seen, moved, rows, qualifies, telegram>>

----------------------------------------------------------------------------
\* The end of the transaction, and what follows it.

\* Mutant: the settlement committed apart from the status it belongs to.
CommitStatusOnly(s) ==
  /\ pc[s] = "written"
  /\ path' = IF moved[s] THEN [path EXCEPT ![OrderOf(s)] = Append(@, tap[s].target)]
             ELSE path
  /\ UNCHANGED <<ledger, grants, qualifiedBy>>
  /\ ReleaseAll(s)
  /\ Go(s, IF moved[s] THEN "committed" ELSE "answer")
  /\ Forget(s)
  /\ UNCHANGED <<tap, seen, telegram>>

\* Mutant: every request that ends at the status tells the customer.
CommitAlwaysTells(s) ==
  /\ pc[s] = "written"
  /\ path' = IF moved[s] THEN [path EXCEPT ![OrderOf(s)] = Append(@, tap[s].target)]
             ELSE path
  /\ ledger' = [u \in Customers |-> ledger[u] \o rows[s][u]]
  /\ grants' = grants \cup won[s]
  /\ qualifiedBy' = IF qualifies[s] THEN [qualifiedBy EXCEPT ![Buyer(s)] = OrderOf(s)]
                    ELSE qualifiedBy
  /\ ReleaseAll(s)
  /\ Go(s, "committed")
  /\ Forget(s)
  /\ UNCHANGED <<tap, seen, telegram>>

Commit(s) ==
  /\ pc[s] = "written"
  /\ path' = IF moved[s] THEN [path EXCEPT ![OrderOf(s)] = Append(@, tap[s].target)]
             ELSE path
  /\ ledger' = [u \in Customers |-> ledger[u] \o rows[s][u]]
  /\ grants' = grants \cup won[s]
  /\ qualifiedBy' = IF qualifies[s] THEN [qualifiedBy EXCEPT ![Buyer(s)] = OrderOf(s)]
                    ELSE qualifiedBy
  /\ ReleaseAll(s)
  /\ Go(s, IF moved[s] THEN "committed" ELSE "answer")
  /\ Forget(s)
  /\ UNCHANGED <<tap, seen, telegram>>

\* A refused move ends its transaction before anything is answered.
RollbackRefused(s) ==
  /\ pc[s] = "refused"
  /\ ReleaseAll(s)
  /\ Forget(s)
  /\ Go(s, "answer")
  /\ UNCHANGED <<db, tap, seen, telegram>>

Done(s) ==
  /\ Go(s, "idle")
  /\ tap' = [tap EXCEPT ![s] = None]
  /\ seen' = [seen EXCEPT ![s] = None]

\* The admin's own screen: best effort.
Answer(s) ==
  /\ pc[s] = "answer"
  /\ Done(s)
  /\ UNCHANGED <<db, locks, writes, telegram>>

\* notify_status_change, delivered or lost (blocked, rate limit, outage).
NotifyCustomer(s) ==
  /\ pc[s] = "committed"
  /\ \/ tap[s].target \in Notifiable
        /\ told' = [told EXCEPT ![OrderOf(s)] = Append(@, tap[s].target)]
     \/ UNCHANGED told
  /\ Go(s, IF tap[s].target = "completed" THEN "news" ELSE "answer")
  /\ UNCHANGED <<db, locks, tap, seen, writes, news>>

\* rewards_paid: the referral this order qualified, read back after the commit.
TellReferral(s) ==
  /\ pc[s] = "news"
  /\ \/ qualifiedBy[Buyer(s)] = OrderOf(s)
        /\ news' = [news EXCEPT ![Buyer(s)] = @ + 1]
     \/ UNCHANGED news
  /\ Done(s)
  /\ UNCHANGED <<db, locks, writes, told>>

\* An exception, a lost connection or a crash: what is not committed is gone,
\* and what follows a commit is never made up for.
Abort(s) ==
  /\ pc[s] # "idle"
  /\ ReleaseAll(s)
  /\ Forget(s)
  /\ Done(s)
  /\ UNCHANGED <<db, telegram>>

----------------------------------------------------------------------------
\* Steps that wait for a row lock, and steps that wait for nothing.
Waiting(s) ==
  \/ LockOrder(s) \/ AwardPurchase(s) \/ QualifyReferral(s)
  \/ CreditReferred(s) \/ CreditReferrer(s)

Working(s) ==
  \/ AlreadyThere(s) \/ RefuseMove(s) \/ MoveOrder(s) \/ EarnsNothing(s)
  \/ GrantMilestone(s) \/ ReadReferral(s) \/ GrantReferralSpin(s)
  \/ Commit(s) \/ RollbackRefused(s)
  \/ Answer(s) \/ NotifyCustomer(s) \/ TellReferral(s)

Next ==
  \E s \in Admins :
    \/ \E o \in Orders, t \in Targets : Tap(s, o, t)
    \/ Waiting(s) \/ Working(s) \/ Abort(s)

Spec == Init /\ [][Next]_vars

\* The event loop runs whatever can run, and PostgreSQL hands a row lock to
\* its waiters; nobody owes the shop a tap, and nothing forces an abort.
Fairness == \A s \in Admins : WF_vars(Working(s)) /\ SF_vars(Waiting(s))

FairSpec == Spec /\ Fairness

----------------------------------------------------------------------------
\* Properties.

\* Rows, locks and what a session holds are of the kinds the code declares;
\* of the statuses only the four of STATUS_MESSAGE_KEYS ever reach a customer.
TypeOK ==
  /\ path \in [Orders -> Seq(Statuses)]
  /\ \A o \in Orders : path[o] # <<>>
  /\ ledger \in [Customers -> Seq(Row)]
  /\ grants \subseteq Grant
  /\ qualifiedBy \in [Customers -> Orders \cup {None}]
  /\ orderLock \in [Orders -> Admins \cup {None}]
  /\ accountLock \in [Customers -> Admins \cup {None}]
  /\ referralLock \in [Customers -> Admins \cup {None}]
  /\ pc \in [Admins -> Phases]
  /\ tap \in [Admins -> [order : Orders, target : Statuses] \cup {None}]
  /\ seen \in [Admins -> Statuses \cup {None}]
  /\ moved \in [Admins -> BOOLEAN]
  /\ rows \in [Admins -> [Customers -> Seq(Row)]]
  /\ won \in [Admins -> SUBSET Grant]
  /\ qualifies \in [Admins -> BOOLEAN]
  /\ told \in [Orders -> Seq(Notifiable)]
  /\ news \in [Customers -> Nat]

\* Every order only ever moves along the status table, however old the screens
\* its admins tap: Completed is final (order_status.py), and no stale tap
\* cancels an order somebody has just completed.
PathFollowsTable ==
  \A o \in Orders : \A i \in 1..(Len(path[o]) - 1) :
    CanTransition(path[o][i], path[o][i + 1])

\* A customer's rows book this event exactly once, for this amount.
BookedOnce(all, kind, ref, amount) ==
  \E i \in DOMAIN all : RowsFor(all, kind, ref) = {i} /\ all[i].amount = amount

ReferralStamps(c, u) ==
  IF u = c THEN ReferredStamps ELSE IF u = Referrer[c] THEN ReferrerStamps ELSE 0

\* What customer u has of order o: its purchase once it is Completed, if it is
\* one and u's, for the stamps its total earns.
PurchaseBooked(o, u) ==
  IF Status(o) = "completed" /\ Qualifies(o) /\ u = Customer[o]
  THEN BookedOnce(ledger[u], "purchase", o, StampsFor(o))
  ELSE RowsFor(ledger[u], "purchase", o) = {}

\* What customer u has of c's invitation: nothing until it is qualified, then
\* the stamps of u's side, and the spin if u is the one who invited.
InvitationPaid(c, u) ==
  /\ IF qualifiedBy[c] # None /\ ReferralStamps(c, u) > 0
     THEN BookedOnce(ledger[u], "referral", c, ReferralStamps(c, u))
     ELSE RowsFor(ledger[u], "referral", c) = {}
  /\ [user |-> u, kind |-> "referral", ref |-> c] \in grants
       <=> qualifiedBy[c] # None /\ u = Referrer[c] /\ ReferralSpins = 1

\* Every completion is settled whole and once (set_order_status: "durable
\* together or not at all"): no Completed order without its purchase, no
\* qualified invitation without both sides' pay, and nothing paid besides.
SettledWhole ==
  \A u \in Customers :
    /\ \A o \in Orders : PurchaseBooked(o, u)
    /\ \A c \in Customers : InvitationPaid(c, u)

Times(all, first, x) == Cardinality({i \in first..Len(all) : all[i] = x})

\* Nobody hears of what is not durable, nor twice of what happened once: a
\* status message answers one committed move, a payout is announced once.
ToldWhatHappened ==
  /\ \A o \in Orders : \A t \in Notifiable :
       Times(told[o], 1, t) <= Times(path[o], 2, t)
  /\ \A c \in Customers : news[c] <= IF qualifiedBy[c] = None THEN 0 ELSE 1

\* The session that holds the row another one waits for.
Blocker(s) ==
  CASE pc[s] = "read" -> orderLock[OrderOf(s)]
    [] pc[s] = "award" /\ Qualifies(OrderOf(s)) -> accountLock[Buyer(s)]
    [] pc[s] = "qualify" -> referralLock[Buyer(s)]
    [] pc[s] = "credit_referred" /\ ReferredStamps > 0 -> accountLock[Buyer(s)]
    [] pc[s] = "credit_referrer" /\ ReferrerStamps > 0 -> accountLock[Referrer[Buyer(s)]]
    [] OTHER -> None

\* No sessions wait on each other in a cycle: the lock order of
\* docs/architecture.md, given referrals that form no loop.
NoWaitCycle ==
  \A stuck \in SUBSET Admins :
    stuck # {} => \E s \in stuck : Blocker(s) \notin stuck \ {s}

\* sum_for_user: what the rows of a ledger add up to.
StampSum(all) ==
  LET sum[i \in 0..Len(all)] == IF i = 0 THEN 0 ELSE sum[i - 1] + all[i].amount
  IN  sum[Len(all)]

Book == INSTANCE OrderBook WITH
  status <- [o \in Orders |-> Status(o)],
  stamps <- [c \in Customers |-> StampSum(ledger[c])],
  purchases <- [c \in Customers |-> Cardinality(PurchaseRows(ledger[c]))],
  spins <- [c \in Customers |-> Cardinality({g \in grants : g.user = c})],
  paid <- {c \in Customers : qualifiedBy[c] # None}

\* The durable state is the shop's promise: concurrent sessions implement one
\* settlement at a time.
ImplementsOrderBook == Book!Spec

\* Every tap is answered, and gives back what it held.
EveryTapEnds == \A s \in Admins : pc[s] # "idle" ~> pc[s] = "idle"
==============================================================================
