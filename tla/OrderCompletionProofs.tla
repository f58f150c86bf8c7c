------------------------ MODULE OrderCompletionProofs ------------------------
(***************************************************************************)
(* Proofs about OrderCompletion, for any number of customers, orders,      *)
(* admins and moves and any statuses asked for: orders follow the status   *)
(* table, an invitation is qualified once and by a Completed purchase of   *)
(* its customer, no set of completions waits in a circle, every completion *)
(* is settled whole and told at most once, and concurrent sessions         *)
(* implement OrderBook, one settlement at a time.                          *)
(***************************************************************************)
EXTENDS OrderCompletion, WellFoundedInduction, FiniteSetTheorems, TLAPS

\* The phases between the booking and the end of a completion's transaction.
Settling == {"booked", "payout", "qualify", "credit_referred", "credit_referrer", "spin"}
Crediting == {"credit_referred", "credit_referrer", "spin"}

Kinds ==
  /\ path \in [Orders -> Seq(Statuses)] /\ \A o \in Orders : path[o] # <<>>
  /\ qualifiedBy \in [Customers -> Orders \cup {None}]
  /\ orderLock \in [Orders -> Admins \cup {None}]
  /\ accountLock \in [Customers -> Admins \cup {None}]
  /\ referralLock \in [Customers -> Admins \cup {None}]
  /\ pc \in [Admins -> Phases]
  /\ tap \in [Admins -> [order : Orders, target : Statuses] \cup {None}]
  /\ seen \in [Admins -> Statuses \cup {None}]
  /\ moved \in [Admins -> BOOLEAN]
  /\ qualifies \in [Admins -> BOOLEAN]

\* A session holds the rows it has locked, and no others: an account is its
\* buyer's, or that of the buyer's referrer once there is nothing left to lock.
LockInv(s) ==
  /\ pc[s] \in Holding => orderLock[OrderOf(s)] = s
  /\ pc[s] \in Settling => accountLock[Buyer(s)] = s
  /\ pc[s] \in Crediting \/ qualifies[s] => referralLock[Buyer(s)] = s
  /\ \A o \in Orders : orderLock[o] = s => pc[s] \in Holding /\ o = OrderOf(s)
  /\ \A c \in Customers : accountLock[c] = s =>
       \/ c = Buyer(s) /\ pc[s] \in Settling
       \/ pc[s] \in {"spin", "written"}
  /\ \A c \in Customers : referralLock[c] = s =>
       c = Buyer(s) /\ pc[s] \in Crediting \cup {"written"}

\* What a session read under the order's lock is the order's status still, and
\* it moves the order only where the table lets it.
MoveInv(s) ==
  /\ pc[s] # "idle" => tap[s] \in [order : Orders, target : Statuses]
  /\ pc[s] \in Holding => seen[s] = Status(OrderOf(s))
  /\ moved[s] => pc[s] \in Holding /\ CanTransition(seen[s], tap[s].target)
  /\ pc[s] \in Settling \cup {"award"} => moved[s] /\ tap[s].target = "completed"
  /\ pc[s] \in Settling => Qualifies(OrderOf(s))

\* A referral a session qualifies is pending still.
PayoutInv(s) ==
  /\ pc[s] \in {"qualify"} \cup Crediting \/ qualifies[s] => Referrer[Buyer(s)] \in Customers
  /\ pc[s] \in Crediting => qualifies[s]
  /\ qualifies[s] => /\ pc[s] \in Crediting \cup {"written"}
                     /\ moved[s] /\ tap[s].target = "completed"
                     /\ Qualifies(OrderOf(s)) /\ qualifiedBy[Buyer(s)] = None

SessionInv(s) == LockInv(s) /\ MoveInv(s) /\ PayoutInv(s)

\* An invitation is qualified by a Completed purchase of the invited customer.
PaidForPurchase ==
  \A c \in Customers : qualifiedBy[c] # None =>
    LET o == qualifiedBy[c] IN
    Customer[o] = c /\ Qualifies(o) /\ Status(o) = "completed"

\* The inductive invariant.
IInv == Kinds /\ PathFollowsTable /\ PaidForPurchase /\ \A s \in Admins : SessionInv(s)

\* Whatever a session does once it is tapped.
Step(s) == Waiting(s) \/ Working(s) \/ Abort(s)
Acts(s) == Step(s) \/ \E o \in Orders, t \in Targets : Tap(s, o, t)

\* What a session is about stays what it is until it is done.
LEMMA Tapped ==
  ASSUME IInv, NEW s \in Admins, pc[s] # "idle"
  PROVE  /\ tap[s] \in [order : Orders, target : Statuses]
         /\ OrderOf(s) \in Orders /\ Buyer(s) \in Customers
         /\ Buyer(s) = Customer[OrderOf(s)]
BY RulesAssumption DEF IInv, Kinds, SessionInv, MoveInv, OrderOf, Buyer

\* A status appended to an order's path is its status; the rest stays.
LEMMA Appended ==
  ASSUME NEW p \in Seq(Statuses), p # <<>>, NEW t \in Statuses
  PROVE  /\ Append(p, t) \in Seq(Statuses) /\ Append(p, t) # <<>>
         /\ Last(Append(p, t)) = t
         /\ Len(Append(p, t)) = Len(p) + 1 /\ Len(p) \in Nat \ {0}
         /\ \A i \in 1..Len(p) : Append(p, t)[i] = p[i]
         /\ Append(p, t)[Len(p) + 1] = t
BY DEF Last

----------------------------------------------------------------------------
\* Only a commit writes to the database, and only what its session may.
LEMMA OnlyCommitWrites ==
  ASSUME NEW s \in Admins, Acts(s), ~Commit(s)
  PROVE  UNCHANGED <<path, qualifiedBy>>
BY DEF Acts, Step, Waiting, Working, Tap, LockOrder, AwardPurchase, QualifyReferral,
       CreditReferred, CreditReferrer, CreditSide, AlreadyThere, RefuseMove, MoveOrder,
       EarnsNothing, GrantMilestone, ReadReferral, GrantReferralSpin, RollbackRefused,
       Answer, NotifyCustomer, TellReferral, Abort, Done, db

LEMMA CommitEffect ==
  ASSUME IInv, NEW s \in Admins, Commit(s)
  PROVE  /\ \A o \in Orders : path'[o] =
              IF moved[s] /\ o = OrderOf(s) THEN Append(path[o], tap[s].target) ELSE path[o]
         /\ \A c \in Customers : qualifiedBy'[c] =
              IF qualifies[s] /\ c = Buyer(s) THEN OrderOf(s) ELSE qualifiedBy[c]
         /\ path' \in [Orders -> Seq(Statuses)] /\ \A o \in Orders : path'[o] # <<>>
         /\ qualifiedBy' \in [Customers -> Orders \cup {None}]
<1>1. /\ tap[s] \in [order : Orders, target : Statuses]
      /\ OrderOf(s) \in Orders /\ Buyer(s) \in Customers
  BY Tapped DEF Commit
<1>2. /\ path \in [Orders -> Seq(Statuses)] /\ \A o \in Orders : path[o] # <<>>
      /\ qualifiedBy \in [Customers -> Orders \cup {None}]
  BY DEF IInv, Kinds
<1>3. \A o \in Orders : path'[o] =
        IF moved[s] /\ o = OrderOf(s) THEN Append(path[o], tap[s].target) ELSE path[o]
  BY <1>1, <1>2 DEF Commit
<1>4. /\ Append(path[OrderOf(s)], tap[s].target) \in Seq(Statuses)
      /\ Append(path[OrderOf(s)], tap[s].target) # <<>>
  BY <1>1, <1>2, Appended
<1>5. path' \in [Orders -> Seq(Statuses)] /\ \A o \in Orders : path'[o] # <<>>
  BY <1>1, <1>2, <1>3, <1>4 DEF Commit
<1> QED BY <1>1, <1>2, <1>3, <1>5 DEF Commit

\* A step touches only its own session's locks, and takes only free ones.
LEMMA OwnLocks ==
  ASSUME Kinds, NEW s \in Admins, Acts(s),
         NEW lock \in {"order", "account", "referral"}
  PROVE  LET old == IF lock = "order" THEN orderLock
                    ELSE IF lock = "account" THEN accountLock ELSE referralLock
             new == IF lock = "order" THEN orderLock'
                    ELSE IF lock = "account" THEN accountLock' ELSE referralLock'
         IN  /\ DOMAIN new = DOMAIN old
             /\ \A row \in DOMAIN old :
                  \/ new[row] = old[row]
                  \/ old[row] \in {None, s} /\ new[row] = s
                  \/ old[row] = s /\ new[row] = None
<1>1. CASE Commit(s) \/ RollbackRefused(s) \/ Abort(s)
  BY <1>1 DEF Commit, RollbackRefused, Abort, ReleaseAll, Free, Kinds
<1>2. CASE Waiting(s)
  BY <1>2 DEF Waiting, LockOrder, AwardPurchase, QualifyReferral, CreditReferred,
              CreditReferrer, CreditSide, Acquire, Kinds
<1>3. CASE UNCHANGED locks
  BY <1>3 DEF locks
<1> QED BY <1>1, <1>2, <1>3
        DEF Acts, Step, Working, Tap, AlreadyThere, RefuseMove, MoveOrder, EarnsNothing,
            GrantMilestone, ReadReferral, GrantReferralSpin, Answer, NotifyCustomer, TellReferral

LEMMA OthersLocks ==
  ASSUME Kinds, NEW s \in Admins, Acts(s), NEW t \in Admins, t # s, None \notin Admins
  PROVE  /\ \A o \in Orders : orderLock'[o] = t <=> orderLock[o] = t
         /\ \A c \in Customers : accountLock'[c] = t <=> accountLock[c] = t
         /\ \A c \in Customers : referralLock'[c] = t <=> referralLock[c] = t
<1>1. \A o \in Orders : orderLock'[o] = t <=> orderLock[o] = t
  BY OwnLocks, "order" \in {"order", "account", "referral"} DEF Kinds
<1>2. \A c \in Customers : accountLock'[c] = t <=> accountLock[c] = t
  BY OwnLocks, "account" \in {"order", "account", "referral"} DEF Kinds
<1>3. \A c \in Customers : referralLock'[c] = t <=> referralLock[c] = t
  BY OwnLocks, "referral" \in {"order", "account", "referral"} DEF Kinds
<1> QED BY <1>1, <1>2, <1>3

\* Every step keeps the rows, locks and taps of their kinds.
LEMMA KindsStep ==
  ASSUME IInv, NEW s \in Admins, Acts(s)
  PROVE  Kinds'
<1>1. Kinds
  BY DEF IInv
<1>2. /\ path' \in [Orders -> Seq(Statuses)] /\ \A o \in Orders : path'[o] # <<>>
      /\ qualifiedBy' \in [Customers -> Orders \cup {None}]
  BY <1>1, OnlyCommitWrites, CommitEffect DEF Kinds
<1>3. /\ orderLock' \in [Orders -> Admins \cup {None}]
      /\ accountLock' \in [Customers -> Admins \cup {None}]
      /\ referralLock' \in [Customers -> Admins \cup {None}]
  <2>1. CASE Commit(s) \/ RollbackRefused(s) \/ Abort(s)
    BY <1>1, <2>1 DEF Commit, RollbackRefused, Abort, ReleaseAll, Free, Kinds
  <2>2. CASE Waiting(s)
    BY <1>1, <2>2 DEF Waiting, LockOrder, AwardPurchase, QualifyReferral, CreditReferred,
                CreditReferrer, CreditSide, Acquire, Kinds
  <2>3. CASE UNCHANGED locks
    BY <1>1, <2>3 DEF locks, Kinds
  <2> QED BY <2>1, <2>2, <2>3
          DEF Acts, Step, Working, Tap, AlreadyThere, RefuseMove, MoveOrder, EarnsNothing,
              GrantMilestone, ReadReferral, GrantReferralSpin, Answer, NotifyCustomer, TellReferral
<1>4. \A o \in Orders : Status(o) \in Statuses
  BY <1>1 DEF Kinds, Status, Last
<1>5. /\ pc' \in [Admins -> Phases]
      /\ tap' \in [Admins -> [order : Orders, target : Statuses] \cup {None}]
      /\ seen' \in [Admins -> Statuses \cup {None}]
      /\ moved' \in [Admins -> BOOLEAN] /\ qualifies' \in [Admins -> BOOLEAN]
  <2>1. CASE \E o \in Orders, t \in Targets : Tap(s, o, t)
    BY <1>1, <1>4, <2>1, CompletionAssumption DEF Tap, Go, Kinds, Phases, writes
  <2>2. CASE Waiting(s)
    <3>1. pc[s] # "idle"
      BY <2>2 DEF Waiting, LockOrder, AwardPurchase, QualifyReferral, CreditReferred, CreditReferrer
    <3>2. Status(OrderOf(s)) \in Statuses
      BY <1>4, <3>1, Tapped
    <3>3. CASE LockOrder(s)
      BY <1>1, <3>2, <3>3 DEF LockOrder, Go, Kinds, Phases, Holding, writes
    <3>4. CASE QualifyReferral(s)
      BY <1>1, <3>4 DEF QualifyReferral, Go, Kinds, Phases, Holding
    <3>5. CASE AwardPurchase(s) \/ CreditReferred(s) \/ CreditReferrer(s)
      BY <1>1, <3>5
         DEF AwardPurchase, CreditReferred, CreditReferrer, CreditSide, Go, Kinds, Phases, Holding
    <3> QED BY <2>2, <3>3, <3>4, <3>5 DEF Waiting
  <2>3. CASE \/ AlreadyThere(s) \/ RefuseMove(s) \/ MoveOrder(s) \/ EarnsNothing(s)
             \/ GrantMilestone(s) \/ ReadReferral(s) \/ GrantReferralSpin(s)
    BY <1>1, <2>3
       DEF AlreadyThere, RefuseMove, MoveOrder, EarnsNothing, GrantMilestone, ReadReferral,
           GrantReferralSpin, Go, Kinds, Phases, Holding, writes
  <2>4. CASE Commit(s) \/ RollbackRefused(s) \/ NotifyCustomer(s)
    BY <1>1, <2>4
       DEF Commit, RollbackRefused, NotifyCustomer, Forget, Go, Kinds, Phases, writes
  <2>5. CASE Answer(s) \/ TellReferral(s) \/ Abort(s)
    BY <1>1, <2>5 DEF Answer, TellReferral, Abort, Done, Forget, Go, Kinds, Phases, writes
  <2> QED BY <2>1, <2>2, <2>3, <2>4, <2>5 DEF Acts, Step, Working
<1> QED BY <1>2, <1>3, <1>5 DEF Kinds

----------------------------------------------------------------------------
\* What a commit leaves of an order's status.
LEMMA StatusAfter ==
  ASSUME IInv, NEW s \in Admins, Acts(s), NEW o \in Orders
  PROVE  Status(o)' = IF Commit(s) /\ moved[s] /\ o = OrderOf(s)
                      THEN tap[s].target ELSE Status(o)
<1>1. CASE ~Commit(s)
  BY <1>1, OnlyCommitWrites DEF Status
<1>2. CASE Commit(s)
  <2>1. tap[s].target \in Statuses /\ path[o] \in Seq(Statuses) /\ path[o] # <<>>
    BY <1>2, Tapped DEF Commit, IInv, Kinds
  <2> QED BY <1>2, <2>1, CommitEffect, Appended DEF Status
<1> QED BY <1>1, <1>2

\* A session keeps what it has whatever another one does.
LEMMA OthersKeep ==
  ASSUME IInv, NEW s \in Admins, Acts(s), NEW t \in Admins, t # s
  PROVE  SessionInv(t)'
<1>1. Kinds /\ SessionInv(s) /\ SessionInv(t) /\ None \notin Admins
  BY CompletionAssumption DEF IInv
<1>2. /\ pc'[t] = pc[t] /\ tap'[t] = tap[t] /\ seen'[t] = seen[t]
      /\ moved'[t] = moved[t] /\ qualifies'[t] = qualifies[t]
  <2>1. CASE (\E o \in Orders, x \in Targets : Tap(s, o, x)) \/ Waiting(s)
    BY <1>1, <2>1 DEF Tap, Waiting, LockOrder, AwardPurchase, QualifyReferral, CreditReferred,
                CreditReferrer, CreditSide, Go, Kinds, writes
  <2>2. CASE Working(s) \/ Abort(s)
    BY <1>1, <2>2
       DEF Working, AlreadyThere, RefuseMove, MoveOrder, EarnsNothing, GrantMilestone,
           ReadReferral, GrantReferralSpin, Commit, RollbackRefused, Answer, NotifyCustomer,
           TellReferral, Abort, Done, Forget, Go, Kinds, writes
  <2> QED BY <2>1, <2>2 DEF Acts, Step
<1>3. OrderOf(t)' = OrderOf(t) /\ Buyer(t)' = Buyer(t)
  BY <1>2 DEF OrderOf, Buyer
<1>4. pc[t] # "idle" => OrderOf(t) \in Orders /\ Buyer(t) \in Customers
  BY Tapped
<1>5. pc[s] # "idle" => OrderOf(s) \in Orders /\ Buyer(s) \in Customers
  BY Tapped
<1>6. pc[t] \in Holding => Status(OrderOf(t))' = Status(OrderOf(t))
  <2>1. pc[t] \in Holding /\ Commit(s) => OrderOf(t) # OrderOf(s)
    BY <1>1 DEF SessionInv, LockInv, Commit, Holding
  <2>2. pc[t] \in Holding => pc[t] # "idle"
    BY DEF Holding
  <2>3. pc[t] \in Holding => path'[OrderOf(t)] = path[OrderOf(t)]
    BY <1>4, <2>1, <2>2, OnlyCommitWrites, CommitEffect
  <2> QED BY <1>3, <2>3 DEF Status
<1>7. qualifies[t] => qualifiedBy'[Buyer(t)] = qualifiedBy[Buyer(t)]
  <2>1. CASE ~Commit(s)
    BY <2>1, OnlyCommitWrites
  <2>2. CASE Commit(s) /\ qualifies[t]
    <3>1. pc[t] # "idle" /\ referralLock[Buyer(t)] = t
      BY <1>1, <2>2 DEF SessionInv, LockInv, PayoutInv, Crediting
    <3>2. qualifies[s] => Buyer(s) # Buyer(t)
      BY <1>1, <3>1 DEF SessionInv, LockInv
    <3> QED BY <1>4, <2>2, <3>1, <3>2, CommitEffect
  <2> QED BY <2>1, <2>2
<1>8. LockInv(t)'
  <2>1. /\ pc[t] \in Holding => pc[t] # "idle"
        /\ pc[t] \in Settling => pc[t] # "idle"
        /\ pc[t] \in Crediting \/ qualifies[t] => pc[t] # "idle"
    BY <1>1 DEF Holding, Settling, Crediting, SessionInv, PayoutInv
  <2> QED BY <1>1, <1>2, <1>3, <1>4, <2>1, OthersLocks DEF SessionInv, LockInv
<1>9. MoveInv(t)' /\ PayoutInv(t)'
  BY <1>1, <1>2, <1>3, <1>6, <1>7 DEF SessionInv, MoveInv, PayoutInv
<1> QED BY <1>8, <1>9 DEF SessionInv

\* Nothing is held, read or decided any more when a transaction is over.
LEMMA Released ==
  ASSUME IInv, NEW s \in Admins, ReleaseAll(s), Forget(s)
  PROVE  /\ \A o \in Orders : orderLock'[o] # s
         /\ \A c \in Customers : accountLock'[c] # s
         /\ \A c \in Customers : referralLock'[c] # s
         /\ ~moved'[s] /\ ~qualifies'[s]
BY CompletionAssumption DEF IInv, Kinds, ReleaseAll, Free, Forget

\* And nothing of what SessionInv says is asked of it then.
LEMMA SetFree ==
  ASSUME NEW s \in Admins,
         \A o \in Orders : orderLock'[o] # s,
         \A c \in Customers : accountLock'[c] # s,
         \A c \in Customers : referralLock'[c] # s,
         ~moved'[s], ~qualifies'[s],
         pc'[s] \in {"idle", "read", "answer", "committed", "news"},
         pc'[s] # "idle" => tap'[s] \in [order : Orders, target : Statuses]
  PROVE  SessionInv(s)'
BY DEF SessionInv, LockInv, MoveInv, PayoutInv, Holding, Settling, Crediting

\* A session keeps what it has when it goes on.
LEMMA SelfKeeps ==
  ASSUME IInv, NEW s \in Admins, Acts(s)
  PROVE  SessionInv(s)'
<1>1. Kinds /\ SessionInv(s) /\ None \notin Admins /\ None \notin Orders
  BY CompletionAssumption, RulesAssumption DEF IInv
<1>2. pc[s] # "idle" => /\ OrderOf(s) \in Orders /\ Buyer(s) \in Customers
                        /\ tap[s] \in [order : Orders, target : Statuses]
  BY Tapped
\* Every step but the first and the last ones leaves the tap alone.
<1>3. tap' = tap => OrderOf(s)' = OrderOf(s) /\ Buyer(s)' = Buyer(s)
  BY DEF OrderOf, Buyer
<1>4. path' = path => Status(OrderOf(s))' = Last(path[OrderOf(s)'])
  BY DEF Status
<1>5. ASSUME NEW o \in Orders, NEW x \in Targets, Tap(s, o, x) PROVE SessionInv(s)'
  <2>1. /\ pc[s] = "idle" /\ pc'[s] = "read" /\ UNCHANGED <<locks, moved, qualifies>>
        /\ tap'[s] = [order |-> o, target |-> x]
    BY <1>1, <1>5 DEF Tap, Go, Kinds, writes
  <2>2. tap'[s] \in [order : Orders, target : Statuses]
    BY <2>1, CompletionAssumption
  <2> QED BY <1>1, <2>1, <2>2
          DEF SessionInv, LockInv, MoveInv, PayoutInv, Holding, Settling, Crediting, locks
<1>6. CASE LockOrder(s)
  <2>1. /\ pc[s] = "read" /\ pc'[s] = "locked" /\ seen'[s] = Status(OrderOf(s))
        /\ orderLock' = [orderLock EXCEPT ![OrderOf(s)] = s]
        /\ UNCHANGED <<path, qualifiedBy, accountLock, referralLock, tap, moved, qualifies>>
    BY <1>1, <1>6 DEF LockOrder, Acquire, Go, Kinds, writes, db
  <2>2. LockInv(s)'
    BY <1>1, <1>2, <1>3, <2>1 DEF SessionInv, LockInv, PayoutInv, Holding, Settling, Crediting, Kinds
  <2>3. MoveInv(s)' /\ PayoutInv(s)'
    BY <1>1, <1>2, <1>3, <2>1
       DEF SessionInv, MoveInv, PayoutInv, Holding, Settling, Crediting, Status
  <2> QED BY <2>2, <2>3 DEF SessionInv
<1>7. CASE AlreadyThere(s) \/ RefuseMove(s) \/ MoveOrder(s)
  <2>1. /\ pc[s] = "locked" /\ pc'[s] \in {"written", "refused", "award"}
        /\ pc'[s] = "award" => moved'[s] /\ tap[s].target = "completed"
        /\ moved'[s] => moved[s] \/ CanTransition(seen[s], tap[s].target)
        /\ UNCHANGED <<path, qualifiedBy, locks, tap, seen, qualifies>>
    BY <1>1, <1>7 DEF AlreadyThere, RefuseMove, MoveOrder, Go, Kinds, writes, db
  <2>2. LockInv(s)'
    BY <1>1, <1>3, <2>1 DEF SessionInv, LockInv, Holding, Settling, Crediting, locks
  <2>3. MoveInv(s)' /\ PayoutInv(s)'
    BY <1>1, <1>3, <2>1
       DEF SessionInv, MoveInv, PayoutInv, Holding, Settling, Crediting, Status
  <2> QED BY <2>2, <2>3 DEF SessionInv
<1>8. CASE AwardPurchase(s)
  <2>1. /\ pc[s] = "award" /\ pc'[s] = "booked" /\ Qualifies(OrderOf(s))
        /\ accountLock' = [accountLock EXCEPT ![Buyer(s)] = s]
        /\ UNCHANGED <<path, qualifiedBy, orderLock, referralLock, tap, seen, moved, qualifies>>
    BY <1>1, <1>8 DEF AwardPurchase, Acquire, Go, Kinds, db
  <2>2. LockInv(s)'
    BY <1>1, <1>2, <1>3, <2>1 DEF SessionInv, LockInv, Holding, Settling, Crediting, Kinds
  <2>3. MoveInv(s)' /\ PayoutInv(s)'
    BY <1>1, <1>3, <2>1
       DEF SessionInv, MoveInv, PayoutInv, Holding, Settling, Crediting, Status, Qualifies
  <2> QED BY <2>2, <2>3 DEF SessionInv
<1>9. CASE EarnsNothing(s) \/ GrantMilestone(s) \/ ReadReferral(s) \/ GrantReferralSpin(s)
  <2>1. UNCHANGED <<path, qualifiedBy, locks, tap, seen, moved, qualifies>>
    BY <1>9 DEF EarnsNothing, GrantMilestone, ReadReferral, GrantReferralSpin, writes, db
  <2>2. \/ pc[s] \in {"award", "payout", "spin"} /\ pc'[s] = "written"
        \/ pc[s] = "booked" /\ pc'[s] = "payout"
        \/ pc[s] = "payout" /\ pc'[s] = "qualify" /\ Referrer[Buyer(s)] # None
    BY <1>1, <1>9 DEF EarnsNothing, GrantMilestone, ReadReferral, GrantReferralSpin, Go, Kinds
  <2>3. LockInv(s)'
    BY <1>1, <1>3, <2>1, <2>2 DEF SessionInv, LockInv, Holding, Settling, Crediting, locks
  <2>4. Referrer[Buyer(s)] # None /\ pc[s] = "payout" => Referrer[Buyer(s)] \in Customers
    BY <1>2, RulesAssumption
  <2>5. MoveInv(s)' /\ PayoutInv(s)'
    BY <1>1, <1>3, <2>1, <2>2, <2>4
       DEF SessionInv, MoveInv, PayoutInv, Holding, Settling, Crediting, Status, Qualifies
  <2> QED BY <2>3, <2>5 DEF SessionInv
<1>10. CASE QualifyReferral(s)
  <2>1. /\ pc[s] = "qualify"
        /\ referralLock' = [referralLock EXCEPT ![Buyer(s)] = s]
        /\ UNCHANGED <<path, qualifiedBy, orderLock, accountLock, tap, seen, moved>>
        /\ \/ /\ qualifiedBy[Buyer(s)] = None /\ qualifies'[s] /\ pc'[s] = "credit_referred"
           \/ qualifies' = qualifies /\ pc'[s] = "written"
    BY <1>1, <1>10 DEF QualifyReferral, Acquire, Go, Kinds, db
  <2>2. LockInv(s)'
    BY <1>1, <1>2, <1>3, <2>1
       DEF SessionInv, LockInv, PayoutInv, Holding, Settling, Crediting, Kinds
  <2>3. MoveInv(s)' /\ PayoutInv(s)'
    BY <1>1, <1>3, <2>1
       DEF SessionInv, MoveInv, PayoutInv, Holding, Settling, Crediting, Status, Qualifies
  <2> QED BY <2>2, <2>3 DEF SessionInv
<1>11. CASE CreditReferred(s) \/ CreditReferrer(s)
  <2>1. /\ UNCHANGED <<path, qualifiedBy, orderLock, referralLock, tap, seen, moved, qualifies>>
        /\ \/ /\ pc[s] = "credit_referred" /\ pc'[s] = "credit_referrer"
              /\ accountLock' \in {accountLock, [accountLock EXCEPT ![Buyer(s)] = s]}
           \/ /\ pc[s] = "credit_referrer" /\ pc'[s] = "spin"
              /\ accountLock' \in {accountLock, [accountLock EXCEPT ![Referrer[Buyer(s)]] = s]}
    BY <1>1, <1>11 DEF CreditReferred, CreditReferrer, CreditSide, Acquire, Go, Kinds, db
  <2>2. LockInv(s)'
    BY <1>1, <1>2, <1>3, <2>1 DEF SessionInv, LockInv, Holding, Settling, Crediting, Kinds
  <2>3. MoveInv(s)' /\ PayoutInv(s)'
    BY <1>1, <1>3, <2>1
       DEF SessionInv, MoveInv, PayoutInv, Holding, Settling, Crediting, Status, Qualifies
  <2> QED BY <2>2, <2>3 DEF SessionInv
<1>12. CASE Commit(s) \/ RollbackRefused(s)
  <2>1. pc[s] \in {"written", "refused"} /\ pc'[s] \in {"committed", "answer"} /\ tap' = tap
    BY <1>1, <1>12 DEF Commit, RollbackRefused, Go, Kinds
  <2>2. ReleaseAll(s) /\ Forget(s)
    BY <1>12 DEF Commit, RollbackRefused
  <2> QED BY <1>1, <2>1, <2>2, Released, SetFree DEF SessionInv, MoveInv
<1>13. CASE Abort(s)
  <2>1. pc'[s] = "idle" /\ ReleaseAll(s) /\ Forget(s)
    BY <1>1, <1>13 DEF Abort, Done, Go, Kinds
  <2> QED BY <2>1, Released, SetFree
<1>14. CASE Answer(s) \/ NotifyCustomer(s) \/ TellReferral(s)
  <2>1. /\ pc[s] \in {"answer", "committed", "news"} /\ pc'[s] \in {"idle", "answer", "news"}
        /\ pc'[s] # "idle" => tap' = tap
        /\ UNCHANGED <<locks, moved, qualifies>>
    BY <1>1, <1>14 DEF Answer, NotifyCustomer, TellReferral, Done, Go, Kinds, writes
  <2> QED BY <1>1, <2>1
          DEF SessionInv, LockInv, MoveInv, PayoutInv, Holding, Settling, Crediting, locks
<1> QED BY <1>5, <1>6, <1>7, <1>8, <1>9, <1>10, <1>11, <1>12, <1>13, <1>14
        DEF Acts, Step, Waiting, Working

----------------------------------------------------------------------------
\* The order whose status a commit writes stood, until then, where its session
\* saw it, and the table leads from there to what is written.
LEMMA CommitMoves ==
  ASSUME IInv, NEW s \in Admins, Commit(s), moved[s]
  PROVE  CanTransition(Status(OrderOf(s)), tap[s].target)
BY DEF IInv, SessionInv, MoveInv, Commit, Holding

LEMMA PathStep ==
  ASSUME IInv, NEW s \in Admins, Acts(s)
  PROVE  PathFollowsTable'
<1>1. CASE ~Commit(s)
  BY <1>1, OnlyCommitWrites DEF IInv, PathFollowsTable
<1>2. CASE Commit(s)
  <2> SUFFICES ASSUME NEW o \in Orders, NEW i \in 1..(Len(path'[o]) - 1)
               PROVE  CanTransition(path'[o][i], path'[o][i + 1])
    BY DEF PathFollowsTable
  <2>1. path[o] \in Seq(Statuses) /\ path[o] # <<>> /\ tap[s].target \in Statuses
    BY <1>2, Tapped DEF Commit, IInv, Kinds
  <2>2. CASE moved[s] /\ o = OrderOf(s)
    <3>1. path'[o] = Append(path[o], tap[s].target)
      BY <1>2, <2>2, CommitEffect
    <3>2. /\ Len(path'[o]) = Len(path[o]) + 1 /\ Len(path[o]) \in Nat \ {0}
          /\ \A k \in 1..Len(path[o]) : path'[o][k] = path[o][k]
          /\ path'[o][Len(path[o]) + 1] = tap[s].target
      BY <2>1, <3>1, Appended
    <3>3. CASE i = Len(path[o])
      BY <1>2, <2>2, <3>2, <3>3, CommitMoves DEF Status, Last
    <3>4. CASE i # Len(path[o])
      <4>1. i \in 1..(Len(path[o]) - 1) /\ i + 1 \in 1..Len(path[o]) /\ i \in 1..Len(path[o])
        BY <3>2, <3>4
      <4>2. CanTransition(path[o][i], path[o][i + 1])
        BY <4>1 DEF IInv, PathFollowsTable
      <4> QED BY <3>2, <4>1, <4>2
    <3> QED BY <3>3, <3>4
  <2>3. CASE ~(moved[s] /\ o = OrderOf(s))
    BY <1>2, <2>3, CommitEffect DEF IInv, PathFollowsTable
  <2> QED BY <2>2, <2>3
<1> QED BY <1>1, <1>2

\* Completed is final, and a referral is qualified in the transaction that
\* completes the order it is qualified by.
LEMMA PaidStep ==
  ASSUME IInv, NEW s \in Admins, Acts(s)
  PROVE  PaidForPurchase'
<1> SUFFICES ASSUME NEW c \in Customers, qualifiedBy'[c] # None
             PROVE  /\ Customer[qualifiedBy'[c]] = c /\ Qualifies(qualifiedBy'[c])
                    /\ Last(path'[qualifiedBy'[c]]) = "completed"
  BY DEF PaidForPurchase, Status, Qualifies
<1>1. CASE ~Commit(s)
  BY <1>1, OnlyCommitWrites DEF IInv, PaidForPurchase, Status
<1>2. CASE Commit(s) /\ qualifies[s] /\ c = Buyer(s)
  <2>1. /\ moved[s] /\ tap[s].target = "completed" /\ Qualifies(OrderOf(s))
        /\ OrderOf(s) \in Orders /\ Buyer(s) = Customer[OrderOf(s)]
    BY <1>2, Tapped DEF IInv, SessionInv, PayoutInv, Commit
  <2>2. qualifiedBy'[c] = OrderOf(s)
    BY <1>2, CommitEffect
  <2>3. Last(path'[OrderOf(s)]) = "completed"
    BY <1>2, <2>1, StatusAfter DEF Status
  <2> QED BY <1>2, <2>1, <2>2, <2>3
<1>3. CASE Commit(s) /\ ~(qualifies[s] /\ c = Buyer(s))
  <2> DEFINE o == qualifiedBy[c]
  <2>1. qualifiedBy'[c] = o
    BY <1>3, CommitEffect
  <2>2. o \in Orders /\ Customer[o] = c /\ Qualifies(o) /\ Status(o) = "completed"
    BY <2>1 DEF IInv, Kinds, PaidForPurchase
  <2>3. ~(moved[s] /\ o = OrderOf(s))
    BY <1>3, <2>2, CommitMoves DEF CanTransition, AllowedTransitions
  <2>4. path'[o] = path[o]
    BY <1>3, <2>2, <2>3, CommitEffect
  <2> QED BY <2>1, <2>2, <2>4 DEF Status
<1> QED BY <1>1, <1>2, <1>3

LEMMA InvStarts == Init => IInv
<1> SUFFICES ASSUME Init PROVE IInv
  OBVIOUS
<1>1. Kinds
  BY RulesAssumption DEF Init, Kinds, Phases
<1>2. PathFollowsTable
  BY DEF Init, PathFollowsTable
<1>3. PaidForPurchase
  BY DEF Init, PaidForPurchase
<1>4. \A s \in Admins : SessionInv(s)
  BY CompletionAssumption
     DEF Init, SessionInv, LockInv, MoveInv, PayoutInv, Holding, Settling, Crediting
<1> QED BY <1>1, <1>2, <1>3, <1>4 DEF IInv

LEMMA InvStep == IInv /\ [Next]_vars => IInv'
<1> SUFFICES ASSUME IInv, [Next]_vars PROVE IInv'
  OBVIOUS
<1>1. CASE UNCHANGED vars
  <2>1. Kinds' /\ PathFollowsTable' /\ PaidForPurchase'
    BY <1>1 DEF vars, db, locks, writes, IInv, Kinds, PathFollowsTable, PaidForPurchase, Status
  <2>2. ASSUME NEW t \in Admins PROVE SessionInv(t)'
    BY <1>1 DEF vars, db, locks, writes, IInv, SessionInv, LockInv, MoveInv, PayoutInv,
                Status, OrderOf, Buyer
  <2> QED BY <2>1, <2>2 DEF IInv
<1>2. CASE Next
  <2>1. PICK s \in Admins : Acts(s)
    BY <1>2 DEF Next, Acts, Step
  <2>2. Kinds' /\ PathFollowsTable' /\ PaidForPurchase'
    BY <2>1, KindsStep, PathStep, PaidStep
  <2>3. ASSUME NEW t \in Admins PROVE SessionInv(t)'
    BY <2>1, SelfKeeps, OthersKeep
  <2> QED BY <2>2, <2>3 DEF IInv
<1> QED BY <1>1, <1>2

\* The invariant holds at the start and every step keeps it.
THEOREM SettlementInvariant == Spec => []IInv
BY InvStarts, InvStep, PTL DEF Spec

----------------------------------------------------------------------------
\* However many admins tap however old screens, an order only ever moves along
\* the table of order_status.py: what is decided on was read under its lock.
THEOREM OrdersFollowTheTable == Spec => []PathFollowsTable
<1>1. IInv => PathFollowsTable
  BY DEF IInv
<1> QED BY <1>1, SettlementInvariant, PTL

\* Once a referral is qualified it stays so, by the order that qualified it: two
\* completions of one customer at once do not both pay the referrer.
QualifiedOnce ==
  [][\A c \in Customers : qualifiedBy[c] # None => qualifiedBy'[c] = qualifiedBy[c]]_vars

\* The referral row is locked and read again before anybody is paid, up to the
\* commit (services/referral.py): an invitation is qualified once.
THEOREM PayoutHappensOnce == Spec => QualifiedOnce
<1>1. IInv /\ [Next]_vars =>
        [\A c \in Customers : qualifiedBy[c] # None => qualifiedBy'[c] = qualifiedBy[c]]_vars
  <2> SUFFICES ASSUME IInv, Next, NEW c \in Customers, qualifiedBy[c] # None
               PROVE  qualifiedBy'[c] = qualifiedBy[c]
    OBVIOUS
  <2>1. PICK s \in Admins : Acts(s)
    BY DEF Next, Acts, Step
  <2>2. CASE ~Commit(s)
    BY <2>1, <2>2, OnlyCommitWrites
  <2>3. CASE Commit(s)
    BY <2>3, CommitEffect DEF IInv, SessionInv, PayoutInv
  <2> QED BY <2>2, <2>3
<1> QED BY <1>1, SettlementInvariant, PTL DEF Spec, QualifiedOnce

----------------------------------------------------------------------------
\* How far a session can be from one that waits for nothing: a buyer's account
\* is waited for before their referrer's, and referrers are ever closer to the
\* top of their chain.
Rank(depth, s) ==
  CASE pc[s] = "read" -> 2 * depth[Buyer(s)] + 3
    [] pc[s] = "award" -> 2 * depth[Buyer(s)] + 2
    [] pc[s] \in {"qualify", "credit_referred", "credit_referrer"} -> 2 * depth[Buyer(s)] + 1
    [] OTHER -> 0

LEMMA WaitsDownwards ==
  ASSUME IInv,
         NEW depth \in [Customers -> Nat],
         \A c \in Customers : Referrer[c] \in Customers => depth[Referrer[c]] < depth[c],
         NEW s \in Admins, Blocker(s) \in Admins \ {s}
  PROVE  Rank(depth, Blocker(s)) < Rank(depth, s)
<1> DEFINE b == Blocker(s)
<1>1. Kinds /\ SessionInv(s) /\ SessionInv(b) /\ b \in Admins \ {s}
  BY DEF IInv
<1>2. pc[s] \in {"read", "award", "qualify", "credit_referred", "credit_referrer"}
  BY CompletionAssumption DEF Blocker
<1>3. OrderOf(s) \in Orders /\ Buyer(s) \in Customers /\ Buyer(s) = Customer[OrderOf(s)]
  BY <1>2, Tapped
<1>4. pc[b] # "idle" =>
        OrderOf(b) \in Orders /\ Buyer(b) \in Customers /\ Buyer(b) = Customer[OrderOf(b)]
  BY <1>1, Tapped
\* Who holds an account, and waits, waits for the referrer's: it holds its buyer's.
<1>5. ASSUME NEW c \in Customers, accountLock[c] = b
      PROVE  \/ c = Buyer(b) /\ pc[b] \in Settling
             \/ Rank(depth, b) = 0
  <2>1. CASE pc[b] \in {"spin", "written"}
    BY <2>1 DEF Rank
  <2> QED BY <1>1, <1>5, <2>1 DEF SessionInv, LockInv
<1>6. pc[b] \in Settling => Rank(depth, b) <= 2 * depth[Buyer(b)] + 1 /\ Rank(depth, b) \in Nat
  <2> SUFFICES ASSUME pc[b] \in Settling
               PROVE  Rank(depth, b) <= 2 * depth[Buyer(b)] + 1 /\ Rank(depth, b) \in Nat
    OBVIOUS
  <2>1. depth[Buyer(b)] \in Nat
    BY <1>4 DEF Settling
  <2> QED BY <2>1 DEF Rank, Settling
<1>7. depth[Buyer(s)] \in Nat
  BY <1>3
<1>8. CASE pc[s] = "read"
  <2>1. b = orderLock[OrderOf(s)]
    BY <1>8 DEF Blocker
  <2>2. pc[b] \in Holding /\ OrderOf(b) = OrderOf(s)
    BY <1>1, <1>3, <2>1 DEF SessionInv, LockInv
  <2>3. Buyer(b) = Buyer(s)
    BY <1>3, <1>4, <2>2 DEF Holding
  <2>4. Rank(depth, b) <= 2 * depth[Buyer(s)] + 2
    BY <1>7, <2>2, <2>3 DEF Rank, Holding
  <2>5. Rank(depth, b) \in Nat
    BY <1>7, <2>2, <2>3 DEF Rank, Holding
  <2>6. Rank(depth, s) = 2 * depth[Buyer(s)] + 3
    BY <1>8 DEF Rank
  <2> QED BY <1>7, <2>4, <2>5, <2>6
<1>9. CASE pc[s] = "award"
  <2>1. b = accountLock[Buyer(s)]
    BY <1>1, <1>9, CompletionAssumption DEF Blocker
  <2>2. Rank(depth, s) = 2 * depth[Buyer(s)] + 2
    BY <1>9 DEF Rank
  <2> QED BY <1>3, <1>5, <1>6, <1>7, <2>1, <2>2
\* Past the award a session holds its buyer's account, so nobody is in its way
\* at the referral, nor when the buyer is credited.
<1>10. CASE pc[s] = "qualify"
  <2>1. b = referralLock[Buyer(s)]
    BY <1>10 DEF Blocker
  <2>2. Buyer(b) = Buyer(s) /\ pc[b] \in Crediting \cup {"written"}
    BY <1>1, <1>3, <2>1 DEF SessionInv, LockInv
  <2>3. pc[b] \notin Crediting
    BY <1>1, <1>10, <2>2 DEF SessionInv, LockInv, Settling, Crediting
  <2>4. Rank(depth, b) = 0
    BY <2>2, <2>3 DEF Rank
  <2>5. Rank(depth, s) = 2 * depth[Buyer(s)] + 1
    BY <1>10 DEF Rank
  <2> QED BY <1>7, <2>4, <2>5
<1>11. CASE pc[s] = "credit_referred"
  <2>1. b = accountLock[Buyer(s)]
    BY <1>1, <1>11, CompletionAssumption DEF Blocker
  <2> QED BY <1>1, <1>11, <2>1 DEF SessionInv, LockInv, Settling
<1>12. CASE pc[s] = "credit_referrer"
  <2>1. b = accountLock[Referrer[Buyer(s)]] /\ Referrer[Buyer(s)] \in Customers
    BY <1>1, <1>12, CompletionAssumption DEF Blocker, SessionInv, PayoutInv, Crediting
  <2>2. Rank(depth, s) = 2 * depth[Buyer(s)] + 1
    BY <1>12 DEF Rank
  <2>3. depth[Referrer[Buyer(s)]] < depth[Buyer(s)] /\ depth[Referrer[Buyer(s)]] \in Nat
    BY <1>3, <2>1
  <2> QED BY <1>5, <1>6, <1>7, <2>1, <2>2, <2>3
<1> QED BY <1>2, <1>8, <1>9, <1>10, <1>11, <1>12

\* However long the chains of invitations, and however many of their orders are
\* completed at once: no set of admins waits in a circle, given that no chain
\* comes back on itself (every customer has a depth in theirs).
THEOREM CompletionsNeverCircular ==
  ASSUME NEW CONSTANT depth \in [Customers -> Nat],
         \A c \in Customers : Referrer[c] \in Customers => depth[Referrer[c]] < depth[c]
  PROVE  Spec => []NoWaitCycle
<1>1. ASSUME IInv PROVE NoWaitCycle
  <2> SUFFICES ASSUME NEW stuck \in SUBSET Admins, stuck # {},
                      \A s \in stuck : Blocker(s) \in stuck \ {s}
               PROVE  FALSE
    BY DEF NoWaitCycle
  <2> DEFINE ranks == {Rank(depth, s) : s \in stuck}
  <2>1. \A s \in stuck : Rank(depth, s) \in Nat
    <3> SUFFICES ASSUME NEW s \in stuck PROVE Rank(depth, s) \in Nat
      OBVIOUS
    <3>1. pc[s] \in {"read", "award", "qualify", "credit_referred", "credit_referrer"}
      BY CompletionAssumption DEF Blocker
    <3>2. depth[Buyer(s)] \in Nat
      BY <1>1, <3>1, Tapped
    <3> QED BY <3>1, <3>2 DEF Rank
  <2>2. ranks \subseteq Nat /\ ranks # {}
    BY <2>1
  <2>3. PICK n \in ranks : \A m \in ranks : <<m, n>> \notin OpToRel(<, Nat)
    BY <2>2, NatLessThanWellFounded, WFMin, Zenon
  <2>4. PICK s \in stuck : n = Rank(depth, s)
    OBVIOUS
  <2>5. Blocker(s) \in stuck /\ Rank(depth, Blocker(s)) < n
    BY <1>1, <2>4, WaitsDownwards
  <2>6. <<Rank(depth, Blocker(s)), n>> \in OpToRel(<, Nat)
    BY <2>1, <2>4, <2>5 DEF OpToRel
  <2> QED BY <2>3, <2>5, <2>6
<1>2. IInv => NoWaitCycle
  BY <1>1
<1> QED BY <1>2, SettlementInvariant, PTL

----------------------------------------------------------------------------
\* What a session has written, and what that makes of the ledgers.

PurchaseRow(o) == [kind |-> "purchase", ref |-> o, amount |-> StampsFor(o)]
ReferralRow(c, stamps) == [kind |-> "referral", ref |-> c, amount |-> stamps]
Milestone(o) == [user |-> Customer[o], kind |-> "purchase_milestone", ref |-> o]
Invitation(c) == [user |-> Referrer[c], kind |-> "referral", ref |-> c]

Purchased(c) == Cardinality(PurchaseRows(ledger[c]))

\* A session that completes a purchase.
Booking(s) == moved[s] /\ tap[s].target = "completed" /\ Qualifies(OrderOf(s))

\* How far its transaction has come: past one of these phases, or to its end.
Past(s, phases) == pc[s] \in phases \/ (pc[s] = "written" /\ Booking(s))
PaidPast(s, phases) == pc[s] \in phases \/ (pc[s] = "written" /\ qualifies[s])

PurchasePart(s) == IF Past(s, Settling) THEN <<PurchaseRow(OrderOf(s))>> ELSE <<>>
PayPart(s, stamps, phases) ==
  IF stamps > 0 /\ PaidPast(s, phases) THEN <<ReferralRow(Buyer(s), stamps)>> ELSE <<>>

RowsOf(s, u) ==
  IF u = Buyer(s)
  THEN PurchasePart(s) \o PayPart(s, ReferredStamps, {"credit_referrer", "spin"})
  ELSE IF u = Referrer[Buyer(s)] THEN PayPart(s, ReferrerStamps, {"spin"}) ELSE <<>>

WonBy(s) ==
  (IF Past(s, Settling \ {"booked"}) /\ IsMilestone(Purchased(Buyer(s)) + 1)
   THEN {Milestone(OrderOf(s))} ELSE {})
  \cup (IF PaidPast(s, {}) /\ ReferralSpins = 1 THEN {Invitation(Buyer(s))} ELSE {})

\* What a session has written is what its phase says, under the locks of the
\* accounts it wrote it for, and at its end the buyer's invitation is settled.
WriteInv(s) ==
  /\ \A u \in Customers : rows[s][u] = IF pc[s] \in Holding THEN RowsOf(s, u) ELSE <<>>
  /\ won[s] = IF pc[s] \in Holding THEN WonBy(s) ELSE {}
  /\ pc[s] = "written" /\ Booking(s) => accountLock[Buyer(s)] = s
  /\ ReferrerStamps > 0 /\ PaidPast(s, {"spin"}) => accountLock[Referrer[Buyer(s)]] = s
  /\ pc[s] = "written" /\ Booking(s) /\ Referrer[Buyer(s)] # None =>
       qualifies[s] \/ qualifiedBy[Buyer(s)] # None

DbKinds ==
  /\ ledger \in [Customers -> Seq(Row)]
  /\ grants \subseteq Grant /\ IsFiniteSet(grants)
  /\ rows \in [Admins -> [Customers -> Seq(Row)]]
  /\ won \in [Admins -> SUBSET Grant]

\* An invitation is paid at its customer's first purchase, if they have one, and
\* a milestone spin belongs to a Completed order.
FirstPurchasePays ==
  \A c \in Customers : qualifiedBy[c] # None <=> Referrer[c] # None /\ PurchaseRows(ledger[c]) # {}

MilestonesCompleted ==
  \A o \in Orders : Milestone(o) \in grants => Status(o) = "completed"

SInv == /\ IInv /\ DbKinds /\ SettledWhole /\ FirstPurchasePays /\ MilestonesCompleted
        /\ \A s \in Admins : WriteInv(s)

\* Who still has to tell the customer of a move, or of a payout.
Pending(o, t) ==
  {s \in Admins : pc[s] = "committed" /\ tap[s] = [order |-> o, target |-> t]}

Announcing(s) == pc[s] \in {"committed", "news"} /\ tap[s].target = "completed"

TellKinds == told \in [Orders -> Seq(Notifiable)] /\ news \in [Customers -> Nat]

\* Each move is told once, or somebody has to tell it still, or nobody ever will.
MovesTold ==
  \A o \in Orders, t \in Notifiable :
    /\ IsFiniteSet(Pending(o, t))
    /\ Times(told[o], 1, t) + Cardinality(Pending(o, t)) <= Times(path[o], 2, t)

\* One session at most has the completion of an order to announce.
AnnouncedOnce ==
  /\ \A s \in Admins : pc[s] = "news" => tap[s].target = "completed"
  /\ \A s \in Admins : Announcing(s) => Status(OrderOf(s)) = "completed"
  /\ \A s, t \in Admins : Announcing(s) /\ Announcing(t) /\ OrderOf(s) = OrderOf(t) => s = t

\* A payout was announced by the one session that could, and is done with it.
PayoutTold ==
  \A c \in Customers :
    \/ news[c] = 0
    \/ /\ news[c] = 1 /\ qualifiedBy[c] # None
       /\ \A s \in Admins : Announcing(s) => OrderOf(s) # qualifiedBy[c]

TellInv == TellKinds /\ MovesTold /\ AnnouncedOnce /\ PayoutTold

----------------------------------------------------------------------------
\* What a row appended to a ledger changes: it books its event, counts as a
\* purchase if it is one, and adds its amount.
LEMMA Booked ==
  ASSUME NEW l \in Seq(Row), NEW r \in Row
  PROVE  /\ Append(l, r) \in Seq(Row) /\ Len(l) \in Nat
         /\ DOMAIN Append(l, r) = 1..(Len(l) + 1) /\ DOMAIN l = 1..Len(l)
         /\ \A i \in DOMAIN l : i \in DOMAIN Append(l, r) /\ Append(l, r)[i] = l[i]
         /\ Append(l, r)[Len(l) + 1] = r
         /\ Len(l) + 1 \notin DOMAIN l
OBVIOUS

LEMMA BookedRows ==
  ASSUME NEW l \in Seq(Row), NEW r \in Row, NEW kind, NEW ref
  PROVE  RowsFor(Append(l, r), kind, ref) =
           RowsFor(l, kind, ref) \cup
             (IF r.kind = kind /\ r.ref = ref THEN {Len(l) + 1} ELSE {})
<1>1. DOMAIN Append(l, r) = DOMAIN l \cup {Len(l) + 1}
  BY Booked
<1> QED BY <1>1, Booked DEF RowsFor

\* A row for another event leaves what was booked as it was.
LEMMA OtherRows ==
  ASSUME NEW l \in Seq(Row), NEW r \in Row, NEW kind, NEW ref,
         ~(r.kind = kind /\ r.ref = ref)
  PROVE  RowsFor(Append(l, r), kind, ref) = RowsFor(l, kind, ref)
<1>1. DOMAIN Append(l, r) = DOMAIN l \cup {Len(l) + 1}
  BY Booked
<1> QED BY <1>1, Booked DEF RowsFor

LEMMA OtherEvent ==
  ASSUME NEW l \in Seq(Row), NEW r \in Row, NEW kind, NEW ref, NEW amount,
         ~(r.kind = kind /\ r.ref = ref)
  PROVE  /\ RowsFor(Append(l, r), kind, ref) = RowsFor(l, kind, ref)
         /\ BookedOnce(Append(l, r), kind, ref, amount) <=> BookedOnce(l, kind, ref, amount)
<1>1. RowsFor(Append(l, r), kind, ref) = RowsFor(l, kind, ref)
  BY OtherRows
<1>2. ASSUME NEW i, RowsFor(l, kind, ref) = {i}
      PROVE  i \in DOMAIN l
  BY <1>2 DEF RowsFor
<1> QED BY <1>1, <1>2, Booked DEF BookedOnce

\* The first row for an event books it once.
LEMMA FirstBooking ==
  ASSUME NEW l \in Seq(Row), NEW r \in Row, RowsFor(l, r.kind, r.ref) = {}
  PROVE  BookedOnce(Append(l, r), r.kind, r.ref, r.amount)
BY BookedRows, Booked DEF BookedOnce

LEMMA PurchasesFinite ==
  ASSUME NEW l \in Seq(Row)
  PROVE  /\ IsFiniteSet(PurchaseRows(l)) /\ Cardinality(PurchaseRows(l)) \in Nat
         /\ Cardinality(PurchaseRows(l)) = 0 <=> PurchaseRows(l) = {}
<1>1. IsFiniteSet(1..Len(l)) /\ PurchaseRows(l) \subseteq 1..Len(l)
  BY FS_Interval DEF PurchaseRows
<1> QED BY <1>1, FS_Subset, FS_CardinalityType, FS_EmptySet

LEMMA PurchaseCounted ==
  ASSUME NEW l \in Seq(Row), NEW r \in Row
  PROVE  Cardinality(PurchaseRows(Append(l, r))) =
           Cardinality(PurchaseRows(l)) + (IF r.kind = "purchase" THEN 1 ELSE 0)
<1>1. PurchaseRows(Append(l, r)) =
        PurchaseRows(l) \cup (IF r.kind = "purchase" THEN {Len(l) + 1} ELSE {})
  <2>1. DOMAIN Append(l, r) = DOMAIN l \cup {Len(l) + 1}
    BY Booked
  <2> QED BY <2>1, Booked DEF PurchaseRows
<1>2. Len(l) + 1 \notin PurchaseRows(l)
  BY Booked DEF PurchaseRows
<1>3. CASE r.kind = "purchase"
  <2>1. PurchaseRows(Append(l, r)) = PurchaseRows(l) \cup {Len(l) + 1}
    BY <1>1, <1>3
  <2> QED BY <1>2, <1>3, <2>1, PurchasesFinite, FS_AddElement
<1>4. CASE r.kind # "purchase"
  <2>1. PurchaseRows(Append(l, r)) = PurchaseRows(l)
    BY <1>1, <1>4
  <2> QED BY <1>4, <2>1, PurchasesFinite
<1> QED BY <1>3, <1>4

\* The running sum StampSum is made of, up to any place of a ledger: there is
\* one, or the first place without one would follow a place that has one.
Running(l, n, f) ==
  /\ f[0] = 0
  /\ \A i \in 1..n : f[i] = f[i - 1] + l[i].amount

LEMMA RunningExists ==
  ASSUME NEW l \in Seq(Row), NEW n \in 0..Len(l)
  PROVE  \E f \in [0..n -> Nat] : Running(l, n, f)
<1> DEFINE missing == {k \in 0..Len(l) : ~ \E f \in [0..k -> Nat] : Running(l, k, f)}
<1>1. missing = {}
  <2> SUFFICES ASSUME missing # {} PROVE FALSE
    OBVIOUS
  <2>1. missing \subseteq 0..Len(l) /\ missing \subseteq Nat /\ Len(l) \in Nat
    OBVIOUS
  <2>2. PICK k \in missing : \A m \in missing : <<m, k>> \notin OpToRel(<, Nat)
    BY <2>1, NatLessThanWellFounded, WFMin, Zenon
  <2>3. k # 0
    <3>1. Running(l, 0, [i \in 0..0 |-> 0]) /\ [i \in 0..0 |-> 0] \in [0..0 -> Nat]
      BY DEF Running
    <3> QED BY <3>1
  <2>4. k \in 1..Len(l) /\ k - 1 \in 0..Len(l)
    <3>1. k \in 0..Len(l)
      BY <2>1
    <3> HIDE DEF missing
    <3> QED BY <2>1, <2>3, <3>1
  <2>5. k - 1 \notin missing
    <3>1. <<k - 1, k>> \in OpToRel(<, Nat)
      BY <2>4 DEF OpToRel
    <3> QED BY <2>2, <3>1
  <2>6. PICK f \in [0..(k - 1) -> Nat] : Running(l, k - 1, f)
    BY <2>4, <2>5
  <2> DEFINE g == [i \in 0..k |-> IF i = k THEN f[k - 1] + l[k].amount ELSE f[i]]
  <2>7. l[k].amount \in Nat
    <3>1. l[k] \in Row
      BY <2>4
    <3> QED BY <3>1 DEF Row
  <2>8. Running(l, k, g) /\ g \in [0..k -> Nat]
    <3>1. g[0] = 0 /\ g[k] = f[k - 1] + l[k].amount /\ \A i \in 0..(k - 1) : g[i] = f[i]
      BY <2>4, <2>6 DEF Running
    <3>2. ASSUME NEW i \in 1..k PROVE g[i] = g[i - 1] + l[i].amount
      <4>1. CASE i = k
        BY <2>4, <3>1, <4>1
      <4>2. CASE i # k
        <5>1. i \in 1..(k - 1) /\ i \in 0..(k - 1) /\ i - 1 \in 0..(k - 1)
          BY <2>4, <4>2
        <5>2. f[i] = f[i - 1] + l[i].amount
          BY <2>6, <5>1 DEF Running
        <5> QED BY <3>1, <5>1, <5>2
      <4> QED BY <4>1, <4>2
    <3>3. g \in [0..k -> Nat]
      BY <2>4, <2>6, <2>7
    <3> HIDE DEF g
    <3> QED BY <3>1, <3>2, <3>3 DEF Running
  <2> QED BY <2>2, <2>8
<1> QED BY <1>1

LEMMA RunningUnique ==
  ASSUME NEW l, NEW n \in Nat, NEW f, Running(l, n, f), NEW m \in Nat, NEW g, Running(l, m, g),
         NEW k \in 0..n, k <= m
  PROVE  f[k] = g[k]
<1> DEFINE wrong == {i \in 0..k : f[i] # g[i]}
<1>1. wrong = {}
  <2> SUFFICES ASSUME wrong # {} PROVE FALSE
    OBVIOUS
  <2>1. wrong \subseteq 0..k /\ wrong \subseteq Nat
    OBVIOUS
  <2>2. PICK i \in wrong : \A j \in wrong : <<j, i>> \notin OpToRel(<, Nat)
    BY <2>1, NatLessThanWellFounded, WFMin, Zenon
  <2>3. i # 0
    BY <2>2 DEF Running
  <2>4. i \in 1..n /\ i \in 1..m /\ i - 1 \in 0..k
    <3>1. i \in 0..k
      BY <2>1
    <3> HIDE DEF wrong
    <3> QED BY <2>3, <3>1
  <2>5. f[i - 1] = g[i - 1]
    <3>1. <<i - 1, i>> \in OpToRel(<, Nat)
      BY <2>4 DEF OpToRel
    <3> QED BY <2>2, <2>4, <3>1
  <2> QED BY <2>2, <2>4, <2>5 DEF Running
<1> QED BY <1>1

\* StampSum is the running sum at a ledger's end.
LEMMA SumRuns ==
  ASSUME NEW l \in Seq(Row)
  PROVE  \E f \in [0..Len(l) -> Nat] : Running(l, Len(l), f) /\ StampSum(l) = f[Len(l)]
<1> DEFINE Rec(f) ==
      f = [i \in 0..Len(l) |-> IF i = 0 THEN 0 ELSE f[i - 1] + l[i].amount]
           sum == CHOOSE f : Rec(f)
<1>1. PICK f \in [0..Len(l) -> Nat] : Running(l, Len(l), f)
  BY RunningExists, Len(l) \in Nat
<1>2. f = [i \in 0..Len(l) |-> IF i = 0 THEN 0 ELSE f[i - 1] + l[i].amount]
  BY <1>1, Len(l) \in Nat DEF Running
<1>3. Rec(sum)
  BY <1>2
<1>4. StampSum(l) = sum[Len(l)]
  BY DEF StampSum
<1>5. Running(l, Len(l), sum)
  <2> HIDE DEF sum
  <2> QED BY <1>3, Len(l) \in Nat DEF Running
<1>6. f[Len(l)] = sum[Len(l)]
  <2> HIDE DEF sum
  <2> QED BY <1>1, <1>5, Len(l) \in Nat, RunningUnique
<1> QED BY <1>1, <1>4, <1>6

LEMMA SumAdds ==
  ASSUME NEW l \in Seq(Row), NEW r \in Row
  PROVE  /\ StampSum(Append(l, r)) = StampSum(l) + r.amount
         /\ StampSum(l) \in Nat
<1>1. PICK f \in [0..Len(l) -> Nat] : Running(l, Len(l), f) /\ StampSum(l) = f[Len(l)]
  BY SumRuns
<1>2. Append(l, r) \in Seq(Row) /\ Len(Append(l, r)) = Len(l) + 1 /\ Len(l) \in Nat
  OBVIOUS
<1>3. PICK g \in [0..(Len(l) + 1) -> Nat] :
        Running(Append(l, r), Len(l) + 1, g) /\ StampSum(Append(l, r)) = g[Len(l) + 1]
  BY <1>2, SumRuns
<1>4. g[Len(l) + 1] = g[Len(l)] + r.amount
  <2>1. Append(l, r)[Len(l) + 1] = r
    OBVIOUS
  <2>2. Len(l) + 1 \in 1..(Len(l) + 1) /\ (Len(l) + 1) - 1 = Len(l)
    BY <1>2
  <2> QED BY <1>3, <2>1, <2>2 DEF Running
<1>5. Running(l, Len(l), g)
  <2>1. \A i \in 1..Len(l) : Append(l, r)[i] = l[i] /\ i \in 1..(Len(l) + 1)
    BY <1>2
  <2> QED BY <1>3, <2>1 DEF Running
<1>6. f[Len(l)] = g[Len(l)]
  BY <1>1, <1>2, <1>5, RunningUnique
<1> QED BY <1>1, <1>2, <1>3, <1>4, <1>6

----------------------------------------------------------------------------
\* What a commit adds to a customer's ledger: the purchase first, then the pay
\* of an invitation.
Pay(s, u) == IF qualifies[s] THEN ReferralStamps(Buyer(s), u) ELSE 0

WithPurchase(s, u) ==
  IF Booking(s) /\ u = Buyer(s) THEN Append(ledger[u], PurchaseRow(OrderOf(s))) ELSE ledger[u]

WithPay(s, u) ==
  IF Pay(s, u) > 0 THEN Append(WithPurchase(s, u), ReferralRow(Buyer(s), Pay(s, u)))
  ELSE WithPurchase(s, u)

LEMMA Joined ==
  ASSUME NEW l \in Seq(Row), NEW x \in Row, NEW y \in Row
  PROVE  /\ l \o <<>> = l
         /\ l \o (<<>> \o <<>>) = l
         /\ l \o <<y>> = Append(l, y)
         /\ l \o (<<x>> \o <<>>) = Append(l, x)
         /\ l \o (<<x>> \o <<y>>) = Append(Append(l, x), y)
OBVIOUS

LEMMA RowsTyped ==
  ASSUME NEW o \in Orders, NEW c \in Customers, NEW n \in Nat
  PROVE  /\ PurchaseRow(o) \in Row /\ ReferralRow(c, n) \in Row
         /\ StampsFor(o) \in Nat
         /\ Milestone(o) \in Grant
         /\ Referrer[c] \in Customers => Invitation(c) \in Grant
<1>1. Total[o] \in Nat /\ Threshold \in Nat \ {0} /\ Customer[o] \in Customers
  BY RulesAssumption
<1>2. StampsFor(o) \in Nat
  BY <1>1 DEF StampsFor
<1> QED BY <1>1, <1>2 DEF PurchaseRow, ReferralRow, Row, Grant, Milestone, Invitation

LEMMA SideStamps ==
  ASSUME NEW c \in Customers, NEW u \in Customers
  PROVE  /\ ReferralStamps(c, u) \in Nat
         /\ Referrer[c] # c
BY RulesAssumption DEF ReferralStamps

\* A session that pays out an invitation books the purchase it is paid for.
LEMMA PayersBook ==
  ASSUME IInv, NEW s \in Admins, qualifies[s]
  PROVE  /\ Booking(s) /\ Referrer[Buyer(s)] \in Customers \cup {None}
         /\ qualifiedBy[Buyer(s)] = None /\ pc[s] # "idle"
<1>1. pc[s] # "idle"
  BY DEF IInv, SessionInv, PayoutInv, Crediting
<1>2. Buyer(s) \in Customers
  BY <1>1, Tapped
<1> QED BY <1>1, <1>2, RulesAssumption DEF IInv, SessionInv, PayoutInv, Booking

LEMMA CommitBooks ==
  ASSUME SInv, NEW s \in Admins, Commit(s), NEW u \in Customers
  PROVE  /\ ledger'[u] = WithPay(s, u)
         /\ WithPurchase(s, u) \in Seq(Row) /\ WithPay(s, u) \in Seq(Row)
<1>1. /\ pc[s] = "written" /\ ledger'[u] = ledger[u] \o rows[s][u]
      /\ rows[s][u] = RowsOf(s, u)
  BY DEF Commit, SInv, WriteInv, Holding
<1>2. OrderOf(s) \in Orders /\ Buyer(s) \in Customers /\ ledger[u] \in Seq(Row)
  BY <1>1, Tapped DEF SInv, DbKinds
<1>3. Pay(s, u) \in Nat /\ ReferralStamps(Buyer(s), u) \in Nat /\ Referrer[Buyer(s)] # Buyer(s)
  BY <1>2, SideStamps DEF Pay
<1> DEFINE x == PurchaseRow(OrderOf(s))
           y == ReferralRow(Buyer(s), Pay(s, u))
<1>4. x \in Row /\ y \in Row
  BY <1>2, <1>3, RowsTyped
<1>5. WithPurchase(s, u) \in Seq(Row) /\ WithPay(s, u) \in Seq(Row)
  BY <1>2, <1>4, Booked DEF WithPurchase, WithPay
<1>6. qualifies[s] => Booking(s)
  BY PayersBook DEF SInv
<1>7. RowsOf(s, u) =
        IF u = Buyer(s) THEN (IF Booking(s) THEN <<x>> ELSE <<>>) \o
                             (IF Pay(s, u) > 0 THEN <<y>> ELSE <<>>)
        ELSE IF Pay(s, u) > 0 THEN <<y>> ELSE <<>>
  <2>1. ReferredStamps \in Nat /\ ReferrerStamps \in Nat
    BY RulesAssumption
  <2>2. PurchasePart(s) = IF Booking(s) THEN <<x>> ELSE <<>>
    BY <1>1 DEF PurchasePart, Past, Settling
  <2>3. CASE u = Buyer(s)
    <3>1. Pay(s, u) = IF qualifies[s] THEN ReferredStamps ELSE 0
      BY <2>3 DEF Pay, ReferralStamps
    <3>2. PayPart(s, ReferredStamps, {"credit_referrer", "spin"})
            = IF Pay(s, u) > 0 THEN <<y>> ELSE <<>>
      BY <1>1, <2>1, <3>1 DEF PayPart, PaidPast
    <3> QED BY <2>2, <2>3, <3>2 DEF RowsOf
  <2>4. CASE u # Buyer(s)
    <3>1. Pay(s, u) = IF qualifies[s] /\ u = Referrer[Buyer(s)] THEN ReferrerStamps ELSE 0
      BY <2>4 DEF Pay, ReferralStamps
    <3>2. u = Referrer[Buyer(s)] => PayPart(s, ReferrerStamps, {"spin"})
            = IF Pay(s, u) > 0 THEN <<y>> ELSE <<>>
      BY <1>1, <2>1, <3>1 DEF PayPart, PaidPast
    <3> QED BY <2>4, <3>1, <3>2 DEF RowsOf
  <2> QED BY <2>3, <2>4
<1>8. ledger'[u] = WithPay(s, u)
  <2>1. /\ ledger[u] \o <<>> = ledger[u]
        /\ ledger[u] \o (<<>> \o <<>>) = ledger[u]
        /\ ledger[u] \o <<y>> = Append(ledger[u], y)
        /\ ledger[u] \o (<<x>> \o <<>>) = Append(ledger[u], x)
        /\ ledger[u] \o (<<x>> \o <<y>>) = Append(Append(ledger[u], x), y)
    BY <1>2, <1>4, Joined
  <2>2. Pay(s, u) > 0 => Booking(s)
    BY <1>6, <1>3 DEF Pay
  <2> HIDE DEF x, y
  <2>3. CASE u = Buyer(s)
    BY <1>1, <1>7, <2>1, <2>2, <2>3 DEF WithPay, WithPurchase, x, y
  <2>4. CASE u # Buyer(s)
    BY <1>1, <1>7, <2>1, <2>4 DEF WithPay, WithPurchase, x, y
  <2> QED BY <2>3, <2>4
<1> QED BY <1>5, <1>8

\* What was booked, and is not booked now, stays as it was.
LEMMA CommitKeepsBooked ==
  ASSUME SInv, NEW s \in Admins, Commit(s), NEW u \in Customers,
         NEW kind, NEW ref, NEW amount,
         ~(kind = "purchase" /\ ref = OrderOf(s) /\ u = Buyer(s) /\ Booking(s)),
         ~(kind = "referral" /\ ref = Buyer(s) /\ Pay(s, u) > 0)
  PROVE  /\ RowsFor(ledger'[u], kind, ref) = RowsFor(ledger[u], kind, ref)
         /\ BookedOnce(ledger'[u], kind, ref, amount) <=> BookedOnce(ledger[u], kind, ref, amount)
<1>1. OrderOf(s) \in Orders /\ Buyer(s) \in Customers /\ ledger[u] \in Seq(Row)
  BY Tapped DEF Commit, SInv, DbKinds
<1>2. Pay(s, u) \in Nat
  BY <1>1, SideStamps DEF Pay
<1> DEFINE x == PurchaseRow(OrderOf(s))
           y == ReferralRow(Buyer(s), Pay(s, u))
           l == WithPurchase(s, u)
<1>3. x \in Row /\ y \in Row /\ l \in Seq(Row) /\ ledger'[u] = WithPay(s, u)
  BY <1>1, <1>2, RowsTyped, CommitBooks
<1>4. /\ RowsFor(l, kind, ref) = RowsFor(ledger[u], kind, ref)
      /\ BookedOnce(l, kind, ref, amount) <=> BookedOnce(ledger[u], kind, ref, amount)
  <2>1. CASE Booking(s) /\ u = Buyer(s)
    <3>1. ~(x.kind = kind /\ x.ref = ref)
      BY <2>1 DEF PurchaseRow
    <3> HIDE DEF x
    <3> QED BY <1>1, <1>3, <2>1, <3>1, OtherEvent DEF WithPurchase, x
  <2>2. CASE ~(Booking(s) /\ u = Buyer(s))
    BY <2>2 DEF WithPurchase
  <2> QED BY <2>1, <2>2
<1>5. CASE Pay(s, u) > 0
  <2>1. ~(y.kind = kind /\ y.ref = ref)
    BY <1>5 DEF ReferralRow
  <2>2. ledger'[u] = Append(l, y)
    BY <1>3, <1>5 DEF WithPay
  <2> HIDE DEF l, y
  <2> QED BY <1>3, <1>4, <2>1, <2>2, OtherEvent
<1>6. CASE ~(Pay(s, u) > 0)
  BY <1>3, <1>4, <1>6 DEF WithPay
<1> QED BY <1>5, <1>6

\* What a commit grants.
LEMMA CommitGrants ==
  ASSUME SInv, NEW s \in Admins, Commit(s)
  PROVE  /\ grants' = grants \cup
                (IF Booking(s) /\ IsMilestone(Purchased(Buyer(s)) + 1)
                 THEN {Milestone(OrderOf(s))} ELSE {})
                \cup (IF qualifies[s] /\ ReferralSpins = 1 THEN {Invitation(Buyer(s))} ELSE {})
         /\ pc[s] = "written" /\ OrderOf(s) \in Orders /\ Buyer(s) \in Customers
         /\ Buyer(s) = Customer[OrderOf(s)]
<1>1. pc[s] = "written" /\ grants' = grants \cup won[s] /\ won[s] = WonBy(s)
  BY DEF Commit, SInv, WriteInv, Holding
<1>2. OrderOf(s) \in Orders /\ Buyer(s) \in Customers /\ Buyer(s) = Customer[OrderOf(s)]
  BY <1>1, Tapped DEF SInv
<1>3. WonBy(s) =
        (IF Booking(s) /\ IsMilestone(Purchased(Buyer(s)) + 1)
         THEN {Milestone(OrderOf(s))} ELSE {})
        \cup (IF qualifies[s] /\ ReferralSpins = 1 THEN {Invitation(Buyer(s))} ELSE {})
  BY <1>1 DEF WonBy, Past, PaidPast, Settling
<1> QED BY <1>1, <1>2, <1>3

LEMMA OnlyCommitBooks ==
  ASSUME NEW s \in Admins, Acts(s), ~Commit(s)
  PROVE  UNCHANGED db
BY DEF Acts, Step, Waiting, Working, Tap, LockOrder, AwardPurchase, QualifyReferral,
       CreditReferred, CreditReferrer, CreditSide, AlreadyThere, RefuseMove, MoveOrder,
       EarnsNothing, GrantMilestone, ReadReferral, GrantReferralSpin, RollbackRefused,
       Answer, NotifyCustomer, TellReferral, Abort, Done, db

\* No commit completes an order that was Completed, nor takes that back.
LEMMA CompletedOnce ==
  ASSUME IInv, NEW s \in Admins, Acts(s), NEW o \in Orders
  PROVE  /\ Status(o)' = "completed" <=>
              \/ Status(o) = "completed"
              \/ Commit(s) /\ moved[s] /\ tap[s].target = "completed" /\ o = OrderOf(s)
         /\ Status(o) = "completed" => ~(Commit(s) /\ moved[s] /\ o = OrderOf(s))
<1>1. Commit(s) /\ moved[s] => ~(Status(OrderOf(s)) = "completed")
  BY CommitMoves DEF CanTransition, AllowedTransitions
<1> QED BY <1>1, StatusAfter

LEMMA PurchaseStep ==
  ASSUME SInv, NEW s \in Admins, Commit(s), NEW o \in Orders, NEW u \in Customers
  PROVE  PurchaseBooked(o, u)'
<1>1. IInv /\ PurchaseBooked(o, u) /\ ledger[u] \in Seq(Row)
  BY DEF SInv, SettledWhole, DbKinds
<1>2. Acts(s)
  BY DEF Acts, Step, Working
<1>3. /\ OrderOf(s) \in Orders /\ Buyer(s) \in Customers /\ Buyer(s) = Customer[OrderOf(s)]
  BY CommitGrants
<1>4. CASE o = OrderOf(s) /\ u = Buyer(s) /\ Booking(s)
  <2> DEFINE x == PurchaseRow(o)
             l == WithPurchase(s, u)
  <2>1. Status(o) # "completed" /\ Status(o)' = "completed" /\ Qualifies(o) /\ u = Customer[o]
    BY <1>1, <1>2, <1>3, <1>4, CompletedOnce DEF Booking
  <2>2. RowsFor(ledger[u], "purchase", o) = {}
    BY <1>1, <2>1 DEF PurchaseBooked
  <2>3. x \in Row /\ x.kind = "purchase" /\ x.ref = o /\ x.amount = StampsFor(o)
    BY RowsTyped DEF PurchaseRow
  <2>4. l = Append(ledger[u], x)
    BY <1>4 DEF WithPurchase
  <2>5. BookedOnce(l, "purchase", o, StampsFor(o))
    <3> HIDE DEF x, l
    <3> QED BY <1>1, <2>2, <2>3, <2>4, FirstBooking
  <2>6. BookedOnce(ledger'[u], "purchase", o, StampsFor(o))
    <3>1. Pay(s, u) \in Nat /\ ledger'[u] = WithPay(s, u) /\ l \in Seq(Row)
      BY <1>3, SideStamps, CommitBooks DEF Pay
    <3> DEFINE y == ReferralRow(Buyer(s), Pay(s, u))
    <3>2. y \in Row /\ y.kind # "purchase"
      BY <1>3, <3>1, RowsTyped DEF ReferralRow
    <3>3. CASE Pay(s, u) > 0
      <4>1. ledger'[u] = Append(l, y)
        BY <3>1, <3>3 DEF WithPay
      <4> HIDE DEF l, y
      <4> QED BY <2>5, <3>1, <3>2, <4>1, OtherEvent
    <3>4. CASE ~(Pay(s, u) > 0)
      BY <2>5, <3>1, <3>4 DEF WithPay
    <3> QED BY <3>3, <3>4
  <2> QED BY <2>1, <2>6 DEF PurchaseBooked, Status, Qualifies
<1>5. CASE ~(o = OrderOf(s) /\ u = Buyer(s) /\ Booking(s))
  <2>1. /\ RowsFor(ledger'[u], "purchase", o) = RowsFor(ledger[u], "purchase", o)
        /\ BookedOnce(ledger'[u], "purchase", o, StampsFor(o))
             <=> BookedOnce(ledger[u], "purchase", o, StampsFor(o))
    BY <1>5, CommitKeepsBooked
  <2>2. Qualifies(o) /\ u = Customer[o] =>
          (Status(o)' = "completed" <=> Status(o) = "completed")
    BY <1>1, <1>2, <1>3, <1>5, CompletedOnce DEF Booking
  <2> QED BY <1>1, <2>1, <2>2 DEF PurchaseBooked, Status, Qualifies
<1> QED BY <1>4, <1>5

LEMMA InvitationStep ==
  ASSUME SInv, NEW s \in Admins, Commit(s), NEW c \in Customers, NEW u \in Customers
  PROVE  InvitationPaid(c, u)'
<1>1. IInv /\ InvitationPaid(c, u) /\ ledger[u] \in Seq(Row)
  BY DEF SInv, SettledWhole, DbKinds
<1>2. OrderOf(s) \in Orders /\ Buyer(s) \in Customers /\ OrderOf(s) # None
  BY CommitGrants, RulesAssumption
<1>3. qualifiedBy'[c] = IF qualifies[s] /\ c = Buyer(s) THEN OrderOf(s) ELSE qualifiedBy[c]
  BY <1>1, CommitEffect
<1>4. qualifies[s] => qualifiedBy[Buyer(s)] = None
  BY <1>1, PayersBook
<1>5. Pay(s, u) \in Nat /\ ReferralStamps(c, u) \in Nat
  BY <1>2, SideStamps DEF Pay
<1>6. IF qualifiedBy'[c] # None /\ ReferralStamps(c, u) > 0
      THEN BookedOnce(ledger'[u], "referral", c, ReferralStamps(c, u))
      ELSE RowsFor(ledger'[u], "referral", c) = {}
  <2>1. CASE c = Buyer(s) /\ Pay(s, u) > 0
    <3> DEFINE l == WithPurchase(s, u)
               y == ReferralRow(c, Pay(s, u))
    <3>1. qualifies[s] /\ Pay(s, u) = ReferralStamps(c, u)
      BY <2>1 DEF Pay
    <3>2. RowsFor(ledger[u], "referral", c) = {}
      BY <1>1, <1>4, <2>1, <3>1 DEF InvitationPaid
    <3>3. /\ y \in Row /\ y.kind = "referral" /\ y.ref = c /\ y.amount = Pay(s, u)
          /\ l \in Seq(Row) /\ ledger'[u] = Append(l, y)
      <4>1. y \in Row
        BY <1>2, <1>5, RowsTyped
      <4>2. l \in Seq(Row) /\ ledger'[u] = WithPay(s, u)
        BY CommitBooks
      <4>3. ledger'[u] = Append(l, y)
        BY <2>1, <4>2 DEF WithPay
      <4> QED BY <4>1, <4>2, <4>3 DEF ReferralRow
    <3>4. RowsFor(l, "referral", c) = {}
      <4> DEFINE x == PurchaseRow(OrderOf(s))
      <4>1. CASE Booking(s) /\ u = Buyer(s)
        <5>1. x \in Row /\ x.kind # "referral" /\ l = Append(ledger[u], x)
          BY <1>2, <4>1, RowsTyped DEF PurchaseRow, WithPurchase
        <5> HIDE DEF x, l
        <5> QED BY <1>1, <3>2, <5>1, OtherRows
      <4>2. CASE ~(Booking(s) /\ u = Buyer(s))
        BY <3>2, <4>2 DEF WithPurchase
      <4> QED BY <4>1, <4>2
    <3>5. BookedOnce(ledger'[u], "referral", c, ReferralStamps(c, u))
      <4> HIDE DEF l, y
      <4> QED BY <3>1, <3>3, <3>4, FirstBooking
    <3> QED BY <1>2, <1>3, <2>1, <3>1, <3>5
  <2>2. CASE ~(c = Buyer(s) /\ Pay(s, u) > 0)
    <3>1. /\ RowsFor(ledger'[u], "referral", c) = RowsFor(ledger[u], "referral", c)
          /\ BookedOnce(ledger'[u], "referral", c, ReferralStamps(c, u))
               <=> BookedOnce(ledger[u], "referral", c, ReferralStamps(c, u))
      BY <2>2, CommitKeepsBooked
    <3>2. ReferralStamps(c, u) > 0 => qualifiedBy'[c] = qualifiedBy[c]
      BY <1>3, <1>5, <2>2 DEF Pay
    <3> QED BY <1>1, <1>5, <3>1, <3>2 DEF InvitationPaid
  <2> QED BY <2>1, <2>2
<1>7. [user |-> u, kind |-> "referral", ref |-> c] \in grants'
        <=> qualifiedBy'[c] # None /\ u = Referrer[c] /\ ReferralSpins = 1
  <2> DEFINE g == [user |-> u, kind |-> "referral", ref |-> c]
  <2>1. g \in grants <=> qualifiedBy[c] # None /\ u = Referrer[c] /\ ReferralSpins = 1
    BY <1>1 DEF InvitationPaid
  <2>2. g # Milestone(OrderOf(s))
    BY DEF Milestone
  <2>3. g = Invitation(Buyer(s)) <=> c = Buyer(s) /\ u = Referrer[c]
    BY DEF Invitation
  <2>4. g \in grants' <=> g \in grants \/ (qualifies[s] /\ ReferralSpins = 1 /\ g = Invitation(Buyer(s)))
    <3> HIDE DEF g
    <3> QED BY <2>2, CommitGrants
  <2> HIDE DEF g
  <2>5. g \in grants' <=> qualifiedBy'[c] # None /\ u = Referrer[c] /\ ReferralSpins = 1
    BY <1>2, <1>3, <2>1, <2>3, <2>4
  <2> QED BY <2>5 DEF g
<1>8. ReferralStamps(c, u)' = ReferralStamps(c, u)
  BY DEF ReferralStamps
<1> QED BY <1>6, <1>7, <1>8 DEF InvitationPaid

\* A commit counts one purchase more for its buyer, if it books one.
LEMMA CommitCounts ==
  ASSUME SInv, NEW s \in Admins, Commit(s), NEW c \in Customers
  PROVE  Purchased(c)' = Purchased(c) + (IF Booking(s) /\ c = Buyer(s) THEN 1 ELSE 0)
<1> DEFINE l == WithPurchase(s, c)
           x == PurchaseRow(OrderOf(s))
           y == ReferralRow(Buyer(s), Pay(s, c))
<1>1. /\ ledger[c] \in Seq(Row) /\ l \in Seq(Row) /\ ledger'[c] = WithPay(s, c)
      /\ ledger'[c] \in Seq(Row)
  BY CommitBooks DEF SInv, DbKinds
<1>2. Pay(s, c) \in Nat
  BY CommitGrants, SideStamps DEF Pay
<1>3. x \in Row /\ x.kind = "purchase" /\ y \in Row /\ y.kind # "purchase"
  BY <1>2, CommitGrants, RowsTyped DEF PurchaseRow, ReferralRow
<1>4. Cardinality(PurchaseRows(l)) =
        Cardinality(PurchaseRows(ledger[c])) + (IF Booking(s) /\ c = Buyer(s) THEN 1 ELSE 0)
  <2> HIDE DEF x
  <2>1. Booking(s) /\ c = Buyer(s) => l = Append(ledger[c], x)
    BY DEF WithPurchase, x
  <2>2. ~(Booking(s) /\ c = Buyer(s)) => l = ledger[c]
    BY DEF WithPurchase
  <2>3. Cardinality(PurchaseRows(ledger[c])) \in Nat
    BY <1>1, PurchasesFinite
  <2> HIDE DEF l
  <2>4. CASE Booking(s) /\ c = Buyer(s)
    BY <1>1, <1>3, <2>1, <2>4, PurchaseCounted
  <2>5. CASE ~(Booking(s) /\ c = Buyer(s))
    BY <2>2, <2>3, <2>5
  <2> QED BY <2>4, <2>5
<1>5. Cardinality(PurchaseRows(ledger'[c])) = Cardinality(PurchaseRows(l))
  <2>1. Pay(s, c) > 0 => ledger'[c] = Append(l, y)
    BY <1>1 DEF WithPay
  <2>2. ~(Pay(s, c) > 0) => ledger'[c] = l
    BY <1>1 DEF WithPay
  <2> HIDE DEF l, y
  <2>3. Cardinality(PurchaseRows(l)) \in Nat
    BY <1>1, PurchasesFinite
  <2>4. CASE Pay(s, c) > 0
    <3>1. Cardinality(PurchaseRows(Append(l, y))) = Cardinality(PurchaseRows(l)) + 0
      BY <1>1, <1>3, PurchaseCounted
    <3>2. ledger'[c] = Append(l, y)
      BY <2>1, <2>4
    <3>3. Cardinality(PurchaseRows(ledger'[c])) = Cardinality(PurchaseRows(l)) + 0
      BY <3>1, <3>2
    <3> QED BY <2>3, <3>3
  <2>5. CASE ~(Pay(s, c) > 0)
    BY <2>2, <2>5
  <2> QED BY <2>4, <2>5
<1> HIDE DEF l
<1> QED BY <1>4, <1>5 DEF Purchased, PurchaseRows

LEMMA FirstPurchaseStep ==
  ASSUME SInv, NEW s \in Admins, Commit(s)
  PROVE  FirstPurchasePays' /\ MilestonesCompleted'
<1>1. IInv /\ FirstPurchasePays /\ MilestonesCompleted /\ Acts(s)
  BY DEF SInv, Acts, Step, Working
<1>2. /\ pc[s] = "written" /\ OrderOf(s) \in Orders /\ Buyer(s) \in Customers
      /\ OrderOf(s) # None
  BY CommitGrants, RulesAssumption
<1>3. /\ Booking(s) /\ Referrer[Buyer(s)] # None => qualifies[s] \/ qualifiedBy[Buyer(s)] # None
      /\ qualifies[s] => Booking(s) /\ Referrer[Buyer(s)] # None
  BY <1>1, <1>2, PayersBook, RulesAssumption DEF SInv, WriteInv, IInv, SessionInv, PayoutInv
<1>4. ASSUME NEW c \in Customers
      PROVE  qualifiedBy'[c] # None <=> Referrer[c] # None /\ PurchaseRows(ledger'[c]) # {}
  <2>1. ledger[c] \in Seq(Row) /\ ledger'[c] \in Seq(Row)
    BY CommitBooks DEF SInv, DbKinds
  <2>2. PurchaseRows(ledger'[c]) # {} <=> PurchaseRows(ledger[c]) # {} \/ (Booking(s) /\ c = Buyer(s))
    <3>1. /\ Cardinality(PurchaseRows(ledger'[c])) = 0 <=> PurchaseRows(ledger'[c]) = {}
          /\ Cardinality(PurchaseRows(ledger[c])) = 0 <=> PurchaseRows(ledger[c]) = {}
          /\ Cardinality(PurchaseRows(ledger[c])) \in Nat
      BY <2>1, PurchasesFinite
    <3>2. Cardinality(PurchaseRows(ledger'[c])) = Cardinality(PurchaseRows(ledger[c]))
            + (IF Booking(s) /\ c = Buyer(s) THEN 1 ELSE 0)
      BY CommitCounts DEF Purchased, PurchaseRows
    <3> QED BY <3>1, <3>2
  <2>3. qualifiedBy'[c] = IF qualifies[s] /\ c = Buyer(s) THEN OrderOf(s) ELSE qualifiedBy[c]
    BY <1>1, CommitEffect
  <2>4. qualifiedBy[c] # None <=> Referrer[c] # None /\ PurchaseRows(ledger[c]) # {}
    BY <1>1 DEF FirstPurchasePays
  <2> QED BY <1>2, <1>3, <2>2, <2>3, <2>4
<1>5. ASSUME NEW o \in Orders, Milestone(o) \in grants'
      PROVE  Status(o)' = "completed"
  <2>1. Milestone(o) # Invitation(Buyer(s))
    BY DEF Milestone, Invitation
  <2>2. Milestone(o) = Milestone(OrderOf(s)) => o = OrderOf(s)
    BY DEF Milestone
  <2>3. Milestone(o) \in grants \/ (Booking(s) /\ o = OrderOf(s))
    BY <1>5, <2>1, <2>2, CommitGrants
  <2> QED BY <1>1, <2>3, CompletedOnce DEF MilestonesCompleted, Booking
<1>6. FirstPurchasePays'
  BY <1>4 DEF FirstPurchasePays
<1>7. MilestonesCompleted'
  BY <1>5 DEF MilestonesCompleted, Milestone, Status
<1> QED BY <1>6, <1>7

----------------------------------------------------------------------------
LEMMA DbKindsStep ==
  ASSUME SInv, NEW s \in Admins, Acts(s)
  PROVE  DbKinds'
<1>1. IInv /\ DbKinds
  BY DEF SInv
<1>2. pc[s] # "idle" => OrderOf(s) \in Orders /\ Buyer(s) \in Customers
                        /\ Buyer(s) = Customer[OrderOf(s)]
  BY <1>1, Tapped
<1>3. ledger' \in [Customers -> Seq(Row)]
  <2>1. CASE ~Commit(s)
    BY <1>1, <2>1, OnlyCommitBooks DEF db, DbKinds
  <2>2. CASE Commit(s)
    <3>1. ledger' = [u \in Customers |-> ledger[u] \o rows[s][u]]
      BY <2>2 DEF Commit
    <3>2. \A u \in Customers : ledger[u] \o rows[s][u] \in Seq(Row)
      BY <1>1 DEF DbKinds
    <3> QED BY <3>1, <3>2
  <2> QED BY <2>1, <2>2
<1>4. grants' \subseteq Grant /\ IsFiniteSet(grants')
  <2>1. CASE ~Commit(s)
    BY <1>1, <2>1, OnlyCommitBooks DEF db, DbKinds
  <2>2. CASE Commit(s)
    <3>1. IsFiniteSet(won[s])
      <4>1. pc[s] = "written" /\ won[s] = WonBy(s)
        BY <2>2 DEF Commit, SInv, WriteInv, Holding
      <4> DEFINE A == IF Past(s, Settling \ {"booked"}) /\ IsMilestone(Purchased(Buyer(s)) + 1)
                      THEN {Milestone(OrderOf(s))} ELSE {}
                 B == IF PaidPast(s, {}) /\ ReferralSpins = 1 THEN {Invitation(Buyer(s))} ELSE {}
      <4>2. IsFiniteSet(A) /\ IsFiniteSet(B)
        BY FS_Singleton, FS_EmptySet
      <4>3. WonBy(s) = A \cup B
        BY DEF WonBy
      <4> HIDE DEF A, B
      <4> QED BY <4>1, <4>2, <4>3, FS_Union
    <3> QED BY <1>1, <2>2, <3>1, FS_Union DEF Commit, DbKinds
  <2> QED BY <2>1, <2>2
<1>5. rows' \in [Admins -> [Customers -> Seq(Row)]]
  <2>1. CASE Commit(s) \/ RollbackRefused(s) \/ Abort(s)
    <3>1. [c \in Customers |-> <<>>] \in [Customers -> Seq(Row)]
      OBVIOUS
    <3> QED BY <1>1, <2>1, <3>1 DEF Commit, RollbackRefused, Abort, Forget, DbKinds
  <2>2. CASE AwardPurchase(s) \/ CreditReferred(s) \/ CreditReferrer(s)
    <3>1. ASSUME NEW u \in Customers, NEW r \in Row, rows' = [rows EXCEPT ![s][u] = Append(@, r)]
          PROVE  rows' \in [Admins -> [Customers -> Seq(Row)]]
      <4>1. Append(rows[s][u], r) \in Seq(Row)
        BY <1>1 DEF DbKinds
      <4> QED BY <1>1, <3>1, <4>1 DEF DbKinds
    <3>2. pc[s] # "idle"
      BY <2>2 DEF AwardPurchase, CreditReferred, CreditReferrer
    <3>3. PurchaseRow(OrderOf(s)) \in Row
      BY <1>2, <3>2, RowsTyped
    <3>4. ReferralRow(Buyer(s), ReferredStamps) \in Row /\ ReferralRow(Buyer(s), ReferrerStamps) \in Row
      BY <1>2, <3>2, RowsTyped, RulesAssumption
    <3>5. pc[s] = "credit_referrer" => Referrer[Buyer(s)] \in Customers
      BY <1>1 DEF IInv, SessionInv, PayoutInv, Crediting
    <3>6. CASE AwardPurchase(s)
      <4>1. rows' = rows \/ rows' = [rows EXCEPT ![s][Buyer(s)] = Append(@, PurchaseRow(OrderOf(s)))]
        BY <3>6 DEF AwardPurchase, AddRow, PurchaseRow
      <4> QED BY <1>1, <1>2, <3>1, <3>2, <3>3, <4>1 DEF DbKinds
    <3>7. CASE CreditReferred(s)
      <4>1. \/ rows' = rows
            \/ rows' = [rows EXCEPT ![s][Buyer(s)] = Append(@, ReferralRow(Buyer(s), ReferredStamps))]
        BY <3>7 DEF CreditReferred, CreditSide, AddRow, ReferralRow
      <4> QED BY <1>1, <1>2, <3>1, <3>2, <3>4, <4>1 DEF DbKinds
    <3>8. CASE CreditReferrer(s)
      <4>1. /\ pc[s] = "credit_referrer"
            /\ \/ rows' = rows
               \/ rows' = [rows EXCEPT ![s][Referrer[Buyer(s)]] =
                             Append(@, ReferralRow(Buyer(s), ReferrerStamps))]
        BY <3>8 DEF CreditReferrer, CreditSide, AddRow, ReferralRow
      <4> QED BY <1>1, <3>1, <3>4, <3>5, <4>1 DEF DbKinds
    <3> QED BY <2>2, <3>6, <3>7, <3>8
  <2>3. CASE UNCHANGED rows
    BY <1>1, <2>3 DEF DbKinds
  <2> QED BY <2>1, <2>2, <2>3
          DEF Acts, Step, Waiting, Working, Tap, LockOrder, QualifyReferral, AlreadyThere,
              RefuseMove, MoveOrder, EarnsNothing, GrantMilestone, ReadReferral,
              GrantReferralSpin, Answer, NotifyCustomer, TellReferral, writes
<1>6. won' \in [Admins -> SUBSET Grant]
  <2>1. CASE Commit(s) \/ RollbackRefused(s) \/ Abort(s)
    BY <1>1, <2>1 DEF Commit, RollbackRefused, Abort, Forget, DbKinds
  <2>2. CASE GrantMilestone(s)
    <3>1. Milestone(OrderOf(s)) \in Grant
      BY <1>2, <2>2, RowsTyped DEF GrantMilestone
    <3>2. won' = won \/ won' = [won EXCEPT ![s] = @ \cup {Milestone(OrderOf(s))}]
      BY <2>2 DEF GrantMilestone, Milestone, Buyer, OrderOf
    <3> QED BY <1>1, <3>1, <3>2 DEF DbKinds
  <2>3. CASE GrantReferralSpin(s)
    <3>1. Invitation(Buyer(s)) \in Grant
      BY <1>1, <1>2, <2>3, RowsTyped DEF GrantReferralSpin, IInv, SessionInv, PayoutInv, Crediting
    <3>2. won' = won \/ won' = [won EXCEPT ![s] = @ \cup {Invitation(Buyer(s))}]
      BY <2>3 DEF GrantReferralSpin, Invitation
    <3> QED BY <1>1, <3>1, <3>2 DEF DbKinds
  <2>4. CASE UNCHANGED won
    BY <1>1, <2>4 DEF DbKinds
  <2> QED BY <2>1, <2>2, <2>3, <2>4
          DEF Acts, Step, Waiting, Working, Tap, LockOrder, AwardPurchase, QualifyReferral,
              CreditReferred, CreditReferrer, CreditSide, AlreadyThere, RefuseMove, MoveOrder,
              EarnsNothing, ReadReferral, Answer, NotifyCustomer, TellReferral, writes
<1> QED BY <1>3, <1>4, <1>5, <1>6 DEF DbKinds

\* What a session has written is its own, and what it was computed from stays
\* under its lock.
LEMMA OthersWrites ==
  ASSUME SInv, NEW s \in Admins, Acts(s), NEW t \in Admins, t # s
  PROVE  WriteInv(t)'
<1>1. IInv /\ Kinds /\ DbKinds /\ SessionInv(s) /\ SessionInv(t) /\ WriteInv(s) /\ WriteInv(t)
  BY DEF SInv, IInv
<1>2. /\ pc'[t] = pc[t] /\ tap'[t] = tap[t] /\ moved'[t] = moved[t]
      /\ qualifies'[t] = qualifies[t] /\ rows'[t] = rows[t] /\ won'[t] = won[t]
  <2>1. CASE (\E o \in Orders, x \in Targets : Tap(s, o, x)) \/ Waiting(s)
    BY <1>1, <2>1 DEF Tap, Waiting, LockOrder, AwardPurchase, QualifyReferral, CreditReferred,
                CreditReferrer, CreditSide, AddRow, Go, Kinds, DbKinds, writes
  <2>2. CASE Working(s) \/ Abort(s)
    BY <1>1, <2>2
       DEF Working, AlreadyThere, RefuseMove, MoveOrder, EarnsNothing, GrantMilestone,
           ReadReferral, GrantReferralSpin, Commit, RollbackRefused, Answer, NotifyCustomer,
           TellReferral, Abort, Done, Forget, Go, Kinds, DbKinds, writes
  <2> QED BY <2>1, <2>2 DEF Acts, Step
<1>3. OrderOf(t)' = OrderOf(t) /\ Buyer(t)' = Buyer(t)
  BY <1>2 DEF OrderOf, Buyer
<1>4. /\ Booking(t)' <=> Booking(t)
      /\ Qualifies(OrderOf(t))' <=> Qualifies(OrderOf(t))
  BY <1>2, <1>3 DEF Booking, Qualifies
<1>5. pc[t] # "idle" => OrderOf(t) \in Orders /\ Buyer(t) \in Customers
  BY <1>1, Tapped
<1>6. \A c \in Customers : accountLock'[c] = t <=> accountLock[c] = t
  BY <1>1, OthersLocks, CompletionAssumption
<1>7. Past(t, Settling) => Purchased(Buyer(t))' = Purchased(Buyer(t))
  <2> SUFFICES ASSUME Past(t, Settling) PROVE Purchased(Buyer(t))' = Purchased(Buyer(t))
    OBVIOUS
  <2>1. pc[t] # "idle" /\ accountLock[Buyer(t)] = t
    BY <1>1 DEF Past, Settling, SessionInv, LockInv, WriteInv
  <2>2. CASE ~Commit(s)
    <3>1. ledger' = ledger
      BY <2>2, OnlyCommitBooks DEF db
    <3> QED BY <1>3, <3>1 DEF Purchased, PurchaseRows
  <2>3. CASE Commit(s)
    <3>1. ~(Booking(s) /\ Buyer(t) = Buyer(s))
      BY <1>1, <2>1, <2>3 DEF WriteInv, Commit
    <3>2. Cardinality(PurchaseRows(ledger[Buyer(t)])) \in Nat
      BY <1>1, <1>5, <2>1, PurchasesFinite DEF DbKinds
    <3>3. Cardinality(PurchaseRows(ledger'[Buyer(t)])) = Cardinality(PurchaseRows(ledger[Buyer(t)])) + 0
      BY <1>5, <2>1, <2>3, <3>1, CommitCounts DEF Purchased, PurchaseRows
    <3> QED BY <1>3, <3>2, <3>3 DEF Purchased, PurchaseRows
  <2> QED BY <2>2, <2>3
<1>8. ASSUME NEW u \in Customers PROVE RowsOf(t, u)' = RowsOf(t, u)
  BY <1>2, <1>3, <1>4
     DEF RowsOf, PurchasePart, PayPart, Past, PaidPast, PurchaseRow, ReferralRow, StampsFor
<1>9. WonBy(t)' = WonBy(t)
  <2>1. /\ Past(t, Settling \ {"booked"})' <=> Past(t, Settling \ {"booked"})
        /\ PaidPast(t, {})' <=> PaidPast(t, {})
        /\ Milestone(OrderOf(t))' = Milestone(OrderOf(t))
        /\ Invitation(Buyer(t))' = Invitation(Buyer(t))
    BY <1>2, <1>3, <1>4 DEF Past, PaidPast, Settling, Milestone, Invitation
  <2>2. Past(t, Settling \ {"booked"}) => Past(t, Settling)
    BY DEF Past
  <2>3. Past(t, Settling \ {"booked"}) =>
          (IsMilestone(Purchased(Buyer(t)) + 1)' <=> IsMilestone(Purchased(Buyer(t)) + 1))
    BY <1>7, <2>2 DEF IsMilestone
  <2> QED BY <2>1, <2>3 DEF WonBy
<1>10. \A c \in Customers : qualifiedBy[c] # None => qualifiedBy'[c] # None
  <2>1. CASE ~Commit(s)
    BY <2>1, OnlyCommitWrites
  <2>2. CASE Commit(s)
    BY <1>1, <2>2, CommitEffect, CommitGrants, RulesAssumption
  <2> QED BY <2>1, <2>2
<1>11. PaidPast(t, {"spin"})' <=> PaidPast(t, {"spin"})
  BY <1>2 DEF PaidPast
<1>12. PaidPast(t, {"spin"}) => Referrer[Buyer(t)] \in Customers
  BY <1>1 DEF PaidPast, SessionInv, PayoutInv, Crediting
<1>13. /\ \A u \in Customers : rows'[t][u] = IF pc'[t] \in Holding THEN RowsOf(t, u)' ELSE <<>>
       /\ won'[t] = IF pc'[t] \in Holding THEN WonBy(t)' ELSE {}
  BY <1>1, <1>2, <1>8, <1>9 DEF WriteInv
<1>14. /\ pc'[t] = "written" /\ Booking(t)' => accountLock'[Buyer(t)'] = t
       /\ ReferrerStamps > 0 /\ PaidPast(t, {"spin"})' => accountLock'[Referrer[Buyer(t)']] = t
       /\ pc'[t] = "written" /\ Booking(t)' /\ Referrer[Buyer(t)'] # None =>
            qualifies'[t] \/ qualifiedBy'[Buyer(t)'] # None
  BY <1>1, <1>2, <1>3, <1>4, <1>5, <1>6, <1>10, <1>11, <1>12 DEF WriteInv
<1> QED BY <1>13, <1>14 DEF WriteInv

\* Nothing is left of what a session wrote when its transaction is over.
LEMMA Forgotten ==
  ASSUME DbKinds, NEW s \in Admins, Forget(s), pc'[s] \notin Holding,
         moved \in [Admins -> BOOLEAN], qualifies \in [Admins -> BOOLEAN]
  PROVE  WriteInv(s)'
<1>1. /\ rows'[s] = [c \in Customers |-> <<>>] /\ won'[s] = {}
      /\ ~moved'[s] /\ ~qualifies'[s] /\ pc'[s] \notin {"spin", "written"}
  BY DEF Forget, DbKinds, Holding
<1> QED BY <1>1 DEF WriteInv, PaidPast, Booking

\* Nor is there anything before the order is locked, or after the commit.
LEMMA NothingWritten ==
  ASSUME NEW s \in Admins, WriteInv(s), pc[s] \notin Holding, pc'[s] \notin Holding,
         rows'[s] = rows[s], won'[s] = won[s]
  PROVE  WriteInv(s)'
<1>1. pc'[s] \notin {"spin", "written"}
  BY DEF Holding
<1> QED BY <1>1 DEF WriteInv, PaidPast

\* Up to the award a session has written nothing, and one that leaves it there
\* books nothing.
LEMMA NoRowsYet ==
  ASSUME NEW s \in Admins,
         \/ pc[s] \in Holding \ (Settling \cup {"written"})
         \/ pc[s] = "written" /\ ~Booking(s) /\ ~qualifies[s]
  PROVE  (\A u : RowsOf(s, u) = <<>>) /\ WonBy(s) = {}
<1>1. ~Past(s, Settling) /\ ~Past(s, Settling \ {"booked"})
  BY DEF Past, Settling, Holding
<1>2. ~PaidPast(s, {"credit_referrer", "spin"}) /\ ~PaidPast(s, {"spin"}) /\ ~PaidPast(s, {})
  BY DEF PaidPast, Settling, Holding
<1> QED BY <1>1, <1>2 DEF RowsOf, WonBy, PurchasePart, PayPart

\* Nothing is booked yet of what a session is about to book.
LEMMA NotBooked ==
  ASSUME SInv, NEW s \in Admins, pc[s] # "idle", NEW u \in Customers
  PROVE  /\ moved[s] => RowsFor(ledger[u], "purchase", OrderOf(s)) = {}
         /\ qualifiedBy[Buyer(s)] = None => RowsFor(ledger[u], "referral", Buyer(s)) = {}
<1>1. OrderOf(s) \in Orders /\ Buyer(s) \in Customers
  BY Tapped DEF SInv
<1>2. moved[s] => Status(OrderOf(s)) # "completed"
  BY DEF SInv, IInv, SessionInv, MoveInv, CanTransition, AllowedTransitions
<1> QED BY <1>1, <1>2 DEF SInv, SettledWhole, PurchaseBooked, InvitationPaid

\* What the first and the second row of a transaction leave.
LEMMA FirstRows ==
  ASSUME NEW x, NEW y
  PROVE  /\ Append(<<>>, x) = <<x>> /\ <<>> \o <<>> = <<>> /\ <<x>> \o <<>> = <<x>>
         /\ Append(<<x>>, y) = <<x>> \o <<y>>
         /\ \A kind, ref : RowsFor(<<>>, kind, ref) = {}
         /\ \A kind, ref : x.kind # kind => RowsFor(<<x>>, kind, ref) = {}
         /\ x.kind = "purchase" => PurchaseRows(<<x>>) = {1}
BY DEF RowsFor, PurchaseRows

\* A session keeps what WriteInv says of it.
LEMMA SelfWrites ==
  ASSUME SInv, NEW s \in Admins, Acts(s)
  PROVE  WriteInv(s)'
<1>1. /\ IInv /\ Kinds /\ DbKinds /\ SessionInv(s) /\ WriteInv(s)
      /\ moved \in [Admins -> BOOLEAN] /\ qualifies \in [Admins -> BOOLEAN]
  BY DEF SInv, IInv, Kinds
<1>2. pc[s] # "idle" => OrderOf(s) \in Orders /\ Buyer(s) \in Customers
                        /\ Buyer(s) = Customer[OrderOf(s)]
  BY <1>1, Tapped
<1>3. tap' = tap => OrderOf(s)' = OrderOf(s) /\ Buyer(s)' = Buyer(s)
  BY DEF OrderOf, Buyer
<1>4. qualifies[s] => pc[s] \in Crediting \cup {"written"}
  BY <1>1 DEF SessionInv, PayoutInv
<1>5. CASE Commit(s) \/ RollbackRefused(s) \/ Abort(s)
  <2>1. Forget(s) /\ pc'[s] \in {"committed", "answer", "idle"}
    BY <1>1, <1>5 DEF Commit, RollbackRefused, Abort, Done, Go, Kinds
  <2> QED BY <1>1, <2>1, Forgotten DEF Holding
<1>6. CASE \/ \E o \in Orders, x \in Targets : Tap(s, o, x)
           \/ Answer(s) \/ NotifyCustomer(s) \/ TellReferral(s)
  <2>1. /\ pc[s] \in {"idle", "answer", "committed", "news"}
        /\ pc'[s] \in {"read", "idle", "answer", "news"} /\ rows' = rows /\ won' = won
    BY <1>1, <1>6 DEF Tap, Answer, NotifyCustomer, TellReferral, Done, Go, Kinds, writes
  <2> QED BY <1>1, <2>1, NothingWritten DEF Holding
<1>7. CASE LockOrder(s) \/ AlreadyThere(s) \/ RefuseMove(s) \/ MoveOrder(s) \/ EarnsNothing(s)
  <2>1. /\ rows' = rows /\ won' = won /\ qualifies' = qualifies /\ tap' = tap
        /\ pc[s] \in {"read", "locked", "award"}
        /\ pc'[s] \in {"locked", "award", "written", "refused"}
    BY <1>1, <1>7 DEF LockOrder, AlreadyThere, RefuseMove, MoveOrder, EarnsNothing, Go, Kinds, writes
  <2>2. pc'[s] = "written" => ~Booking(s)'
    <3>1. CASE AlreadyThere(s)
      <4>1. moved'[s] = moved[s] /\ seen[s] = tap[s].target
        BY <3>1 DEF AlreadyThere, writes
      <4>2. moved[s] => CanTransition(seen[s], tap[s].target)
        BY <1>1 DEF SessionInv, MoveInv
      <4>3. ~CanTransition("completed", "completed")
        BY DEF CanTransition, AllowedTransitions
      <4> QED BY <2>1, <4>1, <4>2, <4>3 DEF Booking
    <3>2. CASE MoveOrder(s)
      <4>1. pc'[s] = "written" => tap'[s].target # "completed"
        BY <1>1, <2>1, <3>2 DEF MoveOrder, Go, Kinds
      <4> QED BY <4>1 DEF Booking
    <3>3. CASE EarnsNothing(s)
      BY <1>3, <2>1, <3>3 DEF EarnsNothing, Booking, Qualifies
    <3>4. CASE LockOrder(s) \/ RefuseMove(s)
      BY <1>1, <3>4 DEF LockOrder, RefuseMove, Go, Kinds
    <3> QED BY <1>7, <3>1, <3>2, <3>3, <3>4
  <2>3. ~qualifies[s]
    BY <1>4, <2>1 DEF Crediting
  <2>4. \A u : RowsOf(s, u)' = <<>> /\ WonBy(s)' = {}
    <3>1. pc'[s] # "written" => pc'[s] \in Holding \ (Settling \cup {"written"})
      BY <2>1 DEF Holding, Settling
    <3>2. ~Past(s, Settling)' /\ ~Past(s, Settling \ {"booked"})'
      BY <2>1, <2>2 DEF Past, Settling
    <3>3. ~PaidPast(s, {"credit_referrer", "spin"})' /\ ~PaidPast(s, {"spin"})' /\ ~PaidPast(s, {})'
      BY <2>1, <2>3 DEF PaidPast
    <3> QED BY <3>2, <3>3 DEF RowsOf, WonBy, PurchasePart, PayPart
  <2>5. rows'[s] = rows[s] /\ won'[s] = {} /\ \A u \in Customers : rows'[s][u] = <<>>
    <3>1. pc[s] \in Holding => (\A u : RowsOf(s, u) = <<>>) /\ WonBy(s) = {}
      BY <2>1, NoRowsYet DEF Holding, Settling
    <3> QED BY <1>1, <2>1, <3>1 DEF WriteInv
  <2>6. ~PaidPast(s, {"spin"})'
    BY <2>1, <2>3 DEF PaidPast
  <2> QED BY <2>2, <2>4, <2>5, <2>6 DEF WriteInv
<1>8. CASE AwardPurchase(s)
  <2> DEFINE p == PurchaseRow(OrderOf(s))
  <2>1. /\ pc[s] = "award" /\ pc'[s] = "booked" /\ tap' = tap /\ won' = won /\ Qualifies(OrderOf(s))
        /\ UNCHANGED <<ledger, moved, qualifies>>
        /\ AddRow(s, Buyer(s), "purchase", OrderOf(s), StampsFor(OrderOf(s)))
    BY <1>1, <1>8 DEF AwardPurchase, Go, Kinds, db
  <2>2. moved[s] /\ ~qualifies[s]
    BY <1>1, <1>4, <2>1 DEF SessionInv, MoveInv, Crediting
  <2>3. (\A u \in Customers : rows[s][u] = <<>>) /\ won[s] = {}
    BY <1>1, <2>1, NoRowsYet DEF WriteInv, Holding, Settling
  <2>4. rows' = [rows EXCEPT ![s][Buyer(s)] = Append(@, p)]
    BY <1>2, <2>1, <2>2, <2>3, NotBooked, FirstRows DEF AddRow, HasRow, PurchaseRow
  <2>5. \A u \in Customers : rows'[s][u] = IF u = Buyer(s) THEN <<p>> ELSE <<>>
    <3> HIDE DEF p
    <3> QED BY <1>1, <1>2, <2>1, <2>3, <2>4, FirstRows DEF DbKinds
  <2>6. /\ PurchasePart(s)' = <<p>> /\ ~PaidPast(s, {})' /\ ~PaidPast(s, {"spin"})'
        /\ ~PaidPast(s, {"credit_referrer", "spin"})' /\ ~Past(s, Settling \ {"booked"})'
    BY <1>3, <2>1 DEF PurchasePart, Past, PaidPast, Settling, PurchaseRow, StampsFor
  <2>7. \A u \in Customers : RowsOf(s, u)' = IF u = Buyer(s) THEN <<p>> ELSE <<>>
    <3> HIDE DEF p
    <3> QED BY <1>3, <2>1, <2>6, FirstRows DEF RowsOf, PayPart
  <2>8. WonBy(s)' = {}
    BY <2>6 DEF WonBy
  <2> HIDE DEF p
  <2>9. pc'[s] \in Holding /\ pc'[s] # "written"
    BY <2>1 DEF Holding
  <2> QED BY <2>1, <2>3, <2>5, <2>6, <2>7, <2>8, <2>9 DEF WriteInv
\* Past the award there is something booked, under the buyer's account lock.
<1>9. pc[s] \in Settling => /\ Booking(s) /\ accountLock[Buyer(s)] = s /\ pc[s] # "idle"
                            /\ pc[s] \in Holding /\ pc[s] # "written"
  BY <1>1 DEF SessionInv, LockInv, MoveInv, Settling, Holding, Booking
<1>10. tap' = tap /\ moved' = moved => (Booking(s)' <=> Booking(s))
  BY <1>3 DEF Booking, Qualifies
<1>11. tap' = tap => \A n \in Nat :
         /\ PurchaseRow(OrderOf(s))' = PurchaseRow(OrderOf(s))
         /\ ReferralRow(Buyer(s), n)' = ReferralRow(Buyer(s), n)
         /\ Milestone(OrderOf(s))' = Milestone(OrderOf(s))
         /\ Invitation(Buyer(s))' = Invitation(Buyer(s))
  BY <1>3 DEF PurchaseRow, ReferralRow, Milestone, Invitation, StampsFor
<1>12. ReferredStamps \in Nat /\ ReferrerStamps \in Nat
  BY RulesAssumption
<1> DEFINE p == PurchaseRow(OrderOf(s))
<1>13. CASE GrantMilestone(s)
  <2>1. /\ pc[s] = "booked" /\ pc'[s] = "payout" /\ tap' = tap /\ moved' = moved /\ rows' = rows
        /\ UNCHANGED <<ledger, qualifies>>
        /\ won' = IF IsMilestone(PurchaseNumber(s))
                  THEN [won EXCEPT ![s] = @ \cup {Milestone(OrderOf(s))}] ELSE won
    BY <1>1, <1>13 DEF GrantMilestone, Go, Kinds, db, Milestone, Buyer, OrderOf
  <2>2. ~qualifies[s]
    BY <1>4, <2>1 DEF Crediting
  <2>3. \A u : RowsOf(s, u) = IF u = Buyer(s) THEN <<p>> ELSE <<>>
    <3>1. PurchasePart(s) = <<p>> /\ ~PaidPast(s, {"spin"}) /\ ~PaidPast(s, {"credit_referrer", "spin"})
      BY <2>1 DEF PurchasePart, Past, PaidPast, Settling
    <3> HIDE DEF p
    <3> QED BY <3>1, FirstRows DEF RowsOf, PayPart
  <2>4. RowsOf(s, Buyer(s)) = <<p>> /\ rows[s][Buyer(s)] = <<p>> /\ won[s] = {}
    <3>1. WonBy(s) = {}
      BY <2>1 DEF WonBy, Past, PaidPast, Settling
    <3> QED BY <1>1, <1>2, <2>1, <2>3, <3>1 DEF WriteInv, Holding
  <2>5. PurchaseNumber(s) = Purchased(Buyer(s)) + 1
    <3>1. Cardinality(PurchaseRows(<<p>>)) = 1
      <4>1. PurchaseRows(<<p>>) = {1}
        BY FirstRows DEF PurchaseRow
      <4> QED BY <4>1, FS_Singleton
    <3> HIDE DEF p
    <3> QED BY <2>4, <3>1 DEF PurchaseNumber, Purchased
  <2>6. won'[s] = IF IsMilestone(Purchased(Buyer(s)) + 1) THEN {Milestone(OrderOf(s))} ELSE {}
    BY <1>1, <2>1, <2>4, <2>5 DEF DbKinds
  <2>7. WonBy(s)' = IF IsMilestone(Purchased(Buyer(s)) + 1) THEN {Milestone(OrderOf(s))} ELSE {}
    <3>1. Past(s, Settling \ {"booked"})' /\ ~PaidPast(s, {})'
      BY <2>1 DEF Past, PaidPast, Settling
    <3>2. Purchased(Buyer(s))' = Purchased(Buyer(s))
      BY <1>3, <2>1 DEF Purchased, PurchaseRows
    <3> QED BY <1>11, <2>1, <3>1, <3>2 DEF WonBy, IsMilestone
  <2>8. \A u : RowsOf(s, u)' = IF u = Buyer(s) THEN <<p>> ELSE <<>>
    <3>1. /\ PurchasePart(s)' = <<p>> /\ ~PaidPast(s, {"spin"})'
          /\ ~PaidPast(s, {"credit_referrer", "spin"})'
      BY <1>11, <2>1 DEF PurchasePart, Past, PaidPast, Settling
    <3> HIDE DEF p
    <3> QED BY <1>3, <2>1, <3>1, FirstRows DEF RowsOf, PayPart
  <2>9. /\ pc'[s] \in Holding /\ pc'[s] # "written" /\ ~PaidPast(s, {"spin"})'
        /\ pc[s] \in Holding
    BY <2>1 DEF Holding, PaidPast
  <2> HIDE DEF p
  <2> QED BY <1>1, <2>1, <2>3, <2>6, <2>7, <2>8, <2>9 DEF WriteInv
\* What a session granted for its purchase stands, whatever it does next.
<1> DEFINE milestone == IF IsMilestone(Purchased(Buyer(s)) + 1) THEN {Milestone(OrderOf(s))} ELSE {}
<1>14. pc[s] \in Settling \ {"booked"} => WonBy(s) = milestone /\ won[s] = milestone
  <2>1. pc[s] \in Settling \ {"booked"} => Past(s, Settling \ {"booked"}) /\ ~PaidPast(s, {})
    BY <1>9 DEF Past, PaidPast
  <2>2. pc[s] \in Settling \ {"booked"} => WonBy(s) = milestone
    BY <2>1 DEF WonBy
  <2> QED BY <1>1, <1>9, <2>2 DEF WriteInv
<1>15. ASSUME pc[s] \in Settling \ {"booked"}, tap' = tap, moved' = moved, ledger' = ledger,
              pc'[s] \in (Settling \ {"booked"}) \cup {"written"}
       PROVE  WonBy(s)' = milestone \cup
                (IF pc'[s] = "written" /\ qualifies'[s] /\ ReferralSpins = 1
                 THEN {Invitation(Buyer(s))} ELSE {})
  <2>1. Past(s, Settling \ {"booked"})'
    BY <1>9, <1>10, <1>15 DEF Past
  <2>2. PaidPast(s, {})' <=> pc'[s] = "written" /\ qualifies'[s]
    BY DEF PaidPast
  <2>3. Purchased(Buyer(s))' = Purchased(Buyer(s))
    BY <1>3, <1>15 DEF Purchased, PurchaseRows
  <2>4. IsMilestone(Purchased(Buyer(s)) + 1)' <=> IsMilestone(Purchased(Buyer(s)) + 1)
    BY <2>3 DEF IsMilestone
  <2>5. Milestone(OrderOf(s))' = Milestone(OrderOf(s)) /\ Invitation(Buyer(s))' = Invitation(Buyer(s))
    BY <1>11, <1>15
  <2> QED BY <2>1, <2>2, <2>4, <2>5 DEF WonBy
\* What it has booked by then, side by side.
<1> DEFINE referred == IF ReferredStamps > 0 THEN <<ReferralRow(Buyer(s), ReferredStamps)>> ELSE <<>>
           referrer == IF ReferrerStamps > 0 THEN <<ReferralRow(Buyer(s), ReferrerStamps)>> ELSE <<>>
           Sides(u, first, second) ==
             IF u = Buyer(s) THEN <<p>> \o (IF first THEN referred ELSE <<>>)
             ELSE IF u = Referrer[Buyer(s)] THEN (IF second THEN referrer ELSE <<>>) ELSE <<>>
<1>16. ASSUME pc[s] \in Settling, NEW u
       PROVE  RowsOf(s, u) = Sides(u, pc[s] \in {"credit_referrer", "spin"}, pc[s] = "spin")
  <2>1. PurchasePart(s) = <<p>>
    BY <1>16 DEF PurchasePart, Past
  <2>2. /\ PaidPast(s, {"credit_referrer", "spin"}) <=> pc[s] \in {"credit_referrer", "spin"}
        /\ PaidPast(s, {"spin"}) <=> pc[s] = "spin"
    BY <1>9, <1>16 DEF PaidPast
  <2>3. /\ PayPart(s, ReferredStamps, {"credit_referrer", "spin"}) =
             IF pc[s] \in {"credit_referrer", "spin"} THEN referred ELSE <<>>
        /\ PayPart(s, ReferrerStamps, {"spin"}) = IF pc[s] = "spin" THEN referrer ELSE <<>>
    BY <2>2 DEF PayPart
  <2> HIDE DEF p, referred, referrer
  <2> QED BY <2>1, <2>3 DEF RowsOf
<1>17. ASSUME pc[s] \in Settling, tap' = tap, moved' = moved,
              pc'[s] \in Settling \cup {"written"}, NEW u
       PROVE  RowsOf(s, u)' =
                Sides(u, \/ pc'[s] \in {"credit_referrer", "spin"}
                         \/ pc'[s] = "written" /\ qualifies'[s],
                         pc'[s] = "spin" \/ (pc'[s] = "written" /\ qualifies'[s]))
  <2>1. PurchasePart(s)' = <<p>>
    BY <1>9, <1>10, <1>11, <1>17 DEF PurchasePart, Past
  <2>2. /\ PaidPast(s, {"credit_referrer", "spin"})' <=>
             \/ pc'[s] \in {"credit_referrer", "spin"}
             \/ pc'[s] = "written" /\ qualifies'[s]
        /\ PaidPast(s, {"spin"})' <=> pc'[s] = "spin" \/ (pc'[s] = "written" /\ qualifies'[s])
    BY DEF PaidPast
  <2>3. /\ ReferralRow(Buyer(s), ReferredStamps)' = ReferralRow(Buyer(s), ReferredStamps)
        /\ ReferralRow(Buyer(s), ReferrerStamps)' = ReferralRow(Buyer(s), ReferrerStamps)
    BY <1>11, <1>12, <1>17
  <2>4. /\ PayPart(s, ReferredStamps, {"credit_referrer", "spin"})' =
             IF PaidPast(s, {"credit_referrer", "spin"})' THEN referred ELSE <<>>
        /\ PayPart(s, ReferrerStamps, {"spin"})' = IF PaidPast(s, {"spin"})' THEN referrer ELSE <<>>
    BY <2>3 DEF PayPart
  <2>5. Buyer(s)' = Buyer(s)
    BY <1>3, <1>17
  <2>6. RowsOf(s, u)' =
          IF u = Buyer(s)
          THEN <<p>> \o (IF PaidPast(s, {"credit_referrer", "spin"})' THEN referred ELSE <<>>)
          ELSE IF u = Referrer[Buyer(s)]
               THEN (IF PaidPast(s, {"spin"})' THEN referrer ELSE <<>>) ELSE <<>>
    <3> HIDE DEF p, referred, referrer
    <3> QED BY <2>1, <2>4, <2>5 DEF RowsOf
  <2> HIDE DEF p, referred, referrer
  <2> QED BY <2>2, <2>6
<1> HIDE DEF p, milestone, referred, referrer
\* The steps that book nothing, and leave the sides as they are.
<1>18. CASE ReadReferral(s) \/ QualifyReferral(s)
  <2>1. /\ pc[s] \in {"payout", "qualify"} /\ pc'[s] \in {"qualify", "credit_referred", "written"}
        /\ tap' = tap /\ UNCHANGED <<ledger, moved, rows, won, accountLock, qualifiedBy>>
        /\ pc'[s] = "written" => /\ qualifies' = qualifies
                                 /\ Referrer[Buyer(s)] = None \/ qualifiedBy[Buyer(s)] # None
    BY <1>1, <1>18 DEF ReadReferral, QualifyReferral, Go, Kinds, db, writes, locks
  <2>2. pc[s] \in Settling \ {"booked"} /\ pc'[s] \in (Settling \ {"booked"}) \cup {"written"}
    BY <2>1 DEF Settling
  <2>3. ~qualifies[s] /\ (pc'[s] = "written" => ~qualifies'[s])
    BY <1>4, <2>1 DEF Crediting
  <2>4. \A u \in Customers : rows'[s][u] = RowsOf(s, u)'
    <3>1. \A u \in Customers : rows[s][u] = Sides(u, FALSE, FALSE)
      BY <1>1, <1>9, <1>16, <2>1, <2>2 DEF WriteInv
    <3>2. \A u \in Customers : RowsOf(s, u)' = Sides(u, FALSE, FALSE)
      BY <1>17, <2>1, <2>2, <2>3
    <3> QED BY <2>1, <3>1, <3>2
  <2>5. won'[s] = WonBy(s)'
    BY <1>14, <1>15, <2>1, <2>2, <2>3
  <2>6. /\ pc'[s] \in Holding /\ ~PaidPast(s, {"spin"})'
        /\ accountLock'[Buyer(s)'] = s
        /\ pc'[s] = "written" => Referrer[Buyer(s)'] = None \/ qualifiedBy'[Buyer(s)'] # None
    BY <1>3, <1>9, <2>1, <2>2, <2>3 DEF Holding, PaidPast
  <2> QED BY <2>4, <2>5, <2>6 DEF WriteInv
<1>19. CASE CreditReferred(s)
  <2> DEFINE row == ReferralRow(Buyer(s), ReferredStamps)
  <2>1. /\ pc[s] = "credit_referred" /\ pc'[s] = "credit_referrer"
        /\ tap' = tap /\ UNCHANGED <<ledger, moved, won, qualifies>>
        /\ IF ReferredStamps = 0 THEN rows' = rows
           ELSE AddRow(s, Buyer(s), "referral", Buyer(s), ReferredStamps)
    BY <1>1, <1>19 DEF CreditReferred, CreditSide, Go, Kinds, db
  <2>2. pc[s] \in Settling \ {"booked"} /\ pc'[s] \in Settling \ {"booked"} /\ pc'[s] \in Holding
    BY <2>1 DEF Settling, Holding
  <2>3. qualifiedBy[Buyer(s)] = None /\ Buyer(s) # Referrer[Buyer(s)]
    BY <1>1, <1>2, <1>9, <2>1, <2>2, RulesAssumption DEF SessionInv, PayoutInv, Crediting
  <2>4. \A u \in Customers : rows[s][u] = Sides(u, FALSE, FALSE)
    BY <1>1, <1>9, <1>16, <2>1, <2>2 DEF WriteInv
  <2>5. \A u \in Customers : rows'[s][u] = Sides(u, TRUE, FALSE)
    <3>1. CASE ReferredStamps = 0
      <4>1. referred = <<>>
        BY <3>1 DEF referred
      <4> QED BY <2>1, <2>4, <3>1, <4>1
    <3>2. CASE ReferredStamps # 0
      <4>1. rows[s][Buyer(s)] = <<p>> /\ p.kind = "purchase"
        BY <1>2, <1>9, <2>2, <2>4, FirstRows DEF p, PurchaseRow
      <4>2. RowsFor(<<p>>, "referral", Buyer(s)) = {}
        BY <4>1, FirstRows
      <4>3. RowsFor(ledger[Buyer(s)], "referral", Buyer(s)) = {}
        BY <1>2, <1>9, <2>2, <2>3, NotBooked
      <4>4. rows' = [rows EXCEPT ![s][Buyer(s)] = Append(@, row)]
        BY <2>1, <3>2, <4>1, <4>2, <4>3 DEF AddRow, HasRow, ReferralRow
      <4>5. referred = <<row>>
        BY <1>12, <3>2 DEF referred
      <4>6. Append(<<p>>, row) = <<p>> \o <<row>>
        BY FirstRows
      <4> HIDE DEF row
      <4> QED BY <1>1, <1>2, <1>9, <2>2, <2>4, <4>1, <4>4, <4>5, <4>6 DEF DbKinds
    <3> QED BY <3>1, <3>2
  <2>6. \A u \in Customers : RowsOf(s, u)' = Sides(u, TRUE, FALSE)
    BY <1>17, <2>1, <2>2
  <2>7. won'[s] = WonBy(s)'
    BY <1>14, <1>15, <2>1, <2>2
  <2>8. ~PaidPast(s, {"spin"})' /\ pc'[s] # "written"
    BY <2>1 DEF PaidPast
  <2> QED BY <2>2, <2>5, <2>6, <2>7, <2>8 DEF WriteInv
<1>20. CASE CreditReferrer(s)
  <2> DEFINE row == ReferralRow(Buyer(s), ReferrerStamps)
             inviter == Referrer[Buyer(s)]
  <2>1. /\ pc[s] = "credit_referrer" /\ pc'[s] = "spin"
        /\ tap' = tap /\ UNCHANGED <<ledger, moved, won, qualifies>>
        /\ IF ReferrerStamps = 0 THEN rows' = rows
           ELSE /\ AddRow(s, inviter, "referral", Buyer(s), ReferrerStamps)
                /\ accountLock' = [accountLock EXCEPT ![inviter] = s]
    BY <1>1, <1>20 DEF CreditReferrer, CreditSide, Acquire, Go, Kinds, db
  <2>2. pc[s] \in Settling \ {"booked"} /\ pc'[s] \in Settling \ {"booked"} /\ pc'[s] \in Holding
    BY <2>1 DEF Settling, Holding
  <2>3. /\ qualifiedBy[Buyer(s)] = None /\ Buyer(s) # inviter /\ inviter \in Customers
    BY <1>1, <1>2, <1>9, <2>1, <2>2, RulesAssumption DEF SessionInv, PayoutInv, Crediting
  <2>4. \A u \in Customers : rows[s][u] = Sides(u, TRUE, FALSE)
    BY <1>1, <1>9, <1>16, <2>1, <2>2 DEF WriteInv
  <2>5. \A u \in Customers : rows'[s][u] = Sides(u, TRUE, TRUE)
    <3>1. CASE ReferrerStamps = 0
      <4>1. referrer = <<>>
        BY <3>1 DEF referrer
      <4> QED BY <2>1, <2>4, <3>1, <4>1
    <3>2. CASE ReferrerStamps # 0
      <4>1. rows[s][inviter] = <<>>
        BY <2>3, <2>4
      <4>2. RowsFor(<<>>, "referral", Buyer(s)) = {}
        BY FirstRows
      <4>3. RowsFor(ledger[inviter], "referral", Buyer(s)) = {}
        BY <1>9, <2>2, <2>3, NotBooked
      <4>4. rows' = [rows EXCEPT ![s][inviter] = Append(@, row)]
        BY <2>1, <3>2, <4>1, <4>2, <4>3 DEF AddRow, HasRow, ReferralRow
      <4>5. referrer = <<row>> /\ Append(<<>>, row) = <<row>>
        BY <1>12, <3>2, FirstRows DEF referrer
      <4> HIDE DEF row
      <4> QED BY <1>1, <2>3, <2>4, <4>1, <4>4, <4>5 DEF DbKinds
    <3> QED BY <3>1, <3>2
  <2>6. \A u \in Customers : RowsOf(s, u)' = Sides(u, TRUE, TRUE)
    BY <1>17, <2>1, <2>2
  <2>7. won'[s] = WonBy(s)'
    BY <1>14, <1>15, <2>1, <2>2
  <2>8. pc'[s] # "written" /\ (ReferrerStamps > 0 => accountLock'[Referrer[Buyer(s)']] = s)
    BY <1>1, <1>3, <1>12, <2>1, <2>3 DEF Kinds
  <2> HIDE DEF inviter
  <2> QED BY <2>2, <2>5, <2>6, <2>7, <2>8 DEF WriteInv
<1>21. CASE GrantReferralSpin(s)
  <2>1. /\ pc[s] = "spin" /\ pc'[s] = "written"
        /\ tap' = tap /\ UNCHANGED <<ledger, moved, rows, qualifies, accountLock>>
        /\ won' = IF ReferralSpins = 0 THEN won
                  ELSE [won EXCEPT ![s] = @ \cup {Invitation(Buyer(s))}]
    BY <1>1, <1>21 DEF GrantReferralSpin, Go, Kinds, db, locks, Invitation
  <2>2. /\ pc[s] \in Settling \ {"booked"} /\ pc'[s] \in Holding /\ qualifies[s]
        /\ ReferralSpins \in {0, 1}
    BY <1>1, <2>1, RulesAssumption DEF Settling, Holding, SessionInv, PayoutInv, Crediting
  <2>3. \A u \in Customers : rows'[s][u] = RowsOf(s, u)'
    <3>1. \A u \in Customers : rows[s][u] = Sides(u, TRUE, TRUE)
      BY <1>1, <1>9, <1>16, <2>1, <2>2 DEF WriteInv
    <3>2. \A u \in Customers : RowsOf(s, u)' = Sides(u, TRUE, TRUE)
      BY <1>17, <2>1, <2>2
    <3> QED BY <2>1, <3>1, <3>2
  <2>4. won'[s] = WonBy(s)'
    <3>1. won[s] = milestone
      BY <1>14, <2>2
    <3>2. WonBy(s)' = milestone \cup (IF ReferralSpins = 1 THEN {Invitation(Buyer(s))} ELSE {})
      BY <1>15, <2>1, <2>2
    <3> QED BY <1>1, <2>1, <2>2, <3>1, <3>2 DEF DbKinds
  <2>5. /\ accountLock'[Buyer(s)'] = s
        /\ ReferrerStamps > 0 => accountLock'[Referrer[Buyer(s)']] = s
        /\ qualifies'[s]
    BY <1>1, <1>3, <1>9, <2>1, <2>2 DEF WriteInv, PaidPast
  <2> QED BY <2>2, <2>3, <2>4, <2>5 DEF WriteInv
<1> QED BY <1>5, <1>6, <1>7, <1>8, <1>13, <1>18, <1>19, <1>20, <1>21
        DEF Acts, Step, Waiting, Working

----------------------------------------------------------------------------
LEMMA BooksStart == Init => SInv
<1> SUFFICES ASSUME Init PROVE SInv
  OBVIOUS
<1>1. IInv
  BY InvStarts
<1>2. DbKinds
  BY FS_EmptySet DEF Init, DbKinds
<1>3. \A o \in Orders : Status(o) # "completed"
  BY RulesAssumption DEF Init, Status, Last
<1>4. \A u \in Customers : ledger[u] = <<>> /\ qualifiedBy[u] = None
  BY DEF Init
<1>5. SettledWhole
  BY <1>3, <1>4, FirstRows DEF SettledWhole, PurchaseBooked, InvitationPaid, Init
<1>6. FirstPurchasePays
  <2>1. PurchaseRows(<<>>) = {}
    BY DEF PurchaseRows
  <2> QED BY <1>4, <2>1 DEF FirstPurchasePays
<1>7. MilestonesCompleted
  BY DEF Init, MilestonesCompleted
<1>8. \A s \in Admins : WriteInv(s)
  BY DEF Init, WriteInv, Holding, PaidPast
<1> QED BY <1>1, <1>2, <1>5, <1>6, <1>7, <1>8 DEF SInv

LEMMA BooksKept ==
  ASSUME SInv, UNCHANGED db
  PROVE  SettledWhole' /\ FirstPurchasePays' /\ MilestonesCompleted'
BY DEF db, SInv, SettledWhole, PurchaseBooked, InvitationPaid, BookedOnce, RowsFor, Status,
       Qualifies, StampsFor, ReferralStamps, FirstPurchasePays, PurchaseRows,
       MilestonesCompleted, Milestone

LEMMA BooksStep ==
  ASSUME SInv, NEW s \in Admins, Acts(s)
  PROVE  SettledWhole' /\ FirstPurchasePays' /\ MilestonesCompleted'
<1>1. CASE Commit(s)
  <2>1. \A u \in Customers, o \in Orders : PurchaseBooked(o, u)'
    BY <1>1, PurchaseStep
  <2>2. \A u \in Customers, c \in Customers : InvitationPaid(c, u)'
    BY <1>1, InvitationStep
  <2>3. SettledWhole'
    BY <2>1, <2>2 DEF SettledWhole
  <2> QED BY <1>1, <2>3, FirstPurchaseStep
<1>2. CASE ~Commit(s)
  BY <1>2, OnlyCommitBooks, BooksKept
<1> QED BY <1>1, <1>2

\* What a session has written is what its phase says, what is committed is what
\* the Completed orders earned: at the start, and after every step.
THEOREM SettlementBooks == Spec => []SInv
<1>1. SInv /\ [Next]_vars => SInv'
  <2> SUFFICES ASSUME SInv, [Next]_vars PROVE SInv'
    OBVIOUS
  <2>1. IInv'
    BY InvStep DEF SInv
  <2>2. CASE UNCHANGED vars
    <3>1. /\ UNCHANGED <<path, ledger, grants, qualifiedBy, accountLock, pc, tap>>
          /\ UNCHANGED <<moved, rows, won, qualifies>>
      BY <2>2 DEF vars, db, locks, writes
    <3>2. SettledWhole' /\ FirstPurchasePays' /\ MilestonesCompleted'
      BY <2>2, BooksKept DEF vars
    <3>3. DbKinds'
      BY <3>1 DEF SInv, DbKinds
    <3>4. ASSUME NEW t \in Admins PROVE WriteInv(t)'
      <4>1. OrderOf(t)' = OrderOf(t) /\ Buyer(t)' = Buyer(t)
        BY <3>1 DEF OrderOf, Buyer
      <4>2. Booking(t)' <=> Booking(t)
        BY <3>1, <4>1 DEF Booking, Qualifies
      <4>3. \A u : RowsOf(t, u)' = RowsOf(t, u)
        BY <3>1, <4>1, <4>2
           DEF RowsOf, PurchasePart, PayPart, Past, PaidPast, PurchaseRow, ReferralRow, StampsFor
      <4>4. WonBy(t)' = WonBy(t)
        <5>1. Purchased(Buyer(t))' = Purchased(Buyer(t))
          BY <3>1, <4>1 DEF Purchased, PurchaseRows
        <5> QED BY <3>1, <4>1, <4>2, <5>1
                DEF WonBy, Past, PaidPast, Milestone, Invitation, IsMilestone
      <4>5. PaidPast(t, {"spin"})' <=> PaidPast(t, {"spin"})
        BY <3>1 DEF PaidPast
      <4> QED BY <3>1, <4>1, <4>2, <4>3, <4>4, <4>5 DEF SInv, WriteInv
    <3> QED BY <2>1, <3>2, <3>3, <3>4 DEF SInv
  <2>3. CASE Next
    <3>1. PICK s \in Admins : Acts(s)
      BY <2>3 DEF Next, Acts, Step
    <3>2. DbKinds' /\ SettledWhole' /\ FirstPurchasePays' /\ MilestonesCompleted'
      BY <3>1, DbKindsStep, BooksStep
    <3>3. ASSUME NEW t \in Admins PROVE WriteInv(t)'
      BY <3>1, SelfWrites, OthersWrites
    <3> QED BY <2>1, <3>2, <3>3 DEF SInv
  <2> QED BY <2>2, <2>3
<1> QED BY <1>1, BooksStart, PTL DEF Spec

\* However many sessions settle orders at once, and wherever they break off:
\* every Completed purchase is booked once, for what it earned, an invitation is
\* paid on both sides once it is qualified, and nothing is paid besides.
THEOREM EverySettlementWhole == Spec => []SettledWhole
<1>1. SInv => SettledWhole
  BY DEF SInv
<1> QED BY <1>1, SettlementBooks, PTL

----------------------------------------------------------------------------
LEMMA TimesCounted ==
  ASSUME NEW q \in Seq(Statuses), NEW t, NEW first \in {1, 2}
  PROVE  Times(q, first, t) \in Nat /\ IsFiniteSet({i \in first..Len(q) : q[i] = t})
<1>1. Len(q) \in Nat
  OBVIOUS
<1>2. IsFiniteSet(first..Len(q)) /\ {i \in first..Len(q) : q[i] = t} \subseteq first..Len(q)
  BY <1>1, FS_Interval
<1> QED BY <1>2, FS_Subset, FS_CardinalityType DEF Times

\* What a status appended counts.
LEMMA TimesAppended ==
  ASSUME NEW q \in Seq(Statuses), NEW x \in Statuses, NEW t, NEW first \in {1, 2},
         Len(q) + 1 >= first
  PROVE  /\ Times(q, first, t) \in Nat
         /\ Times(Append(q, x), first, t) = Times(q, first, t) + (IF x = t THEN 1 ELSE 0)
<1> DEFINE old == {i \in first..Len(q) : q[i] = t}
           new == {i \in first..Len(Append(q, x)) : Append(q, x)[i] = t}
           n == Len(q) + 1
<1>1. /\ Len(q) \in Nat /\ Len(Append(q, x)) = n /\ Append(q, x)[n] = x
      /\ \A i \in 1..Len(q) : Append(q, x)[i] = q[i]
  OBVIOUS
<1>2. IsFiniteSet(old) /\ Cardinality(old) \in Nat
  BY TimesCounted DEF Times
<1>3. n \notin old /\ new = old \cup (IF x = t THEN {n} ELSE {})
  BY <1>1
<1>4. Times(q, first, t) = Cardinality(old) /\ Times(Append(q, x), first, t) = Cardinality(new)
  BY DEF Times
<1> HIDE DEF old, new, n
<1>5. CASE x = t
  <2>1. new = old \cup {n}
    BY <1>3, <1>5
  <2> QED BY <1>2, <1>3, <1>4, <1>5, <2>1, FS_AddElement
<1>6. CASE x # t
  <2>1. new = old
    BY <1>3, <1>6
  <2> QED BY <1>2, <1>4, <1>6, <2>1
<1> QED BY <1>5, <1>6

\* A step that moves no order, tells nobody and leaves nobody with more to tell.
Quiet ==
  /\ UNCHANGED <<path, qualifiedBy, told, news>>
  /\ \A t \in Admins : pc'[t] \in {"committed", "news"} => pc'[t] = pc[t] /\ tap'[t] = tap[t]

LEMMA TellKindsUsed ==
  ASSUME IInv, TellInv
  PROVE  /\ Notifiable \subseteq Statuses
         /\ \A o \in Orders : told[o] \in Seq(Statuses) /\ path[o] \in Seq(Statuses) /\ path[o] # <<>>
<1>1. Notifiable \subseteq Statuses
  BY DEF Notifiable, Statuses
<1>2. \A q \in Seq(Notifiable) : q \in Seq(Statuses)
  BY <1>1
<1> QED BY <1>1, <1>2 DEF IInv, Kinds, TellInv, TellKinds

LEMMA QuietKeeps ==
  ASSUME IInv, TellInv, Quiet
  PROVE  TellInv'
<1>1. MovesTold'
  <2> SUFFICES ASSUME NEW o \in Orders, NEW t \in Notifiable
               PROVE  /\ IsFiniteSet(Pending(o, t)')
                      /\ Times(told'[o], 1, t) + Cardinality(Pending(o, t)') <= Times(path'[o], 2, t)
    BY DEF MovesTold, Pending, Times
  <2>1. Pending(o, t)' \subseteq Pending(o, t)
    BY DEF Pending, Quiet
  <2>2. /\ IsFiniteSet(Pending(o, t)') /\ Cardinality(Pending(o, t)') <= Cardinality(Pending(o, t))
        /\ Cardinality(Pending(o, t)') \in Nat /\ Cardinality(Pending(o, t)) \in Nat
    BY <2>1, FS_Subset, FS_CardinalityType DEF TellInv, MovesTold
  <2>3. Times(told[o], 1, t) \in Nat /\ Times(path[o], 2, t) \in Nat
    BY TellKindsUsed, TimesCounted
  <2>4. Times(told[o], 1, t) + Cardinality(Pending(o, t)) <= Times(path[o], 2, t)
    BY DEF TellInv, MovesTold
  <2> QED BY <2>2, <2>3, <2>4 DEF Quiet
<1>2. \A s \in Admins : Announcing(s)' => Announcing(s) /\ OrderOf(s)' = OrderOf(s)
  BY DEF Announcing, OrderOf, Quiet
<1>3. \A o \in Orders : Status(o)' = Status(o)
  BY DEF Status, Quiet
<1>4. AnnouncedOnce'
  <2>1. \A s \in Admins : pc'[s] = "news" => tap'[s].target = "completed"
    BY DEF TellInv, AnnouncedOnce, Quiet
  <2>2. \A s \in Admins : Announcing(s)' => Status(OrderOf(s))' = "completed"
    <3>1. \A s \in Admins : Announcing(s)' => Last(path'[OrderOf(s)']) = Status(OrderOf(s))
      BY <1>2 DEF Status, Quiet
    <3> QED BY <1>2, <3>1 DEF Status, TellInv, AnnouncedOnce
  <2> QED BY <1>2, <2>1, <2>2 DEF TellInv, AnnouncedOnce
<1>5. PayoutTold'
  BY <1>2 DEF TellInv, PayoutTold, Quiet
<1> QED BY <1>1, <1>4, <1>5 DEF TellInv, TellKinds, Quiet

\* A move committed has to be told.
LEMMA MoveKeepsTold ==
  ASSUME IInv, TellInv, NEW s \in Admins, Commit(s), moved[s]
  PROVE  TellInv'
<1>1. /\ pc[s] = "written" /\ pc' = [pc EXCEPT ![s] = "committed"] /\ pc \in [Admins -> Phases]
      /\ UNCHANGED <<tap, told, news>>
  BY DEF Commit, Go, telegram, IInv, Kinds
<1>2. /\ OrderOf(s) \in Orders /\ Buyer(s) \in Customers /\ tap[s].target \in Statuses
      /\ tap[s] \in [order : Orders, target : Statuses] /\ Acts(s)
  BY <1>1, Tapped DEF Acts, Step, Working
<1>3. Status(OrderOf(s)) # "completed"
  BY CommitMoves DEF CanTransition, AllowedTransitions
<1>4. \A t \in Admins : OrderOf(t)' = OrderOf(t)
  BY <1>1 DEF OrderOf
<1>5. MovesTold'
  <2> SUFFICES ASSUME NEW o \in Orders, NEW t \in Notifiable
               PROVE  /\ IsFiniteSet(Pending(o, t)')
                      /\ Times(told'[o], 1, t) + Cardinality(Pending(o, t)') <= Times(path'[o], 2, t)
    BY DEF MovesTold, Pending, Times
  <2>1. /\ IsFiniteSet(Pending(o, t)) /\ Cardinality(Pending(o, t)) \in Nat
        /\ Times(told[o], 1, t) + Cardinality(Pending(o, t)) <= Times(path[o], 2, t)
        /\ Times(told[o], 1, t) \in Nat /\ Times(path[o], 2, t) \in Nat
    BY TellKindsUsed, TimesCounted, FS_CardinalityType DEF TellInv, MovesTold
  <2>2. s \notin Pending(o, t)
    BY <1>1 DEF Pending
  <2>3. CASE o = OrderOf(s) /\ t = tap[s].target
    <3>1. Pending(o, t)' = Pending(o, t) \cup {s}
      BY <1>1, <1>2, <2>3 DEF Pending, OrderOf
    <3>2. path'[o] = Append(path[o], t)
      BY <2>3, CommitEffect
    <3>3. Times(path'[o], 2, t) = Times(path[o], 2, t) + 1
      BY <1>2, <2>3, <3>2, TellKindsUsed, TimesAppended, Appended
    <3>4. IsFiniteSet(Pending(o, t)') /\ Cardinality(Pending(o, t)') = Cardinality(Pending(o, t)) + 1
      BY <2>1, <2>2, <3>1, FS_AddElement
    <3>5. told'[o] = told[o]
      BY <1>1
    <3> QED BY <2>1, <3>3, <3>4, <3>5
  <2>4. CASE ~(o = OrderOf(s) /\ t = tap[s].target)
    <3>1. Pending(o, t)' = Pending(o, t)
      BY <1>1, <1>2, <2>4 DEF Pending, OrderOf
    <3>2. CASE o = OrderOf(s)
      <4>1. path'[o] = Append(path[o], tap[s].target)
        BY <3>2, CommitEffect
      <4>2. path[o] \in Seq(Statuses) /\ path[o] # <<>>
        BY TellKindsUsed
      <4>3. Len(path[o]) + 1 >= 2
        BY <4>2
      <4>4. Times(path'[o], 2, t) = Times(path[o], 2, t) + 0
        BY <1>2, <2>4, <3>2, <4>1, <4>2, <4>3, TimesAppended
      <4> QED BY <1>1, <2>1, <3>1, <4>4
    <3>3. CASE o # OrderOf(s)
      <4>1. path'[o] = path[o]
        BY <3>3, CommitEffect
      <4> QED BY <1>1, <2>1, <3>1, <4>1
    <3> QED BY <3>2, <3>3
  <2> QED BY <2>3, <2>4
<1>6. \A t \in Admins : Announcing(t)' <=> Announcing(t) \/ (t = s /\ tap[s].target = "completed")
  BY <1>1 DEF Announcing
<1>7. \A t \in Admins : Announcing(t) =>
        t # s /\ OrderOf(t) \in Orders /\ Status(OrderOf(t)) = "completed" /\ OrderOf(t) # OrderOf(s)
  BY <1>1, <1>3, Tapped DEF Announcing, TellInv, AnnouncedOnce
<1>8. AnnouncedOnce'
  <2>1. \A t \in Admins : pc'[t] = "news" => tap'[t].target = "completed"
    BY <1>1 DEF TellInv, AnnouncedOnce
  <2>2. \A t \in Admins : Announcing(t)' => Status(OrderOf(t))' = "completed"
    <3> SUFFICES ASSUME NEW t \in Admins, Announcing(t)'
                 PROVE  Last(path'[OrderOf(t)']) = "completed"
      BY DEF Status
    <3>1. Status(OrderOf(t))' = Last(path'[OrderOf(t)'])
      BY DEF Status
    <3>2. OrderOf(t) \in Orders
      BY <1>2, <1>6, <1>7
    <3>3. Last(path'[OrderOf(t)]) = "completed"
      BY <1>2, <1>6, <1>7, <3>2, StatusAfter DEF Status
    <3> QED BY <1>4, <3>3
  <2>3. \A t, u \in Admins : Announcing(t)' /\ Announcing(u)' /\ OrderOf(t)' = OrderOf(u)' => t = u
    BY <1>4, <1>6, <1>7 DEF TellInv, AnnouncedOnce
  <2> QED BY <2>1, <2>2, <2>3 DEF AnnouncedOnce
<1>9. PayoutTold'
  <2> SUFFICES ASSUME NEW c \in Customers, news'[c] # 0
               PROVE  /\ news'[c] = 1 /\ qualifiedBy'[c] # None
                      /\ \A t \in Admins : Announcing(t)' => OrderOf(t)' # qualifiedBy'[c]
    BY DEF PayoutTold
  <2>1. /\ news[c] = 1 /\ qualifiedBy[c] # None
        /\ \A t \in Admins : Announcing(t) => OrderOf(t) # qualifiedBy[c]
    BY <1>1 DEF TellInv, PayoutTold
  <2>2. qualifiedBy'[c] = qualifiedBy[c]
    BY <2>1, CommitEffect, PayersBook
  <2>3. OrderOf(s) # qualifiedBy[c]
    BY <1>3, <2>1 DEF IInv, PaidForPurchase
  <2> QED BY <1>1, <1>4, <1>6, <2>1, <2>2, <2>3
<1> QED BY <1>1, <1>5, <1>8, <1>9 DEF TellInv, TellKinds

\* A message sent is one move told, by the session that had it to tell.
LEMMA NotifyKeepsTold ==
  ASSUME IInv, TellInv, NEW s \in Admins, NotifyCustomer(s)
  PROVE  TellInv'
<1>1. /\ pc[s] = "committed" /\ pc \in [Admins -> Phases]
      /\ pc' = [pc EXCEPT ![s] = IF tap[s].target = "completed" THEN "news" ELSE "answer"]
      /\ UNCHANGED <<path, qualifiedBy, tap, news>>
      /\ \/ /\ tap[s].target \in Notifiable
            /\ told' = [told EXCEPT ![OrderOf(s)] = Append(@, tap[s].target)]
         \/ told' = told
  BY DEF NotifyCustomer, Go, db, IInv, Kinds
<1>2. /\ OrderOf(s) \in Orders /\ tap[s] \in [order : Orders, target : Statuses]
  BY <1>1, Tapped
<1>3. TellKinds'
  <2>1. tap[s].target \in Notifiable => Append(told[OrderOf(s)], tap[s].target) \in Seq(Notifiable)
    BY <1>2 DEF TellInv, TellKinds
  <2> QED BY <1>1, <1>2, <2>1 DEF TellInv, TellKinds
<1>4. MovesTold'
  <2> SUFFICES ASSUME NEW o \in Orders, NEW t \in Notifiable
               PROVE  /\ IsFiniteSet(Pending(o, t)')
                      /\ Times(told'[o], 1, t) + Cardinality(Pending(o, t)') <= Times(path'[o], 2, t)
    BY DEF MovesTold, Pending, Times
  <2>1. /\ IsFiniteSet(Pending(o, t)) /\ Cardinality(Pending(o, t)) \in Nat
        /\ Times(told[o], 1, t) + Cardinality(Pending(o, t)) <= Times(path[o], 2, t)
        /\ Times(told[o], 1, t) \in Nat /\ Times(path[o], 2, t) \in Nat
    BY TellKindsUsed, TimesCounted, FS_CardinalityType DEF TellInv, MovesTold
  <2>2. Pending(o, t)' = Pending(o, t) \ {s}
    BY <1>1 DEF Pending
  <2>3. CASE o = OrderOf(s) /\ t = tap[s].target
    <3>1. s \in Pending(o, t)
      BY <1>1, <1>2, <2>3 DEF Pending, OrderOf
    <3>2. IsFiniteSet(Pending(o, t)') /\ Cardinality(Pending(o, t)') = Cardinality(Pending(o, t)) - 1
      BY <2>1, <2>2, <3>1, FS_RemoveElement
    <3>3. told'[o] = told[o] \/ told'[o] = Append(told[o], t)
      BY <1>1, <1>2, <2>3 DEF TellInv, TellKinds
    <3>4. Times(told'[o], 1, t) = Times(told[o], 1, t) \/ Times(told'[o], 1, t) = Times(told[o], 1, t) + 1
      <4>1. told[o] \in Seq(Statuses) /\ t \in Statuses
        BY TellKindsUsed
      <4>2. Len(told[o]) + 1 >= 1
        BY <4>1
      <4>3. Times(Append(told[o], t), 1, t) = Times(told[o], 1, t) + 1
        BY <4>1, <4>2, TimesAppended
      <4> QED BY <3>3, <4>3
    <3> QED BY <1>1, <2>1, <3>2, <3>4
  <2>4. CASE ~(o = OrderOf(s) /\ t = tap[s].target)
    <3>1. s \notin Pending(o, t)
      BY <1>1, <1>2, <2>4 DEF Pending, OrderOf
    <3>2. Pending(o, t)' = Pending(o, t)
      BY <2>2, <3>1
    <3>3. Times(told'[o], 1, t) = Times(told[o], 1, t) + 0
      <4>1. \/ told'[o] = told[o]
            \/ t # tap[s].target /\ told'[o] = Append(told[o], tap[s].target)
        BY <1>1, <1>2, <2>4 DEF TellInv, TellKinds
      <4>2. Len(told[o]) + 1 >= 1 /\ told[o] \in Seq(Statuses) /\ tap[s].target \in Statuses
        BY <1>2, TellKindsUsed
      <4>3. t # tap[s].target => Times(Append(told[o], tap[s].target), 1, t) = Times(told[o], 1, t) + 0
        BY <4>2, TimesAppended
      <4>4. CASE told'[o] = told[o]
        BY <2>1, <4>4
      <4>5. CASE t # tap[s].target /\ told'[o] = Append(told[o], tap[s].target)
        BY <4>3, <4>5
      <4> QED BY <4>1, <4>4, <4>5
    <3> QED BY <1>1, <2>1, <3>2, <3>3
  <2> QED BY <2>3, <2>4
<1>5. \A t \in Admins : OrderOf(t)' = OrderOf(t) /\ (Announcing(t)' <=> Announcing(t))
  BY <1>1 DEF OrderOf, Announcing
<1>6. AnnouncedOnce'
  <2>1. \A t \in Admins : pc'[t] = "news" => tap'[t].target = "completed"
    BY <1>1 DEF TellInv, AnnouncedOnce
  <2>2. \A t \in Admins : Announcing(t)' => Last(path'[OrderOf(t)']) = "completed"
    BY <1>1, <1>5 DEF TellInv, AnnouncedOnce, Status
  <2> QED BY <1>5, <2>1, <2>2 DEF TellInv, AnnouncedOnce, Status
<1>7. PayoutTold'
  BY <1>1, <1>5 DEF TellInv, PayoutTold
<1> QED BY <1>3, <1>4, <1>6, <1>7 DEF TellInv

\* A payout announced is announced by the only session that could.
LEMMA NewsKeepsTold ==
  ASSUME IInv, TellInv, NEW s \in Admins, TellReferral(s)
  PROVE  TellInv'
<1>1. /\ pc[s] = "news" /\ pc \in [Admins -> Phases] /\ pc' = [pc EXCEPT ![s] = "idle"]
      /\ UNCHANGED <<path, qualifiedBy, told>> /\ \A t \in Admins \ {s} : tap'[t] = tap[t]
      /\ \/ /\ qualifiedBy[Buyer(s)] = OrderOf(s)
            /\ news' = [news EXCEPT ![Buyer(s)] = @ + 1]
         \/ news' = news
  BY DEF TellReferral, Done, Go, db, IInv, Kinds
<1>2. OrderOf(s) \in Orders /\ Buyer(s) \in Customers /\ OrderOf(s) # None
  BY <1>1, Tapped, RulesAssumption
<1>3. CASE news' = news
  BY <1>1, <1>3, QuietKeeps DEF Quiet
<1>4. CASE qualifiedBy[Buyer(s)] = OrderOf(s) /\ news' = [news EXCEPT ![Buyer(s)] = @ + 1]
  <2>1. Announcing(s)
    BY <1>1 DEF Announcing, TellInv, AnnouncedOnce
  <2>2. news[Buyer(s)] = 0
    BY <1>2, <1>4, <2>1 DEF TellInv, PayoutTold
  <2>3. \A t \in Admins : Announcing(t)' => t # s /\ Announcing(t) /\ OrderOf(t)' = OrderOf(t)
    BY <1>1 DEF Announcing, OrderOf
  <2>4. TellKinds' /\ MovesTold'
    <3>1. TellKinds'
      BY <1>1, <1>2, <1>4 DEF TellInv, TellKinds
    <3>2. \A o \in Orders, t \in Notifiable : Pending(o, t)' = Pending(o, t)
      BY <1>1 DEF Pending
    <3>3. MovesTold'
      BY <1>1, <3>2 DEF TellInv, MovesTold, Times
    <3> QED BY <3>1, <3>3
  <2>5. AnnouncedOnce'
    <3>1. \A t \in Admins : pc'[t] = "news" => tap'[t].target = "completed"
      BY <1>1 DEF TellInv, AnnouncedOnce
    <3>2. \A t \in Admins : Announcing(t)' => Last(path'[OrderOf(t)']) = "completed"
      BY <1>1, <2>3 DEF TellInv, AnnouncedOnce, Status
    <3> QED BY <2>3, <3>1, <3>2 DEF TellInv, AnnouncedOnce, Status
  <2>6. PayoutTold'
    <3> SUFFICES ASSUME NEW c \in Customers, news'[c] # 0
                 PROVE  /\ news'[c] = 1 /\ qualifiedBy'[c] # None
                        /\ \A t \in Admins : Announcing(t)' => OrderOf(t)' # qualifiedBy'[c]
      BY DEF PayoutTold
    <3>1. CASE c = Buyer(s)
      <4>1. news'[c] = 1
        BY <1>2, <1>4, <2>2, <3>1 DEF TellInv, TellKinds
      <4> QED BY <1>1, <1>2, <1>4, <2>1, <2>3, <3>1, <4>1 DEF TellInv, AnnouncedOnce
    <3>2. CASE c # Buyer(s)
      <4>1. news'[c] = news[c]
        BY <1>4, <3>2 DEF TellInv, TellKinds
      <4> QED BY <1>1, <2>3, <4>1 DEF TellInv, PayoutTold
    <3> QED BY <3>1, <3>2
  <2> QED BY <2>4, <2>5, <2>6 DEF TellInv
<1> QED BY <1>1, <1>3, <1>4

\* Every other step is quiet.
LEMMA OthersQuiet ==
  ASSUME IInv, NEW s \in Admins, Acts(s),
         ~(Commit(s) /\ moved[s]), ~NotifyCustomer(s), ~TellReferral(s)
  PROVE  Quiet
<1>1. pc \in [Admins -> Phases] /\ tap \in [Admins -> [order : Orders, target : Statuses] \cup {None}]
  BY DEF IInv, Kinds
<1>2. UNCHANGED <<path, qualifiedBy>>
  <2>1. CASE Commit(s)
    BY <2>1, PayersBook DEF Commit, Booking
  <2> QED BY <2>1, OnlyCommitWrites
<1>3. /\ UNCHANGED <<told, news>>
      /\ \A t \in Admins : pc'[t] \in {"committed", "news"} => pc'[t] = pc[t] /\ tap'[t] = tap[t]
  <2>1. CASE (\E o \in Orders, x \in Targets : Tap(s, o, x)) \/ Waiting(s)
    BY <1>1, <2>1
       DEF Tap, Waiting, LockOrder, AwardPurchase, QualifyReferral, CreditReferred,
           CreditReferrer, CreditSide, Go, telegram
  <2>2. CASE \/ AlreadyThere(s) \/ RefuseMove(s) \/ MoveOrder(s) \/ EarnsNothing(s)
             \/ GrantMilestone(s) \/ ReadReferral(s) \/ GrantReferralSpin(s)
    BY <1>1, <2>2
       DEF AlreadyThere, RefuseMove, MoveOrder, EarnsNothing, GrantMilestone, ReadReferral,
           GrantReferralSpin, Go, telegram
  <2>3. CASE Commit(s) \/ RollbackRefused(s) \/ Answer(s) \/ Abort(s)
    BY <1>1, <2>3 DEF Commit, RollbackRefused, Answer, Abort, Done, Go, telegram
  <2> QED BY <2>1, <2>2, <2>3 DEF Acts, Step, Working
<1> QED BY <1>2, <1>3 DEF Quiet

\* Each status message answers one committed move, and a payout is announced
\* once: whatever is repeated, lost or broken off after the commit.
THEOREM NobodyToldTwice == Spec => []ToldWhatHappened
<1>1. IInv /\ TellInv /\ [Next]_vars => TellInv'
  <2> SUFFICES ASSUME IInv, TellInv, [Next]_vars PROVE TellInv'
    OBVIOUS
  <2>1. CASE UNCHANGED vars
    BY <2>1, QuietKeeps DEF vars, db, telegram, Quiet
  <2>2. CASE Next
    <3>1. PICK s \in Admins : Acts(s)
      BY <2>2 DEF Next, Acts, Step
    <3> QED BY <3>1, QuietKeeps, MoveKeepsTold, NotifyKeepsTold, NewsKeepsTold, OthersQuiet
  <2> QED BY <2>1, <2>2
<1>2. Init => TellInv
  <2> SUFFICES ASSUME Init PROVE TellInv
    OBVIOUS
  <2>1. TellKinds /\ AnnouncedOnce /\ PayoutTold
    BY DEF Init, TellKinds, AnnouncedOnce, PayoutTold, Announcing
  <2>2. ASSUME NEW o \in Orders, NEW t \in Notifiable
        PROVE  /\ IsFiniteSet(Pending(o, t))
               /\ Times(told[o], 1, t) + Cardinality(Pending(o, t)) <= Times(path[o], 2, t)
    <3>1. Pending(o, t) = {}
      BY DEF Init, Pending
    <3>2. told[o] = <<>> /\ path[o] = <<InitialStatus[o]>>
      BY DEF Init
    <3>3. {i \in 1..Len(told[o]) : told[o][i] = t} = {} /\ {i \in 2..Len(path[o]) : path[o][i] = t} = {}
      BY <3>2
    <3>4. Times(told[o], 1, t) = 0 /\ Times(path[o], 2, t) = 0
      BY <3>3, FS_EmptySet DEF Times
    <3> QED BY <3>1, <3>4, FS_EmptySet
  <2> QED BY <2>1, <2>2 DEF TellInv, MovesTold
<1>3. IInv /\ TellInv => ToldWhatHappened
  <2> SUFFICES ASSUME IInv, TellInv PROVE ToldWhatHappened
    OBVIOUS
  <2>1. ASSUME NEW o \in Orders, NEW t \in Notifiable
        PROVE  Times(told[o], 1, t) <= Times(path[o], 2, t)
    <3>1. /\ Times(told[o], 1, t) \in Nat /\ Times(path[o], 2, t) \in Nat
          /\ Cardinality(Pending(o, t)) \in Nat
          /\ Times(told[o], 1, t) + Cardinality(Pending(o, t)) <= Times(path[o], 2, t)
      BY TellKindsUsed, TimesCounted, FS_CardinalityType DEF TellInv, MovesTold
    <3> QED BY <3>1
  <2>2. \A c \in Customers : news[c] <= IF qualifiedBy[c] = None THEN 0 ELSE 1
    <3> SUFFICES ASSUME NEW c \in Customers
                 PROVE  news[c] <= IF qualifiedBy[c] = None THEN 0 ELSE 1
      OBVIOUS
    <3>1. news[c] = 0 \/ (news[c] = 1 /\ qualifiedBy[c] # None)
      BY DEF TellInv, PayoutTold
    <3> QED BY <3>1
  <2> QED BY <2>1, <2>2 DEF ToldWhatHappened
<1> QED BY <1>1, <1>2, <1>3, SettlementInvariant, PTL DEF Spec

----------------------------------------------------------------------------
\* What a commit adds to what a customer was given, as OrderBook counts it.
Spins(u) == Cardinality({g \in grants : g.user = u})

LEMMA SpinsFinite ==
  ASSUME SInv, NEW u \in Customers
  PROVE  IsFiniteSet({g \in grants : g.user = u}) /\ Spins(u) \in Nat
<1>1. IsFiniteSet(grants) /\ {g \in grants : g.user = u} \subseteq grants
  BY DEF SInv, DbKinds
<1>2. IsFiniteSet({g \in grants : g.user = u})
  BY <1>1, FS_Subset
<1> QED BY <1>2, FS_CardinalityType DEF Spins

LEMMA CommitStamps ==
  ASSUME SInv, NEW s \in Admins, Commit(s), NEW u \in Customers
  PROVE  StampSum(ledger'[u]) = StampSum(ledger[u])
           + (IF Booking(s) /\ u = Buyer(s) THEN StampsFor(OrderOf(s)) ELSE 0) + Pay(s, u)
<1> DEFINE l == WithPurchase(s, u)
           x == PurchaseRow(OrderOf(s))
           y == ReferralRow(Buyer(s), Pay(s, u))
           earned == IF Booking(s) /\ u = Buyer(s) THEN StampsFor(OrderOf(s)) ELSE 0
<1>1. /\ OrderOf(s) \in Orders /\ Buyer(s) \in Customers
      /\ ledger[u] \in Seq(Row) /\ l \in Seq(Row) /\ ledger'[u] = WithPay(s, u)
  BY CommitGrants, CommitBooks DEF SInv, DbKinds
<1>2. Pay(s, u) \in Nat /\ StampsFor(OrderOf(s)) \in Nat
  BY <1>1, SideStamps, RowsTyped DEF Pay
<1>3. /\ x \in Row /\ x.amount = StampsFor(OrderOf(s))
      /\ y \in Row /\ y.amount = Pay(s, u)
  BY <1>1, <1>2, RowsTyped DEF PurchaseRow, ReferralRow
<1>4. StampSum(ledger[u]) \in Nat
  BY <1>1, <1>3, SumAdds
<1>5. StampSum(l) = StampSum(ledger[u]) + earned
  <2>1. CASE Booking(s) /\ u = Buyer(s)
    <3>1. l = Append(ledger[u], x) /\ earned = x.amount
      BY <1>3, <2>1 DEF WithPurchase
    <3> HIDE DEF l, x, earned
    <3> QED BY <1>1, <1>3, <3>1, SumAdds
  <2>2. CASE ~(Booking(s) /\ u = Buyer(s))
    <3>1. l = ledger[u] /\ earned = 0
      BY <2>2 DEF WithPurchase
    <3> HIDE DEF l, earned
    <3> QED BY <1>4, <3>1
  <2> QED BY <2>1, <2>2
<1>6. StampSum(ledger'[u]) = StampSum(l) + Pay(s, u)
  <2>1. StampSum(l) \in Nat
    <3> HIDE DEF l, y
    <3> QED BY <1>1, <1>3, SumAdds
  <2>2. CASE Pay(s, u) > 0
    <3>1. ledger'[u] = Append(l, y)
      BY <1>1, <2>2 DEF WithPay
    <3> HIDE DEF l, y
    <3> QED BY <1>1, <1>3, <3>1, SumAdds
  <2>3. CASE ~(Pay(s, u) > 0)
    <3>1. ledger'[u] = l /\ Pay(s, u) = 0
      BY <1>1, <1>2, <2>3 DEF WithPay
    <3> HIDE DEF l
    <3> QED BY <2>1, <3>1
  <2> QED BY <2>2, <2>3
<1> HIDE DEF l
<1> QED BY <1>5, <1>6

\* The grants a commit adds are not there yet: their order was not Completed,
\* their invitation not paid.
LEMMA CommitSpins ==
  ASSUME SInv, NEW s \in Admins, Commit(s), NEW u \in Customers
  PROVE  Spins(u)' = Spins(u)
           + (IF Booking(s) /\ u = Buyer(s) /\ IsMilestone(Purchased(Buyer(s)) + 1) THEN 1 ELSE 0)
           + (IF qualifies[s] /\ u = Referrer[Buyer(s)] THEN ReferralSpins ELSE 0)
<1> DEFINE m == Milestone(OrderOf(s))
           v == Invitation(Buyer(s))
           earns == Booking(s) /\ IsMilestone(Purchased(Buyer(s)) + 1)
           pays == qualifies[s] /\ ReferralSpins = 1
           old == {g \in grants : g.user = u}
           new == {g \in grants' : g.user = u}
<1>1. /\ grants' = grants \cup (IF earns THEN {m} ELSE {}) \cup (IF pays THEN {v} ELSE {})
      /\ OrderOf(s) \in Orders /\ Buyer(s) \in Customers /\ Buyer(s) = Customer[OrderOf(s)]
  BY CommitGrants
<1>2. earns => m \notin grants
  <2>1. earns => Status(OrderOf(s)) # "completed"
    BY CommitMoves DEF SInv, Booking, CanTransition, AllowedTransitions
  <2> QED BY <1>1, <2>1 DEF SInv, MilestonesCompleted
<1>3. qualifies[s] => Referrer[Buyer(s)] \in Customers /\ Booking(s) /\ qualifiedBy[Buyer(s)] = None
  BY PayersBook DEF SInv, IInv, SessionInv, PayoutInv
<1>4. pays => v \notin grants
  BY <1>1, <1>3 DEF SInv, SettledWhole, InvitationPaid, Invitation
<1>5. m.user = Buyer(s) /\ v.user = Referrer[Buyer(s)] /\ Referrer[Buyer(s)] # Buyer(s)
  BY <1>1, SideStamps DEF Milestone, Invitation
<1>6. IsFiniteSet(old) /\ Spins(u) = Cardinality(old) /\ Spins(u)' = Cardinality(new)
      /\ Spins(u) \in Nat /\ ReferralSpins \in {0, 1}
  BY SpinsFinite, RulesAssumption DEF Spins
<1> HIDE DEF m, v
<1>7. CASE u = Buyer(s)
  <2>1. new = old \cup (IF earns THEN {m} ELSE {})
    BY <1>1, <1>5, <1>7
  <2>2. CASE earns
    <3>1. new = old \cup {m} /\ m \notin old
      BY <1>2, <2>1, <2>2
    <3> HIDE DEF old, new
    <3>2. Cardinality(new) = Cardinality(old) + 1
      BY <1>6, <3>1, FS_AddElement
    <3> QED BY <1>5, <1>6, <1>7, <2>2, <3>2
  <2>3. CASE ~earns
    <3>1. new = old
      BY <2>1, <2>3
    <3> HIDE DEF old, new
    <3> QED BY <1>5, <1>6, <1>7, <2>3, <3>1
  <2> QED BY <2>2, <2>3
<1>8. CASE u # Buyer(s)
  <2>1. new = old \cup (IF pays /\ u = Referrer[Buyer(s)] THEN {v} ELSE {})
    BY <1>1, <1>5, <1>8
  <2>2. CASE pays /\ u = Referrer[Buyer(s)]
    <3>1. new = old \cup {v} /\ v \notin old
      BY <1>4, <2>1, <2>2
    <3> HIDE DEF old, new
    <3>2. Cardinality(new) = Cardinality(old) + 1
      BY <1>6, <3>1, FS_AddElement
    <3> QED BY <1>6, <1>8, <2>2, <3>2
  <2>3. CASE ~(pays /\ u = Referrer[Buyer(s)])
    <3>1. new = old
      BY <2>1, <2>3
    <3>2. (IF qualifies[s] /\ u = Referrer[Buyer(s)] THEN ReferralSpins ELSE 0) = 0
      BY <1>6, <2>3
    <3> HIDE DEF old, new
    <3> QED BY <1>6, <1>8, <3>1, <3>2
  <2> QED BY <2>2, <2>3
<1> QED BY <1>7, <1>8

\* A session pays the invitation out exactly when its order is the first
\* purchase of a customer somebody invited.
LEMMA PaysFirst ==
  ASSUME SInv, NEW s \in Admins, Commit(s)
  PROVE  qualifies[s] <=> Booking(s) /\ Referrer[Buyer(s)] # None /\ Purchased(Buyer(s)) = 0
<1>1. pc[s] = "written" /\ Buyer(s) \in Customers
  BY CommitGrants
<1>2. Purchased(Buyer(s)) = 0 <=> PurchaseRows(ledger[Buyer(s)]) = {}
  BY <1>1, PurchasesFinite DEF SInv, DbKinds, Purchased
<1>3. qualifiedBy[Buyer(s)] = None
        <=> ~(Referrer[Buyer(s)] # None /\ PurchaseRows(ledger[Buyer(s)]) # {})
  BY <1>1 DEF SInv, FirstPurchasePays
<1>4. qualifies[s] => Booking(s) /\ qualifiedBy[Buyer(s)] = None /\ Referrer[Buyer(s)] # None
  BY PayersBook, RulesAssumption DEF SInv, IInv, SessionInv, PayoutInv
<1>5. Booking(s) /\ Referrer[Buyer(s)] # None /\ qualifiedBy[Buyer(s)] = None => qualifies[s]
  BY <1>1 DEF SInv, WriteInv
<1> QED BY <1>2, <1>3, <1>4, <1>5

\* The mapping of Book, written out: the state OrderBook speaks of.
StatusMap == [o \in Orders |-> Status(o)]
StampsMap == [c \in Customers |-> StampSum(ledger[c])]
PurchasesMap == [c \in Customers |-> Cardinality(PurchaseRows(ledger[c]))]
SpinsMap == [c \in Customers |-> Cardinality({g \in grants : g.user = c})]
PaidMap == {c \in Customers : qualifiedBy[c] # None}

LEMMA MapKept ==
  ASSUME UNCHANGED db
  PROVE  UNCHANGED <<StatusMap, StampsMap, PurchasesMap, SpinsMap, PaidMap>>
BY DEF db, StatusMap, StampsMap, PurchasesMap, SpinsMap, PaidMap, Status, StampSum, PurchaseRows

\* A commit that books no purchase moves its order, or does nothing.
LEMMA CommitOfMove ==
  ASSUME SInv, NEW s \in Admins, Commit(s), ~Booking(s)
  PROVE  /\ StatusMap' = IF moved[s] THEN [StatusMap EXCEPT ![OrderOf(s)] = tap[s].target]
                         ELSE StatusMap
         /\ UNCHANGED <<StampsMap, PurchasesMap, SpinsMap, PaidMap>>
<1>1. OrderOf(s) \in Orders /\ Buyer(s) \in Customers /\ Acts(s) /\ IInv /\ ~qualifies[s]
  BY CommitGrants, PaysFirst DEF SInv, Acts, Step, Working
<1>2. \A o \in Orders : Status(o)' = IF moved[s] /\ o = OrderOf(s) THEN tap[s].target ELSE Status(o)
  BY <1>1, StatusAfter
<1>3. StatusMap' = IF moved[s] THEN [StatusMap EXCEPT ![OrderOf(s)] = tap[s].target] ELSE StatusMap
  <2>1. StatusMap' = [o \in Orders |-> IF moved[s] /\ o = OrderOf(s) THEN tap[s].target ELSE Status(o)]
    BY <1>2 DEF StatusMap
  <2> QED BY <1>1, <2>1 DEF StatusMap
<1>4. \A u \in Customers : ledger'[u] = ledger[u]
  BY <1>1, CommitBooks DEF WithPay, WithPurchase, Pay
<1>5. grants' = grants
  BY <1>1, CommitGrants
<1>6. \A c \in Customers : qualifiedBy'[c] = qualifiedBy[c]
  BY <1>1, CommitEffect
<1>7. StampsMap' = StampsMap
  <2>1. \A u \in Customers : StampSum(ledger[u])' = StampSum(ledger'[u])
    BY DEF StampSum
  <2>2. \A u \in Customers : StampSum(ledger[u])' = StampSum(ledger[u])
    BY <1>4, <2>1
  <2> QED BY <2>2 DEF StampsMap
<1>8. PurchasesMap' = PurchasesMap
  BY <1>4 DEF PurchasesMap, PurchaseRows
<1>9. SpinsMap' = SpinsMap /\ PaidMap' = PaidMap
  BY <1>5, <1>6 DEF SpinsMap, PaidMap
<1> QED BY <1>3, <1>7, <1>8, <1>9

\* A commit that completes a purchase settles it as OrderBook does.
LEMMA CommitOfPurchase ==
  ASSUME SInv, NEW s \in Admins, Commit(s), Booking(s), NEW o \in Orders, o = OrderOf(s)
  PROVE  LET buyer == Customer[o]
             invited == Referrer[buyer] # None /\ PurchasesMap[buyer] = 0
         IN  /\ StatusMap' = [StatusMap EXCEPT ![o] = "completed"]
             /\ PurchasesMap' = [PurchasesMap EXCEPT ![buyer] = @ + 1]
             /\ StampsMap' = [x \in Customers |-> StampsMap[x]
                  + (IF x = buyer THEN StampsFor(o) ELSE 0)
                  + (IF invited /\ x = buyer THEN ReferredStamps ELSE 0)
                  + (IF invited /\ x = Referrer[buyer] THEN ReferrerStamps ELSE 0)]
             /\ SpinsMap' = [x \in Customers |-> SpinsMap[x]
                  + (IF x = buyer /\ IsMilestone(PurchasesMap[buyer] + 1) THEN 1 ELSE 0)
                  + (IF invited /\ x = Referrer[buyer] THEN ReferralSpins ELSE 0)]
             /\ PaidMap' = IF invited THEN PaidMap \cup {buyer} ELSE PaidMap
<1> DEFINE buyer == Customer[o]
           invited == Referrer[buyer] # None /\ PurchasesMap[buyer] = 0
<1>1. /\ buyer \in Customers /\ buyer = Buyer(s)
      /\ Acts(s) /\ IInv /\ moved[s] /\ tap[s].target = "completed" /\ o # None
  BY CommitGrants, RulesAssumption DEF SInv, Acts, Step, Working, Booking
<1>2. PurchasesMap[buyer] = Purchased(buyer) /\ (invited <=> qualifies[s])
  BY <1>1, PaysFirst DEF PurchasesMap, Purchased
<1>3. StatusMap' = [StatusMap EXCEPT ![o] = "completed"]
  <2>1. \A x \in Orders : Status(x)' = IF x = o THEN "completed" ELSE Status(x)
    BY <1>1, StatusAfter
  <2>2. StatusMap' = [x \in Orders |-> IF x = o THEN "completed" ELSE Status(x)]
    BY <2>1 DEF StatusMap
  <2> QED BY <1>1, <2>2 DEF StatusMap
<1>4. PurchasesMap' = [PurchasesMap EXCEPT ![buyer] = @ + 1]
  <2>1. \A c \in Customers : PurchasesMap'[c] = PurchasesMap[c] + (IF c = buyer THEN 1 ELSE 0)
    BY <1>1, CommitCounts DEF PurchasesMap, Purchased
  <2>2. \A c \in Customers : PurchasesMap[c] \in Nat
    BY PurchasesFinite DEF PurchasesMap, SInv, DbKinds
  <2>3. \A c \in Customers : PurchasesMap'[c] = IF c = buyer THEN PurchasesMap[c] + 1 ELSE PurchasesMap[c]
    BY <2>1, <2>2
  <2>4. PurchasesMap' = [c \in Customers |-> PurchasesMap'[c]] /\ PurchasesMap = [c \in Customers |-> PurchasesMap[c]]
    BY DEF PurchasesMap
  <2> HIDE DEF buyer
  <2> QED BY <1>1, <2>3, <2>4
<1>5. StampsMap' = [x \in Customers |-> StampsMap[x]
         + (IF x = buyer THEN StampsFor(o) ELSE 0)
         + (IF invited /\ x = buyer THEN ReferredStamps ELSE 0)
         + (IF invited /\ x = Referrer[buyer] THEN ReferrerStamps ELSE 0)]
  <2>1. ASSUME NEW x \in Customers
        PROVE  StampSum(ledger[x])' = StampsMap[x]
                 + (IF x = buyer THEN StampsFor(o) ELSE 0)
                 + (IF invited /\ x = buyer THEN ReferredStamps ELSE 0)
                 + (IF invited /\ x = Referrer[buyer] THEN ReferrerStamps ELSE 0)
    <3>1. StampSum(ledger'[x]) = StampsMap[x] + (IF x = buyer THEN StampsFor(o) ELSE 0) + Pay(s, x)
      BY <1>1, CommitStamps DEF StampsMap
    <3>2. StampSum(ledger[x])' = StampSum(ledger'[x])
      BY DEF StampSum
    <3>3. StampsMap[x] \in Nat
      <4>1. ledger[x] \in Seq(Row) /\ PurchaseRow(o) \in Row
        BY <1>1, RowsTyped DEF SInv, DbKinds
      <4>2. StampSum(ledger[x]) \in Nat
        BY <4>1, SumAdds
      <4> QED BY <4>2 DEF StampsMap
    <3>4. StampsFor(o) \in Nat /\ ReferredStamps \in Nat /\ ReferrerStamps \in Nat
          /\ Referrer[buyer] # buyer
      BY <1>1, RowsTyped, RulesAssumption
    <3>5. Pay(s, x) = (IF invited /\ x = buyer THEN ReferredStamps ELSE 0)
                        + (IF invited /\ x = Referrer[buyer] THEN ReferrerStamps ELSE 0)
      <4> HIDE DEF invited
      <4> QED BY <1>1, <1>2, <3>4 DEF Pay, ReferralStamps
    <3> HIDE DEF invited, buyer
    <3> QED BY <3>1, <3>2, <3>3, <3>4, <3>5
  <2> HIDE DEF invited, buyer
  <2> QED BY <2>1 DEF StampsMap
<1>6. SpinsMap' = [x \in Customers |-> SpinsMap[x]
         + (IF x = buyer /\ IsMilestone(PurchasesMap[buyer] + 1) THEN 1 ELSE 0)
         + (IF invited /\ x = Referrer[buyer] THEN ReferralSpins ELSE 0)]
  <2>1. ASSUME NEW x \in Customers
        PROVE  Spins(x)' = Spins(x)
                 + (IF x = buyer /\ IsMilestone(PurchasesMap[buyer] + 1) THEN 1 ELSE 0)
                 + (IF invited /\ x = Referrer[buyer] THEN ReferralSpins ELSE 0)
    <3>1. Spins(x)' = Spins(x)
            + (IF Booking(s) /\ x = Buyer(s) /\ IsMilestone(Purchased(Buyer(s)) + 1) THEN 1 ELSE 0)
            + (IF qualifies[s] /\ x = Referrer[Buyer(s)] THEN ReferralSpins ELSE 0)
      BY CommitSpins
    <3>2. /\ IsMilestone(PurchasesMap[buyer] + 1) <=> IsMilestone(Purchased(Buyer(s)) + 1)
          /\ invited <=> qualifies[s]
      BY <1>1, <1>2
    <3> HIDE DEF invited
    <3> QED BY <1>1, <3>1, <3>2
  <2> HIDE DEF invited, buyer
  <2> QED BY <2>1 DEF SpinsMap, Spins
<1>7. PaidMap' = IF invited THEN PaidMap \cup {buyer} ELSE PaidMap
  <2>1. \A c \in Customers : qualifiedBy'[c] # None
          <=> qualifiedBy[c] # None \/ (invited /\ c = buyer)
    BY <1>1, <1>2, CommitEffect
  <2> HIDE DEF invited
  <2> QED BY <1>1, <2>1 DEF PaidMap
<1> HIDE DEF invited
<1> QED BY <1>1, <1>3, <1>4, <1>5, <1>6, <1>7 DEF invited

\* Concurrent sessions implement one settlement at a time: the commit is where
\* OrderBook's step happens, and every other step leaves its state alone.
THEOREM SessionsImplementBook == Spec => ImplementsOrderBook
<1>1. Init => Book!Init
  <2> SUFFICES ASSUME Init PROVE Book!Init
    OBVIOUS
  <2>1. \A o \in Orders : Status(o) = InitialStatus[o]
    BY DEF Init, Status, Last
  <2>2. StampSum(<<>>) = 0
    <3>1. PICK f \in [0..Len(<<>>) -> Nat] :
            Running(<<>>, Len(<<>>), f) /\ StampSum(<<>>) = f[Len(<<>>)]
      BY SumRuns, <<>> \in Seq(Row)
    <3> QED BY <3>1, Len(<<>>) = 0 DEF Running
  <2>3. Cardinality(PurchaseRows(<<>>)) = 0
    <3>1. PurchaseRows(<<>>) = {}
      BY DEF PurchaseRows
    <3> QED BY <3>1, FS_EmptySet
  <2>4. \A c \in Customers : Cardinality({g \in grants : g.user = c}) = 0
    BY FS_EmptySet DEF Init
  <2>5. StatusMap = InitialStatus
    BY <2>1, RulesAssumption DEF StatusMap
  <2>6. \A c \in Customers : ledger[c] = <<>> /\ qualifiedBy[c] = None
    BY DEF Init
  <2>7. StampsMap = [c \in Customers |-> 0]
    BY <2>2, <2>6 DEF StampsMap
  <2>8. PurchasesMap = [c \in Customers |-> 0]
    BY <2>3, <2>6 DEF PurchasesMap
  <2>9. SpinsMap = [c \in Customers |-> 0] /\ PaidMap = {}
    BY <2>4, <2>6 DEF SpinsMap, PaidMap
  <2> QED BY <2>5, <2>7, <2>8, <2>9
          DEF Book!Init, StatusMap, StampsMap, PurchasesMap, SpinsMap, PaidMap
<1>2. SInv /\ [Next]_vars => [Book!Next]_(Book!bookVars)
  <2> SUFFICES ASSUME SInv, [Next]_vars
               PROVE  Book!Next \/ UNCHANGED Book!bookVars
    OBVIOUS
  <2>1. ASSUME UNCHANGED <<StatusMap, StampsMap, PurchasesMap, SpinsMap, PaidMap>>
        PROVE  UNCHANGED Book!bookVars
    BY <2>1 DEF Book!bookVars, StatusMap, StampsMap, PurchasesMap, SpinsMap, PaidMap
  <2>2. CASE UNCHANGED vars
    BY <2>1, <2>2, MapKept DEF vars
  <2>3. ASSUME NEW s \in Admins, Acts(s) PROVE Book!Next \/ UNCHANGED Book!bookVars
    <3>1. CASE ~Commit(s)
      BY <2>1, <2>3, <3>1, OnlyCommitBooks, MapKept
    <3>2. CASE Commit(s) /\ ~moved[s]
      BY <2>1, <3>2, CommitOfMove DEF Booking
    <3>3. CASE Commit(s) /\ moved[s]
      <4>1. /\ OrderOf(s) \in Orders /\ tap[s].target \in Statuses
            /\ StatusMap[OrderOf(s)] = Status(OrderOf(s))
            /\ CanTransition(StatusMap[OrderOf(s)], tap[s].target)
        BY <3>3, CommitGrants, Tapped, CommitMoves DEF SInv, StatusMap
      <4>0. PICK o \in Orders : o = OrderOf(s)
        BY <4>1
      <4>2. CASE tap[s].target # "completed"
        <5>1. Book!Move(o, tap[s].target)
          <6>1. /\ StatusMap' = [StatusMap EXCEPT ![OrderOf(s)] = tap[s].target]
                /\ UNCHANGED <<StampsMap, PurchasesMap, SpinsMap, PaidMap>>
            BY <3>3, <4>2, CommitOfMove DEF Booking
          <6> QED BY <4>0, <4>1, <4>2, <6>1
                  DEF Book!Move, Book!CanTransition, CanTransition, AllowedTransitions,
                      Book!AllowedTransitions,
                      StatusMap, StampsMap, PurchasesMap, SpinsMap, PaidMap
        <5> QED BY <4>0, <4>1, <5>1 DEF Book!Next, Book!Statuses, Statuses
      <4>3. CASE tap[s].target = "completed" /\ ~Qualifies(OrderOf(s))
        <5>1. Book!Complete(o)
          <6>1. /\ StatusMap' = [StatusMap EXCEPT ![OrderOf(s)] = tap[s].target]
                /\ UNCHANGED <<StampsMap, PurchasesMap, SpinsMap, PaidMap>>
            BY <3>3, <4>3, CommitOfMove DEF Booking
          <6> QED BY <4>0, <4>1, <4>3, <6>1
                  DEF Book!Complete, Book!Qualifies, Qualifies, Book!CanTransition, CanTransition,
                      AllowedTransitions, Book!AllowedTransitions,
                      StatusMap, StampsMap, PurchasesMap, SpinsMap, PaidMap
        <5> QED BY <4>0, <4>1, <5>1 DEF Book!Next
      <4>4. CASE tap[s].target = "completed" /\ Qualifies(OrderOf(s))
        <5>1. Booking(s)
          BY <3>3, <4>4 DEF Booking
        <5>2. Book!Settle(o)
          BY <3>3, <4>0, <5>1, CommitOfPurchase
             DEF Book!Settle, Book!If, Book!PaysReferral, Book!StampsFor, StampsFor,
                 Book!IsMilestone, IsMilestone, StampsMap, PurchasesMap, SpinsMap, PaidMap
        <5>3. StatusMap' = [StatusMap EXCEPT ![o] = "completed"]
          BY <3>3, <4>0, <5>1, CommitOfPurchase
        <5>4. Book!Complete(o)
          BY <4>0, <4>1, <4>4, <5>2, <5>3
             DEF Book!Complete, Book!Qualifies, Qualifies, Book!CanTransition, CanTransition,
                 AllowedTransitions, Book!AllowedTransitions, StatusMap
        <5> QED BY <4>0, <4>1, <5>4 DEF Book!Next
      <4> QED BY <4>2, <4>3, <4>4
    <3> QED BY <3>1, <3>2, <3>3
  <2> QED BY <2>2, <2>3 DEF Next, Acts, Step
<1> QED BY <1>1, <1>2, SettlementBooks, PTL DEF Spec, ImplementsOrderBook, Book!Spec
=============================================================================
