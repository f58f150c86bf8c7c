------------------------ MODULE AdministrationProofs ------------------------
(***************************************************************************)
(* What administrators do, however many of them there are, and whatever    *)
(* the bounds of the model.                                                *)
(*                                                                         *)
(* KeyedLock: pruning never lets two coroutines into the section of one    *)
(* key.                                                                    *)
(*                                                                         *)
(* AdminWizards, for any number of customers, updates handled at once,     *)
(* screens, retries and restarts: the keyed locks keep apart what they     *)
(* guard, a credit answers one confirmation and is for what that showed,   *)
(* a failed confirmation can be tapped again, nobody receives one          *)
(* broadcast twice, and the summary of a broadcast adds up.                *)
(*                                                                         *)
(* Catalog, for any rows, tasks and customers: nothing refers to a row     *)
(* that is gone, a list is stale only if its query overlapped a change and *)
(* then not for long, a run of the wizard adds one product, and a row is   *)
(* shown or hidden as was told last.                                       *)
(***************************************************************************)
EXTENDS AdminWizards, Catalog, FiniteSetTheorems, WellFoundedInduction, TLAPS

\* The keyed lock.
LockTypeOK ==
  /\ registry \in [Keys -> Locks \cup {None}]
  /\ users \in [Keys -> Nat]
  /\ queue \in [Locks -> Seq(Procs)]
  /\ locked \in [Locks -> BOOLEAN]
  /\ place \in [Procs -> {"out", "waiting", "inside"}]
  /\ key \in [Procs -> Keys \cup {None}]
  /\ lock \in [Procs -> Locks \cup {None}]

UsersOf(k) == {p \in Procs : key[p] = k}

\* Whoever asked for a key has the lock the registry has for it.
HasItsLock(p) ==
  IF place[p] = "out" THEN key[p] = None
  ELSE key[p] \in Keys /\ lock[p] \in Locks /\ registry[key[p]] = lock[p]

\* The inductive invariant: users counts who refers to a key, and a lock that
\* is somebody's section is taken, by them alone.
LockInv ==
  /\ LockTypeOK
  /\ \A p \in Procs : HasItsLock(p)
  /\ \A k \in Keys : users[k] = Cardinality(UsersOf(k))
  /\ \A p \in Procs : place[p] = "inside" => locked[lock[p]]
  /\ \A p, q \in Procs :
       place[p] = "inside" /\ place[q] = "inside" /\ lock[p] = lock[q] => p = q

----------------------------------------------------------------------------
\* A key whose count is zero is nobody's.
LEMMA CountedOut ==
  ASSUME LockInv, NEW k \in Keys, users[k] = 0, NEW p \in Procs
  PROVE  key[p] # k
<1>1. IsFiniteSet(UsersOf(k)) /\ Cardinality(UsersOf(k)) = 0
  <2>1. UsersOf(k) \subseteq Procs
    BY DEF UsersOf
  <2> QED BY <2>1, KeyedLockAssumption, FS_Subset DEF LockInv
<1>2. UsersOf(k) = {}
  BY <1>1, FS_EmptySet
<1> QED BY <1>2 DEF UsersOf

\* Somebody who asks for a key is one more.
LEMMA CountOneMore ==
  ASSUME LockInv, NEW p \in Procs, NEW k \in Keys, key[p] = None,
         key' = [key EXCEPT ![p] = k], users' = [users EXCEPT ![k] = @ + 1]
  PROVE  \A j \in Keys : users'[j] = Cardinality(UsersOf(j)')
<1>1. ASSUME NEW j \in Keys PROVE users'[j] = Cardinality(UsersOf(j)')
  <2>1. IsFiniteSet(UsersOf(j)) /\ users[j] = Cardinality(UsersOf(j)) /\ users[j] \in Nat
    <3>1. UsersOf(j) \subseteq Procs
      BY DEF UsersOf
    <3> QED BY <3>1, KeyedLockAssumption, FS_Subset DEF LockInv, LockTypeOK
  <2>2. p \notin UsersOf(j)
    BY KeyedLockAssumption DEF UsersOf
  <2>3. CASE j = k
    <3>1. UsersOf(j)' = UsersOf(j) \cup {p}
      BY <2>3 DEF UsersOf, LockInv, LockTypeOK
    <3>2. Cardinality(UsersOf(j) \cup {p}) = Cardinality(UsersOf(j)) + 1
      BY <2>1, <2>2, FS_AddElement
    <3>3. users'[j] = users[j] + 1
      BY <2>3 DEF LockInv, LockTypeOK
    <3> QED BY <2>1, <3>1, <3>2, <3>3
  <2>4. CASE j # k
    <3>1. UsersOf(j)' = UsersOf(j)
      BY <2>4, <2>2 DEF UsersOf, LockInv, LockTypeOK
    <3> QED BY <2>1, <2>4, <3>1 DEF LockInv, LockTypeOK
  <2> QED BY <2>3, <2>4
<1> QED BY <1>1

\* Somebody who leaves is one less.
LEMMA CountOneLess ==
  ASSUME LockInv, NEW p \in Procs, key[p] \in Keys,
         key' = [key EXCEPT ![p] = None], users' = [users EXCEPT ![key[p]] = @ - 1]
  PROVE  /\ users' \in [Keys -> Nat]
         /\ \A j \in Keys : users'[j] = Cardinality(UsersOf(j)')
<1>1. ASSUME NEW j \in Keys PROVE users'[j] \in Nat /\ users'[j] = Cardinality(UsersOf(j)')
  <2>1. IsFiniteSet(UsersOf(j)) /\ users[j] = Cardinality(UsersOf(j)) /\ users[j] \in Nat
    <3>1. UsersOf(j) \subseteq Procs
      BY DEF UsersOf
    <3> QED BY <3>1, KeyedLockAssumption, FS_Subset DEF LockInv, LockTypeOK
  <2>2. CASE j = key[p]
    <3>1. UsersOf(j)' = UsersOf(j) \ {p} /\ p \in UsersOf(j)
      BY <2>2, KeyedLockAssumption DEF UsersOf, LockInv, LockTypeOK
    <3>2. Cardinality(UsersOf(j) \ {p}) = Cardinality(UsersOf(j)) - 1
      BY <2>1, <3>1, FS_RemoveElement
    <3>3. Cardinality(UsersOf(j)') \in Nat
      BY <2>1, <3>1, FS_RemoveElement, FS_CardinalityType
    <3> QED BY <2>1, <2>2, <3>1, <3>2, <3>3 DEF LockInv, LockTypeOK
  <2>3. CASE j # key[p]
    <3>1. UsersOf(j)' = UsersOf(j)
      BY <2>3, KeyedLockAssumption DEF UsersOf, LockInv, LockTypeOK
    <3> QED BY <2>1, <2>3, <3>1 DEF LockInv, LockTypeOK
  <2> QED BY <2>2, <2>3
<1> QED BY <1>1 DEF LockInv, LockTypeOK

----------------------------------------------------------------------------
\* Somebody with no lock yet asks for a key that has the lock l, which no key
\* loses that is in use: the invariant is preserved.
LEMMA ApproachKeeps ==
  ASSUME LockInv, NEW p \in Procs, NEW k \in Keys, NEW l \in Locks,
         place[p] = "out", Approach(p, k, l),
         registry' \in [Keys -> Locks \cup {None}], registry'[k] = l,
         \A q \in Procs : key[q] \in Keys => registry'[key[q]] = registry[key[q]]
  PROVE  LockInv'
<1>1. key[p] = None
  BY DEF LockInv, HasItsLock
<1>2. \A j \in Keys : users'[j] = Cardinality(UsersOf(j)')
  BY <1>1, CountOneMore DEF Approach
<1>3. LockTypeOK'
  <2>1. Append(queue[l], p) \in Seq(Procs)
    BY DEF LockInv, LockTypeOK
  <2>2. queue' \in [Locks -> Seq(Procs)]
    BY <2>1 DEF LockInv, LockTypeOK, Approach
  <2>3. users' \in [Keys -> Nat]
    BY DEF LockInv, LockTypeOK, Approach
  <2>4. locked' \in [Locks -> BOOLEAN]
    BY DEF LockInv, LockTypeOK, Approach
  <2> QED BY <2>2, <2>3, <2>4 DEF LockInv, LockTypeOK, Approach
<1>4. ASSUME NEW q \in Procs PROVE HasItsLock(q)'
  <2>1. CASE q = p
    BY <2>1 DEF LockInv, LockTypeOK, Approach, HasItsLock
  <2>2. CASE q # p
    BY <2>2 DEF LockInv, LockTypeOK, Approach, HasItsLock
  <2> QED BY <2>1, <2>2
<1>5. \A q \in Procs : place'[q] = "inside" => locked'[lock'[q]]
  BY DEF LockInv, LockTypeOK, Approach, HasItsLock
<1>6. \A q, r \in Procs :
        place'[q] = "inside" /\ place'[r] = "inside" /\ lock'[q] = lock'[r] => q = r
  BY DEF LockInv, LockTypeOK, Approach, HasItsLock
<1> QED BY <1>2, <1>3, <1>4, <1>5, <1>6 DEF LockInv

\* Whatever is pruned, everybody keeps the lock they were given.
LEMMA PrunedKeeps ==
  ASSUME LockInv, NEW pruned \in Pruned
  PROVE  /\ pruned \in [Keys -> Locks \cup {None}]
         /\ \A q \in Procs : key[q] \in Keys => pruned[key[q]] = registry[key[q]]
<1> DEFINE idle == {k \in Keys : Idle(k)}
<1>1. PICK dropped \in SUBSET idle :
        pruned = registry \/ pruned = [k \in Keys |-> IF k \in dropped THEN None ELSE registry[k]]
  BY DEF Pruned
<1>2. \A k \in dropped : k \in Keys /\ users[k] = 0
  BY DEF Idle
<1>3. \A q \in Procs : key[q] \notin dropped
  BY <1>2, CountedOut
<1> QED BY <1>1, <1>3 DEF LockInv, LockTypeOK

LEMMA AskKeeps ==
  ASSUME LockInv, NEW p \in Procs, NEW k \in Keys, Ask(p, k)
  PROVE  LockInv'
<1>1. CASE AskKnown(p, k)
  BY <1>1, ApproachKeeps DEF AskKnown, LockInv, LockTypeOK
<1>2. ASSUME NEW l \in Locks, AskNew(p, k, l) PROVE LockInv'
  <2>1. PICK pruned \in Pruned : registry' = [pruned EXCEPT ![k] = l]
    BY <1>2 DEF AskNew
  <2>2. /\ pruned \in [Keys -> Locks \cup {None}]
        /\ \A q \in Procs : key[q] \in Keys => pruned[key[q]] = registry[key[q]]
    BY PrunedKeeps
  <2>3. \A q \in Procs : key[q] # k
    BY <1>2, KeyedLockAssumption DEF AskNew, LockInv, LockTypeOK, HasItsLock
  <2>4. registry' \in [Keys -> Locks \cup {None}] /\ registry'[k] = l
    BY <2>1, <2>2
  <2>5. \A q \in Procs : key[q] \in Keys => registry'[key[q]] = registry[key[q]]
    BY <2>1, <2>2, <2>3
  <2> QED BY <1>2, <2>4, <2>5, ApproachKeeps DEF AskNew
<1> QED BY <1>1, <1>2 DEF Ask

LEMMA WakeKeeps ==
  ASSUME LockInv, NEW p \in Procs, Wake(p)
  PROVE  LockInv'
<1>1. lock[p] \in Locks
  BY DEF LockInv, HasItsLock, Wake
<1>2. LockTypeOK'
  <2>1. queue[lock[p]] \in Seq(Procs)
    BY <1>1 DEF LockInv, LockTypeOK
  <2>2. Tail(queue[lock[p]]) \in Seq(Procs)
    BY <2>1 DEF Wake
  <2> QED BY <1>1, <2>2 DEF LockInv, LockTypeOK, Wake
<1>3. \A q \in Procs : HasItsLock(q)'
  BY DEF LockInv, LockTypeOK, Wake, HasItsLock
<1>4. \A j \in Keys : users'[j] = Cardinality(UsersOf(j)')
  BY DEF LockInv, Wake, UsersOf
<1>5. \A q \in Procs : place'[q] = "inside" => locked'[lock'[q]]
  BY <1>1 DEF LockInv, LockTypeOK, Wake, HasItsLock
<1>6. \A q, r \in Procs :
        place'[q] = "inside" /\ place'[r] = "inside" /\ lock'[q] = lock'[r] => q = r
  BY <1>1 DEF LockInv, LockTypeOK, Wake, HasItsLock
<1> QED BY <1>2, <1>3, <1>4, <1>5, <1>6 DEF LockInv

LEMMA QuitKeeps ==
  ASSUME LockInv, NEW p \in Procs, Quit(p)
  PROVE  LockInv'
<1>1. key[p] \in Keys /\ lock[p] \in Locks
  BY DEF LockInv, HasItsLock, Quit
<1>2. users' \in [Keys -> Nat] /\ \A j \in Keys : users'[j] = Cardinality(UsersOf(j)')
  BY <1>1, CountOneLess DEF Quit
<1>3. LockTypeOK'
  BY <1>1, <1>2 DEF LockInv, LockTypeOK, Quit
<1>4. \A q \in Procs : HasItsLock(q)'
  BY DEF LockInv, LockTypeOK, Quit, HasItsLock
<1>5. \A q \in Procs : place'[q] = "inside" => locked'[lock'[q]]
  BY <1>1 DEF LockInv, LockTypeOK, Quit, HasItsLock
<1>6. \A q, r \in Procs :
        place'[q] = "inside" /\ place'[r] = "inside" /\ lock'[q] = lock'[r] => q = r
  BY DEF LockInv, LockTypeOK, Quit
<1> QED BY <1>2, <1>3, <1>4, <1>5, <1>6 DEF LockInv

----------------------------------------------------------------------------
LEMMA InitKeeps == LockInit => LockInv
<1> SUFFICES ASSUME LockInit PROVE LockInv
  OBVIOUS
<1>1. LockTypeOK /\ \A p \in Procs : HasItsLock(p)
  BY DEF LockInit, LockTypeOK, HasItsLock
<1>2. ASSUME NEW k \in Keys PROVE users[k] = Cardinality(UsersOf(k))
  <2>1. UsersOf(k) = {}
    BY KeyedLockAssumption DEF UsersOf, LockInit
  <2> QED BY <2>1, FS_EmptySet DEF LockInit
<1> QED BY <1>1, <1>2 DEF LockInv, LockInit

LEMMA StepKeeps ==
  ASSUME LockInv, [LockNext]_lockVars
  PROVE  LockInv'
<1>1. CASE UNCHANGED lockVars
  BY <1>1 DEF LockInv, LockTypeOK, HasItsLock, UsersOf, lockVars
<1>2. CASE LockNext
  BY <1>2, AskKeeps, WakeKeeps, QuitKeeps DEF LockNext
<1> QED BY <1>1, <1>2

\* One key, one registered lock, one coroutine inside it.
LEMMA LockInvExcludes == LockInv => KeysExclude
BY DEF LockInv, KeysExclude, HasItsLock

\* However many coroutines ask for however many keys, and however often the
\* registry is pruned meanwhile: no two are in the section of one key.
THEOREM KeyedLockExcludes == LockSpec => []KeysExclude
<1>1. LockInv /\ [LockNext]_lockVars => LockInv'
  BY StepKeeps
<1> QED BY <1>1, InitKeeps, LockInvExcludes, PTL DEF LockSpec

----------------------------------------------------------------------------
\* The wizards.
Pcs == {"idle", "cancelling", "target", "amount", "answering", "queueing",
        "crediting", "previewing", "claimed", "sending"}
Kinds == {"stamps", "broadcast"}
Fsm == [state : States, target : Customers \cup {None}, amount : Nat,
        screen : Screens \cup {None}, content : Screens \cup {None}, submitted : BOOLEAN]
Job == [kind : Kinds \cup {None}, target : Customers \cup {None}, amount : Nat,
        screen : Screens \cup {None}, todo : SUBSET Customers, tries : Nat,
        sent : SUBSET Customers, failed : SUBSET Customers]
Credited == [screen : Screens \cup {None}, target : Customers \cup {None}, amount : Nat]

TypeOK ==
  /\ fsm \in Fsm
  /\ shown \subseteq Screen /\ used \subseteq Screens
  /\ pc \in [Procs -> Pcs] /\ job \in [Procs -> Job]
  /\ ledger \in Seq(Credited)
  /\ received \in [Screens -> [Customers -> Nat]]

\* Where a task is, it is in the section it asked for, or in none.
SectionInv(t) ==
  /\ place[t] # "out" => pc[t] \in {"queueing", "crediting", "claimed"}
  /\ pc[t] = "queueing" /\ place[t] # "out" => key[t] = job[t].kind
  /\ pc[t] = "crediting" => place[t] = "inside" /\ key[t] = "stamps"
  /\ pc[t] = "claimed" => place[t] = "inside" /\ key[t] = "broadcast"

\* What a task has read is what a confirmation screen says.
ReadInv(t) ==
  /\ pc[t] \in {"answering", "queueing"} =>
       job[t].kind \in Kinds /\ job[t].screen \in Screens
  /\ pc[t] = "crediting" =>
       [screen |-> job[t].screen, kind |-> "stamps", amount |-> job[t].amount] \in shown

\* A task that is not fanning out has tried nobody.
IdleInv(t) == pc[t] \notin {"claimed", "sending"} => job[t].sent = {} /\ job[t].failed = {}

FanningOut(t) == pc[t] \in {"claimed", "sending"}

\* A fan-out accounts for everyone, and those to come have nothing yet.
FanOutInv(t) ==
  FanningOut(t) =>
    /\ job[t].screen \in used
    /\ job[t].todo \cup job[t].sent \cup job[t].failed = Customers
    /\ job[t].todo \cap (job[t].sent \cup job[t].failed) = {}
    /\ job[t].sent \cap job[t].failed = {}
    /\ \A c \in job[t].todo : received[job[t].screen][c] = 0
    /\ \A c \in job[t].sent : received[job[t].screen][c] >= 1

\* The conversation: its screen is in the chat, its content was never sent.
ScreenInv == fsm.screen # None =>
  [screen |-> fsm.screen, kind |-> "stamps", amount |-> fsm.amount] \in shown
ContentInv == fsm.content # None =>
  /\ fsm.content \in used
  /\ \A c \in Customers : received[fsm.content][c] = 0
  /\ \A t \in Procs : pc[t] = "sending" => job[t].screen # fsm.content

\* What was never used was never received, and a content has one fan-out.
UnusedInv == \A s \in Screens \ used, c \in Customers : received[s][c] = 0
OneFanOut == \A t, u \in Procs :
  FanningOut(t) /\ FanningOut(u) /\ job[t].screen = job[u].screen => t = u

TaskInv(t) == SectionInv(t) /\ ReadInv(t) /\ IdleInv(t) /\ FanOutInv(t)

\* The inductive invariant.
IInv ==
  /\ LockInv /\ TypeOK
  /\ \A t \in Procs : TaskInv(t)
  /\ ScreenInv /\ ContentInv /\ UnusedInv /\ OneFanOut
  /\ CreditedAsConfirmed /\ NeverStuckSubmitted /\ ReceivedOnce

----------------------------------------------------------------------------
\* Whatever the update a task handles makes it do.
Acts(t) ==
  \/ TapCancel(t) \/ Compose(t) \/ Handle(t)
  \/ \E c \in Named : SendTarget(t, c)
  \/ \E n \in Amounts : SendAmount(t, n)
  \/ \E sc \in shown : TapCredit(t, sc) \/ TapSend(t, sc)

LEMMA NextCases ==
  ASSUME Next
  PROVE  Enter("target") \/ Enter("compose") \/ Restart \/ \E t \in Procs : Acts(t)
BY DEF Next, Operator, Acts, StartCredit, StartBroadcast

\* Where Ask leaves the coroutine.
LEMMA AskMoves ==
  ASSUME LockInv, NEW p \in Procs, NEW k \in Keys, Ask(p, k)
  PROVE  /\ place[p] = "out"
         /\ \E at \in {"inside", "waiting"} : place' = [place EXCEPT ![p] = at]
         /\ key' = [key EXCEPT ![p] = k]
BY DEF Ask, AskKnown, AskNew, Approach

\* A recipient still to come is one of the task's.
LEMMA UpcomingToCome ==
  ASSUME NEW t, Sending(t)
  PROVE  Upcoming(t) \in job[t].todo
BY DEF Sending, Upcoming

----------------------------------------------------------------------------
\* What a task does is not done to the others, the chat only gains screens,
\* and only a fan-out's recipient receives.
LEMMA OthersUntouched ==
  ASSUME IInv, NEW t \in Procs, Acts(t), NEW u \in Procs, u # t
  PROVE  pc'[u] = pc[u] /\ job'[u] = job[u] /\ place'[u] = place[u] /\ key'[u] = key[u]
<1> USE DEF Go, Done
<1>1. CASE Queue(t)
  <2>1. job[t].kind \in Keys
    BY <1>1, WizardsAssumption DEF IInv, TaskInv, ReadInv, Kinds, Queue
  <2> QED BY <1>1, <2>1, AskMoves DEF IInv, LockInv, LockTypeOK, Queue
<1>2. CASE TakeLock(t)
  BY <1>2 DEF TakeLock, Wake, IInv, LockInv, LockTypeOK
<1>3. CASE Repeated(t) \/ Stale(t) \/ CommitCredit(t) \/ RefuseCredit(t) \/ FailCredit(t) \/ FailSend(t) \/ ReleaseSend(t)
  BY <1>3 DEF Repeated, Stale, CommitCredit, RefuseCredit, FailCredit, FailSend, ReleaseSend, Quit,
              IInv, LockInv, LockTypeOK, TypeOK
<1>4. CASE TapCancel(t) \/ Compose(t) \/ Cancel(t) \/ ResolveTarget(t) \/ RefuseTarget(t) \/ ShowConfirmation(t) \/ LoseTarget(t) \/ AnswerTap(t) \/ ClaimCredit(t) \/ Preview(t) \/ ClaimSend(t)
  BY <1>4 DEF TapCancel, Compose, Cancel, ResolveTarget, RefuseTarget, ShowConfirmation, LoseTarget,
              AnswerTap, ClaimCredit, Preview, ClaimSend, IInv, TypeOK, lockVars
<1>5. CASE FailProgress(t) \/ Deliver(t) \/ LoseAnswer(t) \/ Reject(t) \/ RateLimited(t) \/ Summarise(t)
  BY <1>5 DEF FailProgress, Deliver, LoseAnswer, Reject, RateLimited, Summarise, Settle, IInv, TypeOK, lockVars
<1>6. CASE (\E c \in Named : SendTarget(t, c)) \/ (\E n \in Amounts : SendAmount(t, n))
  BY <1>6 DEF SendTarget, SendAmount, IInv, TypeOK, lockVars
<1>7. CASE \E sc \in shown : TapCredit(t, sc) \/ TapSend(t, sc)
  BY <1>7 DEF TapCredit, TapSend, Tap, IInv, TypeOK, lockVars
<1> QED BY <1>1, <1>2, <1>3, <1>4, <1>5, <1>6, <1>7 DEF Acts, Handle

LEMMA OnlyMore ==
  ASSUME IInv, NEW t \in Procs, Acts(t)
  PROVE  shown \subseteq shown' /\ used \subseteq used'
<1>1. CASE Handle(t)
  BY <1>1 DEF Handle, Cancel, ResolveTarget, RefuseTarget, ShowConfirmation, LoseTarget, AnswerTap, Queue,
              TakeLock, Repeated, Stale, ClaimCredit, CommitCredit, RefuseCredit, FailCredit, FailSend, Preview,
              ClaimSend, ReleaseSend, FailProgress, Deliver, LoseAnswer, Reject, RateLimited, Summarise, chat
<1>2. CASE ~Handle(t)
  BY <1>2 DEF Acts, TapCancel, Compose, SendTarget, SendAmount, TapCredit, TapSend, chat
<1> QED BY <1>1, <1>2

Received(t) == \E c \in job[t].todo : Receive(t, c)

LEMMA OnlySendingReceives ==
  ASSUME IInv, NEW t \in Procs, Acts(t)
  PROVE  UNCHANGED received \/ (pc[t] = "sending" /\ Received(t))
<1>1. CASE Deliver(t) \/ LoseAnswer(t)
  BY <1>1, UpcomingToCome DEF Deliver, LoseAnswer, Sending, Received
<1>2. CASE Handle(t) /\ ~(Deliver(t) \/ LoseAnswer(t))
  BY <1>2 DEF Handle, Cancel, ResolveTarget, RefuseTarget, ShowConfirmation, LoseTarget, AnswerTap, Queue,
              TakeLock, Repeated, Stale, ClaimCredit, CommitCredit, RefuseCredit, FailCredit, FailSend, Preview,
              ClaimSend, ReleaseSend, FailProgress, Reject, RateLimited, Summarise
<1>3. CASE ~Handle(t)
  BY <1>3 DEF Acts, TapCancel, Compose, SendTarget, SendAmount, TapCredit, TapSend
<1> QED BY <1>1, <1>2, <1>3

----------------------------------------------------------------------------
\* The locks are asked for, entered and left as KeyedLock says.
LEMMA LockStep ==
  ASSUME IInv, NEW t \in Procs, Acts(t)
  PROVE  LockInv'
<1>1. CASE Queue(t)
  <2>1. job[t].kind \in Keys
    BY <1>1, WizardsAssumption DEF IInv, TaskInv, ReadInv, Kinds, Queue
  <2> QED BY <1>1, <2>1, AskKeeps DEF Queue, IInv
<1>2. CASE TakeLock(t)
  BY <1>2, WakeKeeps DEF TakeLock, IInv
<1>3. CASE Repeated(t) \/ Stale(t) \/ CommitCredit(t) \/ RefuseCredit(t) \/ FailCredit(t) \/ FailSend(t) \/ ReleaseSend(t)
  BY <1>3, QuitKeeps DEF Repeated, Stale, CommitCredit, RefuseCredit, FailCredit, FailSend, ReleaseSend, IInv
<1>4. CASE UNCHANGED lockVars
  BY <1>4, StepKeeps DEF IInv
<1> QED BY <1>1, <1>2, <1>3, <1>4 DEF Acts, Handle, TapCancel, Compose, Cancel, ResolveTarget, RefuseTarget, ShowConfirmation,
      LoseTarget, AnswerTap, ClaimCredit, Preview, ClaimSend, FailProgress, Deliver, LoseAnswer, Reject,
      RateLimited, Summarise, SendTarget, SendAmount, TapCredit, TapSend


\* Rows, conversations and tasks stay of their kinds.
LEMMA TypeStep ==
  ASSUME IInv, NEW t \in Procs, Acts(t)
  PROVE  TypeOK'
<1> USE WizardsAssumption DEF Go, Done
<1>1. fsm' \in Fsm
  <2>1. fsm \in Fsm /\ job[t] \in Job
    BY DEF IInv, TypeOK
  <2>2. CASE Compose(t)
    BY <2>1, <2>2 DEF Compose, Fresh, Fsm
  <2>3. CASE ShowConfirmation(t)
    BY <2>1, <2>3 DEF ShowConfirmation, Fresh, Fsm, Job, States
  <2>4. CASE ResolveTarget(t)
    BY <2>1, <2>4 DEF ResolveTarget, Fsm, Job, States
  <2>5. CASE ClaimCredit(t) \/ ClaimSend(t)
    <3>1. fsm' = [fsm EXCEPT !.submitted = TRUE]
      BY <2>5 DEF ClaimCredit, ClaimSend
    <3> QED BY <2>1, <3>1 DEF Fsm
  <2>6. CASE FailCredit(t) \/ FailSend(t)
    BY <2>1, <2>6 DEF FailCredit, FailSend, Fsm
  <2>7. CASE Preview(t)
    BY <2>1, <2>7 DEF Preview, Fsm, States
  <2>8. CASE fsm' = Cleared
    BY <2>8 DEF Cleared, Fsm, States
  <2>9. CASE UNCHANGED fsm
    BY <2>1, <2>9
  <2> QED BY <2>2, <2>3, <2>4, <2>5, <2>6, <2>7, <2>8, <2>9 DEF Acts, Handle, TapCancel, Cancel, RefuseTarget,
        LoseTarget, AnswerTap, Queue, TakeLock, Repeated, Stale, CommitCredit, RefuseCredit, ReleaseSend,
        FailProgress, Deliver, LoseAnswer, Reject, RateLimited, Summarise, SendTarget, SendAmount,
        TapCredit, TapSend, chat
<1>2. shown' \subseteq Screen /\ used' \subseteq Screens
  <2>1. CASE ShowConfirmation(t)
    <3>1. job[t].amount \in Nat
      BY DEF IInv, TypeOK, Job
    <3> QED BY <2>1, <3>1 DEF ShowConfirmation, Fresh, Screen, IInv, TypeOK
  <2>2. CASE Preview(t)
    <3>1. fsm.content \in Screens \cup {None}
      BY DEF IInv, TypeOK, Fsm
    <3> QED BY <2>2, <3>1 DEF Preview, Screen, IInv, TypeOK
  <2>3. CASE Compose(t)
    BY <2>3 DEF Compose, Fresh, IInv, TypeOK
  <2>4. CASE UNCHANGED <<shown, used>>
    BY <2>4 DEF IInv, TypeOK
  <2> QED BY <2>1, <2>2, <2>3, <2>4 DEF Acts, Handle, TapCancel, Cancel, ResolveTarget, RefuseTarget,
        LoseTarget, AnswerTap, Queue, TakeLock, Repeated, Stale, ClaimCredit, CommitCredit, RefuseCredit,
        FailCredit, FailSend, ClaimSend, ReleaseSend, FailProgress, Deliver, LoseAnswer, Reject, RateLimited,
        Summarise, SendTarget, SendAmount, TapCredit, TapSend, chat
<1>3. pc' \in [Procs -> Pcs]
  <2> USE DEF Pcs
  <2>1. CASE Handle(t)
    BY <2>1 DEF Handle, Cancel, ResolveTarget, RefuseTarget, ShowConfirmation, LoseTarget, AnswerTap, Queue,
                TakeLock, Repeated, Stale, ClaimCredit, CommitCredit, RefuseCredit, FailCredit, FailSend, Preview,
                ClaimSend, ReleaseSend, FailProgress, Deliver, LoseAnswer, Reject, RateLimited, Summarise,
                IInv, TypeOK
  <2>2. CASE ~Handle(t)
    BY <2>2 DEF Acts, TapCancel, Compose, SendTarget, SendAmount, TapCredit, TapSend, IInv, TypeOK
  <2> QED BY <2>1, <2>2
<1>4. job' \in [Procs -> Job]
  <2> USE WizardsAssumption DEF NoJob, Job, Kinds
  <2>1. job \in [Procs -> Job] /\ fsm \in Fsm
    BY DEF IInv, TypeOK
  <2>2. CASE Deliver(t) \/ LoseAnswer(t) \/ Reject(t) \/ RateLimited(t)
    <3>1. job' = [job EXCEPT ![t].tries = @ + 1] \/
            \E field \in {"sent", "failed"} : Settle(t, Upcoming(t), field)
      BY <2>2 DEF Deliver, LoseAnswer, Reject, RateLimited
    <3>2. Upcoming(t) \in Customers
      BY <2>1, <2>2, UpcomingToCome DEF Deliver, LoseAnswer, Reject, RateLimited, Sending
    <3> QED BY <2>1, <3>1, <3>2 DEF Settle
  <2>3. CASE ClaimCredit(t)
    <3> DEFINE j == [job[t] EXCEPT !.target = fsm.target, !.amount = fsm.amount]
    <3>1. job' = [job EXCEPT ![t] = j]
      BY <2>1, <2>3 DEF ClaimCredit
    <3>2. fsm.target \in Customers \cup {None} /\ fsm.amount \in Nat /\ job[t] \in Job
      BY <2>1 DEF Fsm
    <3>3. j \in Job
      BY <3>2
    <3> HIDE DEF j, Job
    <3> QED BY <2>1, <3>1, <3>3
  <2>4. CASE ClaimSend(t)
    <3> DEFINE j == [job[t] EXCEPT !.screen = fsm.content, !.todo = Customers]
    <3>1. job' = [job EXCEPT ![t] = j]
      BY <2>1, <2>4 DEF ClaimSend
    <3>2. fsm.content \in Screens \cup {None} /\ job[t] \in Job
      BY <2>1 DEF Fsm
    <3>3. j \in Job
      BY <3>2
    <3> HIDE DEF j, Job
    <3> QED BY <2>1, <3>1, <3>3
  <2>5. CASE \E c \in Named : SendTarget(t, c)
    BY <2>1, <2>5 DEF SendTarget
  <2>6. CASE \E n \in Amounts : SendAmount(t, n)
    BY <2>1, <2>6 DEF SendAmount, Fsm
  <2>7. CASE \E sc \in shown : TapCredit(t, sc) \/ TapSend(t, sc)
    <3>1. PICK sc \in Screen : Tap(t, sc, "confirmation") \/ Tap(t, sc, "preview")
      BY <2>7 DEF TapCredit, TapSend, IInv, TypeOK
    <3> QED BY <2>1, <3>1 DEF Tap, Screen
  <2>8. CASE UNCHANGED job \/ job' = [job EXCEPT ![t] = NoJob]
    BY <2>1, <2>8
  <2> QED BY <2>2, <2>3, <2>4, <2>5, <2>6, <2>7, <2>8 DEF Acts, Handle, Done, TapCancel, Compose, Cancel,
        ResolveTarget, RefuseTarget, ShowConfirmation, LoseTarget, AnswerTap, Queue, TakeLock, Repeated,
        Stale, CommitCredit, RefuseCredit, FailCredit, FailSend, Preview, ReleaseSend, FailProgress, Summarise, chat
<1>5. ledger' \in Seq(Credited)
  <2>1. Credit(t) \in Seq(Credited)
    <3>1. job[t] \in Job /\ ledger \in Seq(Credited)
      BY DEF IInv, TypeOK
    <3>2. StampAdjustment(t) \in Credited
      BY <3>1 DEF Credited, Job, StampAdjustment
    <3> QED BY <3>1, <3>2 DEF Credit
  <2>2. ledger' \in {ledger, Credit(t)}
    BY DEF Acts, Handle, Cancel, ResolveTarget, RefuseTarget, ShowConfirmation, LoseTarget, AnswerTap, Queue,
           TakeLock, Repeated, Stale, ClaimCredit, CommitCredit, RefuseCredit, FailCredit, FailSend, Preview,
           ClaimSend, ReleaseSend, FailProgress, Deliver, LoseAnswer, Reject, RateLimited, Summarise,
           TapCancel, Compose, SendTarget, SendAmount, TapCredit, TapSend
  <2> QED BY <2>1, <2>2 DEF IInv, TypeOK
<1>6. received' \in [Screens -> [Customers -> Nat]]
  <2>1. received \in [Screens -> [Customers -> Nat]] /\ job[t].todo \subseteq Customers
    BY DEF IInv, TypeOK, Job
  <2>2. CASE pc[t] = "sending" /\ Received(t)
    <3>2. job[t].screen \in Screens
      BY <2>2 DEF IInv, TypeOK, TaskInv, FanOutInv, FanningOut
    <3>1. PICK c \in Customers : received' = [received EXCEPT ![job[t].screen][c] = @ + 1]
      BY <2>1, <2>2 DEF Received, Receive
    <3> QED BY <2>1, <3>1, <3>2
  <2> QED BY <2>1, <2>2, OnlySendingReceives
<1> QED BY <1>1, <1>2, <1>3, <1>4, <1>5, <1>6 DEF TypeOK

----------------------------------------------------------------------------
\* Nobody else's fan-out is of the content that somebody receives.
LEMMA OthersKeep ==
  ASSUME IInv, NEW t \in Procs, Acts(t), NEW u \in Procs, u # t
  PROVE  TaskInv(u)'
<1>1. pc'[u] = pc[u] /\ job'[u] = job[u] /\ place'[u] = place[u] /\ key'[u] = key[u]
  BY OthersUntouched
<1>2. TaskInv(u)
  BY DEF IInv
<1>3. SectionInv(u)' /\ ReadInv(u)' /\ IdleInv(u)'
  BY <1>1, <1>2, OnlyMore DEF TaskInv, SectionInv, ReadInv, IdleInv
<1>4. ASSUME FanningOut(u)
      PROVE  \A c \in Customers : received'[job[u].screen][c] = received[job[u].screen][c]
  <2>1. CASE UNCHANGED received
    BY <2>1
  <2>2. CASE pc[t] = "sending" /\ Received(t)
    <3>1. job[t].screen # job[u].screen
      BY <1>4, <2>2 DEF IInv, OneFanOut, FanningOut
    <3> QED BY <2>2, <3>1 DEF Received, Receive, IInv, TypeOK, Job
  <2> QED BY <2>1, <2>2, OnlySendingReceives
<1>5. FanOutInv(u)'
  <2>1. FanningOut(u)' <=> FanningOut(u)
    BY <1>1 DEF FanningOut
  <2> QED BY <1>1, <1>2, <1>4, <2>1, OnlyMore DEF TaskInv, FanOutInv, IInv, TypeOK, Job
<1> QED BY <1>3, <1>5 DEF TaskInv

\* The task itself is in the section it asked for.
LEMMA SectionStep ==
  ASSUME IInv, NEW t \in Procs, Acts(t)
  PROVE  SectionInv(t)'
<1> USE DEF Go, Done, NoJob, SectionInv
<1>1. CASE Queue(t)
  <2>1. job[t].kind \in Keys
    BY <1>1, WizardsAssumption DEF IInv, TaskInv, ReadInv, Kinds, Queue
  <2> QED BY <1>1, <2>1, AskMoves DEF IInv, LockInv, LockTypeOK, Queue
<1>2. CASE TakeLock(t)
  BY <1>2 DEF TakeLock, Wake, IInv, TaskInv, LockInv, LockTypeOK
<1>3. CASE Repeated(t) \/ Stale(t) \/ CommitCredit(t) \/ RefuseCredit(t) \/ FailCredit(t) \/ FailSend(t) \/ ReleaseSend(t)
  BY <1>3 DEF Repeated, Stale, CommitCredit, RefuseCredit, FailCredit, FailSend, ReleaseSend, Quit, IInv, LockInv, LockTypeOK, TypeOK
<1>4. CASE ClaimCredit(t) \/ ClaimSend(t)
  BY <1>4 DEF ClaimCredit, ClaimSend, InSection, IInv, TypeOK, TaskInv, lockVars
<1>5. CASE AnswerTap(t)
  BY <1>5 DEF AnswerTap, IInv, TypeOK, TaskInv, lockVars
<1>7. CASE Cancel(t) \/ ResolveTarget(t) \/ RefuseTarget(t) \/ ShowConfirmation(t) \/ LoseTarget(t)
        \/ Preview(t) \/ FailProgress(t) \/ Deliver(t) \/ LoseAnswer(t) \/ Reject(t) \/ RateLimited(t)
        \/ Summarise(t)
  <2>1. pc[t] \notin {"queueing", "crediting", "claimed"} /\ UNCHANGED lockVars
    BY <1>7 DEF Cancel, ResolveTarget, RefuseTarget, ShowConfirmation, LoseTarget, Preview, FailProgress,
                Deliver, LoseAnswer, Reject, RateLimited, Summarise, Sending
  <2>2. pc'[t] \in {pc[t], "idle"}
    BY <1>7 DEF Cancel, ResolveTarget, RefuseTarget, ShowConfirmation, LoseTarget, Preview, FailProgress,
                Deliver, LoseAnswer, Reject, RateLimited, Summarise, IInv, TypeOK
  <2>3. place[t] = "out"
    BY <2>1 DEF IInv, TaskInv
  <2> QED BY <2>1, <2>2, <2>3 DEF lockVars
<1>6. CASE ~Handle(t)
  <2>1. pc[t] = "idle" /\ pc'[t] \notin {"crediting", "claimed"} /\ UNCHANGED lockVars
    BY <1>6 DEF Acts, TapCancel, Compose, SendTarget, SendAmount, TapCredit, TapSend, Tap, IInv, TypeOK
  <2>2. place[t] = "out"
    BY <2>1 DEF IInv, TaskInv
  <2> QED BY <2>1, <2>2 DEF lockVars
<1> QED BY <1>1, <1>2, <1>3, <1>4, <1>5, <1>6, <1>7 DEF Handle

\* What it has read is on a confirmation screen.
LEMMA ReadStep ==
  ASSUME IInv, NEW t \in Procs, Acts(t)
  PROVE  ReadInv(t)'
<1> USE DEF Go, Done, NoJob, ReadInv
<1>1. CASE ClaimCredit(t)
  <2>1. job[t].screen \in Screens /\ job[t].screen = fsm.screen
    BY <1>1 DEF ClaimCredit, InSection, IInv, TaskInv
  <2>2. [screen |-> fsm.screen, kind |-> "stamps", amount |-> fsm.amount] \in shown
    BY <2>1, WizardsAssumption DEF IInv, ScreenInv
  <2> QED BY <1>1, <2>1, <2>2 DEF ClaimCredit, IInv, TypeOK
<1>2. CASE (\E sc \in shown : TapCredit(t, sc) \/ TapSend(t, sc))
  <2>1. PICK sc \in shown : TapCredit(t, sc) \/ TapSend(t, sc)
    BY <1>2
  <2>2. sc \in Screen
    BY DEF IInv, TypeOK
  <2>3. job[t].sent = {} /\ job[t].failed = {}
    BY <2>1 DEF TapCredit, TapSend, Tap, IInv, TaskInv, IdleInv
  <2> QED BY <2>1, <2>2, <2>3 DEF TapCredit, TapSend, Tap, Screen, Kinds, Job, IInv, TypeOK
<1>3. CASE AnswerTap(t) \/ Queue(t) \/ TakeLock(t)
  BY <1>3 DEF AnswerTap, Queue, TakeLock, chat, IInv, TypeOK, TaskInv
<1>4. CASE Handle(t) /\ ~ClaimCredit(t) /\ ~(AnswerTap(t) \/ Queue(t) \/ TakeLock(t))
  BY <1>4 DEF Handle, Cancel, ResolveTarget, RefuseTarget, ShowConfirmation, LoseTarget,
              Repeated, Stale, CommitCredit, RefuseCredit, FailCredit, FailSend, Preview, ClaimSend, ReleaseSend,
              FailProgress, Deliver, LoseAnswer, Reject, RateLimited, Summarise, Sending, IInv, TypeOK
<1>5. CASE TapCancel(t) \/ Compose(t) \/ (\E c \in Named : SendTarget(t, c)) \/ (\E n \in Amounts : SendAmount(t, n))
  BY <1>5 DEF TapCancel, Compose, SendTarget, SendAmount, chat, IInv, TypeOK
<1> QED BY <1>1, <1>2, <1>3, <1>4, <1>5 DEF Acts


\* Before its fan-out a task has tried nobody.
LEMMA IdleStep ==
  ASSUME IInv, NEW t \in Procs, Acts(t)
  PROVE  IdleInv(t)'
<1> USE DEF Go, Done, NoJob, IdleInv
<1>1. CASE FanningOut(t)'
  BY <1>1 DEF FanningOut
<1>2. CASE ~FanningOut(t)' /\ FanningOut(t)
  <2>1. job'[t] = NoJob
    BY <1>2 DEF FanningOut, Acts, Handle, Cancel, ResolveTarget, RefuseTarget, ShowConfirmation, LoseTarget, AnswerTap,
                Queue, TakeLock, Repeated, Stale, ClaimCredit, CommitCredit, RefuseCredit, FailCredit, FailSend, Preview,
                ClaimSend, ReleaseSend, FailProgress, Deliver, LoseAnswer, Reject, RateLimited, Summarise, InSection,
                Sending, TapCancel, Compose, SendTarget, SendAmount, TapCredit, TapSend, Tap, IInv, TypeOK
  <2> QED BY <2>1
<1>3. CASE ~FanningOut(t)' /\ ~FanningOut(t)
  <2>1. job[t].sent = {} /\ job[t].failed = {} /\ job \in [Procs -> Job]
    BY <1>3 DEF FanningOut, IInv, TaskInv, TypeOK
  <2>2. job'[t].sent = {} /\ job'[t].failed = {}
    <3>1. CASE ClaimCredit(t)
      BY <2>1, <3>1 DEF ClaimCredit, Job
    <3>2. CASE (\E c \in Named : SendTarget(t, c)) \/ (\E n \in Amounts : SendAmount(t, n))
      BY <2>1, <3>2 DEF SendTarget, SendAmount, Job
    <3>3. CASE \E sc \in shown : TapCredit(t, sc) \/ TapSend(t, sc)
      BY <2>1, <3>3 DEF TapCredit, TapSend, Tap, Job
    <3>4. CASE UNCHANGED job \/ job'[t] = NoJob
      BY <2>1, <3>4
    <3>5. CASE Done(t)
      BY <2>1, <3>5
    <3>6. ~(ClaimSend(t) \/ ReleaseSend(t) \/ Deliver(t) \/ LoseAnswer(t) \/ Reject(t) \/ RateLimited(t))
      BY <1>3 DEF FanningOut, ClaimSend, ReleaseSend, InSection, Deliver, LoseAnswer, Reject, RateLimited, Sending,
                  IInv, TypeOK
    <3> QED BY <3>1, <3>2, <3>3, <3>4, <3>5, <3>6 DEF Acts, Handle, Cancel, ResolveTarget, RefuseTarget,
          ShowConfirmation, LoseTarget, AnswerTap, Queue, TakeLock, Repeated, Stale, CommitCredit, RefuseCredit,
          FailCredit, FailSend, Preview, FailProgress, Summarise, TapCancel, Compose, chat
  <2> QED BY <2>2
<1> QED BY <1>1, <1>2, <1>3

\* The recipient tried next leaves those to come and is accounted for.
LEMMA SettleKeeps ==
  ASSUME IInv, NEW t \in Procs, FanOutInv(t), pc[t] = "sending", NEW c \in job[t].todo,
         NEW field \in {"sent", "failed"}, Settle(t, c, field), UNCHANGED <<pc, used>>,
         \/ Receive(t, c)
         \/ UNCHANGED received /\ field = "failed"
  PROVE  FanOutInv(t)'
<1>1. /\ job[t] \in Job /\ job \in [Procs -> Job] /\ job[t].screen \in Screens
      /\ received \in [Screens -> [Customers -> Nat]] /\ c \in Customers
  BY DEF IInv, TypeOK, FanOutInv, FanningOut, Job
<1>2. /\ job'[t].screen = job[t].screen
      /\ job'[t].todo = job[t].todo \ {c}
      /\ job'[t].sent = IF field = "sent" THEN job[t].sent \cup {c} ELSE job[t].sent
      /\ job'[t].failed = IF field = "failed" THEN job[t].failed \cup {c} ELSE job[t].failed
  BY <1>1 DEF Settle, Job
<1>3. \A d \in Customers : received'[job[t].screen][d] =
        IF d = c /\ Receive(t, c) THEN received[job[t].screen][d] + 1 ELSE received[job[t].screen][d]
  BY <1>1 DEF Receive
<1>4. /\ job'[t].todo \cup job'[t].sent \cup job'[t].failed = Customers
      /\ job'[t].todo \cap (job'[t].sent \cup job'[t].failed) = {}
      /\ job'[t].sent \cap job'[t].failed = {}
  BY <1>2 DEF FanOutInv, FanningOut
<1>5. job'[t].todo \subseteq Customers /\ job'[t].sent \subseteq Customers
  BY <1>4
<1>6. \A d \in job'[t].todo : received'[job[t].screen][d] = 0
  BY <1>2, <1>3, <1>5 DEF FanOutInv, FanningOut
<1>7. \A d \in job'[t].sent : received'[job[t].screen][d] >= 1
  <2>1. ASSUME NEW d \in job'[t].sent, d # c PROVE received'[job[t].screen][d] >= 1
    BY <1>2, <1>3, <1>5, <2>1 DEF FanOutInv, FanningOut
  <2>2. ASSUME c \in job'[t].sent PROVE received'[job[t].screen][c] >= 1
    <3>1. field = "sent"
      BY <1>4, <2>2, <1>2
    <3>2. received[job[t].screen][c] \in Nat
      BY <1>1
    <3> QED BY <1>1, <1>3, <3>1, <3>2
  <2> QED BY <2>1, <2>2
<1> QED BY <1>2, <1>4, <1>6, <1>7 DEF FanOutInv, FanningOut

LEMMA FanOutStep ==
  ASSUME IInv, NEW t \in Procs, Acts(t)
  PROVE  FanOutInv(t)'
<1> USE DEF Go, Done, NoJob
<1>0. FanOutInv(t) /\ IdleInv(t) /\ job \in [Procs -> Job] /\ pc \in [Procs -> Pcs]
  BY DEF IInv, TaskInv, TypeOK
<1>1. CASE Deliver(t)
  BY <1>0, <1>1, UpcomingToCome, SettleKeeps DEF Deliver, Sending, chat
<1>2. CASE LoseAnswer(t) \/ Reject(t)
  BY <1>0, <1>2, UpcomingToCome, SettleKeeps DEF LoseAnswer, Reject, Sending, chat
<1>3. CASE RateLimited(t)
  <2>1. CASE Settle(t, Upcoming(t), "failed")
    BY <1>0, <1>3, <2>1, UpcomingToCome, SettleKeeps DEF RateLimited, Sending, chat
  <2>2. CASE job' = [job EXCEPT ![t].tries = @ + 1]
    BY <1>0, <1>3, <2>2 DEF RateLimited, FanOutInv, FanningOut, Job, chat
  <2> QED BY <1>3, <2>1, <2>2 DEF RateLimited
<1>4. CASE ClaimSend(t)
  <2>1. fsm.content # None /\ UNCHANGED <<used, received>>
    BY <1>4 DEF ClaimSend
  <2>2. fsm.content \in used /\ \A c \in Customers : received[fsm.content][c] = 0
    BY <2>1 DEF IInv, ContentInv
  <2>3. job[t].sent = {} /\ job[t].failed = {}
    BY <1>0, <1>4 DEF ClaimSend, InSection, IdleInv
  <2>4. /\ job'[t].screen = fsm.content /\ job'[t].todo = Customers
        /\ job'[t].sent = {} /\ job'[t].failed = {}
    BY <1>0, <1>4, <2>3 DEF ClaimSend, Job
  <2> QED BY <2>1, <2>2, <2>4 DEF FanOutInv
<1>5. CASE ReleaseSend(t)
  BY <1>0, <1>5 DEF ReleaseSend, InSection, FanOutInv, FanningOut
<1>6. CASE ~(Deliver(t) \/ LoseAnswer(t) \/ Reject(t) \/ RateLimited(t) \/ ClaimSend(t) \/ ReleaseSend(t))
  <2>1. pc'[t] \notin {"claimed", "sending"}
    BY <1>0, <1>6 DEF Acts, Handle, Cancel, ResolveTarget, RefuseTarget, ShowConfirmation, LoseTarget, AnswerTap,
          Queue, TakeLock, Repeated, Stale, ClaimCredit, CommitCredit, RefuseCredit, FailCredit, FailSend, Preview,
          FailProgress, Summarise, TapCancel, Compose, SendTarget, SendAmount, TapCredit, TapSend, Tap, chat
  <2> QED BY <2>1 DEF FanOutInv, FanningOut
<1> QED BY <1>1, <1>2, <1>3, <1>4, <1>5, <1>6

LEMMA TasksStep ==
  ASSUME IInv, NEW t \in Procs, Acts(t)
  PROVE  \A u \in Procs : TaskInv(u)'
BY OthersKeep, SectionStep, ReadStep, IdleStep, FanOutStep DEF TaskInv

----------------------------------------------------------------------------
\* What the conversation does: cleared or left alone, one of its fields set,
\* or a new screen put up.
LEMMA ScreenStep ==
  ASSUME IInv, NEW t \in Procs, Acts(t)
  PROVE  ScreenInv'
<1> USE DEF ScreenInv
<1>0. fsm \in Fsm
  BY DEF IInv, TypeOK
<1>1. CASE ShowConfirmation(t)
  BY <1>0, <1>1 DEF ShowConfirmation, Fsm
<1>2. CASE fsm' = Cleared
  BY <1>2 DEF Cleared
<1>3. CASE fsm'.screen = fsm.screen /\ fsm'.amount = fsm.amount
  BY <1>3, OnlyMore DEF IInv
<1> QED BY <1>0, <1>1, <1>2, <1>3 DEF Fsm, Acts, Handle, Cancel, ResolveTarget, RefuseTarget, LoseTarget, AnswerTap,
      Queue, TakeLock, Repeated, Stale, ClaimCredit, CommitCredit, RefuseCredit, FailCredit, FailSend, Preview,
      ClaimSend, ReleaseSend, FailProgress, Deliver, LoseAnswer, Reject, RateLimited, Summarise,
      TapCancel, Compose, SendTarget, SendAmount, TapCredit, TapSend, chat

\* A content whose fan-out begins is taken out of the conversation.
LEMMA ContentStep ==
  ASSUME IInv, NEW t \in Procs, Acts(t)
  PROVE  ContentInv'
<1>0. fsm \in Fsm /\ used \subseteq Screens /\ received \in [Screens -> [Customers -> Nat]]
  BY DEF IInv, TypeOK
<1>1. CASE fsm' = Cleared
  BY <1>1 DEF Cleared, ContentInv
<1>2. CASE Compose(t)
  <2>1. PICK s \in Fresh : fsm' = [fsm EXCEPT !.content = s] /\ used' = used \cup {s}
    BY <1>2 DEF Compose
  <2>2. fsm'.content = s /\ s \in Screens \ used
    BY <1>0, <2>1 DEF Fsm, Fresh
  <2>3. \A u \in Procs : pc'[u] = "sending" => pc[u] = "sending" /\ job'[u] = job[u]
    BY <1>2 DEF Compose, Go, IInv, TypeOK
  <2>4. \A u \in Procs : pc'[u] = "sending" => job'[u].screen # s
    BY <2>2, <2>3 DEF IInv, TaskInv, FanOutInv, FanningOut
  <2>5. \A c \in Customers : received'[s][c] = 0
    BY <1>2, <2>2 DEF Compose, IInv, UnusedInv
  <2> QED BY <2>1, <2>2, <2>4, <2>5 DEF ContentInv
<1>3. CASE fsm'.content = fsm.content /\ fsm' # Cleared
  <2>1. \A u \in Procs : pc'[u] = "sending" => pc[u] = "sending" /\ job'[u].screen = job[u].screen
    <3>1. ASSUME pc'[t] = "sending"
          PROVE  Deliver(t) \/ LoseAnswer(t) \/ Reject(t) \/ RateLimited(t)
      BY <1>3, <3>1 DEF Acts, Handle, Cancel, ResolveTarget, RefuseTarget, ShowConfirmation, LoseTarget, AnswerTap,
           Queue, TakeLock, Repeated, Stale, ClaimCredit, CommitCredit, RefuseCredit, FailCredit, FailSend, Preview, ClaimSend,
           ReleaseSend, FailProgress, Summarise, TapCancel, Compose, SendTarget, SendAmount, TapCredit, TapSend, Tap,
           InSection, Go, Done, IInv, TypeOK
    <3>2. ASSUME Deliver(t) \/ LoseAnswer(t) \/ Reject(t) \/ RateLimited(t)
          PROVE  pc[t] = "sending" /\ job'[t].screen = job[t].screen
      BY <3>2 DEF Deliver, LoseAnswer, Reject, RateLimited, Sending, Settle, Job, IInv, TypeOK
    <3> QED BY <3>1, <3>2, OthersUntouched
  <2>2. ASSUME fsm.content # None, NEW c \in Customers PROVE received'[fsm.content][c] = 0
    <3>1. received[fsm.content][c] = 0 /\ fsm.content \in Screens
      BY <1>0, <2>2 DEF IInv, ContentInv
    <3>2. CASE pc[t] = "sending" /\ Received(t)
      <4>1. job[t].screen # fsm.content
        BY <2>2, <3>2 DEF IInv, ContentInv
      <4> QED BY <1>0, <3>1, <3>2, <4>1 DEF Received, Receive
    <3> QED BY <3>1, <3>2, OnlySendingReceives
  <2> QED BY <1>3, <2>1, <2>2, OnlyMore DEF ContentInv, IInv
<1> QED BY <1>0, <1>1, <1>2, <1>3 DEF Fsm, Acts, Handle, Cancel, ResolveTarget, RefuseTarget, ShowConfirmation,
      LoseTarget, AnswerTap, Queue, TakeLock, Repeated, Stale, ClaimCredit, CommitCredit, RefuseCredit,
      FailCredit, FailSend, Preview, ClaimSend, ReleaseSend, FailProgress, Deliver, LoseAnswer, Reject, RateLimited,
      Summarise, TapCancel, SendTarget, SendAmount, TapCredit, TapSend, chat


LEMMA UnusedStep ==
  ASSUME IInv, NEW t \in Procs, Acts(t)
  PROVE  UnusedInv'
<1> SUFFICES ASSUME NEW s \in Screens \ used', NEW c \in Customers
             PROVE  received'[s][c] = 0
  BY DEF UnusedInv
<1>1. received[s][c] = 0
  BY OnlyMore DEF IInv, UnusedInv
<1>2. CASE pc[t] = "sending" /\ Received(t)
  <2>1. job[t].screen \in used /\ received \in [Screens -> [Customers -> Nat]]
    BY <1>2 DEF IInv, TypeOK, TaskInv, FanOutInv, FanningOut
  <2>2. s # job[t].screen
    BY <2>1, OnlyMore
  <2> QED BY <1>1, <1>2, <2>1, <2>2 DEF Received, Receive
<1> QED BY <1>1, <1>2, OnlySendingReceives

\* A task begins to fan out under the lock of broadcasts, where no other can be.
LEMMA OneFanOutStep ==
  ASSUME IInv, NEW t \in Procs, Acts(t)
  PROVE  OneFanOut'
<1>0. pc \in [Procs -> Pcs] /\ job \in [Procs -> Job]
  BY DEF IInv, TypeOK
<1>1. ASSUME NEW u \in Procs, u # t, FanningOut(u), FanningOut(t)', job'[t].screen = job[u].screen
      PROVE  FALSE
  <2>1. CASE ClaimSend(t)
    <3>1. job'[t].screen = fsm.content /\ fsm.content # None
      BY <1>0, <2>1 DEF ClaimSend, Job
    <3>2. pc[u] # "sending"
      BY <1>1, <3>1 DEF IInv, ContentInv
    <3>3. place[u] = "inside" /\ key[u] = "broadcast"
      BY <1>1, <3>2 DEF FanningOut, IInv, TaskInv, SectionInv
    <3>4. place[t] = "inside" /\ key[t] = "broadcast"
      BY <2>1 DEF ClaimSend, InSection, IInv, TaskInv, SectionInv
    <3>5. KeysExclude
      BY LockInvExcludes DEF IInv
    <3> QED BY <1>1, <3>3, <3>4, <3>5 DEF KeysExclude
  <2>2. CASE FanningOut(t) /\ job'[t].screen = job[t].screen
    BY <1>1, <2>2 DEF IInv, OneFanOut
  <2>3. CASE Deliver(t) \/ LoseAnswer(t) \/ Reject(t) \/ RateLimited(t) \/ ReleaseSend(t)
    <3>1. FanningOut(t) /\ job'[t].screen = job[t].screen
      BY <1>0, <2>3 DEF Deliver, LoseAnswer, Reject, RateLimited, ReleaseSend, InSection, Sending, Settle,
                        FanningOut, Job
    <3> QED BY <2>2, <3>1
  <2>4. CASE ~(Deliver(t) \/ LoseAnswer(t) \/ Reject(t) \/ RateLimited(t) \/ ClaimSend(t) \/ ReleaseSend(t))
    <3>1. pc'[t] \notin {"claimed", "sending"}
      BY <1>0, <2>4 DEF Acts, Handle, Cancel, ResolveTarget, RefuseTarget, ShowConfirmation, LoseTarget, AnswerTap,
            Queue, TakeLock, Repeated, Stale, ClaimCredit, CommitCredit, RefuseCredit, FailCredit, FailSend, Preview, Go, Done,
            FailProgress, Summarise, TapCancel, Compose, SendTarget, SendAmount, TapCredit, TapSend, Tap, chat
    <3> QED BY <1>1, <3>1 DEF FanningOut
  <2> QED BY <2>1, <2>3, <2>4
<1>2. \A u \in Procs : u # t => pc'[u] = pc[u] /\ job'[u] = job[u]
  BY OthersUntouched
<1> QED BY <1>1, <1>2 DEF IInv, OneFanOut, FanningOut

----------------------------------------------------------------------------
\* A row is added for the confirmation whose id it carries, if there is none.
LEMMA CreditStep ==
  ASSUME IInv, NEW t \in Procs, Acts(t)
  PROVE  CreditedAsConfirmed'
<1>0. ledger \in Seq(Credited) /\ CreditedAsConfirmed
  BY DEF IInv, TypeOK
<1>1. CASE UNCHANGED ledger
  BY <1>0, <1>1, OnlyMore DEF CreditedAsConfirmed
<1>2. CASE pc[t] = "crediting" /\ ~Booked(job[t].screen) /\ ledger' = Credit(t)
  <2> DEFINE new == [screen |-> job[t].screen, target |-> job[t].target, amount |-> job[t].amount]
  <2>1. ledger' = Append(ledger, new)
    BY <1>2 DEF Credit, StampAdjustment
  <2>2. new \in Credited
    BY DEF IInv, TypeOK, Credited, Job
  <2>3. /\ DOMAIN ledger' = DOMAIN ledger \cup {Len(ledger) + 1}
        /\ \A i \in DOMAIN ledger : ledger'[i] = ledger[i]
        /\ ledger'[Len(ledger) + 1] = new
    BY <1>0, <2>1, <2>2
  <2>4. [screen |-> new.screen, kind |-> "stamps", amount |-> new.amount] \in shown
    BY <1>2 DEF IInv, TaskInv, ReadInv
  <2>5. \A i \in DOMAIN ledger : ledger[i].screen # new.screen
    BY <1>2 DEF Booked
  <2> HIDE DEF new
  <2>6. \A i, k \in DOMAIN ledger' : ledger'[i].screen = ledger'[k].screen => i = k
    BY <1>0, <2>3, <2>5 DEF CreditedAsConfirmed
  <2>7. \A i \in DOMAIN ledger' :
          [screen |-> ledger'[i].screen, kind |-> "stamps", amount |-> ledger'[i].amount] \in shown'
    BY <1>0, <2>3, <2>4, OnlyMore DEF CreditedAsConfirmed
  <2> QED BY <2>6, <2>7 DEF CreditedAsConfirmed
<1> QED BY <1>1, <1>2 DEF Credit, Acts, Handle, Cancel, ResolveTarget, RefuseTarget, ShowConfirmation, LoseTarget,
      AnswerTap, Queue, TakeLock, Repeated, Stale, ClaimCredit, CommitCredit, RefuseCredit, FailCredit, FailSend, Preview,
      ClaimSend, ReleaseSend, FailProgress, Deliver, LoseAnswer, Reject, RateLimited, Summarise, InSection,
      TapCancel, Compose, SendTarget, SendAmount, TapCredit, TapSend

\* Whoever is no longer at work has taken the flag back.
LEMMA StuckStep ==
  ASSUME IInv, NEW t \in Procs, Acts(t)
  PROVE  NeverStuckSubmitted'
<1>0. fsm \in Fsm /\ pc \in [Procs -> Pcs] /\ NeverStuckSubmitted
  BY DEF IInv, TypeOK
<1> SUFFICES ASSUME fsm'.submitted PROVE \E u \in Procs : pc'[u] \in {"crediting", "claimed"}
  BY DEF NeverStuckSubmitted
<1>1. CASE ClaimCredit(t) \/ ClaimSend(t)
  <2>1. pc'[t] \in {"crediting", "claimed"}
    BY <1>0, <1>1 DEF ClaimCredit, ClaimSend, Go
  <2> QED BY <2>1
<1>2. CASE fsm' = Cleared \/ FailCredit(t) \/ FailSend(t) \/ ShowConfirmation(t)
  <2>1. fsm'.submitted = FALSE
    <3>1. CASE fsm' = Cleared
      BY <3>1 DEF Cleared
    <3>2. CASE FailCredit(t) \/ FailSend(t)
      BY <1>0, <3>2 DEF FailCredit, FailSend, Fsm
    <3>3. CASE ShowConfirmation(t)
      BY <1>0, <3>3 DEF ShowConfirmation, Fsm
    <3> QED BY <1>2, <3>1, <3>2, <3>3
  <2> QED BY <2>1
<1>3. CASE ~(ClaimCredit(t) \/ ClaimSend(t) \/ fsm' = Cleared \/ FailCredit(t) \/ FailSend(t) \/ ShowConfirmation(t))
  <2>1. fsm'.submitted = fsm.submitted
    BY <1>0, <1>3 DEF Fsm, Acts, Handle, Cancel, ResolveTarget, RefuseTarget, LoseTarget, AnswerTap, Queue, TakeLock,
          Repeated, Stale, CommitCredit, RefuseCredit, Preview, ReleaseSend, FailProgress, Deliver, LoseAnswer,
          Reject, RateLimited, Summarise, TapCancel, Compose, SendTarget, SendAmount, TapCredit, TapSend, chat
  <2>2. pc[t] \notin {"crediting", "claimed"}
    BY <1>0, <1>3 DEF Acts, Handle, Cancel, ResolveTarget, RefuseTarget, LoseTarget, AnswerTap, Queue, TakeLock,
          Repeated, Stale, CommitCredit, RefuseCredit, Preview, ReleaseSend, FailProgress, Deliver, LoseAnswer,
          Reject, RateLimited, Summarise, TapCancel, Compose, SendTarget, SendAmount, TapCredit, TapSend, Tap,
          InSection, Sending
  <2>3. PICK u \in Procs : pc[u] \in {"crediting", "claimed"}
    BY <1>0, <2>1 DEF NeverStuckSubmitted
  <2> QED BY <2>2, <2>3, OthersUntouched
<1> QED BY <1>1, <1>2, <1>3

LEMMA ReceivedStep ==
  ASSUME IInv, NEW t \in Procs, Acts(t)
  PROVE  ReceivedOnce'
<1>0. received \in [Screens -> [Customers -> Nat]] /\ ReceivedOnce
  BY DEF IInv, TypeOK
<1>1. CASE UNCHANGED received
  BY <1>0, <1>1 DEF ReceivedOnce
<1>2. CASE pc[t] = "sending" /\ Received(t)
  <2>1. PICK c \in job[t].todo : received' = [received EXCEPT ![job[t].screen][c] = @ + 1]
    BY <1>2 DEF Received, Receive
  <2>2. received[job[t].screen][c] = 0
    BY <1>2 DEF IInv, TaskInv, FanOutInv, FanningOut
  <2> QED BY <1>0, <2>1, <2>2 DEF ReceivedOnce
<1> QED BY <1>1, <1>2, OnlySendingReceives

----------------------------------------------------------------------------
LEMMA ActsKeep ==
  ASSUME IInv, NEW t \in Procs, Acts(t)
  PROVE  IInv'
BY LockStep, TypeStep, TasksStep, ScreenStep, ContentStep, UnusedStep, OneFanOutStep, CreditStep, StuckStep,
   ReceivedStep DEF IInv

\* A conversation that is cleared has nothing on its screen.
LEMMA ClearedKeeps ==
  ASSUME fsm' \in Fsm, fsm'.screen = None, fsm'.content = None, fsm'.submitted = FALSE
  PROVE  ScreenInv' /\ ContentInv' /\ NeverStuckSubmitted'
BY DEF ScreenInv, ContentInv, NeverStuckSubmitted

LEMMA EnterKeeps ==
  ASSUME IInv, NEW state \in {"target", "compose"}, Enter(state)
  PROVE  IInv'
<1>1. LockInv'
  BY StepKeeps DEF IInv, Enter
<1>2. fsm' \in Fsm /\ fsm'.screen = None /\ fsm'.content = None /\ fsm'.submitted = FALSE
  BY DEF Enter, Cleared, Fsm, States
<1>3. ScreenInv' /\ ContentInv' /\ NeverStuckSubmitted'
  BY <1>2, ClearedKeeps
<1>4. TypeOK' /\ UnusedInv' /\ OneFanOut' /\ CreditedAsConfirmed' /\ ReceivedOnce'
  BY <1>2 DEF IInv, Enter, TypeOK, UnusedInv, OneFanOut, CreditedAsConfirmed, ReceivedOnce, FanningOut
<1>5. \A t \in Procs : TaskInv(t)'
  BY DEF IInv, Enter, TaskInv, SectionInv, ReadInv, IdleInv, FanOutInv, FanningOut, lockVars
<1> QED BY <1>1, <1>3, <1>4, <1>5 DEF IInv

\* A process that has just started holds no lock and works on nothing.
LEMMA StartedInv ==
  ASSUME LockInit, pc = [t \in Procs |-> "idle"], job = [t \in Procs |-> NoJob]
  PROVE  /\ LockInv /\ pc \in [Procs -> Pcs] /\ job \in [Procs -> Job]
         /\ \A t \in Procs : TaskInv(t)
         /\ OneFanOut
<1>1. LockInv
  BY InitKeeps
<1>2. NoJob \in Job
  BY DEF NoJob, Job
<1>3. \A t \in Procs : TaskInv(t)
  BY DEF LockInit, TaskInv, SectionInv, ReadInv, IdleInv, FanOutInv, FanningOut, NoJob
<1> QED BY <1>1, <1>2, <1>3 DEF Pcs, OneFanOut, FanningOut

LEMMA RestartKeeps ==
  ASSUME IInv, Restart
  PROVE  IInv'
<1>1. LockInv' /\ (pc \in [Procs -> Pcs])' /\ (job \in [Procs -> Job])' /\ (\A t \in Procs : TaskInv(t))' /\ OneFanOut'
  <2>1. LockInit' /\ (pc = [t \in Procs |-> "idle"])' /\ (job = [t \in Procs |-> NoJob])'
    BY DEF Restart, LockInit
  <2> QED BY <2>1, StartedInv, PTL
<1>2. fsm' \in Fsm /\ fsm'.screen = None /\ fsm'.content = None /\ fsm'.submitted = FALSE
  BY DEF Restart, Cleared, Fsm, States
<1>3. ScreenInv' /\ ContentInv' /\ NeverStuckSubmitted'
  BY <1>2, ClearedKeeps
<1>4. TypeOK' /\ UnusedInv' /\ CreditedAsConfirmed' /\ ReceivedOnce'
  BY <1>1, <1>2 DEF IInv, Restart, TypeOK, UnusedInv, CreditedAsConfirmed, ReceivedOnce
<1> QED BY <1>1, <1>3, <1>4 DEF IInv

LEMMA InitIInv == Init => IInv
<1> SUFFICES ASSUME Init PROVE IInv
  OBVIOUS
<1>1. LockInv /\ pc \in [Procs -> Pcs] /\ job \in [Procs -> Job] /\ (\A t \in Procs : TaskInv(t)) /\ OneFanOut
  BY StartedInv DEF Init
<1>2. fsm \in Fsm /\ fsm.screen = None /\ fsm.content = None /\ fsm.submitted = FALSE
  BY DEF Init, Cleared, Fsm, States
<1>3. ledger = <<>> /\ ledger \in Seq(Credited)
  BY DEF Init
<1>4. TypeOK
  BY <1>1, <1>2, <1>3 DEF Init, TypeOK
<1>5. ScreenInv /\ ContentInv /\ UnusedInv
  BY <1>2 DEF Init, ScreenInv, ContentInv, UnusedInv
<1>6. CreditedAsConfirmed /\ NeverStuckSubmitted /\ ReceivedOnce
  BY <1>2, <1>3 DEF Init, CreditedAsConfirmed, NeverStuckSubmitted, ReceivedOnce
<1> QED BY <1>1, <1>4, <1>5, <1>6 DEF IInv

LEMMA NextKeeps ==
  ASSUME IInv, [Next]_vars
  PROVE  IInv'
<1>1. CASE Next
  BY <1>1, NextCases, ActsKeep, EnterKeeps, RestartKeeps
<1>2. CASE UNCHANGED vars
  <2>1. LockInv'
    BY <1>2, StepKeeps DEF IInv, vars
  <2>2. TypeOK' /\ (\A t \in Procs : TaskInv(t))'
    BY <1>2 DEF IInv, TypeOK, TaskInv, SectionInv, ReadInv, IdleInv, FanOutInv, FanningOut, vars, chat, lockVars
  <2>3. ScreenInv' /\ ContentInv' /\ UnusedInv' /\ OneFanOut'
    BY <1>2 DEF IInv, ScreenInv, ContentInv, UnusedInv, OneFanOut, FanningOut, vars, chat
  <2>4. CreditedAsConfirmed' /\ NeverStuckSubmitted' /\ ReceivedOnce'
    BY <1>2 DEF IInv, CreditedAsConfirmed, NeverStuckSubmitted, ReceivedOnce, vars, chat
  <2> QED BY <2>1, <2>2, <2>3, <2>4 DEF IInv
<1> QED BY <1>1, <1>2

----------------------------------------------------------------------------
\* The inductive invariant holds of every behaviour.
THEOREM WizardsInductive == Spec => []IInv
BY InitIInv, NextKeeps, PTL DEF Spec

\* Whatever is asked for, pruned and restarted, no two tasks are ever in the
\* section of one keyed lock.
THEOREM WizardsExclude == Spec => []KeysExclude
<1>1. IInv => KeysExclude
  BY LockInvExcludes DEF IInv
<1> QED BY <1>1, WizardsInductive, PTL

\* Every manual credit on record answers a confirmation screen of its own and
\* is for the amount that screen showed.
THEOREM CreditsAsConfirmed == Spec => []CreditedAsConfirmed
<1>1. IInv => CreditedAsConfirmed
  BY DEF IInv
<1> QED BY <1>1, WizardsInductive, PTL

\* A confirmation that is marked submitted has a task at work on it.
THEOREM NobodyStuckSubmitted == Spec => []NeverStuckSubmitted
<1>1. IInv => NeverStuckSubmitted
  BY DEF IInv
<1> QED BY <1>1, WizardsInductive, PTL

\* Nobody receives the text of one broadcast twice.
THEOREM BroadcastReceivedOnce == Spec => []ReceivedOnce
<1>1. IInv => ReceivedOnce
  BY DEF IInv
<1> QED BY <1>1, WizardsInductive, PTL

\* The counts a broadcast's summary is made of account for every recipient.
THEOREM SummaryAddsUp == Spec => []CountsAddUp
<1>1. IInv => CountsAddUp
  BY DEF IInv, TaskInv, FanOutInv, FanningOut, CountsAddUp
<1> QED BY <1>1, WizardsInductive, PTL

----------------------------------------------------------------------------
\* The catalogue.

\* Columns an UPDATE or INSERT may give the row of x.
Change(x, columns) ==
  /\ columns = [f \in DOMAIN columns |-> columns[f]] /\ DOMAIN columns \subseteq Columns
  /\ "on" \in DOMAIN columns => DOMAIN columns \in {{"on"}, Columns} /\ columns.on \in BOOLEAN
  /\ "up" \in DOMAIN columns => columns.up \in Ups(x)
  /\ "category" \in DOMAIN columns => columns.category \in Links(x)
  /\ "pos" \in DOMAIN columns => columns.pos \in Int
  /\ "text" \in DOMAIN columns => columns.text \in Nat \cup {Null}
  /\ {"pos", "text"} \subseteq DOMAIN columns => DOMAIN columns = Columns

Sets(put, y, f) == y \in DOMAIN put /\ put[y] # Gone /\ f \in DOMAIN put[y]

\* What a task writes about row x: changes of rows, the deletion of x and with it
\* the brand of its products, and the switch only of x, as its administrator will
\* be told; no category but about a category.
Fits(x, put, wizard, says) ==
  /\ x \in Ids
  /\ put = [y \in DOMAIN put |-> put[y]] /\ DOMAIN put \subseteq Ids
  /\ \A y \in DOMAIN put : put[y] = Gone \/ Change(y, put[y])
  /\ DOMAIN put \cap Categories # {} => x \in Categories
  /\ Deleted(put) # {} => /\ Deleted(put) = {x} /\ says = Null /\ wizard = Null
                          /\ \A y \in DOMAIN put \ {x} : y \in Products /\ x \in Brands /\ put[y] = [up |-> Null]
  /\ \A y \in Ids : Sets(put, y, "on") => y = x /\ says = put[y].on

Wizards == {"add", "edit", "brand"}
Begun == {"ready", "loaded", "flushed", "answered"}

Form(t) ==
  /\ task[t] = [pc |-> task[t].pc, id |-> task[t].id, put |-> task[t].put, wizard |-> task[t].wizard,
                run |-> task[t].run, says |-> task[t].says]
  /\ task[t].pc \in {"idle", "queued"} \cup Begun
  /\ task[t].pc \in Begun => Fits(task[t].id, task[t].put, task[t].wizard, task[t].says)

\* What was flushed waits for nothing and is not refused.
Sound(t) == Wrote(t) => ~Waits(t) /\ ~Refused(t)

\* A run that is added to the catalogue is added by one task, and is over in
\* the conversation once that has flushed.
Adds(t) == task[t].pc \in Begun /\ task[t].wizard = "add"
AddInv(t) ==
  Adds(t) =>
    /\ task[t].pc # "answered" => section["add"] = t
    /\ task[t].run \in 0..runs
    /\ Wrote(t) => task[t].run = 0 \/ dialog.run # task[t].run
    /\ task[t].run \in 1..MaxRuns => made[task[t].run] = 0
    /\ \A u \in Tasks \ {t} : Adds(u) => task[t].run = 0 \/ task[u].run # task[t].run
MadeInv ==
  /\ made \in [1..MaxRuns -> 0..1]
  /\ \A r \in 1..MaxRuns : made[r] = 1 => dialog.run # r /\ r <= runs

Steps == {"text", "details", "category", "brand", "price", "confirm"}
Dialogs ==
  [kind : Conversations \cup {Null}, at : Steps \cup {Null}, run : Nat, id : Ids \cup {Null}, category : Categories \cup {Null},
   brand : Brands \cup {Null}, on : BOOLEAN, text : Nat \cup {Null}, full : BOOLEAN, lost : BOOLEAN, submitted : BOOLEAN]
\* Every step after a category was asked for has one if nothing was lost, and
\* whatever is full.
Placed(data) ==
  data.full \/ (data.kind = "add" /\ data.at \in {"brand", "details", "price"} /\ ~data.lost)
    => data.category # Null
DialogOK(data, n) == data \in Dialogs /\ data.run \in {0, n} /\ Placed(data)
DialogInv == runs \in Nat /\ DialogOK(dialog, runs)

RowInv ==
  /\ row = [x \in Ids |-> row[x]] /\ \A x \in Ids : row[x] = Null \/ row[x] \in RowOf(x)
  /\ cart \subseteq Products /\ ordered \subseteq Products

\* Who told of a switch that still is to be committed has flushed it just so;
\* and nobody has it to commit without having told of it last, or in vain.
TellInv ==
  /\ ShownAsTold
  /\ told = [x \in Ids |-> [on |-> told[x].on, by |-> told[x].by]]
  /\ \A x \in Ids, t \in Tasks : told[x].by = t =>
       task[t].pc = "answered" /\ Sets(task[t].put, x, "on") /\ told[x].on = task[t].put[x].on
  /\ \A x \in Ids, t \in Tasks : task[t].pc = "answered" /\ Sets(task[t].put, x, "on") => told[x].by # Null

\* A list that was read is of visible categories.
ListInv ==
  /\ now \in Nat
  /\ \A c \in Categories : hidden[c] # Null => ~VisibleCategory(c) /\ hidden[c] \in 0..now
  /\ cache # Null =>
       /\ cache = [list |-> cache.list, until |-> cache.until, overlapped |-> cache.overlapped]
       /\ cache.until \in Nat /\ now < cache.until /\ cache.until <= now + TTL
       /\ Listed(cache.list) \subseteq Categories
       /\ \A c \in Listed(cache.list) : hidden[c] # Null => cache.until <= hidden[c] + TTL
  /\ reading # Null =>
       /\ reading = [list |-> reading.list, overlapped |-> reading.overlapped]
       /\ Listed(reading.list) \subseteq Categories
       /\ \A c \in Listed(reading.list) : hidden[c] # Null => hidden[c] = now

\* A list that overlapped no change of a category is the list there is.
StaleInv ==
  /\ StaleOnlyByOverlap
  /\ reading # Null /\ ~reading.overlapped => reading.list = ActiveList
  /\ \A t \in Tasks : Wrote(t) /\ task[t].id \in Categories =>
       (cache # Null => cache.overlapped) /\ (reading # Null => reading.overlapped)

CatalogInv ==
  /\ task = [t \in Tasks |-> task[t]] /\ section = [w \in Wizards |-> section[w]]
  /\ RowInv /\ ParentsExist /\ TellInv /\ DialogInv /\ MadeInv /\ ListInv /\ StaleInv
  /\ \A t \in Tasks : Form(t) /\ Sound(t) /\ AddInv(t)

LEMMA TablesApart ==
  /\ Categories \subseteq Ids /\ Brands \subseteq Ids /\ Products \subseteq Ids
  /\ \A c \in Categories : c \notin Brands /\ c \notin Products
  /\ \A b \in Brands : b \notin Products
  /\ Null \notin Ids
BY CatalogAssumption DEF Ids

\* A row there is is one of its table.
LEMMA LiveRow ==
  ASSUME CatalogInv, NEW x \in Ids, row[x] # Null
  PROVE  row[x] \in RowOf(x)
BY DEF CatalogInv, RowInv

LEMMA ChangeIsNotGone ==
  ASSUME NEW x \in Ids, NEW columns, Change(x, columns)
  PROVE  columns # Gone
<1>1. CASE "on" \in DOMAIN columns /\ DOMAIN columns = {"on"}
  <2>1. columns \in [on : BOOLEAN]
    BY <1>1 DEF Change
  <2> QED BY <2>1, CatalogAssumption
<1>2. CASE DOMAIN columns = Columns
  <2>1. columns \in RowOf(x)
    BY <1>2 DEF Change, RowOf, Columns
  <2> QED BY <2>1, CatalogAssumption
<1>3. CASE "on" \notin DOMAIN columns
  <2>1. DOMAIN columns \in SUBSET (Columns \ {"on"})
    BY <1>3 DEF Change
  <2>2. Ups(x) \subseteq Int \cup {Null} /\ Links(x) \subseteq Int \cup {Null}
    BY CatalogAssumption DEF Ups, Links, Ids
  <2>3. \A f \in DOMAIN columns : columns[f] \in Int \cup {Null}
    BY <1>3, <2>1, <2>2 DEF Change, Columns
  <2>4. columns \in [DOMAIN columns -> Int \cup {Null}]
    BY <2>3 DEF Change
  <2> QED BY <2>1, <2>4, CatalogAssumption
<1> QED BY <1>1, <1>2, <1>3 DEF Change

\* What a row is once columns of it were written.
After(x, columns, f) == IF f \in DOMAIN columns THEN columns[f] ELSE row[x][f]

LEMMA WrittenRow ==
  ASSUME NEW x \in Ids, NEW columns, Change(x, columns),
         row[x] \in RowOf(x) \/ (row[x] = Null /\ DOMAIN columns = Columns)
  PROVE  /\ Written(x, columns) \in RowOf(x) /\ Written(x, columns) # Null
         /\ \A f \in Columns : Written(x, columns)[f] = After(x, columns, f)
         /\ Written(x, columns).on = After(x, columns, "on")
         /\ Written(x, columns).up = After(x, columns, "up")
         /\ Written(x, columns).category = After(x, columns, "category")
<1>0. columns # Gone /\ Null \notin RowOf(x)
  BY ChangeIsNotGone, CatalogAssumption
<1>1. CASE row[x] = Null
  <2>1. columns \in RowOf(x)
    BY <1>0, <1>1 DEF Change, RowOf, Columns
  <2>2. Written(x, columns) = columns
    BY <1>0, <1>1 DEF Written
  <2> QED BY <1>0, <1>1, <2>1, <2>2 DEF After, Columns, RowOf
<1>2. CASE row[x] \in RowOf(x)
  <2>1. Written(x, columns) = With(row[x], columns)
    BY <1>0, <1>2 DEF Written
  <2>2. DOMAIN row[x] = Columns /\ DOMAIN columns \subseteq Columns
    BY <1>2 DEF RowOf, Columns, Change
  <2>3. Written(x, columns) = [f \in Columns |-> After(x, columns, f)]
    BY <2>1, <2>2 DEF With, After
  <2>4. /\ After(x, columns, "up") \in Ups(x) /\ After(x, columns, "category") \in Links(x)
        /\ After(x, columns, "on") \in BOOLEAN /\ After(x, columns, "pos") \in Int
        /\ After(x, columns, "text") \in Nat \cup {Null}
    BY <1>2 DEF After, Change, RowOf
  <2>5. Written(x, columns) \in RowOf(x)
    BY <2>3, <2>4 DEF RowOf, Columns
  <2> QED BY <1>0, <2>3, <2>5 DEF Columns
<1> QED BY <1>1, <1>2

\* What the handlers decide to write fits.
LEMMA ChangesFit ==
  ASSUME NEW x \in Ids, NEW put, NEW wizard, NEW says,
         put = [y \in DOMAIN put |-> put[y]], DOMAIN put \subseteq Ids,
         \A y \in DOMAIN put : Change(y, put[y]) /\ "on" \notin DOMAIN put[y],
         DOMAIN put \cap Categories # {} => x \in Categories
  PROVE  Fits(x, put, wizard, says)
<1>1. Deleted(put) = {}
  BY ChangeIsNotGone DEF Deleted
<1> QED BY <1>1 DEF Fits, Sets

LEMMA NothingFits ==
  ASSUME NEW x \in Ids, NEW wizard, NEW says
  PROVE  Fits(x, Nothing, wizard, says)
<1>1. DOMAIN Nothing = {} /\ Nothing = [y \in DOMAIN Nothing |-> Nothing[y]]
  BY DEF Nothing
<1> QED BY <1>1, ChangesFit

LEMMA UpdateFits ==
  ASSUME NEW x \in Ids, NEW columns, Change(x, columns), "on" \notin DOMAIN columns, NEW wizard
  PROVE  Fits(x, Update(x, columns), wizard, Null)
<1> DEFINE changed == {f \in DOMAIN columns : columns[f] # row[x][f]}
           some == [f \in changed |-> columns[f]]
<1>1. CASE changed = {}
  BY <1>1, NothingFits DEF Update
<1>2. CASE changed # {}
  <2>1. Update(x, columns) = Put(x, some)
    BY <1>2 DEF Update
  <2>2. Change(x, some) /\ "on" \notin DOMAIN some
    <3>1. DOMAIN some \subseteq DOMAIN columns /\ "on" \in Columns
      BY DEF Columns
    <3> QED BY <3>1 DEF Change
  <2>3. Put(x, some) = [y \in DOMAIN Put(x, some) |-> Put(x, some)[y]]
        /\ DOMAIN Put(x, some) = {x} /\ Put(x, some)[x] = some
    BY DEF Put
  <2> HIDE DEF some
  <2> QED BY <2>1, <2>2, <2>3, ChangesFit
<1> QED BY <1>1, <1>2

LEMMA SwitchFits ==
  ASSUME NEW x \in Ids, NEW on \in BOOLEAN
  PROVE  Fits(x, Update(x, [on |-> on]), Null, on)
<1> DEFINE columns == [on |-> on]
<1>1. CASE row[x].on = on
  <2>1. {f \in DOMAIN columns : columns[f] # row[x][f]} = {}
    BY <1>1
  <2>2. Update(x, columns) = Nothing
    BY <2>1 DEF Update
  <2> QED BY <2>2, NothingFits
<1>2. CASE row[x].on # on
  <2>1. {f \in DOMAIN columns : columns[f] # row[x][f]} = {"on"}
    BY <1>2
  <2>2. Update(x, columns) = Put(x, columns)
    BY <2>1 DEF Update
  <2>3. Put(x, columns) = [y \in {x} |-> columns]
    BY DEF Put
  <2>4. Change(x, columns)
    BY DEF Change, Columns
  <2>5. columns # Gone
    BY <2>4, ChangeIsNotGone
  <2>6. Deleted(Put(x, columns)) = {}
    BY <2>3, <2>5 DEF Deleted
  <2> QED BY <2>2, <2>3, <2>4, <2>5, <2>6 DEF Fits, Sets
<1> QED BY <1>1, <1>2

LEMMA DeletionFits ==
  ASSUME NEW x \in Ids
  PROVE  Fits(x, Put(x, Gone), Null, Null)
BY DEF Fits, Put, Deleted, Sets

LEMMA InsertFits ==
  ASSUME NEW x \in Ids, NEW r \in RowOf(x), r.on = TRUE, NEW wizard
  PROVE  Fits(x, Put(x, r), wizard, TRUE)
<1>1. Put(x, r) = [y \in {x} |-> r]
  BY DEF Put
<1>2. DOMAIN r = Columns /\ r = [f \in Columns |-> r[f]]
  BY DEF RowOf, Columns
<1>3. Change(x, r) /\ r # Gone
  BY <1>2, CatalogAssumption DEF Change, RowOf, Columns
<1>4. Deleted(Put(x, r)) = {}
  BY <1>1, <1>3 DEF Deleted
<1> QED BY <1>1, <1>2, <1>3, <1>4 DEF Fits, Sets, Columns

LEMMA RankIsNat ==
  ASSUME NEW x, NEW S \in SUBSET Ids
  PROVE  Rank(x, S) \in Nat /\ Cardinality(S) \in Nat
<1>1. IsFiniteSet(S) /\ IsFiniteSet({y \in S : Before(y, x)})
  BY CatalogAssumption, FS_Subset
<1> QED BY <1>1, FS_CardinalityType DEF Rank

LEMMA MoveFits ==
  ASSUME NEW x \in Categories \cup Brands, NEW step \in {-1, 1}, NEW t, Move(t, x, step)
  PROVE  \E put : Fits(x, put, Null, Null) /\ Plain(t, x, put, Null)
<1> DEFINE S == Siblings(x)
           from == Rank(x, S)
           to == from + step
           slot(y) == IF y = x THEN to ELSE IF Rank(y, S) = to THEN from ELSE Rank(y, S)
           moved == {y \in S : slot(y) # row[y].pos}
           put == [y \in moved |-> [pos |-> slot(y)]]
<1>0. x \in Ids
  BY DEF Ids
<1>1. S \subseteq Ids /\ (x \notin Categories => S \cap Categories = {})
  BY CatalogAssumption DEF Siblings, Live, Ids
<1>2. \A y \in S : slot(y) \in Int
  BY <1>1, RankIsNat
<1>3. \A y \in moved : Change(y, [pos |-> slot(y)])
  BY <1>2 DEF Change, Columns
<1>4. Fits(x, put, Null, Null)
  <2> HIDE DEF slot
  <2>1. DOMAIN put = moved /\ \A y \in moved : put[y] = [pos |-> slot(y)]
    OBVIOUS
  <2>2. \A y \in moved : Change(y, put[y]) /\ "on" \notin DOMAIN put[y]
    BY <1>3, <2>1
  <2>3. put = [y \in DOMAIN put |-> put[y]] /\ DOMAIN put \subseteq Ids
    BY <1>1, <2>1
  <2> HIDE DEF put
  <2> QED BY <1>0, <1>1, <2>1, <2>2, <2>3, ChangesFit
<1>5. Plain(t, x, put, Null) \/ Plain(t, x, Nothing, Null)
  BY DEF Move
<1> HIDE DEF put
<1> QED BY <1>0, <1>4, <1>5, NothingFits

\* A finite set of numbers has a greatest one, so a new row has a place.
LEMMA Greatest ==
  ASSUME NEW S \in SUBSET Int, IsFiniteSet(S), S # {}
  PROVE  \E n \in S : \A m \in S : m <= n
<1> DEFINE above(n) == {m \in S : m > n}
           sizes == {Cardinality(above(n)) : n \in S}
<1>1. \A n \in S : IsFiniteSet(above(n)) /\ Cardinality(above(n)) \in Nat
  BY FS_Subset, FS_CardinalityType
<1>2. sizes \subseteq Nat /\ sizes # {}
  BY <1>1
<1>3. PICK k \in sizes : \A j \in sizes : <<j, k>> \notin OpToRel(<, Nat)
  BY <1>2, NatLessThanWellFounded, WFMin, Zenon
<1>4. PICK n \in S : k = Cardinality(above(n))
  BY <1>3
<1>5. ASSUME NEW m \in S, m > n PROVE FALSE
  <2>1. above(m) \subseteq above(n) /\ above(m) # above(n)
    <3>1. m \in Int /\ n \in Int /\ \A i \in S : i \in Int
      OBVIOUS
    <3>2. \A i \in S : i > m => i > n
      BY <1>5, <3>1
    <3>3. m \in above(n) /\ m \notin above(m)
      BY <1>5, <3>1
    <3> QED BY <3>2, <3>3
  <2>2. Cardinality(above(m)) < Cardinality(above(n))
    <3> HIDE DEF above
    <3>1. above(m) \in SUBSET above(n)
      BY <2>1
    <3>2. Cardinality(above(m)) <= Cardinality(above(n)) /\ Cardinality(above(m)) # Cardinality(above(n))
      BY <1>1, <2>1, <3>1, FS_Subset
    <3> QED BY <1>1, <3>2
  <2> QED BY <1>1, <1>2, <1>3, <1>4, <2>2 DEF OpToRel
<1>6. \A m \in S : m <= n
  BY <1>5
<1> QED BY <1>6

LEMMA NextPosIsInt ==
  ASSUME NEW S \in SUBSET Ids, \A x \in S : row[x].pos \in Int
  PROVE  NextPos(S) \in Int
<1> DEFINE top == {row[x].pos : x \in S}
<1>1. IsFiniteSet(top)
  <2>1. IsFiniteSet(S)
    BY CatalogAssumption, FS_Subset
  <2>2. [x \in S |-> row[x].pos] \in Surjection(S, top)
    BY DEF Surjection
  <2> QED BY <2>1, <2>2, FS_Surjection
<1>2. CASE S = {}
  BY <1>2 DEF NextPos
<1>3. CASE S # {}
  <2>1. top \subseteq Int /\ top # {}
    BY <1>3
  <2>2. \E n \in top : \A m \in top : m <= n
    BY <1>1, <2>1, Greatest
  <2> DEFINE greatest == CHOOSE n \in top : \A m \in top : m <= n
  <2>3. greatest \in top
    BY <2>2
  <2>4. NextPos(S) = 1 + greatest
    BY <1>3 DEF NextPos
  <2>5. greatest \in Int
    BY <2>1, <2>3
  <2> HIDE DEF greatest
  <2> QED BY <2>4, <2>5
<1> QED BY <1>2, <1>3

----------------------------------------------------------------------------
\* The conversation of an administrator.

DialogMoves ==
  /\ runs' \in Nat /\ runs <= runs' /\ DialogOK(dialog', runs')
  /\ dialog'.run \in {0, dialog.run, runs + 1}

\* What leaves the rows, carts, orders, lists and their history alone.
Quiet == UNCHANGED <<row, cart, ordered, cache, reading, now, hidden, made>>
Talks == Quiet /\ UNCHANGED <<task, section, told>>

LEMMA DialogFacts ==
  ASSUME CatalogInv
  PROVE  /\ runs \in Nat /\ dialog \in Dialogs /\ dialog.run \in {0, runs} /\ dialog.run \in 0..runs
         /\ \A x \in Ids : x \in Nat /\ x # Null
         /\ NoFsm \in Dialogs /\ NoFsm.run = 0 /\ NoFsm.kind = Null /\ DialogOK(NoFsm, runs)
         /\ Null \notin Conversations
<1>1. NoFsm \in Dialogs /\ NoFsm.run = 0 /\ NoFsm.kind = Null
  BY DEF NoFsm, Dialogs
<1>2. Null \notin Conversations /\ \A x \in Ids : x \in Nat /\ x # Null
  BY CatalogAssumption
<1>3. runs \in Nat /\ dialog \in Dialogs /\ dialog.run \in {0, runs}
  BY DEF CatalogInv, DialogInv, DialogOK
<1>4. dialog.run \in 0..runs
  BY <1>3 DEF Dialogs
<1>5. DialogOK(NoFsm, runs)
  <2>1. Placed(NoFsm)
    BY <1>1, <1>2 DEF Placed, NoFsm, Conversations
  <2> QED BY <1>1, <1>2, <1>3, <2>1 DEF DialogOK, Conversations
<1> QED BY <1>1, <1>2, <1>3, <1>4, <1>5

LEMMA BeginFacts ==
  ASSUME CatalogInv, NEW kind \in Conversations
  PROVE  /\ Begin(kind) \in Dialogs /\ Begin(kind).run = runs + 1 /\ Begin(kind).kind = kind
         /\ Begin(kind).at = "text" /\ Begin(kind).full = FALSE
<1>1. runs + 1 \in Nat
  BY DialogFacts
<1> QED BY <1>1 DEF Begin, NoFsm, Dialogs, Conversations, Steps

\* A run begins.
LEMMA StartsTalk ==
  ASSUME CatalogInv
  PROVE  /\ StartAddProduct \/ StartCreateCategory => Talks /\ DialogMoves
         /\ \A c \in Categories : StartCreateSubcategory(c) \/ StartEditCategoryName(c)
              => Talks /\ DialogMoves
         /\ \A b \in Brands : StartRenameBrand(b) => Talks /\ DialogMoves
         /\ \A p \in Products : StartEditProduct(p) \/ StartEditPrice(p) \/ StartEditDescription(p)
              => Talks /\ DialogMoves
<1> USE DialogFacts DEF Conversations, Steps
<1>1. NewRun => Talks /\ runs' = runs + 1
  BY DEF NewRun, Keeps, Talks, Quiet, db, customers, history
<1>2. ASSUME StartAddProduct \/ StartCreateCategory PROVE Talks /\ DialogMoves
  <2>1. PICK kind \in {"add", "category"} : dialog' = Begin(kind) /\ NewRun
    BY <1>2 DEF StartAddProduct, StartCreateCategory
  <2>2. /\ dialog' \in Dialogs /\ dialog'.run = runs + 1 /\ dialog'.kind = kind
        /\ dialog'.at = "text" /\ dialog'.full = FALSE
    BY <2>1, BeginFacts
  <2>3. DialogOK(dialog', runs + 1)
    BY <2>2 DEF DialogOK, Placed
  <2> QED BY <1>1, <2>1, <2>2, <2>3 DEF DialogMoves
<1>3. ASSUME NEW c \in Categories, StartCreateSubcategory(c) PROVE Talks /\ DialogMoves
  <2> DEFINE data == Begin("brand")
  <2>0. data \in Dialogs /\ data.run = runs + 1 /\ data.kind = "brand" /\ data.full = FALSE
    BY BeginFacts
  <2>1. dialog' = [data EXCEPT !.category = c] /\ NewRun
    BY <1>3 DEF StartCreateSubcategory
  <2> HIDE DEF data
  <2>2. dialog' \in Dialogs /\ dialog'.run = runs + 1 /\ dialog'.kind = "brand" /\ dialog'.full = FALSE
    BY <2>0, <2>1 DEF Dialogs
  <2> QED BY <1>1, <2>1, <2>2 DEF DialogMoves, DialogOK, Placed
<1>4. ASSUME NEW c \in Categories, StartEditCategoryName(c) PROVE Talks /\ DialogMoves
  <2> DEFINE data == Begin("categoryName")
  <2>0. data \in Dialogs /\ data.run = runs + 1 /\ data.kind = "categoryName" /\ data.full = FALSE
    BY BeginFacts
  <2>1. dialog' = [data EXCEPT !.id = c, !.category = c] /\ NewRun
    BY <1>4 DEF StartEditCategoryName
  <2> HIDE DEF data
  <2>2. dialog' \in Dialogs /\ dialog'.run = runs + 1 /\ dialog'.id \in Ids
        /\ dialog'.kind # "add" /\ dialog'.full = FALSE
    BY <2>0, <2>1 DEF Dialogs, Ids
  <2> QED BY <1>1, <2>1, <2>2 DEF DialogMoves, DialogOK, Placed
<1>5. ASSUME NEW b \in Brands, StartRenameBrand(b) PROVE Talks /\ DialogMoves
  <2> DEFINE data == Begin("brandName")
  <2>0. data \in Dialogs /\ data.run = runs + 1 /\ data.kind = "brandName" /\ data.full = FALSE
    BY BeginFacts
  <2>1. dialog' = [data EXCEPT !.id = b] /\ NewRun
    BY <1>5 DEF StartRenameBrand
  <2> HIDE DEF data
  <2>2. dialog' \in Dialogs /\ dialog'.run = runs + 1 /\ dialog'.id \in Ids
        /\ dialog'.kind # "add" /\ dialog'.full = FALSE
    BY <2>0, <2>1 DEF Dialogs, Ids
  <2> QED BY <1>1, <2>1, <2>2 DEF DialogMoves, DialogOK, Placed
<1>6. ASSUME NEW p \in Products, StartEditProduct(p) PROVE Talks /\ DialogMoves
  <2>1. dialog' = ProductSnapshot(p) /\ NewRun /\ row[p] # Null
    BY <1>6 DEF StartEditProduct, Live
  <2>2. row[p] \in RowOf(p) /\ p \in Ids /\ p \notin Categories \cup Brands
    <3>1. p \in Ids /\ p \notin Categories \cup Brands
      BY CatalogAssumption DEF Ids
    <3> QED BY <2>1, <3>1 DEF CatalogInv, RowInv
  <2>3. /\ row[p].category \in Categories /\ row[p].up \in Brands \cup {Null}
        /\ row[p].on \in BOOLEAN /\ row[p].text \in Nat \cup {Null}
    BY <2>2 DEF RowOf, Ups, Links
  <2> DEFINE data == Begin("edit")
  <2>4. data \in Dialogs /\ data.run = runs + 1 /\ data.kind = "edit"
    BY BeginFacts
  <2>5. dialog' = [data EXCEPT !.id = p, !.category = row[p].category, !.brand = row[p].up,
                               !.on = row[p].on, !.text = row[p].text, !.full = TRUE]
    BY <2>1 DEF ProductSnapshot
  <2> HIDE DEF data
  <2>6. dialog' \in Dialogs /\ dialog'.run = runs + 1 /\ dialog'.kind = "edit" /\ dialog'.category # Null
    BY <2>2, <2>3, <2>4, <2>5, TablesApart DEF Dialogs
  <2> QED BY <1>1, <2>1, <2>6 DEF DialogMoves, DialogOK, Placed
<1>7. ASSUME NEW kind \in {"price", "description"}, NEW p \in Products, AskOver(kind, p)
      PROVE  Talks /\ DialogMoves
  <2>1. Talks /\ runs' \in Nat /\ runs <= runs' /\ (runs' = runs \/ runs' = runs + 1)
        /\ (runs' = runs => dialog.run # 0)
    BY <1>7 DEF AskOver, Keeps, Talks, Quiet, db, customers, history
  <2>2. dialog' = [dialog EXCEPT !.kind = kind, !.at = "text", !.run = runs', !.id = p]
    BY <1>7 DEF AskOver
  <2>3. dialog' \in Dialogs /\ dialog'.run = runs' /\ dialog'.id \in Ids
        /\ dialog'.kind # "add" /\ dialog'.full = dialog.full /\ dialog'.category = dialog.category
    BY <2>1, <2>2 DEF Dialogs, Ids
  <2>4. Placed(dialog')
    BY <2>3 DEF CatalogInv, DialogInv, DialogOK, Placed
  <2> QED BY <2>1, <2>3, <2>4 DEF DialogMoves, DialogOK
<1> QED BY <1>2, <1>3, <1>4, <1>5, <1>6, <1>7 DEF StartEditPrice, StartEditDescription

\* Data of the run there is.
Keeping(data) ==
  /\ data \in Dialogs /\ Placed(data)
  /\ data.run = dialog.run /\ data.kind = dialog.kind /\ data.lost = dialog.lost

LEMMA KeepingOK ==
  ASSUME CatalogInv, NEW data, Keeping(data) \/ data = NoFsm
  PROVE  DialogOK(data, runs) /\ data.run \in {0, dialog.run}
BY DialogFacts DEF Keeping, DialogOK, CatalogInv, DialogInv

LEMMA KeepingFacts ==
  ASSUME CatalogInv
  PROVE  /\ Keeping(dialog) /\ Keeping(Typed)
         /\ \A data : Keeping(data) => \A at \in Steps :
              at \in {"category", "confirm"} \/ data.kind # "add" \/ data.lost \/ data.category # Null => Keeping([data EXCEPT !.at = at])
         /\ \A c \in Categories : Keeping([dialog EXCEPT !.category = c])
         /\ dialog.kind # "add" \/ dialog.at = "brand" =>
              \A b \in Brands : Keeping([dialog EXCEPT !.at = "details", !.brand = b])
         /\ \A data : Keeping(data) /\ data.category # Null => Keeping([data EXCEPT !.brand = Null, !.at = "details"])
         /\ dialog.kind = "add" /\ dialog.at = "price" => Keeping([Typed EXCEPT !.full = ~dialog.lost])
         /\ \A mark \in BOOLEAN : Keeping([dialog EXCEPT !.submitted = mark])
<1>1. dialog \in Dialogs /\ dialog.run \in Nat /\ Placed(dialog)
  BY DialogFacts DEF Dialogs, CatalogInv, DialogInv, DialogOK
<1>2. Keeping(dialog)
  BY <1>1 DEF Keeping
<1>3. Keeping(Typed)
  BY <1>1 DEF Keeping, Typed, Dialogs, Placed
<1>4. ASSUME NEW data, Keeping(data), NEW at \in Steps,
             at \in {"category", "confirm"} \/ data.kind # "add" \/ data.lost \/ data.category # Null
      PROVE  Keeping([data EXCEPT !.at = at])
  BY <1>4 DEF Keeping, Dialogs, Placed
<1>5. ASSUME NEW c \in Categories PROVE Keeping([dialog EXCEPT !.category = c])
  BY <1>1, TablesApart DEF Keeping, Dialogs, Placed
<1>6. ASSUME NEW b \in Brands, dialog.kind # "add" \/ dialog.at = "brand"
      PROVE  Keeping([dialog EXCEPT !.at = "details", !.brand = b])
  BY <1>1, <1>6 DEF Keeping, Dialogs, Steps, Placed
<1>7. ASSUME NEW data, Keeping(data), data.category # Null
      PROVE  Keeping([data EXCEPT !.brand = Null, !.at = "details"])
  BY <1>7 DEF Keeping, Dialogs, Steps, Placed
<1>8. ASSUME dialog.kind = "add", dialog.at = "price" PROVE Keeping([Typed EXCEPT !.full = ~dialog.lost])
  <2>1. dialog.lost \/ Typed.category # Null
    BY <1>1, <1>8 DEF Placed, Typed, Dialogs
  <2> QED BY <1>3, <2>1 DEF Keeping, Dialogs, Placed
<1>9. ASSUME NEW mark \in BOOLEAN PROVE Keeping([dialog EXCEPT !.submitted = mark])
  BY <1>1 DEF Keeping, Dialogs, Placed
<1> QED BY <1>2, <1>3, <1>4, <1>5, <1>6, <1>7, <1>8, <1>9

LEMMA StepTalks ==
  ASSUME CatalogInv, NEW next, Keeping(next) \/ next = NoFsm,
         dialog' = next, Keeps, UNCHANGED runs
  PROVE  Talks /\ DialogMoves
<1>1. Talks
  BY DEF Keeps, Talks, Quiet, db, customers, history
<1>2. runs \in Nat
  BY DialogFacts
<1> QED BY <1>1, <1>2, KeepingOK DEF DialogMoves

LEMMA WizardsTalk ==
  ASSUME CatalogInv
  PROVE  /\ \A lost \in BOOLEAN : ShowProducts(lost) => Talks /\ DialogMoves
         /\ CancelWizard \/ CancelEdit \/ CancelCategoryWizard \/ CancelSubcategory => Talks /\ DialogMoves
         /\ \A at \in DOMAIN TextSteps :
              ProcessTextStep(at) \/ ProcessEditTextStep(at) \/ SkipEditTextStep(at) => Talks /\ DialogMoves
         /\ \A c \in Categories : ProcessCategory(c) \/ ProcessEditCategory(c) => Talks /\ DialogMoves
         /\ SkipEditCategory => Talks /\ DialogMoves
         /\ \A b \in Brands : ProcessSubcategory(b) \/ ProcessEditSubcategory(b) => Talks /\ DialogMoves
         /\ ProcessPrice \/ ProcessEditFullPrice \/ SkipEditFullPrice => Talks /\ DialogMoves
<1>0. /\ Placed(dialog) /\ Typed.category = dialog.category /\ Typed.kind = dialog.kind /\ Typed.lost = dialog.lost
      /\ \A data : Keeping(data) => \A at \in Steps :
           at \in {"category", "confirm"} \/ data.kind # "add" \/ data.lost \/ data.category # Null => Keeping([data EXCEPT !.at = at])
  BY KeepingFacts, DialogFacts DEF Keeping, Typed, Dialogs
<1>8. ASSUME NEW lost \in BOOLEAN, ShowProducts(lost) PROVE Talks /\ DialogMoves
  <2> DEFINE data == [NoFsm EXCEPT !.kind = dialog.kind, !.at = dialog.at, !.run = dialog.run, !.lost = lost]
  <2>1. dialog' = data /\ Talks /\ UNCHANGED runs
    BY <1>8 DEF ShowProducts, Keeps, Talks, Quiet, db, customers, history
  <2>2. data \in Dialogs /\ data.run = dialog.run /\ data.full = FALSE /\ data.lost = lost
        /\ data.kind = dialog.kind /\ data.at = dialog.at
    BY DialogFacts DEF NoFsm, Dialogs
  <2>3. lost \/ data.at = "text"
    BY <1>8, <2>2 DEF ShowProducts
  <2> HIDE DEF data
  <2>4. DialogOK(data, runs)
    BY <2>2, <2>3, DialogFacts DEF DialogOK, Placed
  <2> QED BY <2>1, <2>2, <2>4, DialogFacts DEF DialogMoves
<1>1. CancelWizard \/ CancelEdit \/ CancelCategoryWizard \/ CancelSubcategory => Talks /\ DialogMoves
  BY StepTalks DEF CancelWizard, CancelEdit, CancelCategoryWizard, CancelSubcategory, CancelRun
<1>2. ASSUME NEW data, Keeping(data), NEW next \in Steps,
             next = "category" \/ data.kind # "add" \/ data.lost \/ data.category # Null
      PROVE  LET prompt == PromptNextStep(data, next) IN Keeping(prompt) \/ prompt = NoFsm
  BY <1>0, <1>2 DEF PromptNextStep, AskCategory, Steps
<1>3. ASSUME NEW at \in DOMAIN TextSteps,
             ProcessTextStep(at) \/ ProcessEditTextStep(at) \/ SkipEditTextStep(at)
      PROVE  Talks /\ DialogMoves
  <2>1. TextSteps[at] \in Steps /\ at \in {"text", "details"} /\ TextSteps["text"] = "category"
    BY DEF TextSteps, Steps
  <2>2. PICK data \in {dialog, Typed} :
          /\ dialog' = PromptNextStep(data, TextSteps[at]) /\ Keeps /\ UNCHANGED runs
          /\ dialog.at = at
    BY <1>3 DEF ProcessTextStep, ProcessEditTextStep, SkipEditTextStep, Step
  <2>3. Keeping(data) /\ (TextSteps[at] = "category" \/ data.kind # "add" \/ data.lost \/ data.category # Null)
    BY <1>0, <2>1, <2>2, KeepingFacts DEF Placed
  <2> QED BY <1>2, <2>1, <2>2, <2>3, StepTalks
<1>4. ASSUME NEW c \in Categories, ProcessCategory(c) \/ ProcessEditCategory(c)
      PROVE  Talks /\ DialogMoves
  <2> DEFINE data == [dialog EXCEPT !.category = c]
  <2>1. Keeping(data) /\ data.category # Null
    <3>1. data.category = c /\ Null \notin Ids
      BY TablesApart, DialogFacts DEF Dialogs
    <3> QED BY <3>1, TablesApart, KeepingFacts
  <2>2. /\ dialog' \in {[data EXCEPT !.at = "brand"], NoFsm, [data EXCEPT !.brand = Null, !.at = "details"]}
        /\ Keeps /\ UNCHANGED runs
    BY <1>4 DEF ProcessCategory, ProcessEditCategory, Step, AskSubcategory
  <2> HIDE DEF data
  <2>3. Keeping([data EXCEPT !.at = "brand"]) /\ Keeping([data EXCEPT !.brand = Null, !.at = "details"])
    BY <2>1, KeepingFacts DEF Steps
  <2> QED BY <2>2, <2>3, StepTalks
<1>5. SkipEditCategory => Talks /\ DialogMoves
  BY <1>0, KeepingFacts, StepTalks DEF SkipEditCategory, Step, Steps
<1>6. ASSUME NEW b \in Brands, ProcessSubcategory(b) \/ ProcessEditSubcategory(b)
      PROVE  Talks /\ DialogMoves
  <2>1. /\ dialog' = [dialog EXCEPT !.at = "details", !.brand = b] /\ Keeps /\ UNCHANGED runs
        /\ dialog.kind # "add" \/ dialog.at = "brand"
    BY <1>6 DEF ProcessSubcategory, ProcessEditSubcategory, Step
  <2> QED BY <2>1, KeepingFacts, StepTalks
<1>7. ASSUME ProcessPrice \/ ProcessEditFullPrice \/ SkipEditFullPrice PROVE Talks /\ DialogMoves
  <2>1. PICK data \in {dialog, Typed, [Typed EXCEPT !.full = ~dialog.lost]} :
          /\ dialog' = ShowPreview(data) /\ Keeps /\ UNCHANGED runs
          /\ data \in {dialog, Typed} \/ (dialog.kind = "add" /\ dialog.at = "price")
    BY <1>7 DEF ProcessPrice, ProcessEditFullPrice, SkipEditFullPrice, Step
  <2>2. Keeping(data)
    BY <2>1, KeepingFacts
  <2>3. Keeping(ShowPreview(data))
    BY <1>0, <2>2 DEF ShowPreview, Steps
  <2> QED BY <2>1, <2>3, StepTalks
<1> QED BY <1>1, <1>3, <1>4, <1>5, <1>6, <1>7, <1>8

----------------------------------------------------------------------------
\* What a task of an administrator does.

\* It goes on to write what fits, a wizard's in the section of its lock.
Starts(t) ==
  /\ Quiet /\ told' = told /\ task[t].pc \in {"idle", "queued"}
  /\ section' = [w \in Wizards |-> section'[w]]
  /\ \E x, put, wizard, says :
       /\ Fits(x, put, wizard, says)
       /\ task' = [task EXCEPT ![t] =
            [pc |-> "ready", id |-> x, put |-> put, wizard |-> wizard,
             run |-> IF wizard = "add" THEN dialog.run ELSE 0, says |-> says]]
       /\ IF wizard = "add" THEN section["add"] = Null /\ section'["add"] = t
          ELSE section'["add"] = section["add"]

LEMMA SameDialog ==
  ASSUME CatalogInv, UNCHANGED <<dialog, runs>>
  PROVE  DialogMoves
BY DialogFacts DEF DialogMoves, CatalogInv, DialogInv

LEMMA WritesStart ==
  ASSUME CatalogInv, NEW t \in Tasks, NEW x, NEW put, NEW says, NEW wizard, wizard # "add",
         Fits(x, put, wizard, says), Writes(t, x, put, says, wizard), task[t].pc = "idle",
         Quiet, UNCHANGED <<dialog, section, runs, told>>
  PROVE  Starts(t) /\ DialogMoves
<1>1. task' = [task EXCEPT ![t] =
        [pc |-> "ready", id |-> x, put |-> put, wizard |-> wizard, run |-> 0, says |-> says]]
  BY DEF Writes
<1>2. section' = [w \in Wizards |-> section'[w]]
  BY DEF CatalogInv
<1> QED BY <1>1, <1>2, SameDialog DEF Starts

LEMMA PlainStarts ==
  ASSUME CatalogInv, NEW t \in Tasks, NEW x, NEW put, NEW says,
         Fits(x, put, Null, says), Plain(t, x, put, says)
  PROVE  Starts(t) /\ DialogMoves
<1>1. Null # "add"
  BY DialogFacts DEF Conversations
<1>2. Writes(t, x, put, says, Null) /\ Quiet /\ UNCHANGED <<dialog, section, runs, told>>
      /\ task[t].pc = "idle"
  BY DEF Plain, Quiet, db, customers, history
<1> QED BY <1>1, <1>2, WritesStart

LEMMA OnceStarts ==
  ASSUME CatalogInv, NEW t \in Tasks, NEW wizard \in Wizards, NEW x, NEW put, NEW says,
         Fits(x, put, wizard, says), Once(t, wizard, x, put, says)
  PROVE  Starts(t) /\ DialogMoves
<1>1. /\ Quiet /\ told' = told /\ task[t].pc = "queued" /\ section[wizard] = Null /\ runs' = runs
      /\ section' = [section EXCEPT ![wizard] = t]
      /\ dialog' = [dialog EXCEPT !.submitted = TRUE]
      /\ task' = [task EXCEPT ![t] =
           [pc |-> "ready", id |-> x, put |-> put, wizard |-> wizard,
            run |-> IF wizard = "add" THEN dialog.run ELSE 0, says |-> says]]
  BY DEF Once, Writes, Quiet, customers, history
<1>2. /\ section' = [w \in Wizards |-> section'[w]]
      /\ IF wizard = "add" THEN section["add"] = Null /\ section'["add"] = t
         ELSE section'["add"] = section["add"]
  BY <1>1 DEF CatalogInv, Wizards
<1>3. Keeping(dialog')
  BY <1>1, KeepingFacts
<1>4. DialogMoves
  BY <1>1, <1>3, DialogFacts, KeepingOK DEF DialogMoves
<1> QED BY <1>1, <1>2, <1>4 DEF Starts

LEMMA CatalogPlain ==
  ASSUME CatalogInv, NEW t \in Tasks
  PROVE  /\ \A c \in Categories, step \in {-1, 1} : MoveCategory(t, c, step) => Starts(t) /\ DialogMoves
         /\ \A b \in Brands, step \in {-1, 1} : MoveBrand(t, b, step) => Starts(t) /\ DialogMoves
         /\ \A x \in Ids : Toggle(t, x) => Starts(t) /\ DialogMoves
         /\ \A p \in Products, on \in BOOLEAN : Switch(t, p, on) => Starts(t) /\ DialogMoves
         /\ \A c \in Categories : DeleteCategory(t, c) => Starts(t) /\ DialogMoves
         /\ \A b \in Brands : DeleteBrand(t, b) => Starts(t) /\ DialogMoves
         /\ \A p \in Products : DeleteProduct(t, p) => Starts(t) /\ DialogMoves
         /\ \A b \in Brands, c \in Categories : Reassign(t, b, c) => Starts(t) /\ DialogMoves
<1>1. ASSUME NEW x \in Categories \cup Brands, NEW step \in {-1, 1}, Move(t, x, step)
      PROVE  Starts(t) /\ DialogMoves
  BY <1>1, MoveFits, PlainStarts
<1>2. ASSUME NEW x \in Ids, Toggle(t, x) PROVE Starts(t) /\ DialogMoves
  <2>1. (~row[x].on) \in BOOLEAN
    OBVIOUS
  <2> QED BY <1>2, <2>1, SwitchFits, PlainStarts DEF Toggle
<1>5. ASSUME NEW p \in Products, NEW on \in BOOLEAN, Switch(t, p, on) PROVE Starts(t) /\ DialogMoves
  BY <1>5, TablesApart, SwitchFits, PlainStarts DEF Switch
<1>3. ASSUME NEW x \in Ids, Plain(t, x, Put(x, Gone), Null) PROVE Starts(t) /\ DialogMoves
  BY <1>3, DeletionFits, PlainStarts
<1>4. ASSUME NEW b \in Brands, NEW c \in Categories, Reassign(t, b, c)
      PROVE  Starts(t) /\ DialogMoves
  <2> DEFINE columns == [up |-> c, pos |-> NextPos(BrandsOf(c))]
  <2>1. NextPos(BrandsOf(c)) \in Int
    <3>1. BrandsOf(c) \subseteq Ids
      BY DEF BrandsOf, Live, Ids
    <3>2. \A x \in BrandsOf(c) : row[x].pos \in Int
      BY <3>1, LiveRow DEF BrandsOf, Live, RowOf
    <3> QED BY <3>1, <3>2, NextPosIsInt
  <2>2. Change(b, columns) /\ "on" \notin DOMAIN columns
    BY <2>1, TablesApart DEF Change, Columns, Ups
  <2>3. Plain(t, b, Update(b, columns), Null)
    BY <1>4 DEF Reassign, MoveToCategory
  <2> HIDE DEF columns
  <2> QED BY <2>2, <2>3, TablesApart, UpdateFits, PlainStarts
<1> QED BY <1>1, <1>2, <1>3, <1>4, <1>5, TablesApart
        DEF MoveCategory, MoveBrand, DeleteCategory, DeleteBrand, DeleteProduct

LEMMA TextStarts ==
  ASSUME CatalogInv, NEW t \in Tasks,
         NEW kind \in {"categoryName", "brandName", "price", "description"}, Retext(t, kind)
  PROVE  (Talks \/ Starts(t)) /\ DialogMoves
<1>1. dialog.id \in Ids /\ dialog.run \in Nat
  BY DialogFacts DEF Retext, Dialogs
<1>2. CASE row[dialog.id] = Null
  <2>1. dialog' = NoFsm /\ Talks /\ UNCHANGED runs
    BY <1>2 DEF Retext, FinishKeeps, Talks, Quiet, customers, history
  <2> QED BY <2>1, DialogFacts DEF DialogMoves
<1>3. CASE row[dialog.id] # Null
  <2> DEFINE columns == [text |-> dialog.run]
             put == Update(dialog.id, columns)
  <2>1. Change(dialog.id, columns) /\ "on" \notin DOMAIN columns
    BY <1>1 DEF Change, Columns
  <2>2. Fits(dialog.id, put, "text", Null)
    <3> HIDE DEF columns
    <3> QED BY <1>1, <2>1, UpdateFits
  <2>3. put = SetNames(dialog.id, dialog.run)
    BY DEF SetNames
  <2>4. Writes(t, dialog.id, put, Null, "text") /\ Quiet /\ UNCHANGED <<dialog, section, runs, told>>
        /\ task[t].pc = "idle"
    BY <1>3, <2>3 DEF Retext, LastText, FinishKeeps, Quiet, customers, history
  <2> HIDE DEF put
  <2> QED BY <1>1, <2>2, <2>4, WritesStart
<1> QED BY <1>2, <1>3

LEMMA CreateCategoryStarts ==
  ASSUME CatalogInv, NEW t \in Tasks, NEW c \in Categories, ProcessCreateCategory(t, c)
  PROVE  Starts(t) /\ DialogMoves
<1> DEFINE r == CategoryRow(NextPos(Live(Categories)), dialog.run)
<1>1. NextPos(Live(Categories)) \in Int
  BY TablesApart, LiveRow, NextPosIsInt DEF Live, RowOf
<1>2. r \in RowOf(c) /\ r.on = TRUE
  BY <1>1, DialogFacts, TablesApart DEF RowOf, CategoryRow, Ups, Links
<1>3. Fits(c, Put(c, r), "text", TRUE)
  <2> HIDE DEF r
  <2> QED BY <1>2, TablesApart, InsertFits
<1>4. Writes(t, c, Put(c, r), TRUE, "text") /\ Quiet /\ UNCHANGED <<dialog, section, runs, told>>
      /\ task[t].pc = "idle"
  BY DEF ProcessCreateCategory, CreateCategory, LastText, FinishKeeps, Quiet, customers, history
<1> HIDE DEF r
<1> QED BY <1>3, <1>4, TablesApart, WritesStart

\* It gives up: refused, failed or not let in; its lock is released, and what it
\* told was in vain.
Drops(t) ==
  /\ Quiet /\ task' = [task EXCEPT ![t] = NoTask]
  /\ (told' = told /\ task[t].pc # "answered") \/ told' = Settled(t, Gone)
  /\ section' \in {section, Released(t)}

LEMMA StopsDrop ==
  ASSUME CatalogInv, NEW t \in Tasks, NEW wizard, NEW data \in {dialog, NoFsm}, Stops(t, wizard, data)
  PROVE  Drops(t) /\ DialogMoves
<1>1. Drops(t) /\ dialog' = data /\ runs' = runs
  BY DEF Stops, Drops, Quiet, db, customers, bounds, history
<1> QED BY <1>1, DialogFacts DEF DialogMoves, CatalogInv, DialogInv

LEMMA FailDrops ==
  ASSUME CatalogInv, NEW t \in Tasks, NEW data \in {dialog, NoFsm}, RollsBack(t, data)
  PROVE  Drops(t) /\ DialogMoves
<1> DEFINE again == [data EXCEPT !.submitted = FALSE]
<1>1. Drops(t) /\ dialog' \in {data, again} /\ runs' = runs
  BY DEF RollsBack, Drops, Quiet, db, customers, bounds
<1>2. DialogOK(data, runs) /\ data.run \in {0, dialog.run}
  BY DialogFacts DEF CatalogInv, DialogInv
<1>3. DialogOK(again, runs) /\ again.run = data.run
  BY <1>2 DEF DialogOK, Dialogs, Placed
<1> HIDE DEF again
<1> QED BY <1>1, <1>2, <1>3, DialogFacts DEF DialogMoves

LEMMA ConfirmStarts ==
  ASSUME CatalogInv, NEW t \in Tasks
  PROVE  /\ \A b \in Brands \cup {Null} : CreateBrand(t, b) => (Starts(t) \/ Drops(t)) /\ DialogMoves
         /\ \A p \in Products \cup {Null} :
              ConfirmAddProduct(t, p) \/ ConfirmEditProduct(t, p) => (Starts(t) \/ Drops(t)) /\ DialogMoves
<1>0. /\ dialog.category \in Categories \cup {Null} /\ dialog.brand \in Brands \cup {Null}
      /\ dialog.text \in Nat \cup {Null}
  BY DialogFacts DEF Dialogs
<1>4. dialog.full => dialog.category # Null
  BY DEF CatalogInv, DialogInv, DialogOK, Placed
<1>1. ASSUME NEW b \in Brands \cup {Null}, CreateBrand(t, b)
      PROVE  (Starts(t) \/ Drops(t)) /\ DialogMoves
  <2>1. CASE dialog.category # Null /\ dialog.text # Null
    <3> DEFINE r == BrandRow(dialog.category, NextPos(BrandsOf(dialog.category)), dialog.text)
    <3>1. b \in Brands
      BY <1>1, <2>1 DEF CreateBrand, TakesId
    <3>2. NextPos(BrandsOf(dialog.category)) \in Int
      BY LiveRow, TablesApart, NextPosIsInt DEF BrandsOf, Live, RowOf
    <3>3. r \in RowOf(b) /\ r.on = TRUE
      BY <1>0, <2>1, <3>1, <3>2, TablesApart DEF RowOf, BrandRow, Ups, Links
    <3>4. Once(t, "brand", b, Put(b, r), TRUE)
      BY <1>1, <2>1 DEF CreateBrand, CreateSubcategory
    <3> HIDE DEF r
    <3> QED BY <3>1, <3>3, <3>4, TablesApart, InsertFits, OnceStarts DEF Wizards
  <2>2. CASE ~(dialog.category # Null /\ dialog.text # Null)
    BY <1>1, <2>2, StopsDrop DEF CreateBrand
  <2> QED BY <2>1, <2>2
<1>2. ASSUME NEW p \in Products \cup {Null}, ConfirmAddProduct(t, p)
      PROVE  (Starts(t) \/ Drops(t)) /\ DialogMoves
  <2>1. CASE dialog.full /\ dialog.brand # Null
    <3> DEFINE r == ProductRow(dialog.brand, dialog.category, dialog.text)
    <3>1. p \in Products
      BY <1>2, <2>1 DEF ConfirmAddProduct, TakesId
    <3>2. r \in RowOf(p) /\ r.on = TRUE
      BY <1>0, <1>4, <2>1, <3>1, TablesApart DEF RowOf, ProductRow, Ups, Links
    <3>3. Once(t, "add", p, Put(p, r), TRUE)
      BY <1>2, <2>1 DEF ConfirmAddProduct, CreateProduct
    <3> HIDE DEF r
    <3> QED BY <3>1, <3>2, <3>3, TablesApart, InsertFits, OnceStarts DEF Wizards
  <2>2. CASE ~(dialog.full /\ dialog.brand # Null)
    BY <1>2, <2>2, StopsDrop DEF ConfirmAddProduct
  <2> QED BY <2>1, <2>2
<1>3. ASSUME NEW p \in Products \cup {Null}, ConfirmEditProduct(t, p)
      PROVE  (Starts(t) \/ Drops(t)) /\ DialogMoves
  <2>1. CASE dialog.id \in Products /\ dialog.full /\ row[dialog.id] # Null
    <3>1. p \in Products /\ Once(t, "edit", p, Update(p, EditedRow), Null)
      BY <1>3, <2>1 DEF ConfirmEditProduct
    <3>2. EditedRow = IF dialog.brand = Null THEN [category |-> dialog.category, text |-> dialog.text]
                      ELSE [category |-> dialog.category, text |-> dialog.text, up |-> dialog.brand]
      BY DEF EditedRow, With, Nothing
    <3>3. Change(p, EditedRow) /\ "on" \notin DOMAIN EditedRow
      BY <1>0, <1>4, <2>1, <3>1, <3>2, TablesApart DEF Change, Columns, Ups, Links
    <3> QED BY <3>1, <3>3, TablesApart, UpdateFits, OnceStarts DEF Wizards
  <2>2. CASE ~(dialog.id \in Products /\ dialog.full /\ row[dialog.id] # Null)
    BY <1>3, <2>2, StopsDrop DEF ConfirmEditProduct
  <2> QED BY <2>1, <2>2
<1> QED BY <1>1, <1>2, <1>3

----------------------------------------------------------------------------
\* Steps that commit nothing and flush nothing.

NobodyWrites ==
  \A u \in Tasks : Wrote(u)' =>
    Wrote(u) /\ task'[u].put = task[u].put /\ task'[u].id = task[u].id

LEMMA QuietSound ==
  ASSUME CatalogInv, Quiet, NobodyWrites, NEW t \in Tasks
  PROVE  Sound(t)'
<1> SUFFICES ASSUME Wrote(t)' PROVE ~Waits(t)' /\ ~Refused(t)'
  BY DEF Sound
<1>1. Wrote(t) /\ task'[t].put = task[t].put /\ ~Waits(t) /\ ~Refused(t)
  BY DEF NobodyWrites, CatalogInv, Sound
<1>2. ~Waits(t)'
  BY <1>1 DEF Waits, NobodyWrites
<1>3. row' = row /\ ordered' = ordered
  BY DEF Quiet
<1>4. ~Refused(t)'
  BY <1>1, <1>3 DEF Refused, Referring, Live
<1> QED BY <1>2, <1>4

LEMMA ListSame ==
  ASSUME \A c \in Categories : row'[c] = row[c]
  PROVE  /\ ActiveList' = ActiveList
         /\ \A c \in Categories : VisibleCategory(c)' <=> VisibleCategory(c)
<1>1. \A c \in Categories : VisibleCategory(c)' <=> VisibleCategory(c)
  BY DEF VisibleCategory, Live
<1> DEFINE visible == {c \in Categories : VisibleCategory(c)}
<1>2. visible' = visible
  BY <1>1
<1>3. \A x, y \in visible : Before(x, y)' <=> Before(x, y)
  BY DEF Before
<1>4. ASSUME NEW c \in visible PROVE Rank(c, visible)' = Rank(c, visible)
  <2>1. {y \in visible : Before(y, c)}' = {y \in visible : Before(y, c)}
    BY <1>2, <1>3, <1>4
  <2> QED BY <2>1 DEF Rank
<1>5. ActiveList = {[id |-> c, text |-> row[c].text, place |-> Rank(c, visible)] : c \in visible}
  BY DEF ActiveList
<1>6. ActiveList' = {[id |-> c, text |-> row'[c].text, place |-> Rank(c, visible)'] : c \in visible'}
  BY DEF ActiveList
<1>7. visible \subseteq Categories
  OBVIOUS
<1> HIDE DEF visible
<1> QED BY <1>1, <1>2, <1>4, <1>5, <1>6, <1>7

LEMMA QuietKeeps ==
  ASSUME CatalogInv, Quiet, NobodyWrites
  PROVE  RowInv' /\ ParentsExist' /\ ListInv' /\ StaleInv'
<1>1. RowInv' /\ ParentsExist'
  BY DEF CatalogInv, Quiet, RowInv, ParentsExist, Live
<1>2. ActiveList' = ActiveList /\ \A c \in Categories : VisibleCategory(c)' <=> VisibleCategory(c)
  BY ListSame DEF Quiet
<1>3. UNCHANGED <<cache, reading, hidden, now>> /\ ListInv /\ StaleInv
  BY DEF CatalogInv, Quiet
<1>4. ListInv'
  BY <1>2, <1>3 DEF ListInv
<1>5. StaleInv'
  BY <1>2, <1>3 DEF StaleInv, StaleOnlyByOverlap, NobodyWrites
<1> QED BY <1>1, <1>4, <1>5

\* Steps of a task that has told nothing, and the end of one that did in vain.
LEMMA ToldStays ==
  ASSUME CatalogInv, NEW t \in Tasks, row' = row,
         \A u \in Tasks \ {t} : task'[u] = task[u],
         (told' = told /\ task[t].pc # "answered") \/ told' = Settled(t, Gone),
         task'[t].pc # "answered"
  PROVE  TellInv'
<1>1. TellInv /\ Gone # Null /\ Gone \notin Tasks
  BY CatalogAssumption DEF CatalogInv
<1>2. /\ told' = [x \in Ids |-> [on |-> told'[x].on, by |-> told'[x].by]]
      /\ \A x \in Ids : told'[x].on = told[x].on
      /\ \A x \in Ids : told'[x].by = told[x].by \/ (told[x].by = t /\ told'[x].by = Gone)
  <2>1. CASE told' = told
    BY <1>1, <2>1 DEF TellInv
  <2>2. CASE told' = Settled(t, Gone)
    <3>1. \A x \in Ids : told'[x] = IF told[x].by = t THEN [told[x] EXCEPT !.by = Gone] ELSE told[x]
      BY <2>2 DEF Settled
    <3>2. \A x \in Ids : told[x] = [on |-> told[x].on, by |-> told[x].by]
      BY <1>1 DEF TellInv
    <3>3. \A x \in Ids : told'[x] = [on |-> told[x].on, by |-> IF told[x].by = t THEN Gone ELSE told[x].by]
      BY <3>1, <3>2
    <3>4. told' = [x \in Ids |-> told'[x]]
      BY <2>2 DEF Settled
    <3> QED BY <3>3, <3>4
  <2> QED BY <2>1, <2>2
<1>3. \A x \in Ids : told'[x].by # t
  <2>1. CASE told' = told /\ task[t].pc # "answered"
    BY <1>1, <2>1 DEF TellInv
  <2>2. CASE told' = Settled(t, Gone)
    <3>1. \A x \in Ids : told[x] = [on |-> told[x].on, by |-> told[x].by]
      BY <1>1 DEF TellInv
    <3> QED BY <1>1, <2>2, <3>1 DEF Settled
  <2> QED BY <2>1, <2>2
<1>4. ShownAsTold'
  BY <1>1, <1>2 DEF TellInv, ShownAsTold, Live
<1>5. ASSUME NEW x \in Ids, NEW u \in Tasks, told'[x].by = u
      PROVE  task'[u].pc = "answered" /\ Sets(task'[u].put, x, "on") /\ told'[x].on = task'[u].put[x].on
  <2>1. u # t /\ told[x].by = u /\ told'[x].on = told[x].on
    BY <1>1, <1>2, <1>3, <1>5
  <2>2. task'[u] = task[u]
    BY <2>1
  <2>3. task[u].pc = "answered" /\ Sets(task[u].put, x, "on") /\ told[x].on = task[u].put[x].on
    BY <1>1, <2>1 DEF TellInv
  <2> QED BY <2>1, <2>2, <2>3
<1>6. ASSUME NEW x \in Ids, NEW u \in Tasks, task'[u].pc = "answered", Sets(task'[u].put, x, "on")
      PROVE  told'[x].by # Null
  <2>1. u # t /\ task'[u] = task[u]
    BY <1>6
  <2> QED BY <1>1, <1>2, <1>6, <2>1 DEF TellInv
<1> QED BY <1>2, <1>4, <1>5, <1>6 DEF TellInv

LEMMA MadeStays ==
  ASSUME CatalogInv, DialogMoves, made' = made
  PROVE  MadeInv' /\ DialogInv'
<1>1. MadeInv /\ runs \in Nat /\ MaxRuns \in Nat
  BY DialogFacts, CatalogAssumption DEF CatalogInv
<1>2. ASSUME NEW r \in 1..MaxRuns, made'[r] = 1 PROVE dialog'.run # r /\ r <= runs'
  <2>1. made[r] = 1 /\ dialog.run # r /\ r <= runs
    BY <1>1, <1>2 DEF MadeInv
  <2> QED BY <1>1, <2>1 DEF DialogMoves
<1> QED BY <1>1, <1>2 DEF MadeInv, DialogMoves, DialogInv

\* What a step of another task leaves of an adding one.
LEMMA OthersAdd ==
  ASSUME CatalogInv, DialogMoves, NEW t, NEW u \in Tasks \ {t},
         \A v \in Tasks \ {t} : task'[v] = task[v],
         section'["add"] = section["add"] \/ section["add"] \in {t, Null},
         \A r \in 1..MaxRuns : Adds(u) /\ r = task[u].run => made'[r] = made[r],
         t \in Tasks /\ Adds(t)' /\ Adds(u) => task[u].run = 0 \/ task'[t].run # task[u].run
  PROVE  AddInv(u)'
<1> SUFFICES ASSUME Adds(u)' PROVE AddInv(u)'
  BY DEF AddInv
<1>1. Adds(u) /\ AddInv(u) /\ task'[u] = task[u] /\ runs \in Nat /\ MaxRuns \in Nat
  BY DialogFacts, CatalogAssumption DEF Adds, CatalogInv
<1>2. task[u].pc # "answered" => section'["add"] = u
  <2>1. u # Null
    BY CatalogAssumption
  <2> QED BY <1>1, <2>1 DEF AddInv
<1>3. task[u].run \in 0..runs'
  BY <1>1 DEF AddInv, DialogMoves
<1>4. Wrote(u) => task[u].run = 0 \/ dialog'.run # task[u].run
  BY <1>1 DEF AddInv, DialogMoves
<1>5. task[u].run \in 1..MaxRuns => made'[task[u].run] = 0
  BY <1>1 DEF AddInv
<1>6. \A v \in Tasks \ {u} : Adds(v)' => task[u].run = 0 \/ task'[v].run # task[u].run
  <2> TAKE v \in Tasks \ {u}
  <2>1. CASE v = t
    BY <1>1, <2>1
  <2>2. CASE v # t
    BY <1>1, <2>2 DEF AddInv, Adds
  <2> QED BY <2>1, <2>2
<1> QED BY <1>1, <1>2, <1>3, <1>4, <1>5, <1>6 DEF AddInv, Wrote

LEMMA QuietStep ==
  ASSUME CatalogInv, Quiet, NobodyWrites, DialogMoves,
         task' = [u \in Tasks |-> task'[u]], section' = [w \in Wizards |-> section'[w]],
         \A u \in Tasks : Form(u)' /\ AddInv(u)', TellInv'
  PROVE  CatalogInv'
<1>1. MadeInv' /\ DialogInv'
  BY MadeStays DEF Quiet
<1> QED BY <1>1, QuietKeeps, QuietSound DEF CatalogInv

\* A step of one task.
OneTask(t) ==
  /\ task' = [task EXCEPT ![t] = task'[t]]
  /\ section' = [w \in Wizards |-> section'[w]]
  /\ section'["add"] = section["add"] \/ section["add"] \in {t, Null}

LEMMA QuietTask ==
  ASSUME CatalogInv, Quiet, DialogMoves, NEW t \in Tasks, OneTask(t), Form(t)', AddInv(t)', TellInv',
         Wrote(t)' => Wrote(t) /\ task'[t].put = task[t].put /\ task'[t].id = task[t].id,
         \A u \in Tasks \ {t} : Adds(t)' /\ Adds(u) =>
           task[u].run = 0 \/ task'[t].run # task[u].run
  PROVE  CatalogInv'
<1>1. \A u \in Tasks \ {t} : task'[u] = task[u]
  BY DEF OneTask, CatalogInv
<1>2. NobodyWrites
  BY <1>1 DEF NobodyWrites, Wrote
<1>3. \A u \in Tasks : Form(u)'
  BY <1>1 DEF Form, CatalogInv
<1>4. made' = made
  BY DEF Quiet
<1>5. \A u \in Tasks \ {t} : AddInv(u)'
  BY <1>1, <1>4, OthersAdd DEF OneTask
<1>6. task' = [u \in Tasks |-> task'[u]]
  BY DEF OneTask, CatalogInv
<1> QED BY <1>2, <1>3, <1>5, <1>6, QuietStep DEF OneTask

LEMMA TalksKeep ==
  ASSUME CatalogInv, Talks, DialogMoves
  PROVE  CatalogInv'
<1>1. UNCHANGED <<task, section, made, told, row>> /\ Quiet
  BY DEF Talks, Quiet
<1>2. \A u \in Tasks : u \in Tasks \ {Null} /\ Null \notin Tasks
  BY CatalogAssumption
<1>3. \A u \in Tasks : AddInv(u)'
  BY <1>1, <1>2, OthersAdd
<1>4. NobodyWrites
  BY <1>1 DEF NobodyWrites, Wrote
<1>5. \A u \in Tasks : Form(u)'
  BY <1>1 DEF Form, CatalogInv
<1>6. task' = [u \in Tasks |-> task'[u]] /\ section' = [w \in Wizards |-> section'[w]]
  BY <1>1 DEF CatalogInv
<1>7. TellInv'
  BY <1>1 DEF CatalogInv, TellInv, ShownAsTold, Live
<1> QED BY <1>1, <1>3, <1>4, <1>5, <1>6, <1>7, QuietStep

LEMMA StartsKeep ==
  ASSUME CatalogInv, NEW t \in Tasks, Starts(t), DialogMoves
  PROVE  CatalogInv'
<1>1. PICK x, put, wizard, says :
        /\ Fits(x, put, wizard, says)
        /\ task' = [task EXCEPT ![t] =
             [pc |-> "ready", id |-> x, put |-> put, wizard |-> wizard,
              run |-> IF wizard = "add" THEN dialog.run ELSE 0, says |-> says]]
        /\ IF wizard = "add" THEN section["add"] = Null /\ section'["add"] = t
           ELSE section'["add"] = section["add"]
  BY DEF Starts
<1> DEFINE run == IF wizard = "add" THEN dialog.run ELSE 0
<1>2. task'[t] = [pc |-> "ready", id |-> x, put |-> put, wizard |-> wizard, run |-> run, says |-> says]
  BY <1>1 DEF CatalogInv
<1> HIDE DEF run
<1>3. /\ task'[t].pc = "ready" /\ task'[t].id = x /\ task'[t].put = put
      /\ task'[t].wizard = wizard /\ task'[t].run = run /\ task'[t].says = says
  BY <1>2
<1>4. Quiet /\ OneTask(t)
  BY <1>1 DEF Starts, OneTask, CatalogInv
<1>5. Form(t)'
  BY <1>1, <1>2, <1>3 DEF Form, Begun
<1>6. ~Wrote(t)'
  BY <1>3 DEF Wrote
<1>7. ASSUME NEW u \in Tasks \ {t}, Adds(t)', Adds(u)
      PROVE  task[u].run = 0 \/ task'[t].run # task[u].run
  <2>1. wizard = "add" /\ section["add"] = Null /\ run = dialog.run
    BY <1>1, <1>3, <1>7 DEF Adds, run
  <2>2. u # Null /\ AddInv(u)
    BY CatalogAssumption DEF CatalogInv
  <2>3. Wrote(u)
    BY <1>7, <2>1, <2>2 DEF AddInv, Adds, Begun, Wrote
  <2> QED BY <1>3, <1>7, <2>1, <2>2, <2>3 DEF AddInv
<1>8. AddInv(t)'
  <2> SUFFICES ASSUME Adds(t)' PROVE AddInv(t)'
    BY DEF AddInv
  <2>1. wizard = "add" /\ section'["add"] = t /\ run = dialog.run
    BY <1>1, <1>3 DEF Adds, run
  <2>2. run \in 0..runs'
    BY <2>1, DialogFacts DEF DialogMoves
  <2>3. run \in 1..MaxRuns => made'[run] = 0
    <3>1. made' = made /\ MadeInv
      BY <1>4 DEF Quiet, CatalogInv
    <3> QED BY <2>1, <3>1 DEF MadeInv
  <2>4. \A u \in Tasks \ {t} : Adds(u)' => run = 0 \/ task'[u].run # run
    <3>1. \A u \in Tasks \ {t} : task'[u] = task[u]
      BY <1>4 DEF OneTask, CatalogInv
    <3> QED BY <1>3, <1>7, <3>1 DEF Adds
  <2> QED BY <1>3, <1>6, <2>1, <2>2, <2>3, <2>4 DEF AddInv
<1>9. TellInv'
  BY <1>3, <1>4, ToldStays DEF Starts, Quiet, OneTask, CatalogInv
<1> QED BY <1>4, <1>5, <1>6, <1>7, <1>8, <1>9, QuietTask

\* A step of a task that adds nothing yet, or not any more.
LEMMA IdleTask ==
  ASSUME CatalogInv, Quiet, DialogMoves, NEW t \in Tasks, OneTask(t), Form(t)', ~Wrote(t)', ~Adds(t)',
         (told' = told /\ task[t].pc # "answered") \/ told' = Settled(t, Gone)
  PROVE  CatalogInv'
<1>1. AddInv(t)'
  BY DEF AddInv
<1>2. TellInv'
  BY ToldStays DEF Quiet, OneTask, CatalogInv, Wrote
<1> QED BY <1>1, <1>2, QuietTask

LEMMA DropsKeep ==
  ASSUME CatalogInv, NEW t \in Tasks, Drops(t), DialogMoves
  PROVE  CatalogInv'
<1>1. task'[t] = NoTask /\ Quiet
  BY DEF Drops, CatalogInv
<1>2. task'[t].pc = "idle"
  BY <1>1 DEF NoTask
<1>3. Form(t)'
  BY <1>1, <1>2 DEF Form, Begun, NoTask
<1>4. ~Wrote(t)' /\ ~Adds(t)'
  BY <1>2 DEF Wrote, Adds, Begun
<1>5. OneTask(t)
  <2>1. section' = [w \in Wizards |-> section'[w]]
        /\ (section'["add"] = section["add"] \/ section["add"] \in {t, Null})
    BY DEF Drops, Released, CatalogInv, Wizards
  <2> QED BY <1>1, <2>1 DEF Drops, OneTask, CatalogInv
<1>6. (told' = told /\ task[t].pc # "answered") \/ told' = Settled(t, Gone)
  BY DEF Drops
<1> QED BY <1>1, <1>3, <1>4, <1>5, <1>6, IdleTask

LEMMA QueuesKeep ==
  ASSUME CatalogInv, NEW t \in Tasks, NEW wizard \in Wizards, NEW data, Keeping(data),
         LetThrough(t, wizard, data)
  PROVE  CatalogInv'
<1>1. /\ Quiet /\ told' = told /\ section' = section /\ dialog' = data /\ runs' = runs
      /\ task[t].pc = "idle" /\ task' = [task EXCEPT ![t].pc = "queued", ![t].wizard = wizard]
  BY DEF LetThrough, Quiet, db, customers, bounds, history
<1>2. task'[t] = [task[t] EXCEPT !.pc = "queued", !.wizard = wizard]
  BY <1>1 DEF CatalogInv
<1>3. task'[t].pc = "queued"
  BY <1>2 DEF CatalogInv, Form
<1>4. Form(t)'
  BY <1>2, <1>3 DEF Form, Begun, CatalogInv
<1>5. ~Wrote(t)' /\ ~Adds(t)'
  BY <1>3 DEF Wrote, Adds, Begun
<1>6. OneTask(t)
  BY <1>1 DEF OneTask, CatalogInv
<1>7. DialogMoves
  BY <1>1, DialogFacts, KeepingOK DEF DialogMoves
<1> QED BY <1>1, <1>4, <1>5, <1>6, <1>7, IdleTask

LEMMA LoadedFits ==
  ASSUME CatalogInv, NEW x \in Ids
  PROVE  Fits(x, With(Put(x, Gone), [p \in ProductsOf(x) |-> [up |-> Null]]), Null, Null)
<1> DEFINE clears == [p \in ProductsOf(x) |-> [up |-> Null]]
           put == With(Put(x, Gone), clears)
<1>1. \A p \in ProductsOf(x) : p \in Products /\ p \in Ids /\ p # x /\ x \in Brands
  <2> TAKE p \in ProductsOf(x)
  <2>1. p \in Products /\ p \in Ids /\ row[p] # Null /\ row[p].up = x
    BY TablesApart DEF ProductsOf, Live
  <2>2. row[p].up \in Brands \cup {Null}
    BY <2>1, LiveRow, TablesApart DEF RowOf, Ups
  <2> QED BY <2>1, <2>2, TablesApart, CatalogAssumption
<1>2. \A p \in Products : Change(p, [up |-> Null])
  BY TablesApart DEF Change, Columns, Ups
<1>3. \A p \in Products : [up |-> Null] # Gone
  BY <1>2, ChangeIsNotGone, TablesApart
<1>4. /\ put = [y \in {x} \cup ProductsOf(x) |-> IF y \in ProductsOf(x) THEN [up |-> Null] ELSE Gone]
  BY DEF With, Put
<1>5. DOMAIN put = {x} \cup ProductsOf(x) /\ put = [y \in DOMAIN put |-> put[y]]
      /\ put[x] = Gone /\ \A p \in ProductsOf(x) : put[p] = [up |-> Null]
  <2> HIDE DEF put
  <2> QED BY <1>1, <1>4
<1> HIDE DEF put
<1>6. Deleted(put) = {x}
  BY <1>1, <1>3, <1>5 DEF Deleted
<1>7. \A y \in Ids : ~Sets(put, y, "on")
  <2> SUFFICES ASSUME NEW y \in Ids, Sets(put, y, "on") PROVE FALSE
    OBVIOUS
  <2>1. y \in ProductsOf(x) /\ put[y] = [up |-> Null]
    BY <1>5 DEF Sets
  <2>2. "on" \notin DOMAIN [up |-> Null]
    OBVIOUS
  <2> QED BY <2>1, <2>2 DEF Sets
<1>8. DOMAIN put \cap Categories # {} => x \in Categories
  BY <1>1, <1>5, TablesApart
<1>9. \A y \in DOMAIN put : put[y] = Gone \/ Change(y, put[y])
  BY <1>1, <1>2, <1>5
<1>10. DOMAIN put \subseteq Ids
  BY <1>1, <1>5
<1>11. Fits(x, put, Null, Null)
  BY <1>1, <1>5, <1>6, <1>7, <1>8, <1>9, <1>10 DEF Fits
<1> QED BY <1>11 DEF put

LEMMA LoadsKeep ==
  ASSUME CatalogInv, NEW t \in Tasks, LoadBelow(t)
  PROVE  CatalogInv'
<1> DEFINE x == task[t].id
           put == With(Put(x, Gone), [p \in ProductsOf(x) |-> [up |-> Null]])
<1>1. CASE Fail(t)
  BY <1>1, FailDrops, DropsKeep DEF Fail
<1>2. CASE ~Fail(t)
  <2>1. /\ task[t].pc = "ready" /\ task[t].put = Put(x, Gone)
        /\ task' = [task EXCEPT ![t].pc = "loaded",
                      ![t].put = With(@, [p \in ProductsOf(x) |-> [up |-> Null]])]
        /\ UNCHANGED <<db, dialog, section, customers, bounds, history>>
    BY <1>2 DEF LoadBelow
  <2>2. Form(t) /\ Fits(x, task[t].put, task[t].wizard, task[t].says)
    BY <2>1 DEF CatalogInv, Form, Begun
  <2>3. Deleted(task[t].put) = {x}
    BY <2>1 DEF Deleted, Put
  <2>4. x \in Ids /\ task[t].says = Null /\ task[t].wizard = Null
    BY <2>2, <2>3 DEF Fits
  <2>5. task'[t] = [task[t] EXCEPT !.pc = "loaded", !.put = put]
    BY <2>1 DEF CatalogInv
  <2>6. Fits(x, put, Null, Null)
    BY <2>4, LoadedFits
  <2> HIDE DEF put
  <2>7. /\ task'[t].pc = "loaded" /\ task'[t].put = put /\ task'[t].id = x
        /\ task'[t].wizard = Null /\ task'[t].says = Null
    BY <2>2, <2>4, <2>5 DEF Form
  <2>8. Form(t)'
    BY <2>2, <2>5, <2>6, <2>7 DEF Form, Begun
  <2>9. ~Wrote(t)' /\ ~Adds(t)'
    <3>1. Null # "add"
      BY DialogFacts DEF Conversations
    <3> QED BY <2>7, <3>1 DEF Wrote, Adds
  <2>10. Quiet /\ told' = told /\ OneTask(t)
    BY <2>1 DEF Quiet, OneTask, CatalogInv, db, customers, bounds, history
  <2>11. DialogMoves
    BY <2>1, SameDialog DEF bounds
  <2> QED BY <2>1, <2>8, <2>9, <2>10, <2>11, IdleTask
<1> QED BY <1>1, <1>2

\* What a task answers: what it flushed, or what it read and nobody is changing.
LEMMA AnswerTells ==
  ASSUME CatalogInv, NEW t \in Tasks, Answer(t)
  PROVE  TellInv'
<1> DEFINE x == task[t].id
           says == task[t].says
           stands == row[x] # Null /\ row[x].on = says /\ \A u \in Tasks : Wrote(u) => ~Switches(u, x)
           tells == [on |-> says, by |-> IF Switches(t, x) THEN t ELSE IF stands THEN Null ELSE Gone]
<1>1. /\ task[t].pc = "flushed" /\ task' = [task EXCEPT ![t].pc = "answered"] /\ row' = row
      /\ told' = IF says = Null THEN told ELSE [told EXCEPT ![x] = tells]
  BY DEF Answer, db
<1>2. TellInv /\ Form(t) /\ Gone # Null /\ Null \notin Tasks /\ Gone \notin Tasks /\ Null \notin BOOLEAN
  BY CatalogAssumption DEF CatalogInv
<1>3. Fits(x, task[t].put, task[t].wizard, says)
  BY <1>1, <1>2 DEF Form, Begun
<1>4. task'[t] = [task[t] EXCEPT !.pc = "answered"] /\ \A u \in Tasks \ {t} : task'[u] = task[u]
  BY <1>1 DEF CatalogInv
<1>5. task'[t].pc = "answered" /\ task'[t].put = task[t].put
  BY <1>2, <1>4 DEF Form
<1>6. \A u \in Tasks, y \in Ids : Switches(u, y) <=> Sets(task[u].put, y, "on")
  BY DEF Switches, Sets
<1>7. tells.on = says /\ tells.by \in {t, Null, Gone} /\ tells = [on |-> tells.on, by |-> tells.by]
      /\ (tells.by = t => Sets(task[t].put, x, "on"))
      /\ (tells.by = Null => stands /\ ~Sets(task[t].put, x, "on"))
  BY <1>2, <1>3, <1>6 DEF Fits
<1> HIDE DEF tells
<1>8. \A y \in Ids : told'[y] = IF says # Null /\ y = x THEN tells ELSE told[y]
  BY <1>1, <1>2 DEF TellInv
<1>9. told' = [y \in Ids |-> [on |-> told'[y].on, by |-> told'[y].by]]
  <2>1. told' = [y \in Ids |-> told'[y]]
    BY <1>1, <1>2 DEF TellInv
  <2>2. \A y \in Ids : told'[y] = [on |-> told'[y].on, by |-> told'[y].by]
    BY <1>2, <1>7, <1>8 DEF TellInv
  <2> QED BY <2>1, <2>2
<1>10. ASSUME NEW y \in Ids, row'[y] # Null, told'[y].by = Null PROVE row'[y].on = told'[y].on
  BY <1>1, <1>2, <1>7, <1>8, <1>10 DEF TellInv, ShownAsTold, Live
\* Two tasks never have the same row flushed.
<1>11. \A u \in Tasks \ {t}, y \in Ids : Wrote(u) /\ Sets(task[u].put, y, "on") => ~Sets(task[t].put, y, "on")
  BY <1>1 DEF CatalogInv, Sound, Waits, Wrote, Sets
<1>12. ASSUME NEW y \in Ids, NEW u \in Tasks, told'[y].by = u
       PROVE  task'[u].pc = "answered" /\ Sets(task'[u].put, y, "on") /\ told'[y].on = task'[u].put[y].on
  <2>1. CASE says # Null /\ y = x
    <3>1. u = t /\ Sets(task[t].put, x, "on")
      BY <1>2, <1>7, <1>8, <1>12, <2>1
    <3> QED BY <1>3, <1>5, <1>7, <1>8, <2>1, <3>1 DEF Fits
  <2>2. CASE ~(says # Null /\ y = x)
    <3>1. task[u].pc = "answered" /\ Sets(task[u].put, y, "on") /\ told'[y].on = task[u].put[y].on
      BY <1>2, <1>8, <1>12, <2>2 DEF TellInv
    <3> QED BY <1>1, <1>4, <3>1
  <2> QED BY <2>1, <2>2
<1>13. ASSUME NEW y \in Ids, NEW u \in Tasks, task'[u].pc = "answered", Sets(task'[u].put, y, "on")
       PROVE  told'[y].by # Null
  <2>1. CASE u = t
    <3>1. y = x /\ says = task[t].put[x].on /\ Sets(task[t].put, x, "on")
      BY <1>3, <1>5, <1>13, <2>1 DEF Fits
    <3>2. says \in BOOLEAN
      BY <1>3, <3>1 DEF Fits, Sets, Change
    <3> QED BY <1>2, <1>7, <1>8, <3>1, <3>2
  <2>2. CASE u # t
    <3>1. task[u].pc = "answered" /\ Sets(task[u].put, y, "on") /\ Wrote(u)
      BY <1>4, <1>13, <2>2 DEF Wrote
    <3>2. told[y].by # Null
      BY <1>2, <3>1 DEF TellInv
    <3>3. y = x => ~stands
      BY <1>6, <3>1
    <3> QED BY <1>7, <1>8, <3>2, <3>3
  <2> QED BY <2>1, <2>2
<1>14. ShownAsTold'
  BY <1>10 DEF ShownAsTold, Live
<1> QED BY <1>9, <1>12, <1>13, <1>14 DEF TellInv

LEMMA AnswerKeeps ==
  ASSUME CatalogInv, NEW t \in Tasks, Answer(t)
  PROVE  CatalogInv'
<1>1. /\ Quiet /\ runs' = runs /\ task[t].pc = "flushed"
      /\ task' = [task EXCEPT ![t].pc = "answered"]
      /\ section' = Released(t) /\ dialog' \in {NoFsm, dialog}
  BY DEF Answer, Concluded, Quiet, db, customers, bounds
<1>2. Form(t) /\ AddInv(t)
  BY DEF CatalogInv
<1>3. task'[t] = [task[t] EXCEPT !.pc = "answered"]
  BY <1>1 DEF CatalogInv
<1>4. /\ task'[t].pc = "answered" /\ task'[t].put = task[t].put /\ task'[t].id = task[t].id
      /\ task'[t].wizard = task[t].wizard /\ task'[t].says = task[t].says /\ task'[t].run = task[t].run
  BY <1>2, <1>3 DEF Form
<1>5. Form(t)'
  BY <1>1, <1>2, <1>3, <1>4 DEF Form, Begun
<1>6. Wrote(t)
  BY <1>1 DEF Wrote
<1>7. DialogMoves
  <2>1. dialog' = NoFsm \/ Keeping(dialog')
    BY <1>1, KeepingFacts
  <2> QED BY <1>1, <2>1, DialogFacts, KeepingOK DEF DialogMoves
<1>8. OneTask(t)
  <2>1. section' = [w \in Wizards |-> section'[w]]
        /\ (section'["add"] = section["add"] \/ section["add"] \in {t, Null})
    BY <1>1 DEF Released, CatalogInv, Wizards
  <2> QED BY <1>1, <2>1 DEF OneTask, CatalogInv
<1>9. \A u \in Tasks \ {t} : task'[u] = task[u]
  BY <1>8 DEF OneTask, CatalogInv
<1>10. \A u \in Tasks \ {t} : Adds(t)' /\ Adds(u) => task[u].run = 0 \/ task'[t].run # task[u].run
  BY <1>1, <1>2, <1>4 DEF AddInv, Adds, Begun
<1>11. AddInv(t)'
  <2> SUFFICES ASSUME Adds(t)' PROVE AddInv(t)'
    BY DEF AddInv
  <2>1. Adds(t) /\ made' = made
    BY <1>1, <1>4 DEF Adds, Begun, Quiet
  <2>2. task[t].run = 0 \/ dialog'.run # task[t].run
    <3>1. dialog'.run \in {0, dialog.run}
      BY <1>1, DialogFacts
    <3> QED BY <1>2, <1>6, <2>1, <3>1 DEF AddInv
  <2>3. \A u \in Tasks \ {t} : Adds(u)' => task[t].run = 0 \/ task'[u].run # task[t].run
    BY <1>2, <1>9, <2>1 DEF AddInv, Adds
  <2> QED BY <1>1, <1>2, <1>4, <2>1, <2>2, <2>3 DEF AddInv
<1>12. TellInv'
  BY AnswerTells
<1> QED BY <1>1, <1>4, <1>5, <1>6, <1>7, <1>8, <1>10, <1>11, <1>12, QuietTask

\* The flush.
LEMMA FlushSound ==
  ASSUME CatalogInv, NEW t \in Tasks, Flush(t), NEW u \in Tasks
  PROVE  Sound(u)'
<1>1. /\ ~Waits(t) /\ ~Refused(t) /\ row' = row /\ ordered' = ordered
      /\ task' = [task EXCEPT ![t].pc = "flushed"]
  BY DEF Flush, Flushes, db
<1>2. task'[t].put = task[t].put
  BY <1>1 DEF CatalogInv, Form
<1>3. \A v \in Tasks \ {t} : task'[v] = task[v]
  BY <1>1 DEF CatalogInv
<1> SUFFICES ASSUME Wrote(u)' PROVE ~Waits(u)' /\ ~Refused(u)'
  BY DEF Sound
<1>4. task'[u].put = task[u].put
  BY <1>2, <1>3
<1>5. ~Refused(u)
  BY <1>1, <1>3 DEF CatalogInv, Sound, Wrote
<1>6. ~Refused(u)'
  BY <1>1, <1>4, <1>5 DEF Refused, Referring, Live
<1>7. ~Waits(u)'
  <2>1. CASE u = t
    BY <1>1, <1>2, <1>3, <2>1 DEF Waits, Wrote
  <2>2. CASE u # t
    <3>1. Wrote(u) /\ ~Waits(u)
      BY <1>3, <2>2 DEF CatalogInv, Sound, Wrote
    <3>2. /\ DOMAIN task[u].put \cap DOMAIN task[t].put = {}
          /\ Deleted(task[u].put) \cap References(task[t].put) = {}
          /\ Deleted(task[t].put) \cap References(task[u].put) = {}
      BY <1>1, <2>2, <3>1 DEF Waits
    <3> SUFFICES ASSUME NEW v \in Tasks \ {u}, Wrote(v)'
                 PROVE  /\ DOMAIN task'[v].put \cap DOMAIN task'[u].put = {}
                        /\ Deleted(task'[v].put) \cap References(task'[u].put) = {}
                        /\ Deleted(task'[u].put) \cap References(task'[v].put) = {}
      BY DEF Waits
    <3>3. CASE v = t
      BY <1>2, <1>4, <3>2, <3>3
    <3>4. CASE v # t
      <4>1. Wrote(v) /\ task'[v].put = task[v].put
        BY <1>3, <3>4 DEF Wrote
      <4> QED BY <1>4, <3>1, <4>1 DEF Waits
    <3> QED BY <3>3, <3>4
  <2> QED BY <2>1, <2>2
<1> QED BY <1>6, <1>7

LEMMA FlushLists ==
  ASSUME CatalogInv, NEW t \in Tasks, Flush(t), NEW put, Fits(task[t].id, put, task[t].wizard, task[t].says)
  PROVE  ListInv' /\ StaleInv'
<1>1. /\ UNCHANGED <<row, now, hidden>> /\ task' = [task EXCEPT ![t].pc = "flushed"]
      /\ IF task[t].id \in Categories
         THEN /\ cache' = Null
              /\ reading' = IF reading = Null THEN Null ELSE [reading EXCEPT !.overlapped = TRUE]
         ELSE UNCHANGED <<cache, reading>>
  BY DEF Flush, Flushes, db, bounds, history, customers
<1>2. ListInv /\ StaleInv
  BY DEF CatalogInv
<1>3. ActiveList' = ActiveList /\ \A c \in Categories : VisibleCategory(c)' <=> VisibleCategory(c)
  BY <1>1, ListSame
<1>4. cache' # Null => cache' = cache
  BY <1>1
<1>5. reading' # Null =>
        /\ reading # Null /\ reading' = [list |-> reading.list, overlapped |-> reading'.overlapped]
        /\ reading'.overlapped \in {TRUE, reading.overlapped} /\ reading'.list = reading.list
  BY <1>1, <1>2 DEF ListInv
<1>6. ListInv'
  BY <1>1, <1>2, <1>3, <1>4, <1>5 DEF ListInv
<1>7. StaleOnlyByOverlap'
  BY <1>2, <1>3, <1>4 DEF StaleInv, StaleOnlyByOverlap
<1>8. reading' # Null /\ ~reading'.overlapped => reading'.list = ActiveList'
  BY <1>2, <1>3, <1>5 DEF StaleInv
<1>9. ASSUME NEW u \in Tasks, Wrote(u)', task'[u].id \in Categories
      PROVE  (cache' # Null => cache'.overlapped) /\ (reading' # Null => reading'.overlapped)
  <2>1. CASE u = t
    <3>1. task'[t].id = task[t].id
      BY <1>1 DEF CatalogInv, Form
    <3> QED BY <1>1, <1>5, <1>9, <2>1, <3>1
  <2>2. CASE u # t
    <3>1. Wrote(u) /\ task[u].id \in Categories
      BY <1>1, <1>9, <2>2 DEF Wrote, CatalogInv
    <3>2. (cache # Null => cache.overlapped) /\ (reading # Null => reading.overlapped)
      BY <1>2, <3>1 DEF StaleInv
    <3> QED BY <1>4, <1>5, <3>2
  <2> QED BY <2>1, <2>2
<1> QED BY <1>6, <1>7, <1>8, <1>9 DEF StaleInv

LEMMA FlushKeeps ==
  ASSUME CatalogInv, NEW t \in Tasks, Flush(t)
  PROVE  CatalogInv'
<1>1. /\ UNCHANGED <<row, cart, ordered, told, made, runs>> /\ task[t].pc \in {"ready", "loaded"}
      /\ task' = [task EXCEPT ![t].pc = "flushed"]
      /\ dialog' = IF EndsConversation(t) THEN NoFsm ELSE dialog
      /\ section' = IF task[t].wizard = "brand" THEN Released(t) ELSE section
  BY DEF Flush, Flushes, db, bounds, history
<1>2. Form(t) /\ AddInv(t)
  BY DEF CatalogInv
<1>3. task'[t] = [task[t] EXCEPT !.pc = "flushed"]
  BY <1>1 DEF CatalogInv
<1>4. /\ task'[t].pc = "flushed" /\ task'[t].put = task[t].put /\ task'[t].id = task[t].id
      /\ task'[t].wizard = task[t].wizard /\ task'[t].says = task[t].says /\ task'[t].run = task[t].run
  BY <1>2, <1>3 DEF Form
<1>5. Fits(task[t].id, task[t].put, task[t].wizard, task[t].says)
  BY <1>1, <1>2 DEF Form, Begun
<1>6. Form(t)'
  BY <1>2, <1>3, <1>4, <1>5 DEF Form, Begun
<1>7. \A u \in Tasks \ {t} : task'[u] = task[u]
  BY <1>1 DEF CatalogInv
<1>8. \A u \in Tasks : Form(u)'
  BY <1>6, <1>7 DEF Form, CatalogInv
<1>9. DialogMoves
  <2>1. dialog' = NoFsm \/ Keeping(dialog')
    BY <1>1, KeepingFacts
  <2> QED BY <1>1, <2>1, DialogFacts, KeepingOK DEF DialogMoves
<1>10. section' = [w \in Wizards |-> section'[w]]
       /\ (section'["add"] = section["add"] \/ section["add"] \in {t, Null})
  BY <1>1 DEF Released, CatalogInv, Wizards
<1>11. AddInv(t)'
  <2> SUFFICES ASSUME Adds(t)' PROVE AddInv(t)'
    BY DEF AddInv
  <2>1. Adds(t) /\ task[t].wizard = "add"
    BY <1>1, <1>4 DEF Adds, Begun
  <2>2. section'["add"] = t
    BY <1>1, <1>2, <2>1 DEF AddInv
  <2>3. dialog'.run = 0
    <3>1. EndsConversation(t)
      BY <2>1, DialogFacts DEF EndsConversation, Conversations
    <3> QED BY <1>1, <3>1, DialogFacts
  <2>4. task[t].run = 0 \/ dialog'.run # task[t].run
    BY <2>3
  <2>5. \A u \in Tasks \ {t} : Adds(u)' => task[t].run = 0 \/ task'[u].run # task[t].run
    BY <1>2, <1>7, <2>1 DEF AddInv, Adds
  <2>6. task[t].run \in 0..runs' /\ (task[t].run \in 1..MaxRuns => made'[task[t].run] = 0)
    BY <1>1, <1>2, <2>1 DEF AddInv
  <2> QED BY <1>4, <2>2, <2>4, <2>5, <2>6 DEF AddInv
<1>12. ASSUME NEW u \in Tasks \ {t} PROVE AddInv(u)'
  <2>1. Adds(t)' /\ Adds(u) => task[u].run = 0 \/ task'[t].run # task[u].run
    BY <1>1, <1>2, <1>4 DEF AddInv, Adds, Begun
  <2>2. AddInv(u)'
    BY <1>1, <1>7, <1>9, <1>10, <2>1, OthersAdd
  <2> QED BY <2>2
<1>13. MadeInv' /\ DialogInv'
  BY <1>1, <1>9, MadeStays
<1>14. RowInv' /\ ParentsExist' /\ TellInv'
  <2>1. RowInv' /\ ParentsExist'
    BY <1>1 DEF CatalogInv, RowInv, ParentsExist, Live
  <2> QED BY <1>1, <1>4, <1>7, <2>1, ToldStays
<1>15. ListInv' /\ StaleInv'
  BY <1>5, FlushLists
<1>16. \A u \in Tasks : Sound(u)'
  BY FlushSound
<1>17. task' = [u \in Tasks |-> task'[u]]
  BY <1>1 DEF CatalogInv
<1> QED BY <1>8, <1>10, <1>11, <1>12, <1>13, <1>14, <1>15, <1>16, <1>17 DEF CatalogInv

----------------------------------------------------------------------------
\* Customers.

\* What their steps leave alone, and what must be shown of the rest.
LEMMA CustomersKeep ==
  ASSUME CatalogInv, CustomerKeeps, cart' \subseteq Live(Products),
         ordered' \subseteq ordered \cup cart,
         \A t \in Tasks : Wrote(t) => Deleted(task[t].put) \cap (ordered' \ ordered) = {},
         ListInv', StaleInv'
  PROVE  CatalogInv'
<1>1. UNCHANGED <<row, task, dialog, section, runs, told, made>>
  BY DEF CustomerKeeps, history
<1>2. RowInv' /\ ParentsExist'
  <2>1. cart \cup ordered \subseteq Live(Products) /\ RowInv /\ Live(Products) \subseteq Products
    BY DEF CatalogInv, ParentsExist, Live
  <2>2. ParentsExist'
    BY <1>1, <2>1 DEF CatalogInv, ParentsExist, Live
  <2> QED BY <1>1, <2>1, <2>2 DEF RowInv
<1>3. MadeInv' /\ DialogInv' /\ TellInv'
  BY <1>1 DEF CatalogInv, MadeInv, DialogInv, TellInv, ShownAsTold, Live
<1>4. ASSUME NEW t \in Tasks PROVE Form(t)' /\ AddInv(t)'
  BY <1>1 DEF CatalogInv, Form, AddInv, Adds, Wrote
<1>5. ASSUME NEW t \in Tasks PROVE Sound(t)'
  <2> SUFFICES ASSUME Wrote(t) PROVE ~Waits(t)' /\ ~Refused(t)'
    BY <1>1 DEF Sound, Wrote
  <2>1. ~Waits(t) /\ ~Refused(t)
    BY DEF CatalogInv, Sound
  <2>2. \A x \in Deleted(task[t].put) : Referring(x, task[t].put)' = {}
    <3> TAKE x \in Deleted(task[t].put)
    <3>1. Referring(x, task[t].put) = {}
      BY <2>1 DEF Refused
    <3>2. x \notin ordered' \ ordered
      OBVIOUS
    <3> QED BY <1>1, <3>1, <3>2 DEF Referring, Live
  <2> QED BY <1>1, <2>1, <2>2 DEF Waits, Wrote, Refused
<1> QED BY <1>1, <1>2, <1>3, <1>4, <1>5 DEF CatalogInv

LEMMA ListedVisible == \A c \in Listed(ActiveList) : c \in Categories /\ VisibleCategory(c)
<1> SUFFICES ASSUME NEW entry \in ActiveList PROVE entry.id \in Categories /\ VisibleCategory(entry.id)
  BY DEF Listed
<1>1. PICK c \in Categories :
        /\ VisibleCategory(c)
        /\ entry = [id |-> c, text |-> row[c].text, place |-> Rank(c, {d \in Categories : VisibleCategory(d)})]
  BY DEF ActiveList
<1>2. entry.id = c
  BY <1>1
<1> QED BY <1>1, <1>2

LEMMA BuyersKeep ==
  ASSUME CatalogInv
  PROVE  /\ \A p \in Products : AddToCart(p) => CatalogInv'
         /\ PlaceOrder => CatalogInv'
<1>1. cart \cup ordered \subseteq Live(Products) /\ ListInv /\ StaleInv
  BY DEF CatalogInv, ParentsExist
<1>2. ASSUME CustomerKeeps, UNCHANGED <<cache, reading, now>> PROVE ListInv' /\ StaleInv'
  <2>1. ActiveList' = ActiveList /\ \A c \in Categories : VisibleCategory(c)' <=> VisibleCategory(c)
    BY <1>2, ListSame DEF CustomerKeeps
  <2>2. UNCHANGED <<cache, reading, now, hidden, task>>
    BY <1>2 DEF CustomerKeeps, history
  <2>3. ListInv'
    BY <1>1, <2>1, <2>2 DEF ListInv
  <2>4. StaleInv'
    BY <1>1, <2>1, <2>2 DEF StaleInv, StaleOnlyByOverlap, Wrote
  <2> QED BY <2>3, <2>4
<1>3. ASSUME NEW p \in Products, AddToCart(p) PROVE CatalogInv'
  <2>1. p \in Live(Products) /\ cart' = cart \cup {p} /\ ordered' = ordered
        /\ CustomerKeeps /\ UNCHANGED <<cache, reading, now>>
    BY <1>3 DEF AddToCart, Purchasable, VisibleProduct
  <2> QED BY <1>1, <1>2, <2>1, CustomersKeep
<1>4. ASSUME PlaceOrder PROVE CatalogInv'
  <2>1. /\ \A t \in Tasks : Wrote(t) => Deleted(task[t].put) \cap cart = {}
        /\ ordered' = ordered \cup cart /\ cart' = {}
        /\ CustomerKeeps /\ UNCHANGED <<cache, reading, now>>
    BY <1>4 DEF PlaceOrder
  <2>2. \A t \in Tasks : Wrote(t) => Deleted(task[t].put) \cap (ordered' \ ordered) = {}
    BY <2>1
  <2> QED BY <1>1, <1>2, <2>1, <2>2, CustomersKeep
<1> QED BY <1>3, <1>4

LEMMA ReadersKeep ==
  ASSUME CatalogInv
  PROVE  ReadList \/ ReadFails \/ FillCache \/ Tick => CatalogInv'
<1>1. /\ cart \cup ordered \subseteq Live(Products) /\ ListInv /\ StaleInv /\ now \in Nat
      /\ TTL \in Nat \ {0} /\ StaleOnlyByOverlap
  BY CatalogAssumption DEF CatalogInv, ParentsExist, ListInv, StaleInv
<1>2. ASSUME CustomerKeeps
      PROVE  /\ ActiveList' = ActiveList /\ \A c \in Categories : VisibleCategory(c)' <=> VisibleCategory(c)
             /\ UNCHANGED <<hidden, task>>
  BY <1>2, ListSame DEF CustomerKeeps, history
<1>3. ASSUME CustomerKeeps, UNCHANGED <<cart, ordered>>, ListInv', StaleInv' PROVE CatalogInv'
  BY <1>1, <1>3, CustomersKeep
<1>4. ASSUME ReadList PROVE CatalogInv'
  <2> DEFINE overlap == \E t \in Tasks : Wrote(t) /\ task[t].id \in Categories
  <2>1. /\ cache = Null /\ cache' = Null /\ now' = now
        /\ reading' = [list |-> ActiveList, overlapped |-> overlap]
        /\ CustomerKeeps /\ UNCHANGED <<cart, ordered>>
    BY <1>4 DEF ReadList
  <2>2. reading'.list = ActiveList /\ reading'.overlapped = overlap
    BY <2>1
  <2>3. reading' = [list |-> reading'.list, overlapped |-> reading'.overlapped]
    BY <2>1
  <2>4. \A c \in Listed(ActiveList) : c \in Categories /\ hidden[c] = Null
    BY <1>1, ListedVisible DEF ListInv
  <2>5. ListInv'
    BY <1>1, <1>2, <2>1, <2>2, <2>3, <2>4 DEF ListInv
  <2>6. StaleInv'
    BY <1>1, <1>2, <2>1, <2>2 DEF StaleInv, StaleOnlyByOverlap, Wrote
  <2> QED BY <1>3, <2>1, <2>5, <2>6
<1>5. ASSUME FillCache PROVE CatalogInv'
  <2>1. /\ reading # Null /\ reading' = Null /\ now' = now
        /\ cache' = [list |-> reading.list, until |-> now + TTL, overlapped |-> reading.overlapped]
        /\ CustomerKeeps /\ UNCHANGED <<cart, ordered>>
    BY <1>5 DEF FillCache
  <2>2. /\ cache'.list = reading.list /\ cache'.until = now + TTL /\ cache'.overlapped = reading.overlapped
        /\ cache' = [list |-> cache'.list, until |-> cache'.until, overlapped |-> cache'.overlapped]
    BY <2>1
  <2>3. now < now + TTL /\ now + TTL \in Nat
    BY <1>1
  <2>4. Listed(reading.list) \subseteq Categories
        /\ \A c \in Listed(reading.list) : hidden[c] # Null => hidden[c] = now
    BY <1>1, <2>1 DEF ListInv
  <2>5. ListInv'
    BY <1>1, <1>2, <2>1, <2>2, <2>3, <2>4 DEF ListInv
  <2>6. StaleInv'
    BY <1>1, <1>2, <2>1, <2>2 DEF StaleInv, StaleOnlyByOverlap, Wrote
  <2> QED BY <1>3, <2>1, <2>5, <2>6
<1>6. ASSUME Tick PROVE CatalogInv'
  <2>1. /\ now' = now + 1 /\ reading = Null /\ reading' = Null
        /\ cache' = cache \/ cache' = Null
        /\ cache' # Null => now' < cache'.until
        /\ CustomerKeeps /\ UNCHANGED <<cart, ordered>>
    BY <1>6 DEF Tick, StillFresh
  <2>2. now' \in Nat /\ \A n : n \in 0..now => n \in 0..now'
    BY <1>1, <2>1
  <2>3. cache' # Null => cache'.until <= now' + TTL
    BY <1>1, <2>1 DEF ListInv
  <2>4. ListInv'
    BY <1>1, <1>2, <2>1, <2>2, <2>3 DEF ListInv
  <2>5. StaleInv'
    BY <1>1, <1>2, <2>1 DEF StaleInv, StaleOnlyByOverlap, Wrote
  <2> QED BY <1>3, <2>1, <2>4, <2>5
<1>7. ASSUME ReadFails PROVE CatalogInv'
  <2>1. reading' = Null /\ cache' = cache /\ now' = now /\ CustomerKeeps /\ UNCHANGED <<cart, ordered>>
    BY <1>7 DEF ReadFails
  <2>2. ListInv'
    BY <1>1, <1>2, <2>1 DEF ListInv
  <2>3. StaleInv'
    BY <1>1, <1>2, <2>1 DEF StaleInv, StaleOnlyByOverlap, Wrote
  <2> QED BY <1>3, <2>1, <2>2, <2>3
<1> QED BY <1>4, <1>5, <1>6, <1>7

----------------------------------------------------------------------------
\* The commit.

LEMMA CommitRow ==
  ASSUME CatalogInv, NEW t \in Tasks, Commit(t)
  PROVE  /\ Wrote(t) /\ ~Waits(t) /\ ~Refused(t)
         /\ Fits(task[t].id, task[t].put, task[t].wizard, task[t].says)
         /\ row' = [y \in Ids |-> row'[y]]
         /\ \A y \in Ids \ DOMAIN task[t].put : row'[y] = row[y]
         /\ \A y \in Deleted(task[t].put) : y \in Ids /\ row'[y] = Null
         /\ \A y \in DOMAIN task[t].put \ Deleted(task[t].put) :
              LET columns == task[t].put[y]
              IN  /\ y \in Ids /\ columns # Gone /\ Change(y, columns)
                  /\ row'[y] \in RowOf(y) /\ row'[y] # Null
                  /\ row'[y].on = After(y, columns, "on")
                  /\ row'[y].up = After(y, columns, "up")
                  /\ row'[y].category = After(y, columns, "category")
                  /\ DOMAIN columns = Columns \/ row[y] # Null
<1> DEFINE put == task[t].put
<1>1. Wrote(t)
  BY DEF Commit, Wrote
<1>2. Fits(task[t].id, put, task[t].wizard, task[t].says)
  BY <1>1 DEF Wrote, CatalogInv, Form, Begun
<1>3. ~Waits(t) /\ ~Refused(t)
  BY <1>1 DEF CatalogInv, Sound
<1>4. row' = [y \in Ids |-> IF y \in DOMAIN put THEN Written(y, put[y]) ELSE row[y]]
  BY DEF Commit
<1>5. DOMAIN put \subseteq Ids /\ \A y \in DOMAIN put : put[y] = Gone \/ Change(y, put[y])
  BY <1>2 DEF Fits
<1>6. ASSUME NEW y \in DOMAIN put \ Deleted(put)
      PROVE  /\ y \in Ids /\ put[y] # Gone /\ Change(y, put[y])
             /\ row'[y] \in RowOf(y) /\ row'[y] # Null
             /\ row'[y].on = After(y, put[y], "on")
             /\ row'[y].up = After(y, put[y], "up")
             /\ row'[y].category = After(y, put[y], "category")
             /\ DOMAIN put[y] = Columns \/ row[y] # Null
  <2>1. y \in Ids /\ put[y] # Gone /\ Change(y, put[y])
    BY <1>5, <1>6 DEF Deleted
  <2>2. row[y] = Null => {"pos", "text"} \subseteq DOMAIN put[y]
    BY <1>3, <1>6 DEF Refused
  <2>3. DOMAIN put[y] = Columns \/ row[y] # Null
    BY <2>1, <2>2 DEF Change
  <2>4. row[y] \in RowOf(y) \/ (row[y] = Null /\ DOMAIN put[y] = Columns)
    BY <2>1, <2>3, LiveRow
  <2>5. row'[y] = Written(y, put[y])
    BY <1>4, <1>6, <2>1
  <2> HIDE DEF put
  <2> QED BY <2>1, <2>3, <2>4, <2>5, WrittenRow
<1>7. \A y \in Deleted(put) : y \in Ids /\ row'[y] = Null
  BY <1>4, <1>5 DEF Deleted, Written
<1>8. row' = [y \in Ids |-> row'[y]] /\ \A y \in Ids \ DOMAIN put : row'[y] = row[y]
  BY <1>4
<1> QED BY <1>1, <1>2, <1>3, <1>6, <1>7, <1>8

LEMMA CommitRows ==
  ASSUME CatalogInv, NEW t \in Tasks, Commit(t)
  PROVE  RowInv'
<1>1. cart' = cart \ Deleted(task[t].put) /\ ordered' = ordered
  BY DEF Commit
<1>2. Fits(task[t].id, task[t].put, task[t].wizard, task[t].says) /\ RowInv
  BY CommitRow DEF CatalogInv
<1>3. \A y \in Ids : row'[y] = Null \/ row'[y] \in RowOf(y)
  BY <1>2, CommitRow DEF RowInv, Deleted
<1> QED BY <1>1, <1>2, <1>3, CommitRow DEF RowInv

\* What was told of the switches written is what they are now.
LEMMA CommitTells ==
  ASSUME CatalogInv, NEW t \in Tasks, Commit(t)
  PROVE  TellInv'
<1> DEFINE put == task[t].put
<1>1. /\ told' = Settled(t, Null) /\ task' = [task EXCEPT ![t] = NoTask] /\ task[t].pc = "answered"
  BY DEF Commit
<1>2. TellInv /\ Null \notin Tasks
  BY CatalogAssumption DEF CatalogInv
<1>3. task'[t].pc = "idle" /\ \A u \in Tasks \ {t} : task'[u] = task[u]
  BY <1>1 DEF CatalogInv, NoTask
<1>4. \A x \in Ids : told'[x] = [on |-> told[x].on, by |-> IF told[x].by = t THEN Null ELSE told[x].by]
  <2>1. \A x \in Ids : told[x] = [on |-> told[x].on, by |-> told[x].by]
    BY <1>2 DEF TellInv
  <2>2. \A x \in Ids : told'[x] = IF told[x].by = t THEN [told[x] EXCEPT !.by = Null] ELSE told[x]
    BY <1>1 DEF Settled
  <2> QED BY <2>1, <2>2
<1>6. ASSUME NEW x \in Ids
      PROVE  /\ told'[x].on = told[x].on /\ told'[x].by = IF told[x].by = t THEN Null ELSE told[x].by
             /\ told'[x] = [on |-> told'[x].on, by |-> told'[x].by]
  <2> DEFINE by == IF told[x].by = t THEN Null ELSE told[x].by
  <2>1. told'[x] = [on |-> told[x].on, by |-> by]
    BY <1>4
  <2> HIDE DEF by
  <2>2. told'[x].on = told[x].on /\ told'[x].by = by /\ told'[x] = [on |-> told'[x].on, by |-> told'[x].by]
    BY <2>1
  <2> QED BY <2>2 DEF by
<1>5. told' = [x \in Ids |-> [on |-> told'[x].on, by |-> told'[x].by]]
  <2>1. told' = [x \in Ids |-> told'[x]]
    BY <1>1 DEF Settled
  <2> QED BY <1>6, <2>1
<1>7. \A u \in Tasks \ {t}, x \in Ids : Wrote(u) /\ Sets(task[u].put, x, "on") => ~Sets(put, x, "on")
  BY CommitRow DEF CatalogInv, Sound, Waits, Sets
<1>8. ASSUME NEW x \in Ids, row'[x] # Null, told'[x].by = Null PROVE row'[x].on = told'[x].on
  <2>1. CASE Sets(put, x, "on")
    <3>1. told[x].by = t
      BY <1>1, <1>2, <1>6, <1>8, <2>1 DEF TellInv
    <3>2. told[x].on = put[x].on /\ x \in DOMAIN put \ Deleted(put) /\ "on" \in DOMAIN put[x]
      BY <1>2, <2>1, <3>1 DEF TellInv, Sets, Deleted
    <3> QED BY <1>6, <3>2, CommitRow DEF After
  <2>2. CASE ~Sets(put, x, "on")
    <3>1. told[x].by = Null
      BY <1>2, <1>6, <1>8, <2>2 DEF TellInv
    <3>2. row[x] # Null /\ row'[x].on = row[x].on
      <4>1. CASE x \notin DOMAIN put
        BY <1>8, <4>1, CommitRow
      <4>2. CASE x \in DOMAIN put
        <5>1. x \in DOMAIN put \ Deleted(put) /\ "on" \notin DOMAIN put[x]
          BY <1>8, <2>2, <4>2, CommitRow DEF Sets, Deleted
        <5>2. row'[x].on = After(x, put[x], "on") /\ (DOMAIN put[x] = Columns \/ row[x] # Null)
          BY <5>1, CommitRow
        <5> QED BY <5>1, <5>2 DEF After, Columns
      <4> QED BY <4>1, <4>2
    <3> QED BY <1>2, <1>6, <3>1, <3>2 DEF TellInv, ShownAsTold, Live
  <2> QED BY <2>1, <2>2
<1>9. ASSUME NEW x \in Ids, NEW u \in Tasks, told'[x].by = u
      PROVE  task'[u].pc = "answered" /\ Sets(task'[u].put, x, "on") /\ told'[x].on = task'[u].put[x].on
  <2>1. u # t /\ told[x].by = u
    BY <1>2, <1>6, <1>9
  <2>2. told'[x].on = told[x].on /\ task'[u] = task[u]
    BY <1>3, <1>6, <2>1
  <2>3. task[u].pc = "answered" /\ Sets(task[u].put, x, "on") /\ told[x].on = task[u].put[x].on
    BY <1>2, <2>1 DEF TellInv
  <2> QED BY <2>2, <2>3
<1>10. ASSUME NEW x \in Ids, NEW u \in Tasks, task'[u].pc = "answered", Sets(task'[u].put, x, "on")
       PROVE  told'[x].by # Null
  <2>1. u # t /\ task[u].pc = "answered" /\ Sets(task[u].put, x, "on") /\ Wrote(u)
    BY <1>3, <1>10 DEF Wrote
  <2>2. told[x].by # t /\ told[x].by # Null
    BY <1>2, <1>7, <2>1 DEF TellInv
  <2> QED BY <1>6, <2>2
<1>11. ShownAsTold'
  BY <1>8 DEF ShownAsTold, Live
<1> QED BY <1>5, <1>9, <1>10, <1>11 DEF TellInv

LEMMA LinksAreIds ==
  ASSUME NEW y \in Ids
  PROVE  Ups(y) \subseteq Ids \cup {Null} /\ Links(y) \subseteq Ids \cup {Null}
BY DEF Ups, Links, Ids

\* A link of a row after the commit is one written, or one it had.
LEMMA CommitLink ==
  ASSUME CatalogInv, NEW t \in Tasks, Commit(t), NEW y \in Ids, row'[y] # Null,
         NEW r, r \in {row'[y].up, row'[y].category}, r # Null
  PROVE  /\ r \in Ids
         /\ \/ y \in DOMAIN task[t].put /\ r \in References(task[t].put)
            \/ row[y] # Null /\ r \in {row[y].up, row[y].category}
<1> DEFINE put == task[t].put
<1>1. CASE y \notin DOMAIN put
  <2>1. row[y] # Null /\ r \in {row[y].up, row[y].category}
    BY <1>1, CommitRow
  <2>2. r \in Ids
    BY <2>1, LiveRow, LinksAreIds DEF RowOf
  <2> QED BY <2>1, <2>2
<1>2. CASE y \in DOMAIN put
  <2>1. y \in DOMAIN put \ Deleted(put)
    BY <1>2, CommitRow
  <2>2. /\ put[y] # Gone /\ Change(y, put[y])
        /\ row'[y] \in RowOf(y)
        /\ row'[y].up = After(y, put[y], "up") /\ row'[y].category = After(y, put[y], "category")
        /\ DOMAIN put[y] = Columns \/ row[y] # Null
    BY <2>1, CommitRow
  <2>3. r \in Ids
    BY <2>2, LinksAreIds DEF RowOf
  <2>4. CASE r = row'[y].up /\ "up" \in DOMAIN put[y]
    BY <1>2, <2>2, <2>3, <2>4 DEF After, References
  <2>5. CASE r = row'[y].category /\ "category" \in DOMAIN put[y]
    BY <1>2, <2>2, <2>3, <2>5 DEF After, References
  <2>6. CASE r = row'[y].up /\ "up" \notin DOMAIN put[y]
    BY <2>2, <2>3, <2>6 DEF After, Columns
  <2>7. CASE r = row'[y].category /\ "category" \notin DOMAIN put[y]
    BY <2>2, <2>3, <2>7 DEF After, Columns
  <2> QED BY <2>4, <2>5, <2>6, <2>7
<1> QED BY <1>1, <1>2

LEMMA CommitParents ==
  ASSUME CatalogInv, NEW t \in Tasks, Commit(t)
  PROVE  ParentsExist'
<1> DEFINE put == task[t].put
           x == task[t].id
<1>1. ParentsExist /\ Fits(x, put, task[t].wizard, task[t].says) /\ ~Refused(t)
  BY CommitRow DEF CatalogInv
<1>2. \A y \in Ids : row[y] # Null /\ y \notin Deleted(put) => row'[y] # Null
  BY CommitRow
<1>3. \A y \in Deleted(put) : y = x /\ Referring(x, put) = {}
  BY <1>1 DEF Fits, Refused
<1>4. ASSUME NEW y \in Ids, row'[y] # Null, NEW r \in {row'[y].up, row'[y].category}, r # Null
      PROVE  row'[r] # Null
  <2>0. /\ r \in Ids
        /\ \/ y \in DOMAIN put /\ r \in References(put)
           \/ row[y] # Null /\ r \in {row[y].up, row[y].category}
    BY <1>4, CommitLink
  <2>1. row[r] # Null
    <3>1. CASE r \in References(put)
      BY <1>1, <1>4, <3>1 DEF Refused
    <3>2. CASE row[y] # Null /\ r \in {row[y].up, row[y].category}
      BY <1>1, <1>4, <3>2 DEF ParentsExist, Live
    <3> QED BY <2>0, <3>1, <3>2
  <2>2. ASSUME r \in Deleted(put) PROVE FALSE
    <3>1. r = x /\ Referring(x, put) = {} /\ row'[x] = Null
      BY <1>3, <2>2, CommitRow
    <3>2. \A z \in DOMAIN put \ {x} : z \in Products /\ x \in Brands /\ put[z] = [up |-> Null]
      BY <1>1, <2>2 DEF Fits
    <3>3. y # x
      BY <1>4, <3>1
    <3>4. CASE y \notin DOMAIN put
      <4>1. row[y] # Null /\ x \in {row[y].up, row[y].category}
        BY <2>0, <3>1, <3>4
      <4> QED BY <3>1, <3>4, <4>1 DEF Referring, Live
    <3>5. CASE y \in DOMAIN put
      <4>1. put[y] = [up |-> Null] /\ y \in Products /\ x \in Brands
        BY <3>2, <3>3, <3>5
      <4>2. y \notin Deleted(put)
        BY <1>3, <3>3
      <4>3. row'[y] \in RowOf(y) /\ row'[y].up = Null
        BY <3>5, <4>1, <4>2, CommitRow DEF After
      <4>4. row'[y].category \in Categories
        BY <4>1, <4>3 DEF RowOf, Links
      <4> QED BY <1>4, <3>1, <4>1, <4>3, <4>4, TablesApart
    <3> QED BY <3>4, <3>5
  <2> QED BY <1>2, <2>0, <2>1, <2>2
<1>5. ASSUME NEW p \in cart' \cup ordered' PROVE p \in Products /\ row'[p] # Null
  <2>1. p \in Products /\ row[p] # Null /\ p \in Ids
    BY <1>1, TablesApart DEF ParentsExist, Live, Commit
  <2>2. p \notin Deleted(put)
    <3>1. CASE p \in cart'
      BY <3>1 DEF Commit
    <3>2. CASE p \in ordered
      BY <1>3, <3>2 DEF Referring
    <3> QED BY <3>1, <3>2 DEF Commit
  <2> QED BY <1>2, <2>1, <2>2
<1>6. \A y \in Ids : row'[y] # Null =>
        {row'[y].up, row'[y].category} \ {Null} \subseteq {z \in Ids : row'[z] # Null}
  BY <1>4, CommitLink
<1> QED BY <1>5, <1>6 DEF ParentsExist, Live

\* What another task flushed is neither refused nor made to wait by a commit.
LEMMA CommitSound ==
  ASSUME CatalogInv, NEW t \in Tasks, Commit(t), NEW u \in Tasks
  PROVE  Sound(u)'
<1>1. /\ task' = [task EXCEPT ![t] = NoTask] /\ ordered' = ordered
  BY DEF Commit
<1>2. task'[t].pc = "idle" /\ \A v \in Tasks \ {t} : task'[v] = task[v]
  BY <1>1 DEF CatalogInv, NoTask
<1> SUFFICES ASSUME u # t, Wrote(u) PROVE ~Waits(u)' /\ ~Refused(u)'
  BY <1>2 DEF Sound, Wrote
<1> DEFINE put == task[t].put
           other == task[u].put
<1>3. ~Waits(u) /\ ~Refused(u) /\ task'[u] = task[u]
  BY <1>2 DEF CatalogInv, Sound
<1>4. ~Waits(u)'
  BY <1>2, <1>3 DEF Waits, Wrote
<1>5. /\ DOMAIN put \cap DOMAIN other = {}
      /\ Deleted(put) \cap References(other) = {} /\ Deleted(other) \cap References(put) = {}
  BY <1>3, CommitRow DEF Waits
<1>6. Fits(task[u].id, other, task[u].wizard, task[u].says)
  BY DEF CatalogInv, Form, Wrote, Begun
<1>7. DOMAIN other \subseteq Ids /\ \A y \in DOMAIN other : other[y] = Gone \/ Change(y, other[y])
  BY <1>6 DEF Fits
<1>8. ASSUME NEW r \in References(other), r # Null PROVE row'[r] # Null
  <2>1. r \in Ids
    BY <1>7, <1>8, LinksAreIds DEF References, Change
  <2>2. row[r] # Null /\ r \notin Deleted(put)
    BY <1>3, <1>5, <1>8 DEF Refused
  <2> QED BY <2>1, <2>2, CommitRow
<1>9. ASSUME NEW z \in Deleted(other) PROVE Referring(z, other)' = {}
  <2>1. Referring(z, other) = {} /\ z \notin References(put) /\ z \in Ids
    BY <1>3, <1>5, <1>7 DEF Refused, Deleted
  <2>2. ASSUME NEW y \in Ids \ DOMAIN other, row'[y] # Null, z \in {row'[y].up, row'[y].category}
        PROVE  FALSE
    <3>1. z # Null
      BY <2>1, CatalogAssumption
    <3>2. row[y] # Null /\ z \in {row[y].up, row[y].category}
      BY <2>1, <2>2, <3>1, CommitLink
    <3> QED BY <2>1, <2>2, <3>2 DEF Referring, Live
  <2> QED BY <1>1, <2>1, <2>2 DEF Referring, Live
<1>10. ASSUME NEW z \in DOMAIN other \ Deleted(other), row'[z] = Null
       PROVE  {"pos", "text"} \subseteq DOMAIN other[z]
  <2>1. row'[z] = row[z]
    BY <1>5, <1>7, CommitRow
  <2> QED BY <1>3, <1>10, <2>1 DEF Refused
<1>11. ~Refused(u)'
  BY <1>3, <1>8, <1>9, <1>10 DEF Refused
<1> QED BY <1>4, <1>11

LEMMA CommitLists ==
  ASSUME CatalogInv, NEW t \in Tasks, Commit(t)
  PROVE  ListInv' /\ StaleInv'
<1> DEFINE put == task[t].put
           x == task[t].id
           seen(c) == LET after == IF c \in DOMAIN put THEN Written(c, put[c]) ELSE row[c]
                      IN  after # Null /\ after.on
<1>1. /\ UNCHANGED <<cache, reading, now>> /\ task' = [task EXCEPT ![t] = NoTask]
      /\ hidden' = [c \in Categories |->
                      IF seen(c) THEN Null ELSE IF VisibleCategory(c) THEN now ELSE hidden[c]]
      /\ row' = [y \in Ids |-> IF y \in DOMAIN put THEN Written(y, put[y]) ELSE row[y]]
  BY DEF Commit, customers, bounds
<1>2. ListInv /\ StaleInv /\ now \in Nat /\ TTL \in Nat
  BY CatalogAssumption DEF CatalogInv, ListInv
<1>3. \A c \in Categories : VisibleCategory(c)' <=> seen(c)
  <2>1. \A c \in Categories : row'[c] = IF c \in DOMAIN put THEN Written(c, put[c]) ELSE row[c]
    BY <1>1, TablesApart
  <2> QED BY <2>1 DEF VisibleCategory, Live
<1> HIDE DEF seen
<1>4. \A c \in Categories : hidden'[c] # Null =>
        ~VisibleCategory(c)' /\ (hidden'[c] = now \/ (hidden[c] # Null /\ hidden'[c] = hidden[c]))
  BY <1>1, <1>3
<1>5. ListInv'
  <2>1. \A c \in Categories : hidden'[c] # Null => ~VisibleCategory(c)' /\ hidden'[c] \in 0..now'
    BY <1>1, <1>2, <1>4 DEF ListInv
  <2>2. cache # Null => \A c \in Listed(cache.list) : hidden'[c] # Null => cache.until <= hidden'[c] + TTL
    BY <1>2, <1>4 DEF ListInv
  <2>3. reading # Null => \A c \in Listed(reading.list) : hidden'[c] # Null => hidden'[c] = now
    BY <1>2, <1>4 DEF ListInv
  <2> QED BY <1>1, <1>2, <2>1, <2>2, <2>3 DEF ListInv
<1>6. \A u \in Tasks : Wrote(u)' => Wrote(u) /\ task'[u].id = task[u].id
  BY <1>1 DEF CatalogInv, NoTask, Wrote
<1>7. CASE x \in Categories
  <2>1. (cache # Null => cache.overlapped) /\ (reading # Null => reading.overlapped)
    BY <1>2, <1>7, CommitRow DEF StaleInv
  <2> QED BY <1>1, <1>5, <2>1 DEF StaleInv, StaleOnlyByOverlap
<1>8. CASE x \notin Categories
  <2>1. \A c \in Categories : row'[c] = row[c]
    BY <1>8, CommitRow, TablesApart DEF Fits
  <2>2. ActiveList' = ActiveList
    BY <2>1, ListSame
  <2> QED BY <1>1, <1>2, <1>5, <1>6, <2>2 DEF StaleInv, StaleOnlyByOverlap
<1> QED BY <1>7, <1>8

LEMMA CommitKeeps ==
  ASSUME CatalogInv, NEW t \in Tasks, Commit(t)
  PROVE  CatalogInv'
<1>1. /\ UNCHANGED <<dialog, runs, section>> /\ task' = [task EXCEPT ![t] = NoTask]
      /\ made' = IF task[t].wizard = "add" THEN [made EXCEPT ![task[t].run] = @ + 1] ELSE made
  BY DEF Commit, bounds
<1>2. task'[t] = NoTask /\ \A u \in Tasks \ {t} : task'[u] = task[u]
  BY <1>1 DEF CatalogInv
<1>3. task'[t].pc = "idle"
  BY <1>2 DEF NoTask
<1>4. AddInv(t) /\ MadeInv /\ Wrote(t) /\ runs \in Nat /\ MaxRuns \in Nat
  BY CommitRow, CatalogAssumption, DialogFacts DEF CatalogInv
<1>5. DialogMoves
  BY <1>1, SameDialog
<1>6. task[t].wizard = "add" => Adds(t)
  BY <1>4 DEF Adds, Wrote, Begun
<1>7. MadeInv'
  <2>1. CASE task[t].wizard = "add" /\ task[t].run \in 1..MaxRuns
    <3>1. made[task[t].run] = 0 /\ dialog.run # task[t].run /\ task[t].run \in 0..runs
      BY <1>4, <1>6, <2>1 DEF AddInv
    <3>2. made' = [made EXCEPT ![task[t].run] = 1]
      BY <1>1, <1>4, <2>1, <3>1
    <3> QED BY <1>1, <1>4, <2>1, <3>1, <3>2 DEF MadeInv
  <2>2. CASE ~(task[t].wizard = "add" /\ task[t].run \in 1..MaxRuns)
    <3>1. made' = made
      BY <1>1, <1>4, <2>2 DEF MadeInv
    <3> QED BY <1>5, <3>1, MadeStays
  <2> QED BY <2>1, <2>2
<1>8. ASSUME NEW u \in Tasks \ {t} PROVE AddInv(u)'
  <2>1. ~Adds(t)'
    BY <1>3 DEF Adds, Begun
  <2>2. ASSUME NEW r \in 1..MaxRuns, Adds(u), r = task[u].run PROVE made'[r] = made[r]
    <3>1. task[t].wizard = "add" => task[t].run # r
      BY <1>4, <1>6, <2>2 DEF AddInv
    <3> QED BY <1>1, <1>4, <2>2, <3>1 DEF MadeInv
  <2> QED BY <1>1, <1>2, <1>5, <2>1, <2>2, OthersAdd
<1>9. AddInv(t)'
  BY <1>3 DEF AddInv, Adds, Begun
<1>10. \A u \in Tasks : Form(u)'
  BY <1>2, <1>3 DEF Form, CatalogInv, Begun, NoTask
<1>11. DialogInv'
  BY <1>1 DEF CatalogInv, DialogInv
<1>12. task' = [u \in Tasks |-> task'[u]] /\ section' = [w \in Wizards |-> section'[w]]
  BY <1>1 DEF CatalogInv
<1> QED BY <1>7, <1>8, <1>9, <1>10, <1>11, <1>12,
           CommitRows, CommitTells, CommitParents, CommitSound, CommitLists DEF CatalogInv

----------------------------------------------------------------------------
\* The catalogue's inductive invariant, and what it gives.

LEMMA CatalogStarts ==
  ASSUME CatalogInit
  PROVE  CatalogInv
<1> USE DEF CatalogInit
<1>1. \A x \in Ids : row[x] # Null => x \in DOMAIN Seed /\ row[x] = Seed[x] /\ row[x] \in RowOf(x)
  BY CatalogAssumption
<1>2. RowInv
  BY <1>1 DEF RowInv
<1>3. ParentsExist
  <2>1. \A y \in DOMAIN Seed : y \in Ids /\ row[y] # Null
    BY CatalogAssumption
  <2>2. ASSUME NEW x \in Ids, row[x] # Null
        PROVE  {row[x].up, row[x].category} \ {Null} \subseteq Live(Ids)
    <3>1. Parents(Seed[x]) \subseteq DOMAIN Seed
      BY <1>1, <2>2, CatalogAssumption
    <3> QED BY <1>1, <2>1, <2>2, <3>1 DEF Parents, Live
  <2> QED BY <2>2 DEF ParentsExist, Live
<1>4. TellInv
  <2>1. \A t \in Tasks : t # Null /\ task[t].pc = "idle"
    BY CatalogAssumption DEF NoTask
  <2>2. told = [x \in Ids |-> [on |-> told[x].on, by |-> told[x].by]] /\ \A x \in Ids : told[x].by = Null
    OBVIOUS
  <2>3. ShownAsTold
    BY <1>1 DEF ShownAsTold, Live
  <2> QED BY <2>1, <2>2, <2>3 DEF TellInv
<1>5. DialogInv
  <2>1. NoFsm \in Dialogs /\ NoFsm.run = 0 /\ NoFsm.kind = Null
    BY DEF NoFsm, Dialogs
  <2>2. Placed(NoFsm)
    BY <2>1, CatalogAssumption DEF Placed, NoFsm, Conversations
  <2> QED BY <2>1, <2>2, CatalogAssumption DEF DialogInv, DialogOK, Conversations
<1>6. MadeInv
  BY CatalogAssumption DEF MadeInv
<1>7. ListInv
  BY DEF ListInv
<1>8. \A t \in Tasks : task[t] = NoTask /\ task[t].pc = "idle"
  BY DEF NoTask
<1>9. StaleInv
  BY <1>8 DEF StaleInv, StaleOnlyByOverlap, Wrote
<1>10. ASSUME NEW t \in Tasks PROVE Form(t) /\ Sound(t) /\ AddInv(t)
  <2>1. Form(t)
    BY <1>8 DEF Form, Begun, NoTask
  <2> QED BY <1>8, <2>1 DEF Sound, AddInv, Adds, Wrote, Begun
<1>11. task = [t \in Tasks |-> task[t]] /\ section = [w \in Wizards |-> section[w]]
  BY DEF Wizards
<1> QED BY <1>2, <1>3, <1>4, <1>5, <1>6, <1>7, <1>9, <1>10, <1>11 DEF CatalogInv

LEMMA AdministratorKeeps ==
  ASSUME CatalogInv, NEW t \in Tasks
  PROVE  /\ \A c \in Categories, step \in {-1, 1} : MoveCategory(t, c, step) => CatalogInv'
         /\ \A b \in Brands, step \in {-1, 1} : MoveBrand(t, b, step) => CatalogInv'
         /\ \A c \in Categories :
              ToggleCategory(t, c) \/ DeleteCategory(t, c) \/ ProcessCreateCategory(t, c) => CatalogInv'
         /\ \A b \in Brands : ToggleBrand(t, b) \/ DeleteBrand(t, b) => CatalogInv'
         /\ \A b \in Brands, c \in Categories : Reassign(t, b, c) => CatalogInv'
         /\ \A p \in Products : EnableProduct(t, p) \/ DisableProduct(t, p) \/ DeleteProduct(t, p) => CatalogInv'
         /\ ProcessRenameCategory(t) \/ ProcessRename(t) \/ ProcessEditPrice(t) \/ ProcessDescriptionStep(t)
              => CatalogInv'
         /\ ProcessCreateStep(t) => CatalogInv'
         /\ \A wizard \in {"add", "edit"} : TapConfirm(t, wizard) => CatalogInv'
         /\ \A wizard \in {"add", "edit", "brand"} : AlreadySubmitted(t, wizard) => CatalogInv'
         /\ \A b \in Brands \cup {Null} : CreateBrand(t, b) => CatalogInv'
         /\ \A p \in Products \cup {Null} : ConfirmAddProduct(t, p) \/ ConfirmEditProduct(t, p) => CatalogInv'
         /\ LoadBelow(t) \/ Flush(t) \/ Refuse(t) \/ Answer(t) \/ AnswerFails(t) \/ Commit(t) => CatalogInv'
<1>1. Starts(t) /\ DialogMoves => CatalogInv'
  BY StartsKeep
<1>2. Drops(t) /\ DialogMoves => CatalogInv'
  BY DropsKeep
<1>3. Talks /\ DialogMoves => CatalogInv'
  BY TalksKeep
<1>4. \A c \in Categories, step \in {-1, 1} : MoveCategory(t, c, step) => CatalogInv'
  BY <1>1, CatalogPlain
<1>5. \A b \in Brands, step \in {-1, 1} : MoveBrand(t, b, step) => CatalogInv'
  BY <1>1, CatalogPlain
<1>6. \A c \in Categories :
        ToggleCategory(t, c) \/ DeleteCategory(t, c) \/ ProcessCreateCategory(t, c) => CatalogInv'
  BY <1>1, CatalogPlain, CreateCategoryStarts, TablesApart DEF ToggleCategory
<1>7. \A b \in Brands : ToggleBrand(t, b) \/ DeleteBrand(t, b) => CatalogInv'
  BY <1>1, CatalogPlain, TablesApart DEF ToggleBrand
<1>8. \A b \in Brands, c \in Categories : Reassign(t, b, c) => CatalogInv'
  BY <1>1, CatalogPlain
<1>9. \A p \in Products : EnableProduct(t, p) \/ DisableProduct(t, p) \/ DeleteProduct(t, p) => CatalogInv'
  BY <1>1, CatalogPlain DEF EnableProduct, DisableProduct
<1>10. ProcessRenameCategory(t) \/ ProcessRename(t) \/ ProcessEditPrice(t) \/ ProcessDescriptionStep(t)
         => CatalogInv'
  BY <1>1, <1>3, TextStarts
     DEF ProcessRenameCategory, ProcessRename, ProcessEditPrice, ProcessDescriptionStep
<1>11. ProcessCreateStep(t) => CatalogInv'
  <2>1. [dialog EXCEPT !.text = dialog.run] = Typed
    BY DEF Typed
  <2> QED BY <2>1, KeepingFacts, QueuesKeep DEF ProcessCreateStep, Wizards
<1>12. \A wizard \in {"add", "edit"} : TapConfirm(t, wizard) => CatalogInv'
  BY KeepingFacts, QueuesKeep DEF TapConfirm, Wizards
<1>13. \A wizard \in {"add", "edit", "brand"} : AlreadySubmitted(t, wizard) => CatalogInv'
  BY <1>2, StopsDrop DEF AlreadySubmitted
<1>14. \A b \in Brands \cup {Null} : CreateBrand(t, b) => CatalogInv'
  BY <1>1, <1>2, ConfirmStarts
<1>15. \A p \in Products \cup {Null} : ConfirmAddProduct(t, p) \/ ConfirmEditProduct(t, p) => CatalogInv'
  BY <1>1, <1>2, ConfirmStarts
<1>16. LoadBelow(t) \/ Flush(t) \/ Refuse(t) \/ Answer(t) \/ AnswerFails(t) \/ Commit(t) => CatalogInv'
  BY <1>2, FailDrops, LoadsKeep, FlushKeeps, AnswerKeeps, CommitKeeps DEF Refuse, Fail, AnswerFails, Concluded
<1> QED BY <1>4, <1>5, <1>6, <1>7, <1>8, <1>9, <1>10, <1>11, <1>12, <1>13, <1>14, <1>15, <1>16

LEMMA CatalogStep ==
  ASSUME CatalogInv, [CatalogNext]_catalogVars
  PROVE  CatalogInv'
<1>1. Talks /\ DialogMoves => CatalogInv'
  BY TalksKeep
<1>2. CASE UNCHANGED catalogVars
  <2>1. Talks /\ UNCHANGED <<dialog, runs>>
    BY <1>2 DEF catalogVars, Talks, Quiet, db, customers, bounds, history
  <2> QED BY <1>1, <2>1, SameDialog
<1>3. ASSUME NEW t \in Tasks,
             \/ \E c \in Categories, step \in {-1, 1} : MoveCategory(t, c, step)
             \/ \E b \in Brands, step \in {-1, 1} : MoveBrand(t, b, step)
             \/ \E c \in Categories : ToggleCategory(t, c) \/ DeleteCategory(t, c) \/ ProcessCreateCategory(t, c)
             \/ \E b \in Brands : ToggleBrand(t, b) \/ DeleteBrand(t, b)
             \/ \E b \in Brands, c \in Categories : Reassign(t, b, c)
             \/ \E p \in Products : EnableProduct(t, p) \/ DisableProduct(t, p) \/ DeleteProduct(t, p)
             \/ ProcessRenameCategory(t) \/ ProcessRename(t) \/ ProcessEditPrice(t) \/ ProcessDescriptionStep(t)
             \/ ProcessCreateStep(t)
             \/ \E wizard \in {"add", "edit"} : TapConfirm(t, wizard)
             \/ \E wizard \in {"add", "edit", "brand"} : AlreadySubmitted(t, wizard)
             \/ \E b \in Brands \cup {Null} : CreateBrand(t, b)
             \/ \E p \in Products \cup {Null} : ConfirmAddProduct(t, p) \/ ConfirmEditProduct(t, p)
             \/ LoadBelow(t) \/ Flush(t) \/ Refuse(t) \/ Answer(t) \/ AnswerFails(t) \/ Commit(t)
      PROVE  CatalogInv'
  BY <1>3, AdministratorKeeps
<1>4. ASSUME \/ StartAddProduct \/ StartCreateCategory
             \/ \E lost \in BOOLEAN : ShowProducts(lost)
             \/ CancelWizard \/ CancelEdit \/ CancelCategoryWizard \/ CancelSubcategory
             \/ \E c \in Categories : StartCreateSubcategory(c) \/ StartEditCategoryName(c)
             \/ \E b \in Brands : StartRenameBrand(b)
             \/ \E p \in Products : StartEditProduct(p) \/ StartEditPrice(p) \/ StartEditDescription(p)
      PROVE  CatalogInv'
  BY <1>1, <1>4, StartsTalk, WizardsTalk
<1>5. ASSUME \/ \E at \in DOMAIN TextSteps : ProcessTextStep(at) \/ ProcessEditTextStep(at) \/ SkipEditTextStep(at)
             \/ \E c \in Categories : ProcessCategory(c) \/ ProcessEditCategory(c)
             \/ SkipEditCategory
             \/ \E b \in Brands : ProcessSubcategory(b) \/ ProcessEditSubcategory(b)
             \/ ProcessPrice \/ ProcessEditFullPrice \/ SkipEditFullPrice
      PROVE  CatalogInv'
  BY <1>1, <1>5, WizardsTalk
<1>6. ASSUME \/ \E p \in Products : AddToCart(p)
             \/ ReadList \/ ReadFails \/ FillCache \/ PlaceOrder \/ Tick
      PROVE  CatalogInv'
  BY <1>6, BuyersKeep, ReadersKeep
<1> QED BY <1>2, <1>3, <1>4, <1>5, <1>6 DEF CatalogNext

\* In every state of the catalogue: what each task goes on to write fits the
\* tables, what was flushed waits for nothing and breaks no foreign key, the
\* conversation's data is in order, and the lists know what they overlapped.
THEOREM CatalogInductive == CatalogSpec => []CatalogInv
<1>1. CatalogInit => CatalogInv
  BY CatalogStarts
<1>2. CatalogInv /\ [CatalogNext]_catalogVars => CatalogInv'
  BY CatalogStep
<1> QED BY <1>1, <1>2, PTL DEF CatalogSpec

\* Whatever is deleted, moved, created, sold and ordered at once, by however
\* many administrators, nothing in the catalogue, a cart or an order refers to
\* a row that is gone.
THEOREM NothingDangles == CatalogSpec => []ParentsExist
<1>1. CatalogInv => ParentsExist
  BY DEF CatalogInv
<1> QED BY <1>1, CatalogInductive, PTL

\* The cached list differs from the catalogue only if its query overlapped a
\* category's change.
THEOREM OnlyOverlapsAreStale == CatalogSpec => []StaleOnlyByOverlap
<1>1. CatalogInv => StaleOnlyByOverlap
  BY DEF CatalogInv, StaleInv
<1> QED BY <1>1, CatalogInductive, PTL

\* And even such a list does not show a category its time to live after it was
\* hidden or deleted.
THEOREM StaleListsExpire == CatalogSpec => []HiddenListedBriefly
<1>1. CatalogInv => HiddenListedBriefly
  <2> SUFFICES ASSUME CatalogInv, cache # Null, NEW c \in Listed(cache.list), hidden[c] # Null
               PROVE  now - hidden[c] < TTL
    BY DEF HiddenListedBriefly
  <2>1. /\ now \in Nat /\ cache.until \in Nat /\ now < cache.until
        /\ c \in Categories /\ cache.until <= hidden[c] + TTL
    BY DEF CatalogInv, ListInv
  <2>2. hidden[c] \in 0..now /\ TTL \in Nat
    BY <2>1, CatalogAssumption DEF CatalogInv, ListInv
  <2> QED BY <2>1, <2>2
<1> QED BY <1>1, CatalogInductive, PTL

\* A run of the wizard that adds a product adds one, however often and by
\* however many tasks at once Confirm is handled, whatever fails in between.
THEOREM EveryRunAddsOnce == CatalogSpec => []OneProductPerRun
<1>1. CatalogInv => OneProductPerRun
  BY DEF CatalogInv, MadeInv, OneProductPerRun
<1> QED BY <1>1, CatalogInductive, PTL

\* What an administrator was last told of a row's switch, before his commit, is
\* what is committed, and stays so through every edit, renumbering, move and
\* failure of the others until one of them is told otherwise.  Excepted are a
\* transaction that failed after it had told, and an answer about a row read
\* while another task was switching it.
THEOREM SwitchesStayAsTold == CatalogSpec => []ShownAsTold
<1>1. CatalogInv => ShownAsTold
  BY DEF CatalogInv, TellInv
<1> QED BY <1>1, CatalogInductive, PTL
=============================================================================
