--------------------- MODULE ReferralAttributionProofs ---------------------
(***************************************************************************)
(* Proofs about ReferralAttribution, for any number of customers, sessions *)
(* and steps of a chain: the graph of invitations has no cycle, only new   *)
(* customers get a referrer, nobody is answered under a lock, and no set   *)
(* of sessions waits in a circle.                                          *)
(***************************************************************************)
EXTENDS ReferralAttribution, TLAPS

\* The session s is about to write the referral it was opened for.
Attributing(s) == pc[s] \in {"alone", "walking", "written"}

\* The phases a session can be in while it holds an account's lock.
Holding == {"account", "queue", "alone", "walking", "written", "nothing",
            "order_locked", "paying", "crediting", "paid"}

\* What a session is about is known as long as its transaction is open.
JobInv(s) ==
  /\ pc[s] # "idle" => job[s] \in Job
  /\ pc[s] \in {"linked", "account", "queue"} \/ Attributing(s) =>
       job[s].friend \in Users \ {User(s)}
  /\ pc[s] = "crediting" => job[s].friend = referrer[User(s)] /\ job[s].friend \in Users

\* The locks a session has taken, and nothing else, are held by it.
LockInv(s) ==
  /\ Attributing(s) => attributionLock = s
  /\ pc[s] \in {"account", "queue", "order_locked"} \/ Attributing(s) =>
       accountLock[User(s)] = s
  /\ attributionLock = s => Attributing(s) \/ pc[s] = "nothing"
  /\ \A u \in Users : accountLock[u] = s =>
       pc[s] \in Holding /\ (u = User(s) \/ pc[s] = "paid")

\* Under the account's lock, what was seen of the newcomer stays true.
NewInv(s) ==
  /\ pc[s] = "queue" \/ Attributing(s) => User(s) \notin ordered
  /\ pc[s] \in {"walking", "written"} => referrer[User(s)] = None

\* Under the attribution lock, the part of the chain walked stays closed: it
\* starts at the friend, leads up to where the walk is, misses the newcomer.
WalkInv(s) ==
  /\ pc[s] \in {"walking", "written"} =>
       /\ walk[s] \in Walk
       /\ User(s) \notin walk[s].seen
       /\ {job[s].friend, walk[s].current} \subseteq walk[s].seen
       /\ \A x \in walk[s].seen \ {walk[s].current} : referrer[x] \in walk[s].seen
  /\ pc[s] = "written" => referrer[walk[s].current] = None

SessionInv(s) == JobInv(s) /\ LockInv(s) /\ NewInv(s) /\ WalkInv(s)

\* The inductive invariant.
IInv == TypeOK /\ NoReferralLoop /\ \A s \in Sessions : SessionInv(s)

\* Whatever a session does next.
Step(s) == Begin(s) \/ Waiting(s) \/ Working(s) \/ Abort(s)

----------------------------------------------------------------------------
\* Every step keeps the rows, locks and walks of their kinds.
LEMMA TypeStep ==
  ASSUME TypeOK, NEW s \in Sessions, Step(s), SessionInv(s)
  PROVE  TypeOK'
  <1> USE DEF TypeOK, Go, User, db, locks
  <1>1. CASE Begin(s)
    BY <1>1 DEF Begin, OpenLink, StartOrder, CompleteOrder, Ask, Job, Phases, Waits
  <1>2. CASE Waiting(s)
    <2>1. job[s] \in Job
      BY <1>2 DEF SessionInv, JobInv, Waiting, LockAccount, LockAttributions,
                  LockForOrder, LockForPurchase, LockForCredit
    <2> QED
      BY <1>2, <2>1 DEF SessionInv, JobInv, Waiting, LockAccount, LockAttributions,
         LockForOrder, LockForPurchase, LockForCredit, Acquire, Job, Phases, Waits
  <1>3. CASE LookWhetherNew(s) \/ Tell(s)
    BY <1>3 DEF LookWhetherNew, Tell, Leave, Phases, Waits
  <1>4. CASE StartWalk(s)
    <2>1. job[s].friend \in Users
      BY <1>4 DEF StartWalk, SessionInv, JobInv, Attributing
    <2>2. [current |-> job[s].friend, seen |-> {job[s].friend}, steps |-> 0] \in Walk
      BY <2>1, AttributionAssumption DEF Walk
    <2> QED BY <1>4, <2>2 DEF StartWalk, Phases, Waits
  <1>5. CASE WalkUp(s)
    <2> DEFINE w == walk[s]
               up == referrer[w.current]
    <2>1. pc[s] = "walking" /\ w \in Walk
      BY <1>5 DEF WalkUp, SessionInv, WalkInv
    <2>2. w.steps < MaxChain /\ up # None =>
            [current |-> up, seen |-> w.seen \cup {up}, steps |-> w.steps + 1] \in Walk
      BY <2>1, AttributionAssumption DEF Walk
    <2> QED BY <1>5, <2>2 DEF WalkUp, Phases, Waits
  <1>6. CASE CommitStart(s)
    <2>1. pc[s] = "written" => User(s) \in Users /\ job[s].friend \in Users
      BY DEF SessionInv, JobInv, Attributing, Job
    <2> QED BY <1>6, <2>1 DEF CommitStart, Release, Phases, Waits
  <1>7. CASE CommitOrder(s)
    <2>1. User(s) \in Users
      BY <1>7 DEF CommitOrder, SessionInv, JobInv, Job
    <2> QED BY <1>7, <2>1 DEF CommitOrder, Release, Leave, Phases, Waits
  <1>8. CASE ReadReferral(s)
    <2>1. job[s] \in Job
      BY <1>8 DEF ReadReferral, SessionInv, JobInv
    <2>2. [job[s] EXCEPT !.friend = referrer[User(s)]] \in Job
      BY <2>1 DEF Job
    <2> QED BY <1>8, <2>2 DEF ReadReferral, Phases, Waits
  <1>9. CASE CommitPayout(s) \/ Abort(s)
    BY <1>9 DEF CommitPayout, Abort, Release, Leave, Phases, Waits
  <1> QED BY <1>1, <1>2, <1>3, <1>4, <1>5, <1>6, <1>7, <1>8, <1>9 DEF Step, Working

\* A step of one session moves no other session and neither gives nor takes a
\* lock of another's.
LEMMA OthersStay ==
  ASSUME TypeOK, NEW s \in Sessions, Step(s), NEW t \in Sessions, t # s
  PROVE  /\ pc'[t] = pc[t] /\ job'[t] = job[t] /\ walk'[t] = walk[t]
         /\ attributionLock' = t <=> attributionLock = t
         /\ \A u \in Users : accountLock'[u] = t <=> accountLock[u] = t
  <1> USE AttributionAssumption DEF TypeOK, Go, db, locks
  <1>1. CASE Begin(s)
    BY <1>1 DEF Begin, OpenLink, StartOrder, CompleteOrder, Ask
  <1>2. CASE LockAccount(s)
    BY <1>2 DEF LockAccount, Acquire
  <1>3. CASE LockAttributions(s)
    BY <1>3 DEF LockAttributions
  <1>4. CASE LockForOrder(s)
    BY <1>4 DEF LockForOrder, Acquire
  <1>5. CASE LockForPurchase(s) \/ LockForCredit(s)
    BY <1>5 DEF LockForPurchase, LockForCredit, Acquire
  <1>6. CASE LookWhetherNew(s) \/ StartWalk(s) \/ WalkUp(s) \/ Tell(s) \/ ReadReferral(s)
    BY <1>6 DEF LookWhetherNew, StartWalk, WalkUp, Tell, Leave, ReadReferral
  <1>7. CASE CommitStart(s) \/ CommitOrder(s) \/ CommitPayout(s) \/ Abort(s)
    BY <1>7 DEF CommitStart, CommitOrder, CommitPayout, Abort, Release, Leave
  <1> QED BY <1>1, <1>2, <1>3, <1>4, <1>5, <1>6, <1>7 DEF Step, Waiting, Working

\* Only the holder of the attribution lock writes a referral, its own, and only
\* the holder of a customer's account enters an order of theirs.
LEMMA WhoWrites ==
  ASSUME TypeOK, NEW s \in Sessions, Step(s), SessionInv(s)
  PROVE  /\ \/ referrer' = referrer
            \/ /\ pc[s] = "written"
               /\ referrer' = [referrer EXCEPT ![User(s)] = job[s].friend]
         /\ \/ ordered' = ordered
            \/ /\ pc[s] = "order_locked"
               /\ ordered' = ordered \cup {User(s)}
  BY DEF Step, Begin, Waiting, Working, OpenLink, StartOrder, CompleteOrder, Ask,
         LockAccount, LockAttributions, LockForOrder, LockForPurchase, LockForCredit,
         LookWhetherNew, StartWalk, WalkUp, CommitStart, Tell, CommitOrder,
         ReadReferral, CommitPayout, Abort, db

----------------------------------------------------------------------------
\* What a session knows survives every step of another: it holds the locks
\* under which the rows it relies on would change.
LEMMA OthersKeep ==
  ASSUME IInv, NEW s \in Sessions, Step(s), NEW t \in Sessions, t # s
  PROVE  SessionInv(t)'
  <1>0. TypeOK /\ SessionInv(s) /\ SessionInv(t)
    BY DEF IInv
  <1>1. /\ pc'[t] = pc[t] /\ job'[t] = job[t] /\ walk'[t] = walk[t]
        /\ attributionLock' = t <=> attributionLock = t
        /\ \A u \in Users : accountLock'[u] = t <=> accountLock[u] = t
    BY <1>0, OthersStay
  <1>2. pc[t] # "idle" => job[t] \in Job /\ User(t) \in Users
    BY <1>0 DEF SessionInv, JobInv, Job, User
  <1>3. /\ User(t)' = User(t)
        /\ Attributing(t)' <=> Attributing(t)
    BY <1>1 DEF User, Attributing
  <1>4. CASE referrer' = referrer
    <2>1. pc[t] = "queue" \/ Attributing(t) => User(t) \notin ordered'
      <3> SUFFICES ASSUME pc[t] = "queue" \/ Attributing(t), pc[s] = "order_locked",
                          ordered' = ordered \cup {User(s)}
                   PROVE  User(t) \notin ordered'
        BY <1>0, WhoWrites DEF SessionInv, NewInv
      <3>1. accountLock[User(t)] = t /\ accountLock[User(s)] = s
        BY <1>0 DEF SessionInv, LockInv
      <3> QED BY <1>0, <3>1 DEF SessionInv, NewInv
    <2>2. JobInv(t)'
      BY <1>0, <1>1, <1>3, <1>4 DEF SessionInv, JobInv
    <2>3. LockInv(t)'
      BY <1>0, <1>1, <1>2, <1>3 DEF SessionInv, LockInv, Attributing
    <2>4. NewInv(t)'
      BY <1>0, <1>1, <1>3, <1>4, <2>1 DEF SessionInv, NewInv
    <2>5. WalkInv(t)'
      BY <1>0, <1>1, <1>3, <1>4 DEF SessionInv, WalkInv
    <2> QED BY <2>2, <2>3, <2>4, <2>5 DEF SessionInv
  <1>5. CASE referrer' # referrer
    <2>1. /\ pc[s] = "written" /\ ordered' = ordered
          /\ referrer' = [referrer EXCEPT ![User(s)] = job[s].friend]
      BY <1>0, <1>5, WhoWrites
    <2>2. attributionLock = s /\ referrer[User(s)] = None
      BY <1>0, <2>1 DEF SessionInv, LockInv, NewInv, Attributing
    <2>3. ~Attributing(t)
      BY <1>0, <2>2 DEF SessionInv, LockInv
    <2>4. pc[t] = "crediting" => referrer'[User(t)] = referrer[User(t)]
      BY <1>0, <1>2, <2>1, <2>2, AttributionAssumption
         DEF SessionInv, JobInv, TypeOK
    <2>5. JobInv(t)'
      BY <1>0, <1>1, <1>3, <2>4 DEF SessionInv, JobInv
    <2>6. LockInv(t)'
      BY <1>0, <1>1, <1>2, <1>3 DEF SessionInv, LockInv, Attributing
    <2>7. NewInv(t)' /\ WalkInv(t)'
      BY <1>0, <1>1, <1>3, <2>1, <2>3 DEF SessionInv, NewInv, WalkInv, Attributing
    <2> QED BY <2>5, <2>6, <2>7 DEF SessionInv
  <1> QED BY <1>4, <1>5

\* A step keeps what its own session knows.
LEMMA SelfKeeps ==
  ASSUME IInv, NEW s \in Sessions, Step(s)
  PROVE  SessionInv(s)'
  <1>0. TypeOK /\ SessionInv(s)
    BY DEF IInv
  <1>t. TypeOK'
    BY <1>0, TypeStep
  <1>1. pc[s] # "idle" => job[s] \in Job /\ User(s) \in Users
    BY <1>0 DEF SessionInv, JobInv, Job, User
  <1> USE AttributionAssumption
      DEF TypeOK, SessionInv, JobInv, LockInv, NewInv, WalkInv, Attributing, Go, User, db, locks
  <1>2. CASE Begin(s)
    <2>1. PICK u \in Users, r \in Users \cup {None}, phase \in {"linked", "ordering", "completing"} :
            (phase = "linked" => r \in Users \ {u}) /\ Ask(s, phase, u, r)
      BY <1>2 DEF Begin, OpenLink, StartOrder, CompleteOrder
    <2>2. /\ pc[s] = "idle" /\ pc'[s] = phase
          /\ job'[s] = [user |-> u, friend |-> r]
          /\ UNCHANGED <<db, locks>>
      BY <1>0, <2>1 DEF Ask
    <2>3. attributionLock # s /\ \A v \in Users : accountLock[v] # s
      BY <1>0, <2>2 DEF Holding
    <2>4. job'[s] \in Job
      BY <2>2 DEF Job
    <2> QED BY <2>1, <2>2, <2>3, <2>4
  <1>3. CASE LockAccount(s)
    BY <1>0, <1>1, <1>3 DEF LockAccount, Acquire, Holding
  <1>4. CASE LockAttributions(s)
    BY <1>0, <1>1, <1>4 DEF LockAttributions, Holding
  <1>5. CASE LockForOrder(s) \/ LockForPurchase(s)
    BY <1>0, <1>1, <1>5 DEF LockForOrder, LockForPurchase, Acquire, Holding
  <1>6. CASE LockForCredit(s)
    BY <1>0, <1>1, <1>6 DEF LockForCredit, Acquire, Holding
  <1>7. CASE LookWhetherNew(s)
    BY <1>0, <1>1, <1>7 DEF LookWhetherNew, Holding
  <1>8. CASE StartWalk(s)
    <2>1. job[s] \in Job /\ job[s].friend \in Users \ {User(s)}
      BY <1>0, <1>1, <1>8 DEF StartWalk
    <2>2. JobInv(s)' /\ LockInv(s)' /\ NewInv(s)'
      BY <1>0, <1>1, <1>8 DEF StartWalk, Holding
    <2>3. pc'[s] = "walking" =>
            walk'[s] = [current |-> job[s].friend, seen |-> {job[s].friend}, steps |-> 0]
      BY <1>0, <1>8 DEF StartWalk
    <2>4. pc'[s] \in {"walking", "nothing"} /\ job' = job /\ referrer' = referrer
      BY <1>0, <1>8 DEF StartWalk
    <2>5. WalkInv(s)'
      BY <2>1, <2>3, <2>4 DEF Walk
    <2> QED BY <2>2, <2>5
  <1>9. CASE WalkUp(s)
    <2> DEFINE w == walk[s]
               up == referrer[w.current]
    <2>1. pc[s] = "walking" /\ w \in Walk /\ job' = job /\ referrer' = referrer
      BY <1>0, <1>9 DEF WalkUp
    <2>2. JobInv(s)' /\ LockInv(s)' /\ NewInv(s)'
      BY <1>0, <1>1, <1>9 DEF WalkUp, Holding
    <2>3. CASE w.steps < MaxChain /\ up \notin w.seen \cup {User(s), None}
      <3>1. pc' = pc
            /\ walk'[s] = [current |-> up, seen |-> w.seen \cup {up}, steps |-> w.steps + 1]
        BY <1>0, <1>9, <2>3 DEF WalkUp
      <3>2. w.seen \subseteq Users /\ w.steps + 1 \in 0..MaxChain /\ up \in Users
        BY <1>0, <2>1, <2>3 DEF Walk
      <3>3. walk'[s] \in Walk
        BY <3>1, <3>2 DEF Walk
      <3> QED BY <1>0, <2>1, <2>2, <2>3, <3>1, <3>3
    <2>4. CASE ~(w.steps < MaxChain /\ up \notin w.seen \cup {User(s), None})
      <3>1. walk' = walk /\ pc'[s] = "written" => up = None
        BY <1>0, <1>9, <2>4 DEF WalkUp
      <3>2. walk' = walk /\ pc'[s] \in {"written", "nothing"}
        BY <1>0, <1>9, <2>4 DEF WalkUp
      <3> QED BY <1>0, <2>1, <2>2, <3>1, <3>2
    <2> QED BY <2>3, <2>4
  <1>10. CASE CommitStart(s)
    BY <1>0, <1>1, <1>10 DEF CommitStart, Release, Holding
  <1>11. CASE Tell(s)
    BY <1>0, <1>1, <1>11 DEF Tell, Leave, Holding
  <1>12. CASE CommitOrder(s) \/ CommitPayout(s) \/ Abort(s)
    BY <1>0, <1>1, <1>12 DEF CommitOrder, CommitPayout, Abort, Release, Leave, Holding
  <1>13. CASE ReadReferral(s)
    BY <1>0, <1>t, <1>1, <1>13 DEF ReadReferral, Holding, Job
  <1> QED
    BY <1>2, <1>3, <1>4, <1>5, <1>6, <1>7, <1>8, <1>9, <1>10, <1>11, <1>12, <1>13
       DEF Step, Waiting, Working

----------------------------------------------------------------------------
\* The referral written closes no loop: whoever has walked to the end of the
\* friend's chain without meeting the newcomer has seen a set that leads
\* nowhere else, and a loop through the new link would be one inside that set.
LEMMA NoLoopStep ==
  ASSUME IInv, NEW s \in Sessions, Step(s)
  PROVE  NoReferralLoop'
  <1>0. TypeOK /\ NoReferralLoop /\ SessionInv(s)
    BY DEF IInv
  <1>1. CASE referrer' = referrer
    BY <1>0, <1>1 DEF NoReferralLoop
  <1>2. CASE referrer' # referrer
    <2> DEFINE known == walk[s].seen
               top == walk[s].current
    <2>1. /\ pc[s] = "written"
          /\ referrer' = [referrer EXCEPT ![User(s)] = job[s].friend]
      BY <1>0, <1>2, WhoWrites
    <2>2. /\ User(s) \in Users /\ known \subseteq Users
          /\ User(s) \notin known /\ job[s].friend \in known
          /\ \A x \in known \ {top} : referrer[x] \in known
          /\ referrer[top] = None
      BY <1>0, <2>1 DEF SessionInv, JobInv, WalkInv, Job, User, Walk, Attributing
    <2> SUFFICES ASSUME NEW loop \in SUBSET Users, loop # {},
                        \A u \in loop : referrer'[u] \in loop
                 PROVE  FALSE
      BY DEF NoReferralLoop
    <2>3. \A u \in Users \ {User(s)} : referrer'[u] = referrer[u]
      BY <2>1 DEF TypeOK
    <2>4. CASE User(s) \notin loop
      <3>1. \A u \in loop : referrer[u] \in loop
        BY <2>3, <2>4
      <3> QED BY <1>0, <3>1 DEF NoReferralLoop
    <2>5. CASE User(s) \in loop
      <3>1. referrer'[User(s)] = job[s].friend
        BY <1>0, <2>1, <2>2 DEF TypeOK
      <3>2. job[s].friend \in loop \cap known
        BY <2>2, <2>5, <3>1
      <3>3. \A u \in loop \cap known : referrer[u] \in loop \cap known
        <4> SUFFICES ASSUME NEW u \in loop \cap known
                     PROVE  referrer[u] \in loop \cap known
          OBVIOUS
        <4>1. referrer[u] \in loop
          BY <2>2, <2>3
        <4>2. u # top
          BY <2>2, <4>1, AttributionAssumption
        <4> QED BY <2>2, <4>1, <4>2
      <3>4. loop \cap known \in SUBSET Users
        OBVIOUS
      <3> QED BY <1>0, <3>2, <3>3, <3>4 DEF NoReferralLoop
    <2> QED BY <2>4, <2>5
  <1> QED BY <1>1, <1>2

\* The invariant holds at the start and every step keeps it.
THEOREM IInvInvariant == Spec => []IInv
  <1>1. Init => IInv
    <2> SUFFICES ASSUME Init PROVE IInv
      OBVIOUS
    <2>1. TypeOK
      BY DEF Init, TypeOK, Phases, Waits
    <2>2. NoReferralLoop
      BY AttributionAssumption DEF Init, NoReferralLoop
    <2>3. \A s \in Sessions : SessionInv(s)
      BY AttributionAssumption
         DEF Init, SessionInv, JobInv, LockInv, NewInv, WalkInv, Attributing
    <2> QED BY <2>1, <2>2, <2>3 DEF IInv
  <1>2. IInv /\ [Next]_vars => IInv'
    <2> SUFFICES ASSUME IInv, [Next]_vars PROVE IInv'
      OBVIOUS
    <2>1. CASE UNCHANGED vars
      BY <2>1 DEF vars, db, locks, IInv, TypeOK, NoReferralLoop, SessionInv, JobInv,
                  LockInv, NewInv, WalkInv, Attributing, User
    <2>2. CASE Next
      <3>1. PICK s \in Sessions : Step(s)
        BY <2>2 DEF Next, Step
      <3>2. TypeOK'
        BY <3>1, TypeStep DEF IInv
      <3>3. NoReferralLoop'
        BY <3>1, NoLoopStep
      <3>4. ASSUME NEW t \in Sessions PROVE SessionInv(t)'
        <4>1. CASE t = s
          BY <3>1, <4>1, SelfKeeps
        <4>2. CASE t # s
          BY <3>1, <4>2, OthersKeep
        <4> QED BY <4>1, <4>2
      <3> QED BY <3>2, <3>3, <3>4 DEF IInv
    <2> QED BY <2>1, <2>2
  <1> QED BY <1>1, <1>2, PTL DEF Spec

----------------------------------------------------------------------------
\* Rows, locks and walks stay of the kinds the code declares, and no walk ever
\* reads further up a chain than MAX_CHAIN.
THEOREM TypeCorrect == Spec => []TypeOK
  <1>1. IInv => TypeOK
    BY DEF IInv
  <1> QED BY <1>1, IInvInvariant, PTL

\* However many customers open each other's links at the same moment, and
\* however long their chains: nobody is, through others, their own referrer.
THEOREM NeverALoop == Spec => []NoReferralLoop
  <1>1. IInv => NoReferralLoop
    BY DEF IInv
  <1> QED BY <1>1, IInvInvariant, PTL

\* A customer is given a referrer once, while they have no order at all: the
\* account's lock keeps an order placed at the same moment out of the way.
THEOREM NewCustomersOnly == Spec => OnlyNewCustomersReferred
  <1>1. IInv /\ [Next]_vars =>
          [\A u \in Users : referrer'[u] # referrer[u] =>
             referrer[u] = None /\ u \notin ordered]_vars
    <2> SUFFICES ASSUME IInv, Next, NEW u \in Users, referrer'[u] # referrer[u]
                 PROVE  referrer[u] = None /\ u \notin ordered
      OBVIOUS
    <2>1. PICK s \in Sessions : Step(s)
      BY DEF Next, Step
    <2>2. TypeOK /\ SessionInv(s)
      BY DEF IInv
    <2>3. /\ pc[s] = "written"
          /\ referrer' = [referrer EXCEPT ![User(s)] = job[s].friend]
      BY <2>1, <2>2, WhoWrites
    <2>4. u = User(s)
      BY <2>2, <2>3 DEF TypeOK
    <2> QED BY <2>2, <2>3, <2>4 DEF SessionInv, NewInv, Attributing
  <1> QED BY <1>1, IInvInvariant, PTL DEF Spec, OnlyNewCustomersReferred

\* Whatever became of the attribution, nobody is answered before the locks it
\* took are gone.
THEOREM ToldUnlocked == Spec => []StartTellsUnlocked
  <1>1. IInv => StartTellsUnlocked
    BY DEF IInv, StartTellsUnlocked, SessionInv, LockInv, Attributing, Holding
  <1> QED BY <1>1, IInvInvariant, PTL

\* No set of sessions waits in a circle.  Who has the attribution lock waits for
\* nothing; who waits for an account while holding one is paying out, holds
\* its customer's and waits for their referrer's: a circle of those would be a
\* loop of referrals.
THEOREM NobodyWaitsInACircle == Spec => []NoWaitCycle
  <1>1. ASSUME IInv PROVE NoWaitCycle
    <2> SUFFICES ASSUME NEW stuck \in SUBSET Sessions, stuck # {},
                        \A s \in stuck : Blocker(s) \in stuck \ {s}
                 PROVE  FALSE
      BY DEF NoWaitCycle
    <2>0. TypeOK /\ NoReferralLoop /\ \A s \in Sessions : SessionInv(s)
      BY <1>1 DEF IInv
    <2>1. ASSUME NEW s \in stuck
          PROVE  pc[s] \in {"linked", "ordering", "completing", "queue", "crediting"}
      BY <2>1, AttributionAssumption DEF Blocker
    <2>2. ASSUME NEW s \in stuck PROVE pc[s] # "queue"
      <3> SUFFICES ASSUME pc[s] = "queue" PROVE FALSE
        OBVIOUS
      <3>1. attributionLock \in stuck
        BY DEF Blocker
      <3>2. Attributing(attributionLock) \/ pc[attributionLock] = "nothing"
        BY <2>0, <3>1 DEF SessionInv, LockInv
      <3> QED BY <2>1, <3>1, <3>2 DEF Attributing
    <2>3. ASSUME NEW s \in stuck
          PROVE  \E u \in Users : Blocker(s) = accountLock[u] /\ u = IF pc[s] = "crediting"
                                  THEN job[s].friend ELSE User(s)
      <3>1. job[s].user \in Users /\ (pc[s] = "crediting" => job[s].friend \in Users)
        BY <2>0, <2>1 DEF SessionInv, JobInv, Job
      <3> QED BY <2>1, <2>2, <3>1 DEF Blocker, User
    <2>4. ASSUME NEW t \in stuck, NEW u \in Users, accountLock[u] = t
          PROVE  pc[t] = "crediting" /\ u = User(t)
      BY <2>0, <2>1, <2>2, <2>4 DEF SessionInv, LockInv, Holding
    <2> DEFINE loop == {User(s) : s \in {t \in stuck : pc[t] = "crediting"}}
    <2>5. loop # {}
      <3>1. PICK s \in stuck : TRUE
        OBVIOUS
      <3>2. Blocker(s) \in stuck /\ pc[Blocker(s)] = "crediting"
        BY <2>3, <2>4
      <3> QED BY <3>2
    <2>6. loop \in SUBSET Users
      BY <2>0 DEF SessionInv, JobInv, Job, User
    <2>7. ASSUME NEW u \in loop PROVE referrer[u] \in loop
      <3>1. PICK s \in stuck : pc[s] = "crediting" /\ u = User(s)
        OBVIOUS
      <3>2. referrer[u] = job[s].friend /\ job[s].friend \in Users
        BY <2>0, <3>1 DEF SessionInv, JobInv
      <3>3. accountLock[job[s].friend] = Blocker(s) /\ Blocker(s) \in stuck
        BY <3>1 DEF Blocker
      <3>4. pc[Blocker(s)] = "crediting" /\ job[s].friend = User(Blocker(s))
        BY <2>4, <3>2, <3>3
      <3> QED BY <3>2, <3>3, <3>4
    <2> QED BY <2>0, <2>5, <2>6, <2>7 DEF NoReferralLoop
  <1> QED BY <1>1, IInvInvariant, PTL
============================================================================
