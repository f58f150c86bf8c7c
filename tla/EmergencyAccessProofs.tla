----------------------- MODULE EmergencyAccessProofs -----------------------
(***************************************************************************)
(* Proofs about EmergencyAccess, for any number of users, updates handled  *)
(* at once, attempts and starts of the bot: the row lock of the user makes *)
(* the decisions about one user's passwords follow one another, so their   *)
(* failures stay below the limit, they hold one active session at most,    *)
(* refusals are recorded once, and an emergency grant is a recent success. *)
(***************************************************************************)
EXTENDS EmergencyAccess, TLAPS, FiniteSetTheorems, WellFoundedInduction

\* Between LockUser and the commit a login holds its user's row.
Deciding == {"locked", "hashing", "decided"}

Under(u, since) == Cardinality(FailuresSince(u, since)) < MaxFailed

RefusalsFollowed(u) ==
  \A i \in AttemptsOf(u) : attempts[i].outcome = "locked_out" =>
    \E m \in AttemptsOf(u) : i < m /\ attempts[m].outcome # "locked_out"

\* The attempt a login is about to record fits what is on record.
AttemptSound(t) == draft[t].attempt # None =>
  /\ draft[t].attempt.user = User(t)
  /\ draft[t].attempt.at <= now
  /\ \A i \in AttemptsOf(User(t)) : attempts[i].at <= draft[t].attempt.at
  /\ draft[t].attempt.outcome = "failed" => Under(User(t), draft[t].attempt.at - Lockout)
  /\ draft[t].attempt.outcome = "locked_out" => RefusalsFollowed(User(t))

\* The session it is about to open comes with its attempt and ends all others.
SessionSound(t) == draft[t].opened # None =>
  /\ draft[t].attempt # None
  /\ draft[t].attempt.outcome = "succeeded"
  /\ draft[t].attempt.at = draft[t].opened.createdAt
  /\ draft[t].opened.user = User(t)
  /\ draft[t].opened.expiresAt = draft[t].opened.createdAt + Ttl
  /\ ActiveOf(User(t)) \subseteq draft[t].revoked

\* An admin update that acts on an emergency grant.
GrantSound(t) ==
  pc[t] = "acting" /\ User(t) \notin Admins =>
    /\ switch[job[t].instance]
    /\ job[t].session \in DOMAIN sessions
    /\ sessions[job[t].session].user = User(t)
    /\ sessions[job[t].session].createdAt <= job[t].at
    /\ job[t].at < sessions[job[t].session].createdAt + Ttl

TaskInv(t) ==
  /\ pc[t] # "idle" => job[t] \in Job /\ job[t].instance <= Len(switch)
  /\ pc[t] \in Deciding => rowLock[User(t)] = t
  /\ pc[t] # "decided" => draft[t] = Nothing
  /\ pc[t] = "hashing" => Under(User(t), now - Lockout)
  /\ pc[t] = "decided" => AttemptSound(t) /\ SessionSound(t)
  /\ GrantSound(t)

AttemptsPast == \A i \in DOMAIN attempts : attempts[i].at <= now

SessionsOnRecord ==
  \A id \in DOMAIN sessions :
    /\ sessions[id].expiresAt = sessions[id].createdAt + Ttl
    /\ \E i \in AttemptsOf(sessions[id].user) :
         attempts[i].outcome = "succeeded" /\ attempts[i].at = sessions[id].createdAt

\* The inductive invariant.
IInv ==
  /\ TypeOK
  /\ \A t \in Tasks : TaskInv(t)
  /\ AttemptsPast /\ SessionsOnRecord
  /\ OneActiveSession /\ RefusalsNotRepeated /\ FailuresBounded

----------------------------------------------------------------------------
\* Whatever the update of a task makes it do.
Acts(t) ==
  \/ \E u \in Askers, touches \in BOOLEAN : OfferPassword(t, u, touches)
  \/ \E u \in Users : SendAdminUpdate(t, u)
  \/ Login(t) \/ ResolveGrant(t) \/ Act(t)

LEMMA NextCases ==
  ASSUME Next
  PROVE  Tick \/ Boot \/ \E t \in Tasks : Acts(t)
BY DEF Next, Acts

\* A transaction that ends gives back its own locks and nobody else's.
LEMMA ReleaseEffect ==
  ASSUME TypeOK, NEW t \in Tasks, Release(t)
  PROVE  /\ rowLock' \in [Users -> Tasks \cup {None}]
         /\ keyedLock' \in [Instances \X Users -> Tasks \cup {None}]
         /\ draft' \in [Tasks -> Draft]
         /\ draft'[t] = Nothing
         /\ \A s \in Tasks \ {t} :
              /\ draft'[s] = draft[s]
              /\ \A u \in Users : rowLock[u] = s => rowLock'[u] = s
<1>1. Nothing \in Draft
  BY DEF Nothing, Draft
<1>2. \A s \in Tasks \ {t}, u \in Users : rowLock[u] = s => rowLock'[u] = s
  BY DEF Release
<1>3. /\ rowLock' \in [Users -> Tasks \cup {None}]
      /\ keyedLock' \in [Instances \X Users -> Tasks \cup {None}]
  BY DEF Release, TypeOK
<1> QED BY <1>1, <1>2, <1>3 DEF Release, TypeOK

\* What a revocation leaves of the sessions on record.
LEMMA RevokeEffect ==
  ASSUME TypeOK, NEW ids, NEW at \in Nat
  PROVE  /\ Revoke(ids, at) \in Seq(AccessSession)
         /\ Len(Revoke(ids, at)) = Len(sessions)
         /\ \A id \in DOMAIN sessions :
              /\ Revoke(ids, at)[id].user = sessions[id].user
              /\ Revoke(ids, at)[id].createdAt = sessions[id].createdAt
              /\ Revoke(ids, at)[id].expiresAt = sessions[id].expiresAt
              /\ Revoke(ids, at)[id].revokedAt = None =>
                   sessions[id].revokedAt = None /\ id \notin ids
<1>1. sessions \in Seq(AccessSession) /\ DOMAIN sessions = 1..Len(sessions) /\ Len(sessions) \in Nat
  BY DEF TypeOK
<1>2. \A id \in 1..Len(sessions) : sessions[id] \in AccessSession
  BY <1>1
<1>3. \A id \in 1..Len(sessions) : Revoke(ids, at)[id] \in AccessSession
  BY <1>1, <1>2 DEF Revoke, AccessSession
<1>4. Revoke(ids, at) \in [1..Len(sessions) -> AccessSession]
  BY <1>1, <1>3 DEF Revoke
<1>5. Revoke(ids, at) \in Seq(AccessSession) /\ Len(Revoke(ids, at)) = Len(sessions)
  BY <1>1, <1>4
<1>6. None \notin Nat
  BY EmergencyAssumption
<1> QED BY <1>1, <1>2, <1>5, <1>6 DEF Revoke, AccessSession

\* Where a login can be, it has been sent by somebody.
LEMMA JobOf ==
  ASSUME IInv, NEW t \in Tasks, pc[t] # "idle"
  PROVE  job[t] \in Job /\ User(t) \in Users
BY DEF IInv, TaskInv, User, Job

\* What is recorded of an attempt is a row.
LEMMA RecordedType ==
  ASSUME TypeOK, NEW t \in Tasks, User(t) \in Users, NEW outcome \in Outcomes
  PROVE  Recorded(t, outcome) \in Attempt
BY DEF Recorded, Attempt, TypeOK

----------------------------------------------------------------------------
\* What a task does is not done to the others, to the clock or to the switch.
LEMMA OthersUntouched ==
  ASSUME TypeOK, NEW t \in Tasks, Acts(t), NEW s \in Tasks, s # t
  PROVE  /\ pc'[s] = pc[s] /\ job'[s] = job[s] /\ draft'[s] = draft[s]
         /\ \A u \in Users : rowLock[u] = s => rowLock'[u] = s
<1> USE DEF Go, Leave
<1>1. CASE CommitLogin(t) \/ Abort(t)
  BY <1>1, ReleaseEffect DEF CommitLogin, Abort, TypeOK
<1>2. CASE EnsureUser(t) \/ LockUser(t)
  BY <1>2, EmergencyAssumption DEF EnsureUser, LockUser, Acquire, TypeOK, db, boot
<1>3. CASE RefuseLockedOut(t) \/ RefuseEmpty(t) \/ WrongPassword(t) \/ RightPassword(t)
  BY <1>3 DEF RefuseLockedOut, RefuseEmpty, WrongPassword, RightPassword, TypeOK, locks
<1>4. CASE Discard(t) \/ EnterKeyedLock(t) \/ StartHash(t) \/ Answer(t) \/ ResolveGrant(t) \/ Act(t)
  BY <1>4 DEF Discard, EnterKeyedLock, StartHash, Answer, ResolveGrant, Act, TypeOK, locks
<1>5. CASE \E u \in Askers, touches \in BOOLEAN : OfferPassword(t, u, touches)
  BY <1>5 DEF OfferPassword, Send, TypeOK, locks
<1>6. CASE \E u \in Users : SendAdminUpdate(t, u)
  BY <1>6 DEF SendAdminUpdate, Send, TypeOK, locks
<1> QED BY <1>1, <1>2, <1>3, <1>4, <1>5, <1>6 DEF Acts, Login

LEMMA NoTimePasses ==
  ASSUME NEW t \in Tasks, Acts(t)
  PROVE  UNCHANGED <<now, switch, reconciling>>
<1>1. CASE Login(t)
  BY <1>1 DEF Login, EnsureUser, Discard, EnterKeyedLock, LockUser, RefuseLockedOut, RefuseEmpty,
              StartHash, WrongPassword, RightPassword, CommitLogin, Answer, Abort, boot
<1>2. CASE ~Login(t)
  BY <1>2 DEF Acts, OfferPassword, SendAdminUpdate, ResolveGrant, Act, boot
<1> QED BY <1>1, <1>2

LEMMA OnlyCommitWrites ==
  ASSUME NEW t \in Tasks, Acts(t), ~CommitLogin(t)
  PROVE  UNCHANGED <<attempts, sessions>>
<1>1. CASE Login(t)
  BY <1>1 DEF Login, EnsureUser, Discard, EnterKeyedLock, LockUser, RefuseLockedOut, RefuseEmpty,
              StartHash, WrongPassword, RightPassword, Answer, Abort, db
<1>2. CASE ~Login(t)
  BY <1>2 DEF Acts, OfferPassword, SendAdminUpdate, ResolveGrant, Act, db
<1> QED BY <1>1, <1>2

\* A commit adds the attempt of its draft, if there is one.
LEMMA CommittedAttempts ==
  ASSUME TypeOK, NEW t \in Tasks, CommitLogin(t)
  PROVE  /\ attempts' \in Seq(Attempt)
         /\ DOMAIN attempts \subseteq DOMAIN attempts'
         /\ \A i \in DOMAIN attempts : attempts'[i] = attempts[i]
         /\ draft[t].attempt = None => DOMAIN attempts' = DOMAIN attempts
         /\ draft[t].attempt # None =>
              /\ DOMAIN attempts' = DOMAIN attempts \cup {Len(attempts) + 1}
              /\ attempts'[Len(attempts) + 1] = draft[t].attempt
<1>1. attempts \in Seq(Attempt) /\ draft[t].attempt \in Attempt \cup {None}
  BY DEF TypeOK, Draft
<1>2. attempts' = IF draft[t].attempt = None THEN attempts
                  ELSE Append(attempts, draft[t].attempt)
  BY DEF CommitLogin, Add
<1> QED BY <1>1, <1>2

\* It adds the session of its draft, if there is one, and revokes others.
LEMMA CommittedSessions ==
  ASSUME TypeOK, NEW t \in Tasks, CommitLogin(t)
  PROVE  /\ sessions' \in Seq(AccessSession)
         /\ DOMAIN sessions \subseteq DOMAIN sessions'
         /\ \A id \in DOMAIN sessions :
              /\ sessions'[id].user = sessions[id].user
              /\ sessions'[id].createdAt = sessions[id].createdAt
              /\ sessions'[id].expiresAt = sessions[id].expiresAt
              /\ sessions'[id].revokedAt = None =>
                   sessions[id].revokedAt = None /\ id \notin draft[t].revoked
         /\ draft[t].opened = None => DOMAIN sessions' = DOMAIN sessions
         /\ draft[t].opened # None =>
              /\ DOMAIN sessions' = DOMAIN sessions \cup {Len(sessions) + 1}
              /\ sessions'[Len(sessions) + 1] = draft[t].opened
<1> DEFINE kept == Revoke(draft[t].revoked, draft[t].at)
<1>1. draft[t] \in Draft /\ draft[t].at \in Nat /\ draft[t].opened \in AccessSession \cup {None}
  BY DEF TypeOK, Draft
<1>2. /\ kept \in Seq(AccessSession) /\ Len(kept) = Len(sessions)
      /\ \A id \in DOMAIN sessions :
           /\ kept[id].user = sessions[id].user
           /\ kept[id].createdAt = sessions[id].createdAt
           /\ kept[id].expiresAt = sessions[id].expiresAt
           /\ kept[id].revokedAt = None =>
                sessions[id].revokedAt = None /\ id \notin draft[t].revoked
  BY <1>1, RevokeEffect
<1>3. sessions' = IF draft[t].opened = None THEN kept ELSE Append(kept, draft[t].opened)
  BY DEF CommitLogin, Add
<1>4. DOMAIN kept = 1..Len(kept) /\ DOMAIN sessions = 1..Len(sessions) /\ Len(sessions) \in Nat
  BY <1>2 DEF TypeOK
<1> HIDE DEF kept
<1>5. CASE draft[t].opened = None
  BY <1>2, <1>3, <1>4, <1>5
<1>6. CASE draft[t].opened # None
  <2>1. /\ sessions' \in Seq(AccessSession) /\ Len(sessions') = Len(sessions) + 1
        /\ \A id \in 1..Len(sessions) : sessions'[id] = kept[id]
        /\ sessions'[Len(sessions) + 1] = draft[t].opened
    BY <1>1, <1>2, <1>3, <1>6
  <2>2. DOMAIN sessions' = DOMAIN sessions \cup {Len(sessions) + 1}
    BY <1>4, <2>1
  <2> QED BY <1>2, <1>4, <1>6, <2>1, <2>2
<1> QED BY <1>5, <1>6

----------------------------------------------------------------------------
\* Tables, locks and tasks stay of their kinds.
LEMMA TypeStep ==
  ASSUME IInv, NEW t \in Tasks, Acts(t)
  PROVE  TypeOK'
<1>1. TypeOK
  BY DEF IInv
<1>2. UNCHANGED <<now, switch, reconciling>>
  BY NoTimePasses
<1>3. attempts' \in Seq(Attempt) /\ sessions' \in Seq(AccessSession)
  BY <1>1, OnlyCommitWrites, CommittedAttempts, CommittedSessions DEF TypeOK
<1>4. /\ rowLock' \in [Users -> Tasks \cup {None}]
      /\ keyedLock' \in [Instances \X Users -> Tasks \cup {None}]
  <2>1. CASE CommitLogin(t) \/ Abort(t)
    BY <1>1, <2>1, ReleaseEffect DEF CommitLogin, Abort
  <2>2. CASE EnsureUser(t) \/ LockUser(t)
    BY <1>1, <2>2 DEF EnsureUser, LockUser, Acquire, TypeOK
  <2>3. CASE EnterKeyedLock(t)
    BY <1>1, <2>3 DEF EnterKeyedLock, TypeOK
  <2>4. CASE UNCHANGED locks
    BY <1>1, <2>4 DEF locks, TypeOK
  <2> QED BY <2>1, <2>2, <2>3, <2>4 DEF Acts, Login, Discard, RefuseLockedOut, RefuseEmpty,
        StartHash, WrongPassword, RightPassword, Answer, OfferPassword, SendAdminUpdate,
        ResolveGrant, Act
<1>5. draft' \in [Tasks -> Draft]
  <2>1. CASE CommitLogin(t) \/ Abort(t)
    BY <1>1, <2>1, ReleaseEffect DEF CommitLogin, Abort
  <2>2. CASE RefuseLockedOut(t) \/ RefuseEmpty(t) \/ WrongPassword(t)
    <3>1. Recorded(t, "locked_out") \in Attempt /\ Recorded(t, "failed") \in Attempt
      BY <1>1, <2>2, JobOf, RecordedType
         DEF Outcomes, RefuseLockedOut, RefuseEmpty, WrongPassword
    <3>2. \E a \in Attempt \cup {None} : draft' = [draft EXCEPT ![t].attempt = a]
      BY <2>2, <3>1 DEF RefuseLockedOut, RefuseEmpty, WrongPassword
    <3> QED BY <1>1, <3>2 DEF TypeOK, Draft
  <2>3. CASE RightPassword(t)
    <3>1. Recorded(t, "succeeded") \in Attempt /\ User(t) \in Users
      BY <1>1, <2>3, JobOf, RecordedType DEF Outcomes, RightPassword
    <3>2. [user |-> User(t), createdAt |-> now, expiresAt |-> now + Ttl, revokedAt |-> None]
            \in AccessSession
      BY <1>1, <3>1, EmergencyAssumption DEF AccessSession, TypeOK
    <3>3. ActiveOf(User(t)) \in SUBSET Nat /\ now \in Nat
      BY <1>1 DEF ActiveOf, TypeOK
    <3> QED BY <1>1, <2>3, <3>1, <3>2, <3>3 DEF RightPassword, TypeOK, Draft
  <2>4. CASE UNCHANGED draft
    BY <1>1, <2>4 DEF TypeOK
  <2> QED BY <2>1, <2>2, <2>3, <2>4 DEF Acts, Login, EnsureUser, Discard, EnterKeyedLock,
        LockUser, StartHash, Answer, OfferPassword, SendAdminUpdate, ResolveGrant, Act
<1>6. pc' \in [Tasks -> Phases]
  <2>1. \E phase \in Phases : Go(t, phase)
    BY DEF Acts, Login, EnsureUser, Discard, EnterKeyedLock, LockUser, RefuseLockedOut,
           RefuseEmpty, StartHash, WrongPassword, RightPassword, CommitLogin, Answer, Abort,
           OfferPassword, SendAdminUpdate, ResolveGrant, Act, Leave, Phases
  <2> QED BY <1>1, <2>1 DEF Go, TypeOK
<1>7. job' \in [Tasks -> Job \cup {None}]
  <2>1. CASE \/ \E u \in Askers, touches \in BOOLEAN : OfferPassword(t, u, touches)
             \/ \E u \in Users : SendAdminUpdate(t, u)
    <3>1. \E u \in Users, touches \in BOOLEAN, kind \in {"login", "admin"} :
            job' = [job EXCEPT ![t] = [user |-> u, instance |-> Len(switch),
                      touches |-> touches, kind |-> kind, session |-> 0, at |-> 0]]
      BY <2>1, EmergencyAssumption DEF OfferPassword, SendAdminUpdate, Send
    <3>2. \A u \in Users, touches \in BOOLEAN, kind \in {"login", "admin"} :
            [user |-> u, instance |-> Len(switch), touches |-> touches, kind |-> kind,
             session |-> 0, at |-> 0] \in Job
      BY <1>1 DEF Job, TypeOK
    <3>3. \E j \in Job : job' = [job EXCEPT ![t] = j]
      BY <3>1, <3>2, Zenon
    <3> QED BY <1>1, <3>3 DEF TypeOK
  <2>2. CASE ResolveGrant(t)
    <3>1. job[t] \in Job /\ now \in Nat /\ ActiveOf(User(t)) \subseteq Nat
      BY <1>1, <2>2, JobOf DEF ResolveGrant, TypeOK, ActiveOf
    <3>2. \A id, at \in Nat : [job[t] EXCEPT !.session = id, !.at = at] \in Job
      BY <3>1 DEF Job
    <3>3. \/ UNCHANGED job \/ Leave(t)
          \/ \E id \in Nat : job' = [job EXCEPT ![t] = [job[t] EXCEPT !.session = id, !.at = now]]
      BY <1>1, <2>2, <3>1 DEF ResolveGrant, TypeOK
    <3>4. Leave(t) \/ \E j \in Job : job' = [job EXCEPT ![t] = j]
      <4>1. CASE UNCHANGED job
        <5>1. job' = [job EXCEPT ![t] = job[t]]
          BY <1>1, <4>1 DEF TypeOK
        <5> QED BY <3>1, <5>1
      <4>2. CASE \E id \in Nat :
                   job' = [job EXCEPT ![t] = [job[t] EXCEPT !.session = id, !.at = now]]
        BY <3>1, <3>2, <4>2, Zenon
      <4> QED BY <3>3, <4>1, <4>2
    <3> QED BY <1>1, <3>4 DEF Leave, TypeOK
  <2>3. CASE \/ UNCHANGED job
             \/ Leave(t)
    BY <1>1, <2>3 DEF Leave, TypeOK
  <2> QED BY <2>1, <2>2, <2>3 DEF Acts, Login, EnsureUser, Discard, EnterKeyedLock, LockUser,
        RefuseLockedOut, RefuseEmpty, StartHash, WrongPassword, RightPassword, CommitLogin,
        Answer, Abort, Act
<1> QED BY <1>1, <1>2, <1>3, <1>4, <1>5, <1>6, <1>7 DEF TypeOK

----------------------------------------------------------------------------
\* The rows of one user stay as they are, but for sessions that end.
Undisturbed(u) ==
  /\ AttemptsOf(u)' = AttemptsOf(u)
  /\ \A i \in AttemptsOf(u) : attempts'[i] = attempts[i]
  /\ ActiveOf(u)' \subseteq ActiveOf(u)

LEMMA FailuresFinite ==
  ASSUME TypeOK, NEW u, NEW since
  PROVE  /\ FailuresSince(u, since) \subseteq DOMAIN attempts
         /\ IsFiniteSet(FailuresSince(u, since))
         /\ Cardinality(FailuresSince(u, since)) \in Nat
<1>1. DOMAIN attempts = 1..Len(attempts) /\ Len(attempts) \in Nat
  BY DEF TypeOK
<1>2. IsFiniteSet(DOMAIN attempts)
  BY <1>1, FS_Interval
<1> QED BY <1>2, FS_Subset, FS_CardinalityType DEF FailuresSince

LEMMA FewerCount ==
  ASSUME NEW B, IsFiniteSet(B), NEW A, A \subseteq B, Cardinality(B) < MaxFailed
  PROVE  Cardinality(A) < MaxFailed
<1>1. Cardinality(A) \in Nat /\ Cardinality(B) \in Nat /\ Cardinality(A) <= Cardinality(B)
  BY FS_Subset, FS_CardinalityType
<1> QED BY <1>1, EmergencyAssumption

LEMMA AttemptRows ==
  ASSUME TypeOK, NEW i \in DOMAIN attempts
  PROVE  /\ attempts[i] \in Attempt /\ attempts[i].at \in Nat
         /\ attempts[i].user \in Users /\ i \in Nat
<1>1. attempts[i] \in Attempt /\ i \in Nat
  BY DEF TypeOK
<1> QED BY <1>1 DEF Attempt

LEMMA Transitive ==
  ASSUME NEW i \in Int, NEW k \in Int, NEW m \in Int, i <= k, k <= m
  PROVE  i <= m
OBVIOUS

\* As time passes fewer failures count, unless the user fails again.
LEMMA UnderKept ==
  ASSUME TypeOK, NEW u, NEW since \in Int, NEW later \in Int, since <= later,
         AttemptsOf(u)' = AttemptsOf(u), \A i \in AttemptsOf(u) : attempts'[i] = attempts[i],
         Under(u, since)
  PROVE  Under(u, later)'
<1>1. \A i \in DOMAIN attempts : attempts[i].at \in Nat
  BY AttemptRows
<1>2. \A at \in Nat : at >= later => at >= since
  BY Transitive
<1>3. FailuresSince(u, later)' \subseteq FailuresSince(u, since)
  BY <1>1, <1>2 DEF FailuresSince, AttemptsOf
<1> QED BY <1>3, FailuresFinite, FewerCount DEF Under

LEMMA LaterWindow ==
  ASSUME NEW n \in Nat, NEW m \in Nat, n <= m
  PROVE  n - Lockout \in Int /\ m - Lockout \in Int /\ n - Lockout <= m - Lockout
<1>1. Lockout \in Nat
  BY EmergencyAssumption
<1> QED BY <1>1

LEMMA UnderLater ==
  ASSUME TypeOK, NEW u, TypeOK', now <= now',
         AttemptsOf(u)' = AttemptsOf(u), \A i \in AttemptsOf(u) : attempts'[i] = attempts[i],
         Under(u, now - Lockout)
  PROVE  Under(u, now - Lockout)'
<1>1. PICK n \in Nat, m \in Nat : n = now /\ m = now'
  BY DEF TypeOK
<1>2. n <= m
  BY <1>1
<1>3. Under(u, n - Lockout)
  BY <1>1
<1>4. Under(u, m - Lockout)'
  BY <1>2, <1>3, LaterWindow, UnderKept
<1> QED BY <1>1, <1>4 DEF Under, FailuresSince

\* The sessions on record keep whose they are and when they were opened.
SessionsKept ==
  /\ DOMAIN sessions \subseteq DOMAIN sessions'
  /\ \A id \in DOMAIN sessions :
       /\ sessions'[id].user = sessions[id].user
       /\ sessions'[id].createdAt = sessions[id].createdAt
       /\ sessions'[id].expiresAt = sessions[id].expiresAt

\* A task that does not move, while time, starts and other users' rows may.
LEMMA TaskKept ==
  ASSUME IInv, TypeOK', NEW s \in Tasks,
         pc'[s] = pc[s], job'[s] = job[s], draft'[s] = draft[s],
         \A u \in Users : rowLock[u] = s => rowLock'[u] = s,
         now <= now', Len(switch) <= Len(switch'),
         \A i \in 1..Len(switch) : switch'[i] = switch[i],
         SessionsKept,
         pc[s] \in Deciding => \A u : u = User(s) => Undisturbed(u)
  PROVE  TaskInv(s)'
<1>1. TaskInv(s) /\ TypeOK /\ User(s)' = User(s)
  BY DEF IInv, User
<1>2. (pc[s] # "idle" => job[s] \in Job /\ job[s].instance <= Len(switch))'
  BY <1>1 DEF TaskInv, Job, Instances, TypeOK
<1>3. (pc[s] \in Deciding => rowLock[User(s)] = s)'
  BY <1>1, JobOf DEF TaskInv, Deciding
<1>4. (pc[s] = "hashing" => Under(User(s), now - Lockout))'
  <2>1. CASE pc[s] = "hashing"
    <3>1. \A u : u = User(s) => Under(u, now - Lockout) /\ Undisturbed(u)
      BY <1>1, <2>1 DEF TaskInv, Deciding
    <3>2. \A u : u = User(s) => Under(u, now - Lockout)'
      BY <1>1, <3>1, UnderLater DEF Undisturbed
    <3> QED BY <1>1, <3>2
  <2> QED BY <2>1
<1>5. (pc[s] = "decided" => AttemptSound(s))'
  <2> SUFFICES ASSUME pc[s] = "decided", draft[s].attempt # None
               PROVE  AttemptSound(s)'
    BY DEF AttemptSound
  <2>1. PICK u : u = User(s)
    OBVIOUS
  <2>2. AttemptSound(s) /\ Undisturbed(u) /\ User(s)' = u /\ draft[s].attempt \in Attempt
    BY <1>1, <2>1 DEF TaskInv, Deciding, TypeOK, Draft
  <2>3. draft[s].attempt.at \in Nat /\ now \in Nat /\ now' \in Nat
    BY <1>1, <2>2 DEF Attempt, TypeOK
  <2>4. PICK since \in Int : since = draft[s].attempt.at - Lockout
    BY <2>3, EmergencyAssumption
  <2>5. draft[s].attempt.outcome = "failed" => Under(u, since)'
    BY <1>1, <2>1, <2>2, <2>4, UnderKept DEF AttemptSound, Undisturbed
  <2>6. draft[s].attempt.outcome = "locked_out" => RefusalsFollowed(u)'
    BY <2>1, <2>2 DEF AttemptSound, Undisturbed, RefusalsFollowed
  <2>7. draft[s].attempt.at <= now'
    BY <2>2, <2>3, Transitive DEF AttemptSound
  <2> QED BY <2>1, <2>2, <2>4, <2>5, <2>6, <2>7 DEF AttemptSound, Undisturbed
<1>6. (pc[s] = "decided" => SessionSound(s))'
  <2>1. PICK u : u = User(s)
    OBVIOUS
  <2> QED BY <1>1, <2>1 DEF TaskInv, SessionSound, Undisturbed, Deciding
<1>7. GrantSound(s)'
  <2> SUFFICES ASSUME pc[s] = "acting", User(s) \notin Admins
               PROVE  GrantSound(s)'
    BY <1>1 DEF GrantSound
  <2>1. job[s].instance \in 1..Len(switch)
    BY <1>1 DEF TaskInv, Job, Instances, TypeOK
  <2> QED BY <1>1, <2>1 DEF TaskInv, GrantSound, SessionsKept
<1> QED BY <1>1, <1>2, <1>3, <1>4, <1>5, <1>6, <1>7 DEF TaskInv

----------------------------------------------------------------------------
LEMMA GreatestExists ==
  ASSUME NEW S \in SUBSET Nat, S # {}, NEW n \in Nat, \A x \in S : x <= n
  PROVE  \E m \in S : \A x \in S : x <= m
<1> DEFINE T == {n - x : x \in S}
<1>1. T \subseteq Nat /\ T # {}
  <2>1. \A x \in S : n - x \in Nat
    OBVIOUS
  <2> QED BY <2>1
<1>2. \E y \in T : \A z \in T : <<z, y>> \notin OpToRel(<, Nat)
  BY <1>1, NatLessThanWellFounded, WFMin, Zenon
<1>3. PICK y \in T : \A z \in T : ~(z < y)
  BY <1>1, <1>2 DEF OpToRel
<1>4. PICK m \in S : y = n - m
  BY <1>3
<1>5. \A x \in S : n - x \in T
  OBVIOUS
<1>6. \A x \in S : ~(n - x < n - m)
  BY <1>3, <1>4, <1>5
<1>7. ASSUME NEW x \in S PROVE x <= m
  <2>1. x \in Nat /\ m \in Nat /\ ~(n - x < n - m)
    BY <1>6
  <2> QED BY <2>1
<1> QED BY <1>7

\* With a refusal on record none is added before another password is checked.
LEMMA RefusedOnce ==
  ASSUME TypeOK, NEW u,
         \A i \in AttemptsOf(u) : IsLatest(i, u) => attempts[i].outcome # "locked_out"
  PROVE  RefusalsFollowed(u)
<1> SUFFICES ASSUME NEW i \in AttemptsOf(u), attempts[i].outcome = "locked_out"
             PROVE  \E m \in AttemptsOf(u) : i < m /\ attempts[m].outcome # "locked_out"
  BY DEF RefusalsFollowed
<1>1. AttemptsOf(u) \in SUBSET Nat /\ Len(attempts) \in Nat
      /\ \A k \in AttemptsOf(u) : k <= Len(attempts)
  BY DEF TypeOK, AttemptsOf
<1>2. PICK m \in AttemptsOf(u) : \A k \in AttemptsOf(u) : k <= m
  BY <1>1, GreatestExists
<1>3. attempts[m].outcome # "locked_out" /\ i <= m /\ i # m
  BY <1>2 DEF IsLatest
<1>4. i < m
  BY <1>1, <1>2, <1>3
<1> QED BY <1>2, <1>3, <1>4

\* What a new row of one user leaves of another's.
LEMMA CommitUndisturbed ==
  ASSUME IInv, NEW t \in Tasks, CommitLogin(t), NEW u, u # User(t)
  PROVE  Undisturbed(u)
<1>1. TypeOK /\ AttemptSound(t) /\ SessionSound(t) /\ UNCHANGED now
  BY DEF IInv, TaskInv, CommitLogin
<1>2. AttemptsOf(u)' = AttemptsOf(u) /\ \A i \in AttemptsOf(u) : attempts'[i] = attempts[i]
  BY <1>1, CommittedAttempts DEF AttemptSound, AttemptsOf
<1>3. ActiveOf(u)' \subseteq ActiveOf(u)
  BY <1>1, CommittedSessions DEF SessionSound, ActiveOf, Active
<1> QED BY <1>2, <1>3 DEF Undisturbed

LEMMA OthersKept ==
  ASSUME IInv, TypeOK', NEW t \in Tasks, Acts(t), NEW s \in Tasks, s # t
  PROVE  TaskInv(s)'
<1>1. TypeOK /\ now <= now' /\ switch' = switch /\ now' = now
  BY NoTimePasses DEF IInv, TypeOK
<1>2. SessionsKept
  BY <1>1, OnlyCommitWrites, CommittedSessions DEF SessionsKept
<1>3. ASSUME pc[s] \in Deciding, NEW u, u = User(s)
      PROVE  Undisturbed(u)
  <2>1. CASE CommitLogin(t)
    <3>1. rowLock[User(t)] = t /\ rowLock[User(s)] = s
      BY <1>3, <2>1 DEF IInv, TaskInv, Deciding, CommitLogin
    <3> QED BY <1>3, <2>1, <3>1, CommitUndisturbed
  <2>2. CASE ~CommitLogin(t)
    <3>1. UNCHANGED <<attempts, sessions, now>>
      BY <1>1, <2>2, OnlyCommitWrites
    <3> QED BY <3>1 DEF Undisturbed, AttemptsOf, ActiveOf, Active
  <2> QED BY <2>1, <2>2
<1>4. Len(switch) <= Len(switch')
  BY <1>1 DEF TypeOK
<1> QED BY <1>1, <1>2, <1>3, <1>4, OthersUntouched, TaskKept

----------------------------------------------------------------------------
\* A task on its own way: its lock, its draft and what it has read.
LEMMA DraftEmpty ==
  ASSUME IInv, NEW t \in Tasks, pc[t] # "decided"
  PROVE  draft[t].attempt = None /\ draft[t].opened = None /\ draft[t] = Nothing
<1>1. draft[t] = Nothing
  BY DEF IInv, TaskInv
<1> QED BY <1>1 DEF Nothing

\* Away from the row lock, with nothing written, nothing is claimed.
LEMMA QuietTask ==
  ASSUME TypeOK', NEW t \in Tasks,
         pc'[t] \notin Deciding \cup {"acting"}, draft'[t] = Nothing,
         pc'[t] # "idle" => job'[t] \in Job /\ job'[t].instance <= Len(switch')
  PROVE  TaskInv(t)'
BY DEF TaskInv, GrantSound, Deciding

LEMMA SentJob ==
  ASSUME IInv, NEW t \in Tasks, NEW u \in Users, NEW touches \in BOOLEAN,
         NEW kind \in {"login", "admin"}, Send(t, u, touches, kind)
  PROVE  job'[t] \in Job /\ job'[t].instance = Len(switch)
<1>1. [user |-> u, instance |-> Len(switch), touches |-> touches, kind |-> kind,
       session |-> 0, at |-> 0] \in Job
  BY DEF IInv, TypeOK, Job
<1> QED BY <1>1 DEF Send, IInv, TypeOK

\* A decision is recorded now, after everything on record of the user.
LEMMA DecisionSound ==
  ASSUME IInv, TypeOK', NEW t \in Tasks, NEW outcome \in Outcomes,
         pc[t] # "idle", pc'[t] = "decided", UNCHANGED <<now, switch, attempts, job>>,
         draft'[t].attempt \in {None, Recorded(t, outcome)},
         draft'[t].attempt # None /\ outcome = "failed" => Under(User(t), now - Lockout),
         draft'[t].attempt # None /\ outcome = "locked_out" => RefusalsFollowed(User(t))
  PROVE  AttemptSound(t)'
<1> SUFFICES ASSUME draft'[t].attempt # None
             PROVE  AttemptSound(t)'
  BY DEF AttemptSound
<1>1. /\ draft'[t].attempt.user = User(t) /\ draft'[t].attempt.outcome = outcome
      /\ draft'[t].attempt.at = now
  BY DEF Recorded
<1>2. User(t)' = User(t)
  BY DEF User
<1>3. \A i \in AttemptsOf(User(t)) : attempts[i].at <= now
  BY DEF IInv, AttemptsPast, AttemptsOf
<1>4. now <= now /\ now' = now
  BY DEF IInv, TypeOK
<1> QED BY <1>1, <1>2, <1>3, <1>4 DEF AttemptSound, Under, FailuresSince, RefusalsFollowed, AttemptsOf

LEMMA NotLockedOut ==
  ASSUME IInv, NEW u, ~LockedOut(u)
  PROVE  Under(u, now - Lockout)
<1>1. PICK n \in Nat : n = Cardinality(FailuresSince(u, now - Lockout))
  BY FailuresFinite DEF IInv
<1>2. ~(n >= MaxFailed)
  BY <1>1 DEF LockedOut
<1>3. n < MaxFailed
  BY <1>2, EmergencyAssumption
<1> QED BY <1>1, <1>3 DEF Under

\* An active session began and has not run out.
LEMMA SessionTimes ==
  ASSUME IInv, NEW u, NEW id \in ActiveOf(u)
  PROVE  /\ id \in DOMAIN sessions /\ sessions[id].user = u
         /\ sessions[id].createdAt <= now /\ now < sessions[id].createdAt + Ttl
<1>1. id \in DOMAIN sessions /\ sessions[id].user = u /\ sessions[id].expiresAt > now
  BY DEF ActiveOf, Active
<1>2. PICK i \in AttemptsOf(u) : attempts[i].at = sessions[id].createdAt
  BY <1>1 DEF IInv, SessionsOnRecord
<1>3. sessions[id].createdAt <= now /\ sessions[id].expiresAt = sessions[id].createdAt + Ttl
  BY <1>1, <1>2 DEF IInv, AttemptsPast, SessionsOnRecord, AttemptsOf
<1>4. PICK m \in Nat, n \in Nat : m = sessions[id].createdAt + Ttl /\ n = now /\ m > n
  <2>1. sessions[id] \in AccessSession /\ now \in Nat
    BY <1>1 DEF IInv, TypeOK
  <2>2. sessions[id].expiresAt \in Nat
    BY <2>1 DEF AccessSession
  <2> QED BY <1>1, <1>3, <2>1, <2>2
<1>5. n < m
  BY <1>4
<1> QED BY <1>1, <1>3, <1>4, <1>5

LEMMA SelfKept ==
  ASSUME IInv, TypeOK', NEW t \in Tasks, Acts(t)
  PROVE  TaskInv(t)'
<1>1. /\ TypeOK /\ TaskInv(t) /\ UNCHANGED <<now, switch, reconciling>>
      /\ Len(switch) \in Nat
  BY NoTimePasses DEF IInv, TypeOK
<1> USE DEF Go
<1>2. CASE \/ \E u \in Askers, touches \in BOOLEAN : OfferPassword(t, u, touches)
           \/ \E u \in Users : SendAdminUpdate(t, u)
  <2>1. \E u \in Users, touches \in BOOLEAN, kind \in {"login", "admin"} : Send(t, u, touches, kind)
    BY <1>2, EmergencyAssumption DEF OfferPassword, SendAdminUpdate
  <2>2. job'[t] \in Job /\ job'[t].instance <= Len(switch')
    BY <1>1, <2>1, SentJob
  <2>3. /\ pc[t] = "idle" /\ pc'[t] \in {"arrived", "asking"} /\ UNCHANGED draft
    BY <1>1, <1>2 DEF OfferPassword, SendAdminUpdate, Send, TypeOK
  <2> QED BY <2>2, <2>3, DraftEmpty, QuietTask DEF Deciding
<1>3. CASE CommitLogin(t) \/ Abort(t)
  <2>1. draft'[t] = Nothing
    BY <1>1, <1>3, ReleaseEffect DEF CommitLogin, Abort
  <2>2. /\ pc'[t] \in {"telling", "idle"}
        /\ pc'[t] = "telling" => UNCHANGED job /\ pc[t] # "idle"
    BY <1>1, <1>3 DEF CommitLogin, Abort, Leave, TypeOK
  <2> QED BY <1>1, <2>1, <2>2, QuietTask DEF Deciding, TaskInv
<1>4. CASE EnsureUser(t) \/ Discard(t) \/ EnterKeyedLock(t)
  <2>1. /\ pc[t] \notin {"idle", "decided"} /\ pc'[t] \in {"discarding", "queueing", "keyed"}
        /\ UNCHANGED <<job, draft>>
    BY <1>1, <1>4 DEF EnsureUser, Discard, EnterKeyedLock, TypeOK
  <2> QED BY <1>1, <2>1, DraftEmpty, QuietTask DEF Deciding, TaskInv
<1>5. CASE Answer(t) \/ Act(t)
  <2>1. pc[t] # "decided" /\ pc'[t] = "idle" /\ UNCHANGED draft
    BY <1>1, <1>5 DEF Answer, Act, Leave, TypeOK
  <2> QED BY <2>1, DraftEmpty, QuietTask DEF Deciding
<1>6. CASE LockUser(t)
  <2>1. /\ pc[t] = "keyed" /\ pc'[t] = "locked" /\ UNCHANGED <<job, draft>>
        /\ rowLock'[User(t)] = t
    BY <1>1, <1>6, JobOf DEF LockUser, Acquire, TypeOK
  <2> QED BY <1>1, <2>1, DraftEmpty DEF TaskInv, GrantSound, User
<1>7. CASE StartHash(t)
  <2>1. /\ pc[t] = "locked" /\ pc'[t] = "hashing" /\ UNCHANGED <<job, draft, db, locks>>
        /\ Under(User(t), now - Lockout)
    BY <1>1, <1>7, NotLockedOut DEF StartHash, TypeOK
  <2>2. Under(User(t), now - Lockout)'
    BY <1>1, <2>1 DEF Under, FailuresSince, User, db
  <2> QED BY <1>1, <2>1, <2>2, DraftEmpty DEF TaskInv, GrantSound, User, Deciding, locks
<1>8. CASE RefuseLockedOut(t) \/ RefuseEmpty(t) \/ WrongPassword(t)
  <2>1. /\ pc[t] \in {"locked", "hashing"} /\ pc'[t] = "decided"
        /\ UNCHANGED <<job, locks, now, switch, attempts>>
    BY <1>1, <1>8 DEF RefuseLockedOut, RefuseEmpty, WrongPassword, TypeOK, db
  <2>2. draft'[t].opened = None
    <3>1. \E a : draft'[t] = [draft[t] EXCEPT !.attempt = a]
      BY <1>1, <1>8 DEF RefuseLockedOut, RefuseEmpty, WrongPassword, TypeOK
    <3>2. draft[t] \in Draft /\ draft[t].opened = None
      BY <1>1, <2>1, DraftEmpty DEF TypeOK
    <3> QED BY <3>1, <3>2 DEF Draft
  <2>3. AttemptSound(t)'
    <3>1. CASE RefuseLockedOut(t)
      <4>1. draft'[t].attempt \in {None, Recorded(t, "locked_out")}
        BY <1>1, <3>1 DEF RefuseLockedOut, TypeOK, Draft
      <4>2. draft'[t].attempt # None => RefusalsFollowed(User(t))
        BY <1>1, <3>1, RefusedOnce DEF RefuseLockedOut, TypeOK, Draft, IsLatest
      <4> QED BY <1>1, <2>1, <4>1, <4>2, DecisionSound DEF Outcomes
    <3>2. CASE RefuseEmpty(t) \/ WrongPassword(t)
      <4>1. draft'[t].attempt = Recorded(t, "failed")
        BY <1>1, <3>2 DEF RefuseEmpty, WrongPassword, TypeOK, Draft
      <4>2. Under(User(t), now - Lockout)
        BY <1>1, <3>2, NotLockedOut DEF RefuseEmpty, WrongPassword, TaskInv
      <4> QED BY <1>1, <2>1, <4>1, <4>2, DecisionSound DEF Outcomes
    <3> QED BY <1>8, <3>1, <3>2
  <2>4. SessionSound(t)'
    BY <2>2 DEF SessionSound
  <2> QED BY <1>1, <2>1, <2>3, <2>4 DEF TaskInv, GrantSound, User, Deciding, locks
<1>9. CASE RightPassword(t)
  <2>1. /\ pc[t] = "hashing" /\ pc'[t] = "decided"
        /\ UNCHANGED <<job, locks, now, switch, attempts, sessions>>
    BY <1>1, <1>9 DEF RightPassword, TypeOK, db
  <2>2. /\ draft'[t].attempt = Recorded(t, "succeeded")
        /\ draft'[t].opened = [user |-> User(t), createdAt |-> now, expiresAt |-> now + Ttl,
                               revokedAt |-> None]
        /\ draft'[t].revoked = ActiveOf(User(t))
    BY <1>1, <1>9 DEF RightPassword, TypeOK
  <2>3. AttemptSound(t)'
    BY <1>1, <2>1, <2>2, DecisionSound DEF Outcomes
  <2>4. draft'[t].attempt # None
    BY <1>1, <2>1, <2>2, JobOf, RecordedType, NoRowAssumption DEF Outcomes
  <2>5. SessionSound(t)'
    <3>1. /\ draft'[t].attempt.outcome = "succeeded" /\ draft'[t].attempt.at = now
      BY <2>2 DEF Recorded
    <3>2. ActiveOf(User(t))' = draft'[t].revoked /\ User(t)' = User(t)
      BY <2>1, <2>2 DEF ActiveOf, Active, User
    <3> QED BY <2>2, <2>4, <3>1, <3>2 DEF SessionSound
  <2> QED BY <1>1, <2>1, <2>3, <2>5 DEF TaskInv, GrantSound, User, Deciding, locks
<1>10. CASE ResolveGrant(t)
  <2>1. /\ pc[t] = "asking" /\ draft'[t] = Nothing /\ UNCHANGED <<db, now, switch>>
        /\ job[t] \in Job /\ job[t].instance \in 1..Len(switch)
    BY <1>1, <1>10, DraftEmpty DEF ResolveGrant, TaskInv, boot, Job, Instances, TypeOK
  <2>2. CASE pc'[t] = "idle"
    BY <1>1, <2>1, <2>2, QuietTask DEF Deciding
  <2>3. CASE pc'[t] # "idle" /\ User(t) \in Admins
    <3>1. pc'[t] = "acting" /\ job' = job
      BY <1>1, <1>10, <2>3 DEF ResolveGrant, Leave, TypeOK
    <3> QED BY <1>1, <2>1, <2>3, <3>1 DEF TaskInv, GrantSound, User, Deciding
  <2>4. CASE pc'[t] # "idle" /\ User(t) \notin Admins
    <3>1. PICK id \in ActiveOf(User(t)) : job' = [job EXCEPT ![t].session = id, ![t].at = now]
      BY <1>1, <1>10, <2>4 DEF ResolveGrant, Leave, TypeOK
    <3>2. pc'[t] = "acting" /\ switch[job[t].instance]
      BY <1>1, <1>10, <2>4 DEF ResolveGrant, Leave, TypeOK
    <3>3. job'[t] = [job[t] EXCEPT !.session = id, !.at = now]
      BY <1>1, <3>1 DEF TypeOK
    <3>4. /\ job'[t].session = id /\ job'[t].at = now /\ job'[t].user = User(t)
          /\ job'[t].instance = job[t].instance
      BY <2>1, <3>3 DEF Job, User
    <3>5. /\ id \in DOMAIN sessions /\ sessions[id].user = User(t)
          /\ sessions[id].createdAt <= now /\ now < sessions[id].createdAt + Ttl
      BY SessionTimes DEF ActiveOf
    <3>6. job'[t] \in Job
      <4>1. id \in Nat /\ now \in Nat
        BY <1>1, <3>5 DEF TypeOK
      <4> QED BY <2>1, <3>3, <4>1 DEF Job
    <3> QED BY <1>1, <2>1, <3>2, <3>4, <3>5, <3>6 DEF TaskInv, GrantSound, User, Deciding, db
  <2> QED BY <2>2, <2>3, <2>4
<1> QED BY <1>2, <1>3, <1>4, <1>5, <1>6, <1>7, <1>8, <1>9, <1>10 DEF Acts, Login

----------------------------------------------------------------------------
\* Steps that write no attempt and open no session.

LEMMA StillActive ==
  ASSUME NEW n \in Nat, NEW m \in Nat, NEW e \in Nat, n <= m, e > m
  PROVE  e > n
OBVIOUS

\* Sessions end by revocation and as time passes, and are not revived.
LEMMA ActiveShrinks ==
  ASSUME TypeOK, TypeOK', now <= now', NEW u, DOMAIN sessions' = DOMAIN sessions, SessionsKept,
         \A id \in DOMAIN sessions : sessions'[id].revokedAt = None => sessions[id].revokedAt = None
  PROVE  ActiveOf(u)' \subseteq ActiveOf(u)
<1>1. now \in Nat /\ now' \in Nat
  BY DEF TypeOK
<1>2. \A id \in DOMAIN sessions : sessions[id].expiresAt \in Nat
  <2>1. \A id \in DOMAIN sessions : sessions[id] \in AccessSession
    BY DEF TypeOK
  <2> QED BY <2>1 DEF AccessSession
<1>3. \A id \in DOMAIN sessions : sessions[id].expiresAt > now' => sessions[id].expiresAt > now
  BY <1>1, <1>2, StillActive
<1> QED BY <1>3 DEF ActiveOf, Active, SessionsKept

LEMMA QuietStep ==
  ASSUME IInv, TypeOK', now <= now', attempts' = attempts,
         DOMAIN sessions' = DOMAIN sessions, SessionsKept,
         \A id \in DOMAIN sessions : sessions'[id].revokedAt = None => sessions[id].revokedAt = None
  PROVE  (AttemptsPast /\ SessionsOnRecord /\ OneActiveSession /\ RefusalsNotRepeated
          /\ FailuresBounded)'
<1>1. \A u : ActiveOf(u)' \subseteq ActiveOf(u)
  BY ActiveShrinks DEF IInv
<1>2. OneActiveSession'
  BY <1>1 DEF OneActiveSession, IInv
<1>3. AttemptsPast'
  <2>1. now \in Nat /\ now' \in Nat /\ TypeOK
    BY DEF IInv, TypeOK
  <2>2. \A i \in DOMAIN attempts : attempts[i].at \in Nat
    BY <2>1, AttemptRows
  <2> QED BY <2>1, <2>2, Transitive DEF AttemptsPast, IInv
<1>4. SessionsOnRecord'
  BY DEF SessionsOnRecord, SessionsKept, AttemptsOf, IInv
<1>5. (RefusalsNotRepeated /\ FailuresBounded)'
  BY DEF RefusalsNotRepeated, FailuresBounded, AttemptsOf, IInv
<1> QED BY <1>2, <1>3, <1>4, <1>5

\* Time, and starts of the bot.
LEMMA TimeAndBoot ==
  ASSUME IInv, Tick \/ Boot
  PROVE  IInv'
<1>1. TypeOK /\ now \in Nat
  BY DEF IInv, TypeOK
<1>2. /\ now <= now' /\ now' \in Nat
      /\ UNCHANGED <<attempts, rowLock, keyedLock, pc, job, draft>>
  <2>1. UNCHANGED <<attempts, rowLock, keyedLock, pc, job, draft>>
    BY DEF Tick, Boot, StartBot, ListSessions, RevokeListed, ReconcileFails, db, locks, boot
  <2>2. now' = now \/ now' = now + 1
    BY DEF Tick, Boot, StartBot, ListSessions, RevokeListed, ReconcileFails
  <2> QED BY <1>1, <2>1, <2>2
<1>3. /\ switch' \in Seq(BOOLEAN) /\ Len(switch') \in Instances /\ Len(switch) <= Len(switch')
      /\ \A i \in 1..Len(switch) : switch'[i] = switch[i]
  <2>1. CASE UNCHANGED switch
    BY <1>1, <2>1 DEF TypeOK
  <2>2. CASE \E on \in BOOLEAN : StartBot(on)
    BY <1>1, <2>2, EmergencyAssumption DEF StartBot, TypeOK, Instances
  <2> QED BY <2>1, <2>2 DEF Tick, Boot, ListSessions, RevokeListed, ReconcileFails, boot
<1>4. reconciling' \in [ids : SUBSET Nat, at : Nat, listed : BOOLEAN] \cup {None}
  <2>1. {id \in DOMAIN sessions : Active(id, sessions[id].user)} \subseteq Nat
    BY <1>1 DEF TypeOK
  <2>2. \/ UNCHANGED reconciling \/ reconciling' = None
        \/ reconciling' = [ids |-> {}, at |-> now, listed |-> FALSE]
        \/ reconciling' = [ids |-> {id \in DOMAIN sessions : Active(id, sessions[id].user)},
                           at |-> now, listed |-> TRUE]
    BY DEF Tick, Boot, StartBot, ListSessions, RevokeListed, ReconcileFails, boot
  <2>3. \A ids \in SUBSET Nat, listed \in BOOLEAN :
          [ids |-> ids, at |-> now, listed |-> listed] \in [ids : SUBSET Nat, at : Nat, listed : BOOLEAN]
    BY <1>1
  <2>4. reconciling \in [ids : SUBSET Nat, at : Nat, listed : BOOLEAN] \cup {None}
    BY <1>1 DEF TypeOK
  <2> QED BY <2>1, <2>2, <2>3, <2>4
<1>5. /\ sessions' \in Seq(AccessSession) /\ DOMAIN sessions' = DOMAIN sessions /\ SessionsKept
      /\ \A id \in DOMAIN sessions :
           sessions'[id].revokedAt = None => sessions[id].revokedAt = None
  <2>1. CASE RevokeListed
    <3>1. reconciling.at \in Nat /\ sessions' = Revoke(reconciling.ids, reconciling.at)
      BY <1>1, <2>1 DEF RevokeListed, TypeOK
    <3>2. /\ sessions' \in Seq(AccessSession) /\ Len(sessions') = Len(sessions)
          /\ \A id \in DOMAIN sessions :
               /\ sessions'[id].user = sessions[id].user
               /\ sessions'[id].createdAt = sessions[id].createdAt
               /\ sessions'[id].expiresAt = sessions[id].expiresAt
               /\ sessions'[id].revokedAt = None => sessions[id].revokedAt = None
      BY <1>1, <3>1, RevokeEffect
    <3>3. DOMAIN sessions' = DOMAIN sessions
      BY <1>1, <3>2 DEF TypeOK
    <3> QED BY <3>2, <3>3 DEF SessionsKept
  <2>2. CASE UNCHANGED sessions
    BY <1>1, <2>2 DEF TypeOK, SessionsKept
  <2> QED BY <2>1, <2>2 DEF Tick, Boot, StartBot, ListSessions, ReconcileFails, db
<1>6. TypeOK'
  BY <1>1, <1>2, <1>3, <1>4, <1>5 DEF TypeOK
<1>7. \A u : Undisturbed(u)
  BY <1>1, <1>2, <1>5, <1>6, ActiveShrinks DEF Undisturbed, AttemptsOf
<1>8. \A t \in Tasks : TaskInv(t)'
  BY <1>2, <1>3, <1>5, <1>6, <1>7, TaskKept
<1> QED BY <1>2, <1>5, <1>6, <1>8, QuietStep DEF IInv

----------------------------------------------------------------------------
\* The commit of a login.

LEMMA CommitFacts ==
  ASSUME IInv, NEW t \in Tasks, CommitLogin(t)
  PROVE  /\ TypeOK /\ now \in Nat /\ UNCHANGED now
         /\ AttemptSound(t) /\ SessionSound(t)
         /\ DOMAIN attempts = 1..Len(attempts) /\ Len(attempts) \in Nat
         /\ Len(attempts) + 1 \notin DOMAIN attempts
BY DEF IInv, TaskInv, TypeOK, CommitLogin

LEMMA CommitPast ==
  ASSUME IInv, NEW t \in Tasks, CommitLogin(t)
  PROVE  (AttemptsPast /\ SessionsOnRecord)'
<1>1. AttemptsPast'
  <2>1. \A i \in DOMAIN attempts' :
          \/ i \in DOMAIN attempts /\ attempts'[i] = attempts[i]
          \/ draft[t].attempt # None /\ attempts'[i] = draft[t].attempt
    BY CommitFacts, CommittedAttempts
  <2>2. UNCHANGED now /\ AttemptSound(t)
    BY CommitFacts
  <2> QED BY <2>1, <2>2 DEF AttemptsPast, AttemptSound, IInv
<1>2. SessionsOnRecord'
  <2> SUFFICES ASSUME NEW id \in DOMAIN sessions'
               PROVE  /\ sessions'[id].expiresAt = sessions'[id].createdAt + Ttl
                      /\ \E i \in DOMAIN attempts' :
                           /\ attempts'[i].user = sessions'[id].user
                           /\ attempts'[i].outcome = "succeeded"
                           /\ attempts'[i].at = sessions'[id].createdAt
    BY DEF SessionsOnRecord, AttemptsOf
  <2>1. CASE id \in DOMAIN sessions
    <3>1. PICK i \in AttemptsOf(sessions[id].user) :
                 attempts[i].outcome = "succeeded" /\ attempts[i].at = sessions[id].createdAt
      BY <2>1 DEF IInv, SessionsOnRecord
    <3>2. i \in DOMAIN attempts' /\ attempts'[i] = attempts[i] /\ attempts[i].user = sessions[id].user
      BY <3>1, CommitFacts, CommittedAttempts DEF AttemptsOf
    <3> QED BY <2>1, <3>1, <3>2, CommitFacts, CommittedSessions DEF IInv, SessionsOnRecord
  <2>2. CASE id \notin DOMAIN sessions
    <3>1. draft[t].opened # None /\ sessions'[id] = draft[t].opened
      BY <2>2, CommitFacts, CommittedSessions
    <3>2. draft[t].attempt # None /\ SessionSound(t) /\ AttemptSound(t)
      BY <3>1, CommitFacts DEF SessionSound
    <3>3. /\ Len(attempts) + 1 \in DOMAIN attempts'
          /\ attempts'[Len(attempts) + 1] = draft[t].attempt
      BY <3>2, CommitFacts, CommittedAttempts
    <3> QED BY <3>1, <3>2, <3>3 DEF SessionSound, AttemptSound
  <2> QED BY <2>1, <2>2
<1> QED BY <1>1, <1>2

\* The new session is the only active one: whatever was active is revoked.
LEMMA CommitOneActive ==
  ASSUME IInv, TypeOK', NEW t \in Tasks, CommitLogin(t)
  PROVE  OneActiveSession'
<1> SUFFICES ASSUME NEW u \in Users, NEW id \in ActiveOf(u)', NEW other \in ActiveOf(u)'
             PROVE  id = other
  BY DEF OneActiveSession
<1>1. UNCHANGED now /\ TypeOK /\ SessionSound(t)
  BY CommitFacts
<1>2. CASE draft[t].opened = None \/ u # User(t)
  <2>1. ActiveOf(u)' \subseteq ActiveOf(u)
    BY <1>1, <1>2, CommittedSessions DEF SessionSound, ActiveOf, Active
  <2> QED BY <2>1 DEF IInv, OneActiveSession
<1>3. CASE draft[t].opened # None /\ u = User(t)
  <2>1. ActiveOf(u) \subseteq draft[t].revoked
    BY <1>1, <1>3 DEF SessionSound
  <2>2. \A x \in ActiveOf(u)' : x \notin DOMAIN sessions
    BY <1>1, <2>1, CommittedSessions DEF ActiveOf, Active
  <2>3. \A x \in ActiveOf(u)' : x = Len(sessions) + 1
    BY <1>1, <1>3, <2>2, CommittedSessions DEF ActiveOf
  <2> QED BY <2>3
<1> QED BY <1>2, <1>3

LEMMA CommitRefusals ==
  ASSUME IInv, NEW t \in Tasks, CommitLogin(t)
  PROVE  RefusalsNotRepeated'
<1> SUFFICES ASSUME NEW u \in Users, NEW i \in AttemptsOf(u)', NEW k \in AttemptsOf(u)', i < k,
                    attempts'[i].outcome = "locked_out", attempts'[k].outcome = "locked_out"
             PROVE  \E m \in AttemptsOf(u)' : i < m /\ m < k /\ attempts'[m].outcome # "locked_out"
  BY DEF RefusalsNotRepeated
<1>1. /\ TypeOK /\ DOMAIN attempts = 1..Len(attempts) /\ Len(attempts) \in Nat
      /\ DOMAIN attempts' \subseteq DOMAIN attempts \cup {Len(attempts) + 1}
  BY CommitFacts, CommittedAttempts
<1>2. i \in DOMAIN attempts
  BY <1>1 DEF AttemptsOf
<1>3. \A m \in AttemptsOf(u) : m \in AttemptsOf(u)' /\ attempts'[m] = attempts[m]
  BY <1>1, CommittedAttempts DEF AttemptsOf
<1>4. i \in AttemptsOf(u) /\ attempts[i].outcome = "locked_out"
  BY <1>1, <1>2, CommittedAttempts DEF AttemptsOf
<1>5. CASE k \in DOMAIN attempts
  <2>1. k \in AttemptsOf(u) /\ attempts[k].outcome = "locked_out"
    BY <1>1, <1>5, CommittedAttempts DEF AttemptsOf
  <2>2. PICK m \in AttemptsOf(u) : i < m /\ m < k /\ attempts[m].outcome # "locked_out"
    BY <1>4, <2>1 DEF IInv, RefusalsNotRepeated
  <2> QED BY <1>3, <2>2
<1>6. CASE k \notin DOMAIN attempts
  <2>1. k = Len(attempts) + 1 /\ draft[t].attempt # None /\ attempts'[k] = draft[t].attempt
    BY <1>1, <1>6, CommittedAttempts DEF AttemptsOf
  <2>2. RefusalsFollowed(User(t)) /\ u = User(t)
    BY <2>1, CommitFacts DEF AttemptSound, AttemptsOf
  <2>3. PICK m \in AttemptsOf(u) : i < m /\ attempts[m].outcome # "locked_out"
    BY <1>4, <2>2 DEF RefusalsFollowed
  <2>4. m < k
    BY <1>1, <2>1, <2>3 DEF AttemptsOf
  <2> QED BY <1>3, <2>3, <2>4
<1> QED BY <1>5, <1>6

----------------------------------------------------------------------------
\* The failures of a user in the window that ends at a moment.
Window(u, at) ==
  {j \in DOMAIN attempts :
     /\ attempts[j].user = u /\ attempts[j].outcome = "failed"
     /\ attempts[j].at \in at - Lockout .. at
     /\ \A k \in DOMAIN attempts :
          ~ /\ attempts[k].user = u /\ attempts[k].outcome = "succeeded"
            /\ attempts[k].at \in attempts[j].at .. at}

LEMMA BoundedByWindow ==
  FailuresBounded <=>
    \A i \in DOMAIN attempts :
      Cardinality(Window(attempts[i].user, attempts[i].at)) <= MaxFailed
BY DEF FailuresBounded, Window

LEMMA AtMost ==
  ASSUME NEW B, IsFiniteSet(B), NEW A, A \subseteq B, Cardinality(B) <= MaxFailed
  PROVE  Cardinality(A) <= MaxFailed
<1>1. Cardinality(A) \in Nat /\ Cardinality(B) \in Nat /\ Cardinality(A) <= Cardinality(B)
  BY FS_Subset, FS_CardinalityType
<1>2. MaxFailed \in Nat
  BY EmergencyAssumption
<1> QED BY <1>1, <1>2, Transitive

LEMMA OneMore ==
  ASSUME NEW B, IsFiniteSet(B), NEW x, NEW A, A \subseteq B \cup {x},
         Cardinality(B) < MaxFailed
  PROVE  Cardinality(A) <= MaxFailed
<1>1. /\ IsFiniteSet(B \cup {x}) /\ Cardinality(B) \in Nat
      /\ Cardinality(B \cup {x}) = Cardinality(B) \/ Cardinality(B \cup {x}) = Cardinality(B) + 1
  BY FS_AddElement, FS_CardinalityType
<1>2. Cardinality(B \cup {x}) <= MaxFailed
  BY <1>1, EmergencyAssumption
<1> QED BY <1>1, <1>2, AtMost

LEMMA WindowFinite ==
  ASSUME TypeOK, NEW u, NEW at
  PROVE  IsFiniteSet(Window(u, at))
<1>1. DOMAIN attempts = 1..Len(attempts) /\ Len(attempts) \in Nat
  BY DEF TypeOK
<1>2. IsFiniteSet(DOMAIN attempts) /\ Window(u, at) \subseteq DOMAIN attempts
  BY <1>1, FS_Interval DEF Window
<1> QED BY <1>2, FS_Subset

\* With every attempt of the user past, the failures since the beginning of a
\* window lie in the window that ends with the last of them.
LEMMA SinceInWindow ==
  ASSUME IInv, NEW u, NEW b \in Nat, \A i \in AttemptsOf(u) : attempts[i].at <= b
  PROVE  Cardinality(FailuresSince(u, b - Lockout)) <= MaxFailed
<1> DEFINE F == FailuresSince(u, b - Lockout)
           S == {attempts[j].at : j \in F}
<1>1. TypeOK /\ Lockout \in Nat /\ MaxFailed \in Nat
  BY EmergencyAssumption DEF IInv
<1>2. \A j \in DOMAIN attempts : attempts[j].at \in Nat
  BY <1>1, AttemptRows
<1>3. CASE F = {}
  <2>1. Cardinality(F) = 0
    BY <1>3, FS_EmptySet
  <2> QED BY <1>1, <2>1
<1>4. CASE F # {}
  <2>1. F \subseteq AttemptsOf(u) /\ F \subseteq DOMAIN attempts
    BY DEF FailuresSince, AttemptsOf
  <2>2. S \in SUBSET Nat /\ S # {} /\ \A x \in S : x <= b
    BY <1>2, <1>4, <2>1
  <2>3. PICK c \in S : \A x \in S : x <= c
    BY <2>2, GreatestExists
  <2>4. PICK m \in F : attempts[m].at = c
    BY <2>3
  <2>5. c \in Nat /\ c <= b /\ \A j \in F : attempts[j].at <= c
    BY <2>2, <2>3
  <2>6. ASSUME NEW j \in F PROVE j \in Window(u, c)
    <3>1. /\ attempts[j].user = u /\ attempts[j].outcome = "failed" /\ attempts[j].at <= c
          /\ \A k \in DOMAIN attempts :
               attempts[k].user = u /\ attempts[k].outcome = "succeeded"
                 => attempts[k].at < attempts[j].at
      BY <2>5, <2>6 DEF FailuresSince
    <3>2. PICK a \in Nat : a = attempts[j].at /\ a >= b - Lockout
      BY <1>2, <2>1, <2>6 DEF FailuresSince
    <3>3. a \in c - Lockout .. c
      BY <1>1, <2>5, <3>1, <3>2
    <3>4. \A k \in DOMAIN attempts :
            attempts[k].user = u /\ attempts[k].outcome = "succeeded" => attempts[k].at \notin a .. c
      BY <1>2, <3>1, <3>2
    <3> QED BY <2>1, <3>1, <3>2, <3>3, <3>4 DEF Window
  <2>7. Cardinality(Window(u, c)) <= MaxFailed
    <3>1. m \in DOMAIN attempts /\ attempts[m].user = u
      BY <2>4 DEF FailuresSince
    <3> QED BY <2>4, <3>1, BoundedByWindow DEF IInv
  <2>8. F \subseteq Window(u, c)
    BY <2>6
  <2>9. IsFiniteSet(Window(u, c))
    BY <1>1, WindowFinite
  <2> HIDE DEF F
  <2>10. Cardinality(F) <= MaxFailed
    BY <2>7, <2>8, <2>9, AtMost
  <2> QED BY <2>10 DEF F
<1> QED BY <1>3, <1>4

\* The failures of a user, once an attempt of theirs is on record, that lie in
\* the window ending with it, by its outcome.
LEMMA CommitWindow ==
  ASSUME IInv, TypeOK', NEW t \in Tasks, CommitLogin(t), draft[t].attempt # None,
         NEW u, u = User(t), NEW b \in Nat, b = draft[t].attempt.at
  PROVE  Cardinality(Window(u, b)') <= MaxFailed
<1> DEFINE n == Len(attempts) + 1
           F == FailuresSince(u, b - Lockout)
           a == draft[t].attempt
<1>1. /\ TypeOK /\ DOMAIN attempts' = DOMAIN attempts \cup {n} /\ n \notin DOMAIN attempts
      /\ \A i \in DOMAIN attempts : attempts'[i] = attempts[i]
      /\ attempts'[n] = a /\ AttemptSound(t)
  BY CommitFacts, CommittedAttempts
<1>2. a.user = u /\ a.at = b /\ \A i \in AttemptsOf(u) : attempts[i].at <= b
  BY <1>1 DEF AttemptSound
<1>3. \A i \in DOMAIN attempts : attempts[i].at \in Nat
  BY <1>1, AttemptRows
<1>4. b - Lockout \in Int
  BY EmergencyAssumption
<1>5. ASSUME NEW j \in Window(u, b)', j # n PROVE j \in F
  <2>1. /\ j \in DOMAIN attempts /\ attempts[j].user = u /\ attempts[j].outcome = "failed"
        /\ attempts[j].at \in b - Lockout .. b
        /\ \A k \in DOMAIN attempts :
             attempts[k].user = u /\ attempts[k].outcome = "succeeded"
               => attempts[k].at \notin attempts[j].at .. b
    BY <1>1, <1>5 DEF Window
  <2>2. \A k \in DOMAIN attempts :
          attempts[k].user = u /\ attempts[k].outcome = "succeeded" => attempts[k].at < attempts[j].at
    BY <1>2, <1>3, <2>1 DEF AttemptsOf
  <2>3. attempts[j].at >= b - Lockout
    BY <1>4, <2>1
  <2> QED BY <2>1, <2>2, <2>3 DEF FailuresSince
<1>6. IsFiniteSet(F)
  BY <1>1, FailuresFinite
<1>7. a \in Attempt /\ a.outcome \in Outcomes
  BY <1>1 DEF TypeOK, Draft, Attempt
<1>8. CASE a.outcome = "failed"
  <2>1. Cardinality(F) < MaxFailed
    BY <1>1, <1>2, <1>8 DEF AttemptSound, Under
  <2>2. Window(u, b)' \subseteq F \cup {n}
    BY <1>5
  <2> HIDE DEF F, n
  <2> QED BY <1>6, <2>1, <2>2, OneMore
<1>9. CASE a.outcome = "succeeded"
  <2>1. \A j \in DOMAIN attempts' : attempts'[j].user = u /\ attempts'[j].at \in b - Lockout .. b
          => b \in attempts'[j].at .. b
    BY <1>1, <1>2, <1>3, <1>4
  <2>2. Window(u, b)' = {}
    BY <1>1, <1>2, <1>9, <2>1 DEF Window
  <2>3. Cardinality(Window(u, b)') = 0
    BY <2>2, FS_EmptySet
  <2> QED BY <2>3, EmergencyAssumption
<1>10. CASE a.outcome = "locked_out"
  <2>1. n \notin Window(u, b)'
    BY <1>1, <1>10 DEF Window
  <2>2. Window(u, b)' \subseteq F
    BY <1>5, <2>1
  <2>3. Cardinality(F) <= MaxFailed
    BY <1>2, SinceInWindow
  <2> HIDE DEF F
  <2> QED BY <1>6, <2>2, <2>3, AtMost
<1> QED BY <1>7, <1>8, <1>9, <1>10 DEF Outcomes

\* What an attempt does not end, and what is not its user's, it leaves alone.
LEMMA CommitBounded ==
  ASSUME IInv, TypeOK', NEW t \in Tasks, CommitLogin(t)
  PROVE  FailuresBounded'
<1>1. /\ TypeOK /\ \A i \in DOMAIN attempts : attempts'[i] = attempts[i]
      /\ DOMAIN attempts \subseteq DOMAIN attempts' /\ AttemptSound(t)
  BY CommitFacts, CommittedAttempts
<1>2. \A i \in DOMAIN attempts' \ DOMAIN attempts :
        draft[t].attempt # None /\ attempts'[i] = draft[t].attempt
  BY CommitFacts, CommittedAttempts
<1>3. \A i \in DOMAIN attempts : attempts[i].at \in Nat
  BY <1>1, AttemptRows
<1>4. draft[t].attempt # None => draft[t].attempt.at \in Nat /\ draft[t].attempt.user = User(t)
  BY <1>1 DEF TypeOK, Draft, Attempt, AttemptSound
<1>5. ASSUME NEW i \in DOMAIN attempts', NEW u, u = attempts'[i].user,
             NEW at \in Nat, at = attempts'[i].at
      PROVE  Cardinality(Window(u, at)') <= MaxFailed
  <2>1. CASE draft[t].attempt # None /\ u = User(t) /\ at = draft[t].attempt.at
    BY <2>1, CommitWindow
  <2>2. CASE ~(draft[t].attempt # None /\ u = User(t) /\ at = draft[t].attempt.at)
    <3>1. i \in DOMAIN attempts /\ u = attempts[i].user /\ at = attempts[i].at
      BY <1>1, <1>2, <1>4, <1>5, <2>2
    <3>2. \A k \in DOMAIN attempts' \ DOMAIN attempts : attempts'[k].user = u => attempts'[k].at > at
      <4> SUFFICES ASSUME draft[t].attempt # None, u = User(t)
                   PROVE  draft[t].attempt.at > at
        BY <1>2, <1>4
      <4>1. at <= draft[t].attempt.at
        BY <1>1, <3>1 DEF AttemptSound, AttemptsOf
      <4> QED BY <1>4, <2>2, <4>1
    <3>3. Window(u, at)' \subseteq Window(u, at)
      <4> SUFFICES ASSUME NEW j \in Window(u, at)'
                   PROVE  j \in Window(u, at)
        OBVIOUS
      <4>1. /\ j \in DOMAIN attempts' /\ attempts'[j].user = u /\ attempts'[j].outcome = "failed"
            /\ attempts'[j].at \in at - Lockout .. at
            /\ \A k \in DOMAIN attempts' :
                 ~ /\ attempts'[k].user = u /\ attempts'[k].outcome = "succeeded"
                   /\ attempts'[k].at \in attempts'[j].at .. at
        BY DEF Window
      <4>2. j \in DOMAIN attempts
        <5>1. at - Lockout \in Int /\ attempts'[j].at \in Nat
          BY <1>1, <1>2, <1>3, <1>4, <4>1, EmergencyAssumption
        <5> QED BY <3>2, <4>1, <5>1
      <4> QED BY <1>1, <4>1, <4>2 DEF Window
    <3>4. Cardinality(Window(u, at)) <= MaxFailed
      BY <3>1, BoundedByWindow DEF IInv
    <3> QED BY <1>1, <3>3, <3>4, WindowFinite, AtMost
  <2> QED BY <2>1, <2>2
<1>6. \A i \in DOMAIN attempts' : attempts'[i].at \in Nat
  BY <1>1, <1>2, <1>3, <1>4
<1>7. \A i \in DOMAIN attempts' : Cardinality(Window(attempts[i].user, attempts[i].at)') <= MaxFailed
  BY <1>5, <1>6
<1> QED BY <1>7 DEF FailuresBounded, Window

----------------------------------------------------------------------------
LEMMA InitIInv ==
  ASSUME Init
  PROVE  IInv
<1>1. TypeOK
  <2>1. /\ 1 \in Instances /\ <<TRUE>> \in Seq(BOOLEAN) /\ Len(<<TRUE>>) = 1
        /\ <<>> \in Seq(Attempt) /\ <<>> \in Seq(AccessSession) /\ Nothing \in Draft
    BY EmergencyAssumption DEF Instances, Nothing, Draft
  <2> QED BY <2>1 DEF Init, TypeOK, Phases
<1>2. \A t \in Tasks : TaskInv(t)
  BY DEF Init, TaskInv, GrantSound, Deciding
<1>3. DOMAIN attempts = {} /\ DOMAIN sessions = {}
  BY DEF Init
<1> QED BY <1>1, <1>2, <1>3 DEF IInv, AttemptsPast, SessionsOnRecord, OneActiveSession, ActiveOf,
             RefusalsNotRepeated, FailuresBounded, AttemptsOf

LEMMA TaskStep ==
  ASSUME IInv, NEW t \in Tasks, Acts(t)
  PROVE  IInv'
<1>1. TypeOK'
  BY TypeStep
<1>2. \A s \in Tasks : TaskInv(s)'
  BY <1>1, SelfKept, OthersKept
<1>3. CASE CommitLogin(t)
  BY <1>1, <1>2, <1>3, CommitPast, CommitOneActive, CommitRefusals, CommitBounded DEF IInv
<1>4. CASE ~CommitLogin(t)
  <2>1. UNCHANGED <<attempts, sessions, now>>
    BY <1>4, OnlyCommitWrites, NoTimePasses
  <2>2. now <= now' /\ SessionsKept
    BY <2>1 DEF IInv, TypeOK, SessionsKept
  <2> QED BY <1>1, <1>2, <2>1, <2>2, QuietStep DEF IInv
<1> QED BY <1>3, <1>4

LEMMA Stutter ==
  ASSUME IInv, UNCHANGED vars
  PROVE  IInv'
<1>1. /\ UNCHANGED <<now, switch, reconciling, attempts, sessions, rowLock, keyedLock>>
      /\ UNCHANGED <<pc, job, draft>>
  BY DEF vars, boot, db, locks
<1>2. TypeOK'
  BY <1>1 DEF IInv, TypeOK
<1>3. now <= now' /\ Len(switch) <= Len(switch') /\ SessionsKept
  BY <1>1 DEF IInv, TypeOK, SessionsKept
<1>4. \A u : Undisturbed(u)
  BY <1>1 DEF Undisturbed, AttemptsOf, ActiveOf, Active
<1>5. \A t \in Tasks : TaskInv(t)'
  BY <1>1, <1>2, <1>3, <1>4, TaskKept
<1> QED BY <1>1, <1>2, <1>3, <1>5, QuietStep DEF IInv

\* Every reachable state satisfies the inductive invariant.
THEOREM EmergencyInductive == Spec => []IInv
<1>1. Init => IInv
  BY InitIInv
<1>2. IInv /\ [Next]_vars => IInv'
  BY NextCases, TimeAndBoot, TaskStep, Stutter
<1> QED BY <1>1, <1>2, PTL DEF Spec

\* However many passwords are tried at once, by however many updates: no window
\* of the lockout's length holds more failures of one user than configured.
THEOREM GuessesBounded == Spec => []FailuresBounded
<1>1. IInv => FailuresBounded
  BY DEF IInv
<1> QED BY <1>1, EmergencyInductive, PTL

\* A user never holds two active sessions.
THEOREM SessionsSuperseded == Spec => []OneActiveSession
<1>1. IInv => OneActiveSession
  BY DEF IInv
<1> QED BY <1>1, EmergencyInductive, PTL

\* Refusals during a lockout are recorded once.
THEOREM RefusalsRecordedOnce == Spec => []RefusalsNotRepeated
<1>1. IInv => RefusalsNotRepeated
  BY DEF IInv
<1> QED BY <1>1, EmergencyInductive, PTL

\* Whoever acts on an emergency grant gave the right password less than a
\* session's life before the grant was taken.
THEOREM GrantsAreRecent == Spec => []AuthorityIsRecent
<1>1. ASSUME IInv PROVE AuthorityIsRecent
  <2> SUFFICES ASSUME NEW t \in Tasks, pc[t] = "acting", User(t) \notin Admins
               PROVE  /\ switch[job[t].instance]
                      /\ \E i \in AttemptsOf(User(t)) :
                           /\ attempts[i].outcome = "succeeded"
                           /\ attempts[i].at = sessions[job[t].session].createdAt
                           /\ attempts[i].at <= job[t].at /\ job[t].at < attempts[i].at + Ttl
    BY DEF AuthorityIsRecent
  <2>1. GrantSound(t) /\ SessionsOnRecord
    BY <1>1 DEF IInv, TaskInv
  <2> QED BY <2>1 DEF GrantSound, SessionsOnRecord
<1> QED BY <1>1, EmergencyInductive, PTL
=============================================================================
