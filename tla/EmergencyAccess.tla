-------------------------- MODULE EmergencyAccess --------------------------
(***************************************************************************)
(* Emergency administrator access: /emergency_admin                        *)
(* (handlers/user/emergency_admin.py), the decision about one password     *)
(* (services/emergency_admin.py), the temporary sessions it opens          *)
(* (services/admin_access.py), the grant that every admin update asks for  *)
(* (security/admin.py) and the reconciliation with the switch when the bot *)
(* starts (lifecycle.py).                                                  *)
(*                                                                         *)
(* A task is one update of one bot instance and runs one transaction at    *)
(* READ COMMITTED.  An instance knows the switch it was started with; the  *)
(* tasks of the one before it may still be running when it starts.  Time   *)
(* passes between any two steps; a step reads the clock once.              *)
(***************************************************************************)
EXTENDS Integers, Sequences, FiniteSets

CONSTANTS
  Users,
  Admins,       \* ADMIN_IDS
  Tasks,        \* updates in flight at once
  MaxFailed,    \* emergency_admin_max_failed_attempts
  Lockout,      \* emergency_admin_lockout_minutes
  Ttl,          \* emergency_admin_session_ttl_minutes
  None,
  Askers,       \* bound: who sends /emergency_admin
  MaxStarts,    \* bound: how often the bot is started
  MaxAttempts,  \* bound: attempts on record, and as many tasks more under way
  MaxTime       \* bound: where the clock stops

ASSUME EmergencyAssumption ==
  /\ Admins \subseteq Users /\ Askers \subseteq Users
  /\ None \notin Users \cup Tasks \cup Int
  /\ MaxFailed \in Nat \ {0} /\ Lockout \in Nat \ {0} /\ Ttl \in Nat \ {0}
  /\ MaxStarts \in Nat \ {0} /\ MaxAttempts \in Nat /\ MaxTime \in Nat

VARIABLES
  now,
  switch,      \* for each start so far, whether a password hash was configured
  reconciling, \* what the newest instance does before it takes updates
  attempts,    \* admin_access_attempts, committed, in the order of their ids
  sessions,    \* admin_access_sessions, committed, in the order of their ids
  rowLock,     \* the task whose transaction holds each user's row
  keyedLock,   \* the task holding keyed_lock("emergency:<user>") of each instance
  pc, job,     \* where each task is, and whose update it handles
  draft        \* what the transaction of each task has written and not committed

db == <<attempts, sessions>>
locks == <<rowLock, keyedLock>>
boot == <<switch, reconciling>>
vars == <<now, boot, db, locks, pc, job, draft>>

Instances == 1..MaxStarts
Outcomes == {"succeeded", "failed", "locked_out"}
Attempt == [user : Users, outcome : Outcomes, at : Nat]
AccessSession ==
  [user : Users, createdAt : Nat, expiresAt : Nat, revokedAt : Nat \cup {None}]

\* No row at all is no row.
ASSUME NoRowAssumption == None \notin Attempt \cup AccessSession

\* The update of a task: its sender, its instance, whether the sender's profile
\* or last_seen must be refreshed, and for an admin update its grant.
Job == [user : Users, instance : Instances, touches : BOOLEAN,
        kind : {"login", "admin"}, session : Nat, at : Nat]
Draft == [attempt : Attempt \cup {None}, opened : AccessSession \cup {None},
          revoked : SUBSET Nat, at : Nat]
Nothing == [attempt |-> None, opened |-> None, revoked |-> {}, at |-> 0]

Phases == {"idle", "arrived", "discarding", "queueing", "keyed", "locked", "hashing",
           "decided", "telling", "asking", "acting"}

Init ==
  /\ now = 0
  /\ switch = <<TRUE>>
  /\ reconciling = None
  /\ attempts = <<>> /\ sessions = <<>>
  /\ rowLock = [u \in Users |-> None]
  /\ keyedLock = [k \in Instances \X Users |-> None]
  /\ pc = [t \in Tasks |-> "idle"]
  /\ job = [t \in Tasks |-> None]
  /\ draft = [t \in Tasks |-> Nothing]

Go(t, phase) == pc' = [pc EXCEPT ![t] = phase]
User(t) == job[t].user
KeyOf(t) == <<job[t].instance, job[t].user>>

Tick ==
  /\ now < MaxTime
  /\ now' = now + 1
  /\ UNCHANGED <<boot, db, locks, pc, job, draft>>

----------------------------------------------------------------------------
\* What the tables say.

\* Mutant: expiry itself still active.
ActiveAtExpiry(id, u) ==
  /\ sessions[id].user = u
  /\ sessions[id].revokedAt = None
  /\ sessions[id].expiresAt >= now

\* Unrevoked and not yet expired; expiry itself is not active.
Active(id, u) ==
  /\ sessions[id].user = u
  /\ sessions[id].revokedAt = None
  /\ sessions[id].expiresAt > now

ActiveOf(u) == {id \in DOMAIN sessions : Active(id, u)}

\* A success starts the count of failures afresh.
FailuresSince(u, since) ==
  {i \in DOMAIN attempts :
     /\ attempts[i].user = u /\ attempts[i].outcome = "failed"
     /\ attempts[i].at >= since
     /\ \A k \in DOMAIN attempts :
          attempts[k].user = u /\ attempts[k].outcome = "succeeded"
            => attempts[k].at < attempts[i].at}

\* Mutant: one attempt more than configured.
LockedOutLate(u) == Cardinality(FailuresSince(u, now - Lockout)) > MaxFailed

LockedOut(u) == Cardinality(FailuresSince(u, now - Lockout)) >= MaxFailed

AttemptsOf(u) == {i \in DOMAIN attempts : attempts[i].user = u}
IsLatest(i, u) == i \in AttemptsOf(u) /\ \A k \in AttemptsOf(u) : k <= i

----------------------------------------------------------------------------
\* /emergency_admin with a password, or the message that answers its prompt.

Send(t, u, touches, kind) ==
  /\ pc[t] = "idle" /\ reconciling = None
  /\ job' = [job EXCEPT ![t] = [user |-> u, instance |-> Len(switch),
               touches |-> touches, kind |-> kind, session |-> 0, at |-> 0]]

\* With no hash configured the command says nothing at all.
OfferPassword(t, u, touches) ==
  /\ switch[Len(switch)]
  /\ Len(attempts) < MaxAttempts
  /\ Send(t, u, touches, "login")
  /\ Go(t, "arrived")
  /\ UNCHANGED <<now, boot, db, locks, draft>>

Acquire(t) ==
  /\ rowLock[User(t)] \in {None, t}
  /\ rowLock' = [rowLock EXCEPT ![User(t)] = t]

\* ensure_user: a changed profile or an old last_seen is an UPDATE of the row.
EnsureUser(t) ==
  /\ pc[t] = "arrived"
  /\ IF job[t].touches THEN Acquire(t) ELSE UNCHANGED rowLock
  /\ Go(t, "discarding")
  /\ UNCHANGED <<now, boot, db, keyedLock, job, draft>>

\* The message that carries the password is taken out of the chat, best effort.
Discard(t) ==
  /\ pc[t] = "discarding"
  /\ Go(t, "queueing")
  /\ UNCHANGED <<now, boot, db, locks, job, draft>>

EnterKeyedLock(t) ==
  /\ pc[t] = "queueing"
  /\ keyedLock[KeyOf(t)] = None
  /\ keyedLock' = [keyedLock EXCEPT ![KeyOf(t)] = t]
  /\ Go(t, "keyed")
  /\ UNCHANGED <<now, boot, db, rowLock, job, draft>>

\* Mutant: the row read without FOR UPDATE.
LockUserUnlocked(t) ==
  /\ pc[t] = "keyed"
  /\ Go(t, "locked")
  /\ UNCHANGED <<now, boot, db, locks, job, draft>>

LockUser(t) ==
  /\ pc[t] = "keyed"
  /\ Acquire(t)
  /\ Go(t, "locked")
  /\ UNCHANGED <<now, boot, db, keyedLock, job, draft>>

Recorded(t, outcome) == [user |-> User(t), outcome |-> outcome, at |-> now]

\* Mutant: every refusal of a lockout recorded.
RefuseLockedOutEachTime(t) ==
  /\ pc[t] = "locked" /\ LockedOut(User(t))
  /\ draft' = [draft EXCEPT ![t].attempt = Recorded(t, "locked_out")]
  /\ Go(t, "decided")
  /\ UNCHANGED <<now, boot, db, locks, job>>

\* The first attempt during a lockout is recorded, the rest are not.
RefuseLockedOut(t) ==
  /\ pc[t] = "locked" /\ LockedOut(User(t))
  /\ draft' = [draft EXCEPT ![t].attempt =
       IF \E i \in AttemptsOf(User(t)) :
            IsLatest(i, User(t)) /\ attempts[i].outcome = "locked_out"
       THEN None ELSE Recorded(t, "locked_out")]
  /\ Go(t, "decided")
  /\ UNCHANGED <<now, boot, db, locks, job>>

\* An empty password is a failure without a hash.
RefuseEmpty(t) ==
  /\ pc[t] = "locked" /\ ~LockedOut(User(t))
  /\ draft' = [draft EXCEPT ![t].attempt = Recorded(t, "failed")]
  /\ Go(t, "decided")
  /\ UNCHANGED <<now, boot, db, locks, job>>

\* verify_password in a worker thread, deliberately slow.
StartHash(t) ==
  /\ pc[t] = "locked" /\ ~LockedOut(User(t))
  /\ Go(t, "hashing")
  /\ UNCHANGED <<now, boot, db, locks, job, draft>>

WrongPassword(t) ==
  /\ pc[t] = "hashing"
  /\ draft' = [draft EXCEPT ![t].attempt = Recorded(t, "failed")]
  /\ Go(t, "decided")
  /\ UNCHANGED <<now, boot, db, locks, job>>

\* open_break_glass: whatever is still active is revoked, then one session opened.
RightPassword(t) ==
  /\ pc[t] = "hashing"
  /\ draft' = [draft EXCEPT ![t] =
       [attempt |-> Recorded(t, "succeeded"),
        opened |-> [user |-> User(t), createdAt |-> now, expiresAt |-> now + Ttl,
                    revokedAt |-> None],
        revoked |-> ActiveOf(User(t)), at |-> now]]
  /\ Go(t, "decided")
  /\ UNCHANGED <<now, boot, db, locks, job>>

Add(rows, row) == IF row = None THEN rows ELSE Append(rows, row)
Revoke(ids, at) ==
  [id \in DOMAIN sessions |->
     IF id \in ids THEN [sessions[id] EXCEPT !.revokedAt = at] ELSE sessions[id]]

Release(t) ==
  /\ rowLock' = [u \in Users |-> IF rowLock[u] = t THEN None ELSE rowLock[u]]
  /\ keyedLock' = [k \in Instances \X Users |->
                     IF keyedLock[k] = t THEN None ELSE keyedLock[k]]
  /\ draft' = [draft EXCEPT ![t] = Nothing]

\* The attempt and the session become durable together, before anyone is told.
CommitLogin(t) ==
  /\ pc[t] = "decided"
  /\ attempts' = Add(attempts, draft[t].attempt)
  /\ sessions' = Add(Revoke(draft[t].revoked, draft[t].at), draft[t].opened)
  /\ Release(t)
  /\ Go(t, "telling")
  /\ UNCHANGED <<now, boot, job>>

Leave(t) == Go(t, "idle") /\ job' = [job EXCEPT ![t] = None]

Answer(t) ==
  /\ pc[t] = "telling"
  /\ Leave(t)
  /\ UNCHANGED <<now, boot, db, locks, draft>>

\* A failing statement, or the process dying: nothing of the transaction stays.
Abort(t) ==
  /\ pc[t] \notin {"idle", "telling"}
  /\ Release(t)
  /\ Leave(t)
  /\ UNCHANGED <<now, boot, db>>

----------------------------------------------------------------------------
\* An update for the admin router.

SendAdminUpdate(t, u) ==
  /\ Send(t, u, FALSE, "admin")
  /\ Go(t, "asking")
  /\ UNCHANGED <<now, boot, db, locks, draft>>

\* resolve_admin_grant: ADMIN_IDS needs no database (session 0 stands for it);
\* anyone else needs the switch on and an active session, read once.
ResolveGrant(t) ==
  LET u == User(t)
  IN  /\ pc[t] = "asking"
      /\ \/ /\ u \in Admins
            /\ Go(t, "acting") /\ UNCHANGED job
         \/ /\ u \notin Admins /\ switch[job[t].instance]
            /\ \E id \in ActiveOf(u) :
                 /\ \A other \in ActiveOf(u) :
                      \/ sessions[other].expiresAt < sessions[id].expiresAt
                      \/ sessions[other].expiresAt = sessions[id].expiresAt /\ other <= id
                 /\ job' = [job EXCEPT ![t].session = id, ![t].at = now]
            /\ Go(t, "acting")
         \/ /\ u \notin Admins
            /\ ~switch[job[t].instance] \/ ActiveOf(u) = {}
            /\ Leave(t)
      /\ UNCHANGED <<now, boot, db, locks, draft>>

\* The handler runs to its end on the grant it was given; nobody asks again.
Act(t) ==
  /\ pc[t] = "acting"
  /\ Leave(t)
  /\ UNCHANGED <<now, boot, db, locks, draft>>

----------------------------------------------------------------------------
\* A start of the bot.

StartBot(on) ==
  /\ reconciling = None /\ Len(switch) < MaxStarts
  /\ switch' = Append(switch, on)
  /\ reconciling' = [ids |-> {}, at |-> now, listed |-> FALSE]
  /\ UNCHANGED <<now, db, locks, pc, job, draft>>

\* With the switch on the sessions are only counted.
ListSessions ==
  /\ reconciling # None /\ ~reconciling.listed
  /\ reconciling' =
       IF switch[Len(switch)] THEN None
       ELSE [ids |-> {id \in DOMAIN sessions : Active(id, sessions[id].user)},
             at |-> now, listed |-> TRUE]
  /\ UNCHANGED <<now, switch, db, locks, pc, job, draft>>

\* revoke_every_active waits for a row that a login has revoked and not committed.
RevokeListed ==
  /\ reconciling # None /\ reconciling.listed
  /\ \A t \in Tasks : draft[t].revoked \cap reconciling.ids = {}
  /\ sessions' = Revoke(reconciling.ids, reconciling.at)
  /\ reconciling' = None
  /\ UNCHANGED <<now, switch, attempts, locks, pc, job, draft>>

\* A failure is logged and never stops the bot.
ReconcileFails ==
  /\ reconciling # None
  /\ reconciling' = None
  /\ UNCHANGED <<now, switch, db, locks, pc, job, draft>>

----------------------------------------------------------------------------
Login(t) ==
  \/ EnsureUser(t) \/ Discard(t) \/ EnterKeyedLock(t) \/ LockUser(t)
  \/ RefuseLockedOut(t) \/ RefuseEmpty(t) \/ StartHash(t)
  \/ WrongPassword(t) \/ RightPassword(t) \/ CommitLogin(t) \/ Answer(t) \/ Abort(t)

Boot ==
  \/ \E on \in BOOLEAN : StartBot(on)
  \/ ListSessions \/ RevokeListed \/ ReconcileFails

Next ==
  \/ Tick \/ Boot
  \/ \E t \in Tasks :
       \/ \E u \in Askers, touches \in BOOLEAN : OfferPassword(t, u, touches)
       \/ \E u \in Users : SendAdminUpdate(t, u)
       \/ Login(t) \/ ResolveGrant(t) \/ Act(t)

Spec == Init /\ [][Next]_vars

----------------------------------------------------------------------------
\* Properties.

\* Tables, locks and tasks hold what the models and the handler declare.
TypeOK ==
  /\ now \in Nat
  /\ switch \in Seq(BOOLEAN) /\ Len(switch) \in Instances
  /\ reconciling \in [ids : SUBSET Nat, at : Nat, listed : BOOLEAN] \cup {None}
  /\ attempts \in Seq(Attempt)
  /\ sessions \in Seq(AccessSession)
  /\ rowLock \in [Users -> Tasks \cup {None}]
  /\ keyedLock \in [Instances \X Users -> Tasks \cup {None}]
  /\ pc \in [Tasks -> Phases]
  /\ job \in [Tasks -> Job \cup {None}]
  /\ draft \in [Tasks -> Draft]

\* However many passwords are sent at once, and by whichever instance they are
\* checked: no stretch of time as long as the lockout window holds more failed
\* attempts of one user than configured, unless a success lies among them.
FailuresBounded ==
  \A i \in DOMAIN attempts :
    Cardinality({j \in DOMAIN attempts :
       /\ attempts[j].user = attempts[i].user /\ attempts[j].outcome = "failed"
       /\ attempts[j].at \in attempts[i].at - Lockout .. attempts[i].at
       /\ \A k \in DOMAIN attempts :
            ~ /\ attempts[k].user = attempts[i].user
              /\ attempts[k].outcome = "succeeded"
              /\ attempts[k].at \in attempts[j].at .. attempts[i].at}) <= MaxFailed

\* A user holds at most one active session, however often they authenticate.
OneActiveSession ==
  \A u \in Users : \A id, other \in ActiveOf(u) : id = other

\* A locked-out account cannot grow the table: between two refusals on record
\* there is an attempt that was checked.
RefusalsNotRepeated ==
  \A u \in Users : \A i, k \in AttemptsOf(u) :
    /\ i < k
    /\ attempts[i].outcome = "locked_out" /\ attempts[k].outcome = "locked_out"
    => \E m \in AttemptsOf(u) : i < m /\ m < k /\ attempts[m].outcome # "locked_out"

\* Whoever acts on an emergency grant gave the right password less than a
\* session's life before the grant was taken, on record, to an instance that has
\* emergency access switched on.
AuthorityIsRecent ==
  \A t \in Tasks :
    pc[t] = "acting" /\ User(t) \notin Admins =>
      /\ switch[job[t].instance]
      /\ \E i \in AttemptsOf(User(t)) :
           /\ attempts[i].outcome = "succeeded"
           /\ attempts[i].at = sessions[job[t].session].createdAt
           /\ attempts[i].at <= job[t].at /\ job[t].at < attempts[i].at + Ttl

\* The task that keeps a task waiting.
WaitsFor(t, other) ==
  \/ /\ \/ pc[t] = "keyed"
        \/ pc[t] = "arrived" /\ job[t].touches
     /\ other # t /\ rowLock[User(t)] = other
  \/ pc[t] = "queueing" /\ keyedLock[KeyOf(t)] = other

\* "Every path takes its locks in this order, so no two transactions wait on each
\* other in a cycle" (docs/architecture.md), keyed_lock first.
NoWaitCycle == \A t, other \in Tasks : ~(WaitsFor(t, other) /\ WaitsFor(other, t))
=============================================================================
