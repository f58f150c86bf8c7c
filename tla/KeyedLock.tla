----------------------------- MODULE KeyedLock -----------------------------
(***************************************************************************)
(* keyed_lock (utils/concurrency.py): a registry of asyncio locks, one per *)
(* key, that is pruned when it grows too large.  A coroutine looks its     *)
(* lock up and counts itself among the users of the key in one go, with no *)
(* suspension in between; then it enters or queues; when it leaves, its    *)
(* lock is handed to the first in the queue, which wakes up later.  A lock *)
(* dropped from the registry while somebody still has it would let two     *)
(* coroutines into the section of one key through two locks.               *)
(***************************************************************************)
EXTENDS Integers, Sequences, FiniteSets

CONSTANTS
  Keys,
  Procs,     \* coroutines
  Locks,     \* asyncio.Lock objects, used again once nobody refers to one
  MaxLocks,  \* _MAX_LOCKS
  None

ASSUME KeyedLockAssumption ==
  /\ IsFiniteSet(Procs)
  /\ None \notin Keys \cup Locks
  /\ MaxLocks \in Nat

VARIABLES
  registry,  \* _locks: the lock of each key, None where there is no entry
  users,     \* _users: how many coroutines hold or wait for each key's lock
  queue,     \* the coroutines waiting for each lock, first come first
  locked,    \* whether each lock is taken
  place,     \* where each coroutine is
  key, lock  \* the key it asked for and the lock it was given

lockVars == <<registry, users, queue, locked, place, key, lock>>

LockInit ==
  /\ registry = [k \in Keys |-> None]
  /\ users = [k \in Keys |-> 0]
  /\ queue = [l \in Locks |-> <<>>]
  /\ locked = [l \in Locks |-> FALSE]
  /\ place = [p \in Procs |-> "out"]
  /\ key = [p \in Procs |-> None]
  /\ lock = [p \in Procs |-> None]

Registered == {k \in Keys : registry[k] # None}
Unused(l) ==
  /\ \A k \in Keys : registry[k] # l
  /\ \A p \in Procs : lock[p] # l

\* Nobody holds or waits for the key's lock.
Idle(k) == k \in Registered /\ users[k] = 0

\* Half of the idle entries go, at least one if there is one, the oldest first
\* (any of them, here).
Pruned ==
  LET idle == {k \in Keys : Idle(k)}
      half == Cardinality(idle) \div 2
      count == IF idle = {} THEN 0 ELSE IF half < 1 THEN 1 ELSE half
  IN  IF Cardinality(Registered) < MaxLocks
      THEN {registry}
      ELSE {[k \in Keys |-> IF k \in dropped THEN None ELSE registry[k]] :
              dropped \in {d \in SUBSET idle : Cardinality(d) = count}}

\* asyncio.Lock.acquire: straight in if the lock is free and nobody queues.
Approach(p, k, l) ==
  /\ users' = [users EXCEPT ![k] = @ + 1]
  /\ key' = [key EXCEPT ![p] = k]
  /\ lock' = [lock EXCEPT ![p] = l]
  /\ IF ~locked[l] /\ queue[l] = <<>>
     THEN /\ place' = [place EXCEPT ![p] = "inside"]
          /\ locked' = [locked EXCEPT ![l] = TRUE]
          /\ UNCHANGED queue
     ELSE /\ place' = [place EXCEPT ![p] = "waiting"]
          /\ queue' = [queue EXCEPT ![l] = Append(@, p)]
          /\ UNCHANGED locked

AskKnown(p, k) ==
  /\ place[p] = "out" /\ registry[k] # None
  /\ Approach(p, k, registry[k])
  /\ UNCHANGED registry

\* Mutant: the new lock handed out and not entered in the registry.
AskNewForgotten(p, k, l) ==
  /\ place[p] = "out" /\ registry[k] = None /\ Unused(l)
  /\ registry' \in Pruned
  /\ Approach(p, k, l)

AskNew(p, k, l) ==
  /\ place[p] = "out" /\ registry[k] = None /\ Unused(l)
  /\ \E pruned \in Pruned : registry' = [pruned EXCEPT ![k] = l]
  /\ Approach(p, k, l)

\* New locks are alike: it is enough to take the one some order puts first.
Ask(p, k) ==
  \/ AskKnown(p, k)
  \/ (\E l \in Locks : Unused(l)) /\ AskNew(p, k, CHOOSE l \in Locks : Unused(l))

\* The first in the queue finds the lock free.
Wake(p) ==
  /\ place[p] = "waiting"
  /\ ~locked[lock[p]]
  /\ queue[lock[p]] # <<>> /\ Head(queue[lock[p]]) = p
  /\ place' = [place EXCEPT ![p] = "inside"]
  /\ locked' = [locked EXCEPT ![lock[p]] = TRUE]
  /\ queue' = [queue EXCEPT ![lock[p]] = Tail(@)]
  /\ UNCHANGED <<registry, users, key, lock>>

\* The end of "async with keyed_lock(key)", by return or by exception.
Quit(p) ==
  /\ place[p] = "inside"
  /\ place' = [place EXCEPT ![p] = "out"]
  /\ locked' = [locked EXCEPT ![lock[p]] = FALSE]
  /\ users' = [users EXCEPT ![key[p]] = @ - 1]
  /\ key' = [key EXCEPT ![p] = None]
  /\ lock' = [lock EXCEPT ![p] = None]
  /\ UNCHANGED <<registry, queue>>

LockNext ==
  \E p \in Procs : Wake(p) \/ Quit(p) \/ \E k \in Keys : Ask(p, k)

LockSpec == LockInit /\ [][LockNext]_lockVars

----------------------------------------------------------------------------
\* However often the registry is pruned, no two coroutines are ever in the
\* section of one key.
KeysExclude ==
  \A p, q \in Procs :
    place[p] = "inside" /\ place[q] = "inside" /\ key[p] = key[q] => p = q
=============================================================================
