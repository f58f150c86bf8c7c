------------------------ MODULE ReferralAttribution ------------------------
(***************************************************************************)
(* Who invited whom (handlers/user/start.py cmd_start, services/           *)
(* referral_program.py attribute_from_start, services/referral.py          *)
(* attribute), against the two things it must not mix with: the customer's *)
(* first order (services/order.py) and the payouts that lock accounts up a *)
(* chain of invitations (services/referral_program.py).                    *)
(*                                                                         *)
(* A session is one transaction at READ COMMITTED.  A /start through a     *)
(* friend's link locks the newcomer's account, looks whether they are new, *)
(* queues for the one attribution lock of the shop, walks up the friend's  *)
(* chain one statement at a time, writes the referral, commits, and only   *)
(* then answers.                                                           *)
(***************************************************************************)
EXTENDS Integers

CONSTANTS
  Users,
  Sessions,   \* transactions that can be open at once
  MaxChain,   \* MAX_CHAIN: how far up a chain is followed
  None

ASSUME AttributionAssumption ==
  /\ None \notin Users
  /\ None \notin Sessions
  /\ MaxChain \in Nat

VARIABLES
  referrer,        \* committed: who invited each customer, None if nobody did
  ordered,         \* committed: customers with an order of any status
  accountLock,     \* the session holding each customer's account row
  attributionLock, \* the session holding the advisory lock
  pc, job,         \* where each session is, and the customer and friend it is about
  walk             \* the walk up the friend's chain: where it is, what it has seen

db == <<referrer, ordered>>
locks == <<accountLock, attributionLock>>
vars == <<db, locks, pc, job, walk>>

Job == [user : Users, friend : Users \cup {None}]
Walk == [current : Users, seen : SUBSET Users, steps : 0..MaxChain]

Waits == {"linked", "queue", "ordering", "completing", "crediting"}
Phases == Waits \cup
  {"idle", "account", "alone", "walking", "written", "nothing", "telling",
   "order_locked", "paying", "paid"}

Init ==
  /\ referrer = [u \in Users |-> None]
  /\ ordered = {}
  /\ accountLock = [u \in Users |-> None]
  /\ attributionLock = None
  /\ pc = [s \in Sessions |-> "idle"]
  /\ job = [s \in Sessions |-> None]
  /\ walk = [s \in Sessions |-> None]

Go(s, phase) == pc' = [pc EXCEPT ![s] = phase]
User(s) == job[s].user

Ask(s, phase, u, r) ==
  /\ pc[s] = "idle"
  /\ Go(s, phase)
  /\ job' = [job EXCEPT ![s] = [user |-> u, friend |-> r]]
  /\ UNCHANGED <<db, locks, walk>>

Acquire(s, u) ==
  /\ accountLock[u] \in {None, s}
  /\ accountLock' = [accountLock EXCEPT ![u] = s]

\* The end of a transaction, committed or rolled back.
Release(s) ==
  /\ accountLock' = [u \in Users |-> IF accountLock[u] = s THEN None ELSE accountLock[u]]
  /\ attributionLock' = IF attributionLock = s THEN None ELSE attributionLock
  /\ walk' = [walk EXCEPT ![s] = None]

Leave(s) == Go(s, "idle") /\ job' = [job EXCEPT ![s] = None]

----------------------------------------------------------------------------
\* /start through a friend's link.

\* The payload is some customer's code, and not the newcomer's own.
OpenLink(s, u, r) == u # r /\ Ask(s, "linked", u, r)

\* Mutant: the account that placing an order locks not waited for.
LockAccountUnwaited(s) ==
  /\ pc[s] = "linked"
  /\ accountLock' = [accountLock EXCEPT ![User(s)] = s]
  /\ Go(s, "account")
  /\ UNCHANGED <<db, attributionLock, job, walk>>

LockAccount(s) ==
  /\ pc[s] = "linked"
  /\ Acquire(s, User(s))
  /\ Go(s, "account")
  /\ UNCHANGED <<db, attributionLock, job, walk>>

\* ALREADY_REFERRED and NOT_NEW_CUSTOMER, or on to the attribution.
LookWhetherNew(s) ==
  /\ pc[s] = "account"
  /\ Go(s, IF referrer[User(s)] # None \/ User(s) \in ordered THEN "nothing" ELSE "queue")
  /\ UNCHANGED <<db, locks, job, walk>>

\* Mutant: the lock taken on no database but PostgreSQL's, or not at all.
LockAttributionsNever(s) ==
  /\ pc[s] = "queue"
  /\ Go(s, "alone")
  /\ UNCHANGED <<db, locks, job, walk>>

\* Mutant: the friend's account locked instead, so that others need not wait.
LockAttributionsOfFriend(s) ==
  /\ pc[s] = "queue"
  /\ Acquire(s, job[s].friend)
  /\ Go(s, "alone")
  /\ UNCHANGED <<db, attributionLock, job, walk>>

\* lock_attributions: one attribution at a time, to the end of its transaction.
LockAttributions(s) ==
  /\ pc[s] = "queue" /\ attributionLock = None
  /\ attributionLock' = s
  /\ Go(s, "alone")
  /\ UNCHANGED <<db, accountLock, job, walk>>

\* A concurrent /start may have attributed them first; else the walk begins.
StartWalk(s) ==
  /\ pc[s] = "alone"
  /\ IF referrer[User(s)] # None
     THEN Go(s, "nothing") /\ UNCHANGED walk
     ELSE /\ walk' = [walk EXCEPT ![s] =
               [current |-> job[s].friend, seen |-> {job[s].friend}, steps |-> 0]]
          /\ Go(s, "walking")
  /\ UNCHANGED <<db, locks, job>>

\* Mutant: a chain too long to follow taken for one that ends.
WalkUpToTheLimit(s) ==
  LET w == walk[s]
      up == referrer[w.current]
  IN  /\ pc[s] = "walking"
      /\ IF w.steps < MaxChain /\ up \notin w.seen \cup {User(s), None}
         THEN /\ walk' = [walk EXCEPT ![s] =
                   [current |-> up, seen |-> w.seen \cup {up}, steps |-> w.steps + 1]]
              /\ UNCHANGED pc
         ELSE /\ Go(s, IF w.steps = MaxChain \/ up = None THEN "written" ELSE "nothing")
              /\ UNCHANGED walk
      /\ UNCHANGED <<db, locks, job>>

\* One step of _leads_back_to: the chain ends and the referral is written, or
\* it comes back, or is too long to follow, and the attribution is refused.
WalkUp(s) ==
  LET w == walk[s]
      up == referrer[w.current]
  IN  /\ pc[s] = "walking"
      /\ IF w.steps < MaxChain /\ up \notin w.seen \cup {User(s), None}
         THEN /\ walk' = [walk EXCEPT ![s] =
                   [current |-> up, seen |-> w.seen \cup {up}, steps |-> w.steps + 1]]
              /\ UNCHANGED pc
         ELSE /\ Go(s, IF w.steps < MaxChain /\ up = None THEN "written" ELSE "nothing")
              /\ UNCHANGED walk
      /\ UNCHANGED <<db, locks, job>>

\* cmd_start commits whatever the outcome, before anyone is answered.
CommitStart(s) ==
  /\ pc[s] \in {"written", "nothing"}
  /\ referrer' = IF pc[s] = "written" THEN [referrer EXCEPT ![User(s)] = job[s].friend]
                 ELSE referrer
  /\ Release(s)
  /\ Go(s, "telling")
  /\ UNCHANGED <<ordered, job>>

\* The newcomer is answered, and the friend told that somebody joined.
Tell(s) ==
  /\ pc[s] = "telling"
  /\ Leave(s)
  /\ UNCHANGED <<db, locks, walk>>

----------------------------------------------------------------------------
\* A customer's order: place_order_from_cart takes the account lock too.

StartOrder(s, u) == Ask(s, "ordering", u, None)

LockForOrder(s) ==
  /\ pc[s] = "ordering"
  /\ Acquire(s, User(s))
  /\ Go(s, "order_locked")
  /\ UNCHANGED <<db, attributionLock, job, walk>>

CommitOrder(s) ==
  /\ pc[s] = "order_locked"
  /\ ordered' = ordered \cup {User(s)}
  /\ Release(s)
  /\ Leave(s)
  /\ UNCHANGED referrer

----------------------------------------------------------------------------
\* The completion of an order: the customer's account, and their referrer's.

CompleteOrder(s, u) == u \in ordered /\ Ask(s, "completing", u, None)

LockForPurchase(s) ==
  /\ pc[s] = "completing"
  /\ Acquire(s, User(s))
  /\ Go(s, "paying")
  /\ UNCHANGED <<db, attributionLock, job, walk>>

ReadReferral(s) ==
  /\ pc[s] = "paying"
  /\ job' = [job EXCEPT ![s].friend = referrer[User(s)]]
  /\ Go(s, IF referrer[User(s)] = None THEN "paid" ELSE "crediting")
  /\ UNCHANGED <<db, locks, walk>>

LockForCredit(s) ==
  /\ pc[s] = "crediting"
  /\ Acquire(s, job[s].friend)
  /\ Go(s, "paid")
  /\ UNCHANGED <<db, attributionLock, job, walk>>

CommitPayout(s) ==
  /\ pc[s] = "paid"
  /\ Release(s)
  /\ Leave(s)
  /\ UNCHANGED db

----------------------------------------------------------------------------
\* An exception, a lost connection or a crash.
Abort(s) ==
  /\ pc[s] # "idle"
  /\ Release(s)
  /\ Leave(s)
  /\ UNCHANGED db

Waiting(s) ==
  \/ LockAccount(s) \/ LockAttributions(s) \/ LockForOrder(s)
  \/ LockForPurchase(s) \/ LockForCredit(s)

Working(s) ==
  \/ LookWhetherNew(s) \/ StartWalk(s) \/ WalkUp(s) \/ CommitStart(s) \/ Tell(s)
  \/ CommitOrder(s) \/ ReadReferral(s) \/ CommitPayout(s)

Begin(s) ==
  \E u \in Users :
    \/ \E r \in Users : OpenLink(s, u, r)
    \/ StartOrder(s, u)
    \/ CompleteOrder(s, u)

Next == \E s \in Sessions : Begin(s) \/ Waiting(s) \/ Working(s) \/ Abort(s)

Spec == Init /\ [][Next]_vars

\* What can run is run, and PostgreSQL hands each lock to its waiters.
Fairness == \A s \in Sessions : WF_vars(Working(s)) /\ SF_vars(Waiting(s))

FairSpec == Spec /\ Fairness

----------------------------------------------------------------------------
\* Properties.

\* Rows, locks and walks are of the kinds the code declares; no walk ever reads
\* further up a chain than MAX_CHAIN.
TypeOK ==
  /\ referrer \in [Users -> Users \cup {None}]
  /\ ordered \subseteq Users
  /\ accountLock \in [Users -> Sessions \cup {None}]
  /\ attributionLock \in Sessions \cup {None}
  /\ pc \in [Sessions -> Phases]
  /\ job \in [Sessions -> Job \cup {None}]
  /\ walk \in [Sessions -> Walk \cup {None}]

\* The referral graph has no cycle of any length, whoever opens whose link at
\* the same moment: every set of customers has one whose referrer is not in it.
\* OrderCompletion's NoWaitCycle rests on it (docs/architecture.md, lock order).
NoReferralLoop ==
  \A loop \in SUBSET Users :
    loop # {} => \E u \in loop : referrer[u] \notin loop

\* A customer keeps their first referrer for good and gets one only while they
\* have no order: never on top of a first order placed at the same moment.
OnlyNewCustomersReferred ==
  [][\A u \in Users : referrer'[u] # referrer[u] =>
       referrer[u] = None /\ u \notin ordered]_vars

\* The session whose lock another one waits for.
Blocker(s) ==
  CASE pc[s] \in {"linked", "ordering", "completing"} -> accountLock[User(s)]
    [] pc[s] = "queue" -> attributionLock
    [] pc[s] = "crediting" -> accountLock[job[s].friend]
    [] OTHER -> None

\* Attributions, orders and payouts never wait on each other in a cycle: an
\* account before the attribution lock, and accounts only up the chain.
NoWaitCycle ==
  \A stuck \in SUBSET Sessions :
    stuck # {} => \E s \in stuck : Blocker(s) \notin stuck \ {s}

\* cmd_start: "the locks an attribution takes are released before the bot
\* waits on Telegram", for every outcome.
StartTellsUnlocked ==
  \A s \in Sessions :
    pc[s] = "telling" => attributionLock # s /\ \A u \in Users : accountLock[u] # s

\* Every /start is answered, whatever queues for the same locks.
EveryStartEnds == \A s \in Sessions : pc[s] = "linked" ~> pc[s] = "idle"
============================================================================
