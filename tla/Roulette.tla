------------------------------ MODULE Roulette ------------------------------
(***************************************************************************)
(* The roulette: spins granted (services/spin_entitlement.py,              *)
(* services/loyalty_activation.py), and played (handlers/user/roulette.py, *)
(* services/roulette_engine.py, services/roulette.py).                     *)
(*                                                                         *)
(* A session is one transaction at READ COMMITTED: a tap on the Spin       *)
(* button, a /start, which grants the welcome spin, or the backfill of a   *)
(* starting instance, which opens every missing account and then grants    *)
(* every missing welcome spin.  Accounts are locked rows; a row inserted   *)
(* under a unique constraint is a lock too, until its transaction ends.    *)
(***************************************************************************)
EXTENDS Integers, Sequences

CONSTANTS
  Users,        \* the ids of the registered customers
  Invited,      \* those who come back through a friend's link
  Orders,       \* the orders that earn a spin
  Prizes,       \* PRIZE_CATALOGUE
  StampPrizes,  \* its prizes of type STAMPS; the others become rewards
  Sessions,     \* transactions that can be open at once
  None

\* users.id is an INTEGER key.
MaxId == 2147483647

ASSUME RouletteAssumption ==
  /\ Users \subseteq 1..MaxId
  /\ Invited \subseteq Users
  /\ StampPrizes \subseteq Prizes
  /\ "welcome" \notin Orders
  /\ None \notin Sessions \cup Prizes \cup Users

VARIABLES
  accounts,                      \* customers with a committed account
  grants, spins, ledger, rewards, \* as in SpinBook, committed
  accountLock, \* who holds each account's row, or inserted it and is not done
  welcomeLock, \* who inserted each customer's welcome grant and is not done
  pc, job      \* where each session is, and what it is about

book == <<grants, spins, ledger, rewards>>
locks == <<accountLock, welcomeLock>>
vars == <<accounts, book, locks, pc, job>>

Grant == [user : Users, source : Orders \cup {"welcome"}, spent : BOOLEAN]
Spin == [grant : Nat, user : Users, prize : Prizes]

\* The customer, the grant on the button, and the prize drawn, later shown; for
\* a backfill, the customers its running statement has still to insert; and
\* whose welcome grant the session has inserted, in that order.
Job == [user : Users \cup {None}, grant : Nat, prize : Prizes \cup {None},
        todo : SUBSET Users, inserted : Seq(Users)]

SpinPhases == {"tapped", "locked", "replay", "won", "told_prize", "told_stale",
               "told_failed", "told_clash", "nothing"}
StartPhases == {"started", "granting", "linked", "decided", "answering"}
BackfillPhases == {"booting", "opening", "topping", "activated"}
Telling == {"told_prize", "told_stale", "told_failed", "told_clash", "answering", "activated"}

Init ==
  /\ accounts \in SUBSET Users
  /\ grants = <<>> /\ spins = {} /\ ledger = {} /\ rewards = {}
  /\ accountLock = [u \in Users |-> None]
  /\ welcomeLock = [u \in Users |-> None]
  /\ pc = [s \in Sessions |-> "idle"]
  /\ job = [s \in Sessions |-> None]

User(s) == job[s].user
Button(s) == job[s].grant

Go(s, phase) == pc' = [pc EXCEPT ![s] = phase]

Begin(s, phase, u, g, p) ==
  /\ pc[s] = "idle"
  /\ Go(s, phase)
  /\ job' = [job EXCEPT ![s] =
       [user |-> u, grant |-> g, prize |-> p, todo |-> {}, inserted |-> <<>>]]

Leave(s) == Go(s, "idle") /\ job' = [job EXCEPT ![s] = None]

Welcomed(u) == \E g \in DOMAIN grants : grants[g].user = u /\ grants[g].source = "welcome"

\* get_for_user: the grant, if it is this customer's.
Owns(u, g) == g \in DOMAIN grants /\ grants[g].user = u

\* What a session has inserted and not committed.
Opened(s) == {u \in Users \ accounts : accountLock[u] = s}
Welcomes(s) ==
  [i \in DOMAIN job[s].inserted |->
     [user |-> job[s].inserted[i], source |-> "welcome", spent |-> FALSE]]

Release(s) ==
  /\ accountLock' = [u \in Users |-> IF accountLock[u] = s THEN None ELSE accountLock[u]]
  /\ welcomeLock' = [u \in Users |-> IF welcomeLock[u] = s THEN None ELSE welcomeLock[u]]

\* lock_account: the row inserted if nobody has, and locked.
Acquire(s, u) ==
  /\ accountLock[u] \in {None, s}
  /\ accountLock' = [accountLock EXCEPT ![u] = s]
  /\ UNCHANGED welcomeLock

----------------------------------------------------------------------------
\* A tap on the Spin button.

\* The first look at the grant, without a lock: it has to be this customer's.
Tap(s, u, g, p) ==
  /\ Begin(s,
       IF ~Owns(u, g) THEN "nothing" ELSE IF grants[g].spent THEN "replay" ELSE "tapped",
       u, g, p)
  /\ UNCHANGED <<accounts, book, locks>>

LockAccount(s) ==
  /\ pc[s] = "tapped"
  /\ Acquire(s, User(s))
  /\ Go(s, "locked")
  /\ UNCHANGED <<accounts, book, job>>

\* The grant read again, for update: spent while this tap waited, or played.
Play(s) ==
  /\ pc[s] = "locked"
  /\ Go(s, IF grants[Button(s)].spent THEN "replay" ELSE "won")
  /\ UNCHANGED <<accounts, book, locks, job>>

\* Mutant: a replay shows the prize this tap drew.
ReplayDraw(s) ==
  /\ pc[s] = "replay"
  /\ Release(s)
  /\ Go(s, "told_prize")
  /\ UNCHANGED <<accounts, book, job>>

\* _replay: the first result, and a commit that writes nothing but a new account.
Replay(s) ==
  /\ pc[s] = "replay"
  /\ \E spin \in spins :
       spin.grant = Button(s) /\ job' = [job EXCEPT ![s].prize = spin.prize]
  /\ accounts' = accounts \cup Opened(s)
  /\ Release(s)
  /\ Go(s, "told_prize")
  /\ UNCHANGED book

\* The grant spent, the spin recorded and its stamps or reward booked at once.
Save(s) ==
  LET g == Button(s)
      p == job[s].prize
  IN  /\ grants' = [grants EXCEPT ![g].spent = TRUE]
      /\ spins' = spins \cup {[grant |-> g, user |-> User(s), prize |-> p]}
      /\ ledger' = IF p \in StampPrizes THEN ledger \cup {g} ELSE ledger
      /\ rewards' = IF p \in StampPrizes THEN rewards ELSE rewards \cup {g}
      /\ accounts' = accounts \cup Opened(s)

\* uq_roulette_spins_grant_id refuses a second spin of a grant, whatever was read.
CommitSpin(s) ==
  LET clash == \E spin \in spins : spin.grant = Button(s)
  IN  /\ pc[s] = "won"
      /\ IF clash THEN UNCHANGED <<accounts, book>> ELSE Save(s)
      /\ Release(s)
      /\ Go(s, IF clash THEN "told_clash" ELSE "told_prize")
      /\ UNCHANGED job

\* The database fails before the commit, or the commit's answer is lost: the
\* customer is told that nothing was spent, and the same button is good again.
FailSpin(s) ==
  /\ pc[s] \in {"tapped", "locked", "replay", "won", "nothing"}
  /\ \/ UNCHANGED <<accounts, book>>
     \/ pc[s] = "won" /\ Save(s)
  /\ Release(s)
  /\ Go(s, "told_failed")
  /\ UNCHANGED job

\* Not this customer's grant: nothing was read under a lock, nothing written.
RefuseSpin(s) ==
  /\ pc[s] = "nothing"
  /\ Release(s)
  /\ Go(s, "told_stale")
  /\ UNCHANGED <<accounts, book, job>>

----------------------------------------------------------------------------
\* /start: the welcome spin, and the account if a friend's link is followed.

Start(s, u) ==
  /\ Begin(s, "started", u, 0, None)
  /\ UNCHANGED <<accounts, book, locks>>

FindWelcome(s) ==
  /\ pc[s] = "started"
  /\ Go(s, IF Welcomed(User(s)) THEN "linked" ELSE "granting")
  /\ UNCHANGED <<accounts, book, locks, job>>

InsertGrant(s, u) ==
  /\ welcomeLock' = [welcomeLock EXCEPT ![u] = s]
  /\ job' = [job EXCEPT ![s].todo = @ \ {u}, ![s].inserted = Append(@, u)]

\* Mutant: the row inserted by the transaction waited for not looked up again.
InsertWelcomeBlind(s) ==
  /\ pc[s] = "granting"
  /\ welcomeLock[User(s)] = None
  /\ InsertGrant(s, User(s))
  /\ Go(s, "linked")
  /\ UNCHANGED <<accounts, book, accountLock>>

\* The savepoint: the insert waits for an open transaction with the same row,
\* and finds that row if it committed.
InsertWelcome(s) ==
  /\ pc[s] = "granting"
  /\ welcomeLock[User(s)] = None
  /\ IF Welcomed(User(s)) THEN UNCHANGED <<welcomeLock, job>> ELSE InsertGrant(s, User(s))
  /\ Go(s, "linked")
  /\ UNCHANGED <<accounts, book, accountLock>>

\* attribute_from_start: a link locks the newcomer's account.
FollowLink(s) ==
  /\ pc[s] = "linked"
  /\ IF User(s) \in Invited THEN Acquire(s, User(s)) ELSE UNCHANGED locks
  /\ Go(s, "decided")
  /\ UNCHANGED <<accounts, book, job>>

CommitStart(s) ==
  /\ pc[s] = "decided"
  /\ accounts' = accounts \cup Opened(s)
  /\ grants' = grants \o Welcomes(s)
  /\ Release(s)
  /\ Go(s, "answering")
  /\ UNCHANGED <<spins, ledger, rewards, job>>

----------------------------------------------------------------------------
\* activate_everyone, when an instance starts: two statements, each over the
\* customers its own snapshot finds without the row.

Boot(s) ==
  /\ Begin(s, "booting", None, 0, None)
  /\ UNCHANGED <<accounts, book, locks>>

FindMissingAccounts(s) ==
  /\ pc[s] = "booting"
  /\ job' = [job EXCEPT ![s].todo = Users \ accounts]
  /\ Go(s, "opening")
  /\ UNCHANGED <<accounts, book, locks>>

\* Mutant: the rows inserted in whatever order the planner finds them.
NextMissingAnyOrder(s, u) == u \in job[s].todo

NextMissing(s, u) ==
  /\ u \in job[s].todo
  /\ \A v \in job[s].todo : u <= v

\* ON CONFLICT DO NOTHING: wait for an open insert of the row, skip a committed one.
OpenAccount(s) ==
  /\ pc[s] = "opening"
  /\ \E u \in Users :
       /\ NextMissing(s, u)
       /\ u \in accounts \/ accountLock[u] \in {None, s}
       /\ accountLock' = IF u \in accounts THEN accountLock
                         ELSE [accountLock EXCEPT ![u] = s]
       /\ job' = [job EXCEPT ![s].todo = @ \ {u}]
  /\ UNCHANGED <<accounts, book, welcomeLock, pc>>

FindMissingWelcomes(s) ==
  /\ pc[s] = "opening" /\ job[s].todo = {}
  /\ job' = [job EXCEPT ![s].todo = {u \in Users : ~Welcomed(u)}]
  /\ Go(s, "topping")
  /\ UNCHANGED <<accounts, book, locks>>

SkipGrant(s, u) ==
  /\ job' = [job EXCEPT ![s].todo = @ \ {u}]
  /\ UNCHANGED welcomeLock

\* Mutant: a row some open transaction inserts is taken for granted.
TopUpSkipsOpen(s) ==
  /\ pc[s] = "topping"
  /\ \E u \in Users :
       /\ NextMissing(s, u)
       /\ IF Welcomed(u) \/ welcomeLock[u] # None THEN SkipGrant(s, u) ELSE InsertGrant(s, u)
  /\ UNCHANGED <<accounts, book, accountLock, pc>>

TopUp(s) ==
  /\ pc[s] = "topping"
  /\ \E u \in Users :
       /\ NextMissing(s, u)
       /\ Welcomed(u) \/ welcomeLock[u] = None
       /\ IF Welcomed(u) THEN SkipGrant(s, u) ELSE InsertGrant(s, u)
  /\ UNCHANGED <<accounts, book, accountLock, pc>>

CommitBackfill(s) ==
  /\ pc[s] = "topping" /\ job[s].todo = {}
  /\ accounts' = accounts \cup Opened(s)
  /\ grants' = grants \o Welcomes(s)
  /\ Release(s)
  /\ Go(s, "activated")
  /\ UNCHANGED <<spins, ledger, rewards, job>>

----------------------------------------------------------------------------
\* A completed order earns its customer a spin, under their account's lock.
Earn(u, o) ==
  /\ u \in accounts /\ accountLock[u] = None
  /\ \A g \in DOMAIN grants : grants[g].source # o
  /\ grants' = Append(grants, [user |-> u, source |-> o, spent |-> FALSE])
  /\ UNCHANGED <<accounts, spins, ledger, rewards, locks, pc, job>>

\* The customer has had their answer, or the log its line.
Told(s) ==
  /\ pc[s] \in Telling
  /\ Leave(s)
  /\ UNCHANGED <<accounts, book, locks>>

\* An exception, a lost connection, a crash, or PostgreSQL's deadlock detector.
Abort(s) ==
  /\ pc[s] # "idle"
  /\ Release(s)
  /\ Leave(s)
  /\ UNCHANGED <<accounts, book>>

Step(s) ==
  \/ \E u \in Users, g \in 1..(Len(grants) + 1), p \in Prizes : Tap(s, u, g, p)
  \/ LockAccount(s) \/ Play(s) \/ Replay(s)
  \/ CommitSpin(s) \/ FailSpin(s) \/ RefuseSpin(s)
  \/ \E u \in Users : Start(s, u)
  \/ FindWelcome(s) \/ InsertWelcome(s) \/ FollowLink(s) \/ CommitStart(s)
  \/ Boot(s) \/ FindMissingAccounts(s) \/ OpenAccount(s)
  \/ FindMissingWelcomes(s) \/ TopUp(s) \/ CommitBackfill(s)
  \/ Told(s) \/ Abort(s)

Next ==
  \/ \E s \in Sessions : Step(s)
  \/ \E u \in Users, o \in Orders : Earn(u, o)

Spec == Init /\ [][Next]_vars

----------------------------------------------------------------------------
\* Properties.

\* Rows, locks and jobs are of the kinds the code declares; a grant is spent
\* exactly if there is a spin of it.
TypeOK ==
  /\ accounts \subseteq Users
  /\ grants \in Seq(Grant)
  /\ spins \subseteq Spin
  /\ {spin.grant : spin \in spins} = {g \in DOMAIN grants : grants[g].spent}
  /\ accountLock \in [Users -> Sessions \cup {None}]
  /\ welcomeLock \in [Users -> Sessions \cup {None}]
  /\ pc \in [Sessions -> SpinPhases \cup StartPhases \cup BackfillPhases \cup {"idle"}]
  /\ \A s \in Sessions : job[s] # None => job[s] \in Job

\* handlers/user/roulette.py: the prize a customer sees is the one their spin
\* saved, whether they tap once or again, after a failure or a lost answer.
ShownIsSaved ==
  \A s \in Sessions : pc[s] = "told_prize" =>
    [grant |-> Button(s), user |-> User(s), prize |-> job[s].prize] \in spins

\* services/loyalty_activation.py: once a backfill has committed everyone has an
\* account and a welcome spin, although it skipped the rows that others inserted.
EveryoneActivated ==
  \A s \in Sessions : pc[s] = "activated" => accounts = Users /\ \A u \in Users : Welcomed(u)

\* The sessions whose row a session waits for.
Blockers(s) ==
  {None} \cup
  CASE pc[s] = "tapped" -> {accountLock[User(s)]}
    [] pc[s] = "granting" -> {welcomeLock[User(s)]}
    [] pc[s] = "linked" -> {accountLock[u] : u \in {User(s)} \cap Invited}
    [] pc[s] = "opening" -> {accountLock[u] : u \in {v \in Users \ accounts : NextMissing(s, v)}}
    [] pc[s] = "topping" -> {welcomeLock[u] : u \in {v \in Users : NextMissing(s, v) /\ ~Welcomed(v)}}
    [] OTHER -> {}

WaitCycle(stuck) ==
  stuck # {} /\ \A s \in stuck : Blockers(s) \cap (stuck \ {s}) # {}

\* Backfills in user order, starts and spins never wait in a cycle but for one:
\* a backfill that opened the account of a customer whose /start through a
\* link, their welcome spin already inserted, is about to open it too.
OnlyLinksMeetBackfills ==
  \A stuck \in SUBSET Sessions : WaitCycle(stuck) =>
    \E s, t \in stuck :
      pc[s] = "topping" /\ pc[t] = "linked" /\ User(t) \notin accounts

\* The roulette implements SpinBook.
Promise == INSTANCE SpinBook
ImplementsSpinBook == Promise!Spec
=============================================================================
