---------------------------- MODULE StampLedger ----------------------------
(***************************************************************************)
(* The stamp ledger of V-Shop (src/app/services/loyalty.py): the only code *)
(* that moves a customer's stamp balance.                                  *)
(*                                                                         *)
(* A session is one database transaction at READ COMMITTED.  It starts one *)
(* ledger operation from an unlocked read, locks the customer's account    *)
(* row and re-reads it, decides, writes, and commits or rolls back.  A     *)
(* claim writes twice, in two flushes: the bottle's reward, then the       *)
(* ledger row that pays for it.  What a session has flushed is private     *)
(* until it commits, and a commit publishes all of it, whatever the        *)
(* operation answered.  The card screen is the one reader: it reads the    *)
(* balance and the ledger's version in two separate statements and takes   *)
(* no lock, and what it drew stays tappable.                               *)
(*                                                                         *)
(* Sessions stand for the handlers of one process and of several: the      *)
(* process-local keyed_lock of the claim handler only removes              *)
(* interleavings, and the row lock has to be enough without it.            *)
(***************************************************************************)
EXTENDS Integers, Sequences, FiniteSetsExt

CONSTANTS
  Users,           \* customers
  Sessions,        \* database transactions that can be open at once
  Orders, Owner,   \* orders, and each order's customer
  Spins, Spinner,  \* roulette spins, and each spin's customer
  Referrals,       \* qualified referrals (the status check is the caller's)
  Party,           \* the referrer and the referred customer of each referral
  StampsRequired,  \* LOYALTY_STAMPS_REQUIRED
  MaxStamps,       \* bound: stamps moved by one credit or adjustment
  MaxId,           \* bound: values drawn from the ledger's id sequence
  MaxReward,       \* bound: values drawn from the rewards' id sequence
  None

ASSUME LedgerAssumption ==
  /\ None \notin Sessions
  /\ Owner \in [Orders -> Users]
  /\ Spinner \in [Spins -> Users]
  /\ Party \in [Referrals -> SUBSET Users]
  /\ StampsRequired \in Nat \ {0}
  /\ MaxStamps \in Nat
  /\ MaxId \in Nat
  /\ MaxReward \in Nat

VARIABLES
  account,  \* committed loyalty_accounts row per customer
  ledger,   \* committed loyalty_transactions rows per customer, oldest first
  rewards,  \* committed stamp-card rewards per customer, by id
  lock,     \* the session holding each account row FOR UPDATE
  nextId,   \* last value drawn from the ledger's id sequence: never rolled back
  nextReward, \* the same of the rewards' id sequence
  pc, op,   \* where each session is, and its operation
  seen,     \* the account instance in each session
  issued,   \* the reward each session has flushed and not committed, 0: none
  draft,    \* the ledger row each session has flushed and not committed
  cards     \* the card messages with a claim button each customer holds

ids == <<nextId, nextReward>>
vars == <<account, ledger, rewards, lock, ids, pc, op, seen, issued, draft, cards>>

Credits == {"purchase", "referral", "roulette"}
Kinds == Credits \cup {"adjustment", "redemption"}
Refs == Orders \cup Spins \cup Referrals \cup {None}

Account == [stamps : Nat, purchases : Nat]
Card == [stamps : Nat, version : Nat]

\* A ledger row.  "reward" is the reward a redemption paid for, 0 (NULL) in any
\* other row.  "card" is history the table does not keep: the card message a
\* redemption was claimed from.
Row == [id : Nat, kind : Kinds, amount : Int, after : Nat, ref : Refs,
        reward : Nat, card : Card \cup {None}]
Operation == [user : Users, kind : Kinds \cup {"card"}, amount : Int,
              ref : Refs, card : Card \cup {None}]

Refused == {"replayed", "insufficient", "stale", "already_claimed"}
Holding == {"locked", "issued", "written", "invariant_error"} \cup Refused
Phases == {"idle", "begun", "redraw", "balance_read"} \cup Holding

Init ==
  /\ account = [u \in Users |-> [stamps |-> 0, purchases |-> 0]]
  /\ ledger = [u \in Users |-> <<>>]
  /\ rewards = [u \in Users |-> {}]
  /\ lock = [u \in Users |-> None]
  /\ nextId = 0
  /\ nextReward = 0
  /\ pc = [s \in Sessions |-> "idle"]
  /\ op = [s \in Sessions |-> None]
  /\ seen = [s \in Sessions |-> None]
  /\ issued = [s \in Sessions |-> 0]
  /\ draft = [s \in Sessions |-> None]
  /\ cards = [u \in Users |-> {}]

----------------------------------------------------------------------------
\* Queries.

IdsOf(u) == {ledger[u][i].id : i \in 1..Len(ledger[u])}

LatestId(u) == Max({0} \cup IdsOf(u))

HasRedemptionAfter(u, version) ==
  \E i \in 1..Len(ledger[u]) :
    ledger[u][i].kind = "redemption" /\ ledger[u][i].id > version

\* get_purchase_for_order, get_for_referral, get_for_spin: the event's row.
Booked(o) ==
  \E i \in 1..Len(ledger[o.user]) :
    ledger[o.user][i].kind = o.kind /\ ledger[o.user][i].ref = o.ref

----------------------------------------------------------------------------
\* Starting an operation: validation of its arguments, and get_or_create's
\* unlocked read, which leaves an account instance in the session.  A missing
\* account is created empty, which is what Init holds for everyone.

Begin(s, o) ==
  /\ pc[s] = "idle"
  /\ pc' = [pc EXCEPT ![s] = "begun"]
  /\ op' = [op EXCEPT ![s] = o]
  /\ seen' = [seen EXCEPT ![s] = account[o.user]]
  /\ UNCHANGED <<account, ledger, rewards, lock, ids, issued, draft, cards>>

RecordPurchase(s, o, n) ==
  Begin(s, [user |-> Owner[o], kind |-> "purchase", amount |-> n,
            ref |-> o, card |-> None])

CreditReferral(s, r, u, n) ==
  /\ n > 0
  /\ u \in Party[r]
  /\ Begin(s, [user |-> u, kind |-> "referral", amount |-> n,
               ref |-> r, card |-> None])

CreditRoulette(s, p, n) ==
  /\ n > 0
  /\ Begin(s, [user |-> Spinner[p], kind |-> "roulette", amount |-> n,
               ref |-> p, card |-> None])

Adjust(s, u, n) ==
  /\ n # 0
  /\ Begin(s, [user |-> u, kind |-> "adjustment", amount |-> n,
               ref |-> None, card |-> None])

ClaimFreeBottle(s, u, c) ==
  /\ c \in cards[u]
  /\ Begin(s, [user |-> u, kind |-> "redemption", amount |-> -StampsRequired,
               ref |-> None, card |-> c])

----------------------------------------------------------------------------
\* Mutant: with_for_update forgotten, the row is read without waiting for it.
LockAccountUnlocked(s) ==
  /\ pc[s] = "begun"
  /\ lock' = [lock EXCEPT ![op[s].user] = s]
  /\ seen' = [seen EXCEPT ![s] = account[op[s].user]]
  /\ pc' = [pc EXCEPT ![s] = "locked"]
  /\ UNCHANGED <<account, ledger, rewards, ids, op, issued, draft, cards>>

\* Mutant: populate_existing forgotten, the lock guards an older instance.
LockAccountStale(s) ==
  /\ pc[s] = "begun"
  /\ lock[op[s].user] = None
  /\ lock' = [lock EXCEPT ![op[s].user] = s]
  /\ pc' = [pc EXCEPT ![s] = "locked"]
  /\ UNCHANGED <<account, ledger, rewards, ids, op, seen, issued, draft, cards>>

\* lock_account: waits for the row, then refreshes the instance from it.
LockAccount(s) ==
  /\ pc[s] = "begun"
  /\ lock[op[s].user] = None
  /\ lock' = [lock EXCEPT ![op[s].user] = s]
  /\ seen' = [seen EXCEPT ![s] = account[op[s].user]]
  /\ pc' = [pc EXCEPT ![s] = "locked"]
  /\ UNCHANGED <<account, ledger, rewards, ids, op, issued, draft, cards>>

\* The flush of _append: the cached balance and the row that explains it.
WriteRow(s, balance, purchases) ==
  /\ nextId < MaxId
  /\ pc' = [pc EXCEPT ![s] = "written"]
  /\ nextId' = nextId + 1
  /\ seen' = [seen EXCEPT ![s] = [stamps |-> balance, purchases |-> purchases]]
  /\ draft' = [draft EXCEPT
       ![s] = [id |-> nextId + 1, kind |-> op[s].kind, amount |-> op[s].amount,
               after |-> balance, ref |-> op[s].ref, reward |-> issued[s],
               card |-> op[s].card]]
  /\ UNCHANGED <<account, ledger, rewards, lock, nextReward, op, issued, cards>>

\* The session stops where it is, with nothing written.
Answer(s, phase) ==
  /\ pc' = [pc EXCEPT ![s] = phase]
  /\ UNCHANGED <<account, ledger, rewards, lock, ids, op, seen, issued, draft, cards>>

\* _append refuses a negative balance with an error no handler may commit on.
AppendRow(s, purchases) ==
  LET balance == seen[s].stamps + op[s].amount
  IN  IF balance < 0 THEN Answer(s, "invariant_error")
                     ELSE WriteRow(s, balance, purchases)

\* Mutant: the lookup of an existing row dropped.
BookPurchaseAgain(s) ==
  /\ pc[s] = "locked" /\ op[s].kind = "purchase"
  /\ AppendRow(s, seen[s].purchases + 1)

\* The rest of record_purchase: one row and one purchase count per order.
BookPurchase(s) ==
  /\ pc[s] = "locked" /\ op[s].kind = "purchase"
  /\ IF Booked(op[s])
     THEN Answer(s, "replayed")
     ELSE AppendRow(s, seen[s].purchases + 1)

\* The rest of credit_referral and credit_roulette.
BookBonus(s) ==
  /\ pc[s] = "locked" /\ op[s].kind \in {"referral", "roulette"}
  /\ IF Booked(op[s])
     THEN Answer(s, "replayed")
     ELSE AppendRow(s, seen[s].purchases)

\* The rest of adjust: every call is a correction of its own.
BookAdjustment(s) ==
  /\ pc[s] = "locked" /\ op[s].kind = "adjustment"
  /\ IF seen[s].stamps + op[s].amount < 0
     THEN Answer(s, "insufficient")
     ELSE AppendRow(s, seen[s].purchases)

\* Mutant: the version of the card not compared.
ClaimRefusalAnyCard(s) ==
  IF seen[s].stamps < StampsRequired THEN "insufficient" ELSE "none"

\* The rest of claim_free_bottle: the card must be the current one.
ClaimRefusal(s) ==
  LET o == op[s]
  IN  IF LatestId(o.user) # o.card.version
      THEN IF HasRedemptionAfter(o.user, o.card.version)
           THEN "already_claimed" ELSE "stale"
      ELSE IF seen[s].stamps < StampsRequired THEN "insufficient"
      ELSE "none"

\* The first write of a claim: the reward row is flushed under its own id.
FlushReward(s, phase) ==
  /\ nextReward < MaxReward
  /\ nextReward' = nextReward + 1
  /\ issued' = [issued EXCEPT ![s] = nextReward + 1]
  /\ pc' = [pc EXCEPT ![s] = phase]
  /\ UNCHANGED <<account, ledger, rewards, lock, nextId, op, seen, draft, cards>>

\* Mutant: the reward created before the card and the balance are looked at.
IssueRewardFirst(s) ==
  /\ pc[s] = "locked" /\ op[s].kind = "redemption"
  /\ FlushReward(s, IF ClaimRefusal(s) # "none" THEN ClaimRefusal(s) ELSE "issued")

IssueReward(s) ==
  /\ pc[s] = "locked" /\ op[s].kind = "redemption"
  /\ IF ClaimRefusal(s) # "none"
     THEN Answer(s, ClaimRefusal(s))
     ELSE FlushReward(s, "issued")

\* The second write: the debit, which carries the id of the reward it pays for.
BookRedemption(s) ==
  /\ pc[s] = "issued"
  /\ AppendRow(s, seen[s].purchases)

----------------------------------------------------------------------------
\* Drawing a customer's card.
CardScreen(u) ==
  [user |-> u, kind |-> "card", amount |-> 0, ref |-> None, card |-> None]

\* The end of a transaction.  A claim's handler commits whatever the outcome
\* and then draws the card again; every other caller is done.

Finish(s) ==
  /\ lock' = [lock EXCEPT ![op[s].user] = None]
  /\ issued' = [issued EXCEPT ![s] = 0]
  /\ draft' = [draft EXCEPT ![s] = None]
  /\ seen' = [seen EXCEPT ![s] = None]
  /\ IF op[s].kind = "redemption"
     THEN /\ pc' = [pc EXCEPT ![s] = "redraw"]
          /\ op' = [op EXCEPT ![s] = CardScreen(op[s].user)]
     ELSE /\ pc' = [pc EXCEPT ![s] = "idle"]
          /\ op' = [op EXCEPT ![s] = None]

\* What the session has flushed becomes the committed rows, all of it: the
\* middleware, and the claim's handler after a refusal as after a success, have
\* one session.commit() for whatever the operation wrote before it answered.
Commit(s) ==
  /\ pc[s] \in {"written"} \cup Refused
  /\ LET u == op[s].user
     IN  /\ rewards' = IF issued[s] # 0
                       THEN [rewards EXCEPT ![u] = @ \cup {issued[s]}] ELSE rewards
         /\ IF pc[s] = "written"
            THEN /\ account' = [account EXCEPT ![u] = seen[s]]
                 /\ ledger' = [ledger EXCEPT ![u] = Append(@, draft[s])]
            ELSE UNCHANGED <<account, ledger>>
  /\ Finish(s)
  /\ UNCHANGED <<ids, cards>>

\* An exception, a lost connection or a crash of the process.
Rollback(s) ==
  /\ pc[s] # "idle"
  /\ pc' = [pc EXCEPT ![s] = "idle"]
  /\ op' = [op EXCEPT ![s] = None]
  /\ seen' = [seen EXCEPT ![s] = None]
  /\ issued' = [issued EXCEPT ![s] = 0]
  /\ draft' = [draft EXCEPT ![s] = None]
  /\ lock' = IF pc[s] \in Holding
             THEN [lock EXCEPT ![op[s].user] = None] ELSE lock
  /\ UNCHANGED <<account, ledger, rewards, ids, cards>>

----------------------------------------------------------------------------
\* The card screen: StampCardService.card reads the balance, then the version.

OpenCard(s, u) ==
  /\ pc[s] = "idle"
  /\ pc' = [pc EXCEPT ![s] = "redraw"]
  /\ op' = [op EXCEPT ![s] = CardScreen(u)]
  /\ UNCHANGED <<account, ledger, rewards, lock, ids, seen, issued, draft, cards>>

ReadBalance(s) ==
  /\ pc[s] = "redraw"
  /\ pc' = [pc EXCEPT ![s] = "balance_read"]
  /\ seen' = [seen EXCEPT ![s] = account[op[s].user]]
  /\ UNCHANGED <<account, ledger, rewards, lock, ids, op, issued, draft, cards>>

\* Only a full card has a claim button.
DrawCard(s) ==
  /\ pc[s] = "balance_read"
  /\ LET u == op[s].user
         card == [stamps |-> seen[s].stamps, version |-> LatestId(u)]
     IN  cards' = IF card.stamps >= StampsRequired
                  THEN [cards EXCEPT ![u] = @ \cup {card}] ELSE cards
  /\ pc' = [pc EXCEPT ![s] = "idle"]
  /\ op' = [op EXCEPT ![s] = None]
  /\ seen' = [seen EXCEPT ![s] = None]
  /\ UNCHANGED <<account, ledger, rewards, lock, ids, issued, draft>>

----------------------------------------------------------------------------
Start(s) ==
  \/ \E o \in Orders, n \in 0..MaxStamps : RecordPurchase(s, o, n)
  \/ \E r \in Referrals, u \in Users, n \in 0..MaxStamps : CreditReferral(s, r, u, n)
  \/ \E p \in Spins, n \in 0..MaxStamps : CreditRoulette(s, p, n)
  \/ \E u \in Users, n \in -MaxStamps..MaxStamps : Adjust(s, u, n)
  \/ \E u \in Users : \E c \in cards[u] : ClaimFreeBottle(s, u, c)
  \/ \E u \in Users : OpenCard(s, u)

Book(s) ==
  \/ BookPurchase(s) \/ BookBonus(s) \/ BookAdjustment(s)
  \/ IssueReward(s) \/ BookRedemption(s)

Next ==
  \E s \in Sessions :
    \/ Start(s) \/ LockAccount(s) \/ Book(s)
    \/ Commit(s) \/ Rollback(s)
    \/ ReadBalance(s) \/ DrawCard(s)

Spec == Init /\ [][Next]_vars

----------------------------------------------------------------------------
\* Properties.

\* Committed balances and counts never go below zero, and every session holds
\* rows of the kinds models/loyalty.py declares (the check constraints).
TypeOK ==
  /\ account \in [Users -> Account]
  /\ ledger \in [Users -> Seq(Row)]
  /\ rewards \in [Users -> SUBSET Nat]
  /\ lock \in [Users -> Sessions \cup {None}]
  /\ nextId \in Nat
  /\ nextReward \in Nat
  /\ pc \in [Sessions -> Phases]
  /\ op \in [Sessions -> Operation \cup {None}]
  /\ seen \in [Sessions -> Account \cup {None}]
  /\ issued \in [Sessions -> Nat]
  /\ draft \in [Sessions -> Row \cup {None}]
  /\ cards \in [Users -> SUBSET Card]

Before(u, i) == IF i = 1 THEN 0 ELSE ledger[u][i - 1].after

\* The ledger explains the cached balance row by row: every row continues from
\* the row before it, and the account holds what the last row left.  This is
\* what loyalty_health cross-checks in a deployment (docs/loyalty.md).
LedgerExplainsBalance ==
  \A u \in Users :
    /\ \A i \in 1..Len(ledger[u]) :
         ledger[u][i].after = Before(u, i) + ledger[u][i].amount
    /\ account[u].stamps = Before(u, Len(ledger[u]) + 1)

\* An earning event is booked at most once, whoever replays or races it: an
\* order, a side of a referral and a spin have one row each in all ledgers.
EventBookedOnce ==
  \A u, v \in Users :
    \A i \in 1..Len(ledger[u]), j \in 1..Len(ledger[v]) :
      /\ ledger[u][i].kind \in Credits
      /\ ledger[v][j].kind = ledger[u][i].kind
      /\ ledger[v][j].ref = ledger[u][i].ref
      => (u = v /\ i = j) \/ (u # v /\ ledger[u][i].kind = "referral")

PurchaseRows(u) == {i \in 1..Len(ledger[u]) : ledger[u][i].kind = "purchase"}

\* The cached purchase count is the number of purchase rows: what numbers the
\* milestone spins and what loyalty_health compares.
PurchasesCounted ==
  \A u \in Users : account[u].purchases = Cardinality(PurchaseRows(u))

PreviousId(u, i) == IF i = 1 THEN 0 ELSE ledger[u][i - 1].id

\* A claim spends the card it was tapped on and nothing else: no movement lies
\* between the version the card carried and the claim's own row.  With growing
\* ids this makes one card claimable once (a double tap, a card left open).
ClaimFollowsItsCard ==
  \A u \in Users : \A i \in 1..Len(ledger[u]) :
    ledger[u][i].kind = "redemption" =>
      ledger[u][i].card.version = PreviousId(u, i)

Redemptions(u) == {i \in 1..Len(ledger[u]) : ledger[u][i].kind = "redemption"}

\* The bottles issued and the debits that pay for them correspond one to one,
\* although they are written in two flushes under ids of two sequences and a
\* refused claim is committed too: every committed reward is paid for by one
\* redemption of its customer, and every redemption bought one.
DebitIffReward ==
  \A u \in Users :
    /\ rewards[u] = {ledger[u][i].reward : i \in Redemptions(u)}
    /\ \A i, j \in Redemptions(u) : ledger[u][i].reward = ledger[u][j].reward => i = j

\* The last line in _append is never reached: every operation refuses an
\* overdraw before its first write (LedgerInvariantError's docstring).
RefusedBeforeWriting == \A s \in Sessions : pc[s] # "invariant_error"
============================================================================
