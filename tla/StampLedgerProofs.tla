------------------------- MODULE StampLedgerProofs -------------------------
(***************************************************************************)
(* Proofs about StampLedger for any customers, sessions, orders, spins and *)
(* referrals.  The inductive invariant IInv adds to the properties what a  *)
(* session knows while it holds an account row: nobody else holds the row, *)
(* its instance is the committed account, the row it has flushed continues *)
(* the committed ledger, and the reward it has flushed is nobody else's.   *)
(***************************************************************************)
EXTENDS StampLedger, FiniteSetTheorems, TLAPS

Working == {"begun"} \cup Holding

\* What the phase of a session says about its operation and its instance.
PhaseInv ==
  \A s \in Sessions :
    /\ pc[s] \in Working =>
         /\ op[s] \in Operation
         /\ op[s].kind \in Kinds
         /\ seen[s] \in Account
         /\ op[s].kind = "purchase" => Owner[op[s].ref] = op[s].user
         /\ op[s].kind = "roulette" => Spinner[op[s].ref] = op[s].user
         /\ op[s].kind = "redemption" =>
              op[s].card \in Card /\ op[s].amount = -StampsRequired
         /\ pc[s] = "issued" => op[s].kind = "redemption"
         /\ op[s].kind \in Credits => op[s].amount >= 0
    /\ pc[s] \in {"redraw", "balance_read"} =>
         op[s] \in Operation /\ op[s].kind = "card"
    /\ pc[s] = "balance_read" => seen[s] \in Account
    /\ pc[s] = "written" => draft[s] \in Row

\* A session past lock_account owns its customer's row, so at most one is.
LockInv == \A s \in Sessions : pc[s] \in Holding => lock[op[s].user] = s

\* populate_existing: what a lock holder decides from is the committed row.
FreshInv ==
  \A s \in Sessions : pc[s] \in {"locked", "issued"} => seen[s] = account[op[s].user]

\* Ids are drawn under the account lock, so they grow along each ledger.
IdsInv ==
  \A u \in Users :
    /\ \A i \in 1..Len(ledger[u]) : ledger[u][i].id \in 1..nextId
    /\ \A i, j \in 1..Len(ledger[u]) : i < j => ledger[u][i].id < ledger[u][j].id

\* Whose ledger an event can be in.
OwnerInv ==
  \A u \in Users : \A i \in 1..Len(ledger[u]) :
    /\ ledger[u][i].kind = "purchase" => Owner[ledger[u][i].ref] = u
    /\ ledger[u][i].kind = "roulette" => Spinner[ledger[u][i].ref] = u

\* The uncommitted row continues the committed ledger of its customer.
DraftContinues(s) ==
  LET u == op[s].user IN
  /\ draft[s].kind = op[s].kind
  /\ draft[s].ref = op[s].ref
  /\ draft[s].card = op[s].card
  /\ draft[s].amount = op[s].amount
  /\ draft[s].reward = issued[s]
  /\ draft[s].after = account[u].stamps + draft[s].amount
  /\ seen[s].stamps = draft[s].after
  /\ seen[s].purchases =
       account[u].purchases + (IF op[s].kind = "purchase" THEN 1 ELSE 0)
  /\ draft[s].id \in 1..nextId
  /\ \A i \in 1..Len(ledger[u]) : ledger[u][i].id < draft[s].id
  /\ op[s].kind \in Credits => ~Booked(op[s])
  /\ op[s].kind = "redemption" =>
       draft[s].card.version = PreviousId(u, Len(ledger[u]) + 1)

DraftInv == \A s \in Sessions : pc[s] = "written" => DraftContinues(s)

\* A claim that has issued its reward has passed every check of the claim, and
\* nothing can move the account before its debit is written.
ClaimChecked(s) ==
  /\ seen[s].stamps >= StampsRequired
  /\ op[s].card.version = PreviousId(op[s].user, Len(ledger[op[s].user]) + 1)

CheckedInv == \A s \in Sessions : pc[s] = "issued" => ClaimChecked(s)

\* A flushed reward belongs to a claim on its way to its debit, never to one
\* that was refused, and its id is nobody else's.
IssuedInv ==
  /\ \A u \in Users : rewards[u] \subseteq 1..nextReward
  /\ \A s \in Sessions :
       /\ issued[s] # 0 <=>
            pc[s] = "issued" \/ (pc[s] = "written" /\ op[s].kind = "redemption")
       /\ issued[s] \in 0..nextReward
       /\ issued[s] # 0 => \A u \in Users : issued[s] \notin rewards[u]
       /\ \A t \in Sessions : t # s /\ issued[s] # 0 => issued[t] # issued[s]

\* The properties of the committed rows, which only a commit can disturb.
Committed ==
  /\ OwnerInv /\ LedgerExplainsBalance /\ EventBookedOnce /\ PurchasesCounted
  /\ ClaimFollowsItsCard /\ DebitIffReward

IInv ==
  /\ TypeOK /\ PhaseInv /\ LockInv /\ FreshInv /\ IdsInv
  /\ DraftInv /\ CheckedInv /\ IssuedInv
  /\ Committed /\ RefusedBeforeWriting

----------------------------------------------------------------------------
\* The version of a card is the id of the customer's last row, 0 without one:
\* ids grow along a ledger, so the greatest is the last.
LEMMA LatestIsLast ==
  ASSUME TypeOK, IdsInv, NEW u \in Users
  PROVE  /\ LatestId(u) = PreviousId(u, Len(ledger[u]) + 1)
         /\ LatestId(u) \in 0..nextId
         /\ LatestId(u) \in Nat
  <1> DEFINE n == Len(ledger[u])
             last == IF n = 0 THEN 0 ELSE ledger[u][n].id
             S == {0} \cup IdsOf(u)
  <1>1. n \in Nat /\ ledger[u] \in Seq(Row)
    BY DEF TypeOK
  <1>2. last \in S
    <2>1. CASE n = 0
      BY <2>1
    <2>2. CASE n # 0
      <3>1. n \in 1..n
        BY <1>1, <2>2
      <3> QED BY <2>2, <3>1 DEF IdsOf
    <2> QED BY <2>1, <2>2
  <1>3. \A x \in S : x \in Nat /\ last >= x
    <2>1. \A i \in 1..n : ledger[u][i].id \in Nat /\ ledger[u][i].id > 0
      BY <1>1 DEF IdsInv, TypeOK
    <2>2. \A i \in 1..n : last >= ledger[u][i].id
      BY <1>1, <2>1 DEF IdsInv
    <2>3. last \in Nat /\ last >= 0
      BY <1>1, <2>1
    <2> QED BY <2>1, <2>2, <2>3 DEF IdsOf
  <1>4. ASSUME NEW x \in S, \A y \in S : x >= y
        PROVE  x = last
    <2> HIDE DEF S, last
    <2>1. x >= last
      BY <1>2, <1>4
    <2>2. last >= x /\ x \in Nat /\ last \in Nat
      BY <1>2, <1>3
    <2> QED BY <2>1, <2>2
  <1>5. LatestId(u) = last
    <2>1. Max(S) \in S /\ \A y \in S : Max(S) >= y
      BY <1>2, <1>3 DEF Max
    <2> QED BY <2>1, <1>4 DEF LatestId
  <1>6. last = PreviousId(u, n + 1)
    BY <1>1 DEF PreviousId
  <1>7. last \in 0..nextId
    BY <1>1, <1>3, <1>2 DEF IdsInv, TypeOK
  <1> QED BY <1>5, <1>6, <1>7

\* The empty shop: no rows, no sessions.
LEMMA InitIInv == Init => IInv
  <1> SUFFICES ASSUME Init PROVE IInv
    OBVIOUS
  <1> USE LedgerAssumption
  <1>1. TypeOK
    BY DEF Init, TypeOK, Account, Phases
  <1>2. /\ PhaseInv /\ LockInv /\ FreshInv /\ DraftInv /\ CheckedInv /\ IssuedInv
        /\ RefusedBeforeWriting
    BY DEF Init, PhaseInv, LockInv, FreshInv, DraftInv, CheckedInv, IssuedInv,
           RefusedBeforeWriting, Working, Holding, Refused
  <1>3. \A u \in Users : Len(ledger[u]) = 0
    BY DEF Init
  <1>4. IdsInv /\ OwnerInv /\ EventBookedOnce /\ ClaimFollowsItsCard
    BY <1>3 DEF IdsInv, OwnerInv, EventBookedOnce, ClaimFollowsItsCard
  <1>5. LedgerExplainsBalance
    BY <1>3 DEF LedgerExplainsBalance, Init, Before
  <1>6. PurchasesCounted
    <2>1. \A u \in Users : PurchaseRows(u) = {}
      BY <1>3 DEF PurchaseRows
    <2> QED BY <2>1, FS_EmptySet DEF PurchasesCounted, Init
  <1>7. DebitIffReward
    BY <1>3 DEF DebitIffReward, Redemptions, Init
  <1> QED BY <1>1, <1>2, <1>4, <1>5, <1>6, <1>7 DEF IInv, Committed

----------------------------------------------------------------------------
\* Steps that touch no committed row.

\* What leaves the committed rows alone leaves what is said of them alone.
LEMMA CommittedStays ==
  ASSUME Committed, UNCHANGED <<account, ledger, rewards>>
  PROVE  Committed'
  BY DEF Committed, OwnerInv, LedgerExplainsBalance, EventBookedOnce,
         PurchasesCounted, ClaimFollowsItsCard, DebitIffReward, Before,
         PurchaseRows, Redemptions, PreviousId

\* Starting an operation disturbs nothing but the session that starts it.
LEMMA BeginStep ==
  ASSUME IInv, NEW s \in Sessions, NEW o \in Operation, Begin(s, o),
         o.kind \in Kinds,
         o.kind = "purchase" => Owner[o.ref] = o.user,
         o.kind = "roulette" => Spinner[o.ref] = o.user,
         o.kind = "redemption" => o.card \in Card /\ o.amount = -StampsRequired,
         o.kind \in Credits => o.amount >= 0
  PROVE  IInv'
  <1> USE DEF IInv, ids, Begin
  <1>1. TypeOK'
    BY DEF TypeOK, Phases, Operation
  <1>2. PhaseInv'
    BY DEF TypeOK, PhaseInv, Working, Holding, Refused, Operation
  <1>3. LockInv' /\ FreshInv' /\ IdsInv' /\ RefusedBeforeWriting'
    BY DEF TypeOK, LockInv, FreshInv, IdsInv, RefusedBeforeWriting, Holding, Refused
  <1>4. DraftInv' /\ CheckedInv'
    BY DEF TypeOK, DraftInv, DraftContinues, CheckedInv, ClaimChecked, Booked, PreviousId
  <1>5. IssuedInv'
    BY DEF TypeOK, IssuedInv, ids
  <1>6. Committed'
    BY CommittedStays
  <1> QED BY <1>1, <1>2, <1>3, <1>4, <1>5, <1>6

\* lock_account: the row is locked and its instance refreshed (services/loyalty.py).
LEMMA LockStep ==
  ASSUME IInv, NEW s \in Sessions, LockAccount(s)
  PROVE  IInv'
  <1> USE DEF IInv, ids, LockAccount
  <1>0. op[s] \in Operation /\ op[s].user \in Users
    BY DEF PhaseInv, Working, Operation
  <1>1. TypeOK'
    BY <1>0 DEF TypeOK, Phases, Holding
  <1>2. PhaseInv'
    BY <1>0 DEF TypeOK, PhaseInv, Working, Holding, Refused, Operation
  <1>3. LockInv'
    <2>1. \A t \in Sessions : t # s /\ pc[t] \in Holding => op[t].user # op[s].user
      BY LedgerAssumption DEF LockInv
    <2> QED BY <1>0, <2>1 DEF TypeOK, LockInv, Holding
  <1>4. FreshInv' /\ IdsInv' /\ RefusedBeforeWriting'
    BY <1>0 DEF TypeOK, FreshInv, IdsInv, RefusedBeforeWriting
  <1>5. DraftInv' /\ CheckedInv'
    BY DEF TypeOK, DraftInv, DraftContinues, CheckedInv, ClaimChecked, Booked, PreviousId
  <1>6. IssuedInv'
    BY DEF TypeOK, IssuedInv, ids
  <1>7. Committed'
    BY CommittedStays
  <1> QED BY <1>1, <1>2, <1>3, <1>4, <1>5, <1>6, <1>7

\* A refusal, a replay: the phase changes and nothing is written.
LEMMA AnswerStep ==
  ASSUME IInv, NEW s \in Sessions, NEW phase \in Refused,
         pc[s] = "locked", Answer(s, phase)
  PROVE  IInv'
  <1> USE DEF IInv, ids, Answer
  <1>1. TypeOK'
    BY DEF TypeOK, Phases, Holding
  <1>2. PhaseInv'
    BY DEF TypeOK, PhaseInv, Working, Holding, Refused
  <1>3. LockInv' /\ FreshInv' /\ IdsInv' /\ RefusedBeforeWriting'
    BY DEF TypeOK, LockInv, FreshInv, IdsInv, RefusedBeforeWriting, Holding, Refused
  <1>4. DraftInv' /\ CheckedInv'
    BY DEF TypeOK, DraftInv, DraftContinues, CheckedInv, ClaimChecked, Booked,
           PreviousId, Refused
  <1>5. IssuedInv'
    BY DEF TypeOK, IssuedInv, ids, Refused
  <1>6. Committed'
    BY CommittedStays
  <1> QED BY <1>1, <1>2, <1>3, <1>4, <1>5, <1>6

\* The reward's flush: its id is new, and the account is still locked.
LEMMA IssueStep ==
  ASSUME IInv, NEW s \in Sessions, pc[s] = "locked", op[s].kind = "redemption",
         seen[s].stamps >= StampsRequired,
         op[s].card.version = LatestId(op[s].user),
         FlushReward(s, "issued")
  PROVE  IInv'
  <1> USE DEF IInv, ids, FlushReward
  <1>0. op[s] \in Operation /\ op[s].user \in Users
    BY DEF PhaseInv, Working, Holding, Operation
  <1>1. TypeOK'
    BY DEF TypeOK, Phases, Holding
  <1>2. PhaseInv'
    BY DEF TypeOK, PhaseInv, Working, Holding, Refused
  <1>3. LockInv' /\ FreshInv' /\ IdsInv' /\ RefusedBeforeWriting'
    BY DEF TypeOK, LockInv, FreshInv, IdsInv, RefusedBeforeWriting, Holding, Refused
  <1>4. DraftInv'
    BY DEF TypeOK, DraftInv, DraftContinues, Booked, PreviousId
  <1>5. CheckedInv'
    <2>1. op[s].card.version = PreviousId(op[s].user, Len(ledger[op[s].user]) + 1)
      BY <1>0, LatestIsLast
    <2> QED BY <2>1 DEF TypeOK, CheckedInv, ClaimChecked, PreviousId
  <1>6. IssuedInv'
    BY DEF TypeOK, IssuedInv
  <1>7. Committed'
    BY CommittedStays
  <1> QED BY <1>1, <1>2, <1>3, <1>4, <1>5, <1>6, <1>7

\* The flush of a row by the session that holds the account, with the balance
\* that continues the ledger.
LEMMA AppendStep ==
  ASSUME IInv, NEW s \in Sessions,
         pc[s] = IF op[s].kind = "redemption" THEN "issued" ELSE "locked",
         seen[s].stamps + op[s].amount >= 0,
         op[s].kind \in Credits => ~Booked(op[s]),
         AppendRow(s, seen[s].purchases + (IF op[s].kind = "purchase" THEN 1 ELSE 0))
  PROVE  IInv'
  <1> USE DEF IInv, ids
  <1> DEFINE u == op[s].user
             balance == seen[s].stamps + op[s].amount
             count == seen[s].purchases + (IF op[s].kind = "purchase" THEN 1 ELSE 0)
  <1>0. /\ op[s] \in Operation /\ u \in Users /\ op[s].kind \in Kinds
        /\ seen[s] \in Account /\ seen[s] = account[u]
    BY DEF PhaseInv, Working, Holding, Operation, FreshInv
  <1>1. balance \in Nat /\ count \in Nat
    BY <1>0 DEF Account, Operation
  <1>2. WriteRow(s, balance, count)
    BY <1>1 DEF AppendRow
  <1>3. draft'[s] = [id |-> nextId + 1, kind |-> op[s].kind, amount |-> op[s].amount,
                     after |-> balance, ref |-> op[s].ref, reward |-> issued[s],
                     card |-> op[s].card]
    BY <1>2 DEF WriteRow, TypeOK
  <1>4. draft'[s] \in Row
    BY <1>0, <1>1, <1>3 DEF Row, Operation, TypeOK
  <1>5. TypeOK'
    BY <1>1, <1>2, <1>3, <1>4 DEF TypeOK, WriteRow, Phases, Holding, Account
  <1>6. PhaseInv'
    BY <1>1, <1>2, <1>4 DEF TypeOK, PhaseInv, WriteRow, Working, Holding, Refused, Account
  <1>7. LockInv' /\ FreshInv' /\ RefusedBeforeWriting'
    BY <1>2 DEF TypeOK, LockInv, FreshInv, RefusedBeforeWriting, WriteRow, Holding, Refused
  <1>8. IdsInv'
    BY <1>2 DEF TypeOK, IdsInv, WriteRow
  <1>9. DraftInv'
    <2>1. ASSUME NEW t \in Sessions, t # s, pc'[t] = "written"
          PROVE  DraftContinues(t)'
      <3>1. pc[t] = "written" /\ DraftContinues(t) /\ nextId' = nextId + 1
        BY <1>2, <2>1 DEF TypeOK, WriteRow, DraftInv
      <3> QED BY <1>2, <2>1, <3>1
              DEF TypeOK, WriteRow, DraftContinues, Booked, PreviousId
    <2>2. DraftContinues(s)'
      <3>1. seen'[s] = [stamps |-> balance, purchases |-> count]
        BY <1>2 DEF WriteRow, TypeOK
      <3>2. \A i \in 1..Len(ledger[u]) : ledger[u][i].id < nextId + 1
        BY <1>0 DEF IdsInv, TypeOK
      <3>3. op[s].kind = "redemption" =>
              op[s].card.version = PreviousId(u, Len(ledger[u]) + 1)
        BY DEF CheckedInv, ClaimChecked
      <3> QED BY <1>0, <1>1, <1>2, <1>3, <3>1, <3>2, <3>3
              DEF TypeOK, WriteRow, DraftContinues, Booked, PreviousId, Account
    <2> QED BY <2>1, <2>2 DEF DraftInv
  <1>10. CheckedInv' /\ IssuedInv'
    BY <1>2 DEF TypeOK, CheckedInv, ClaimChecked, IssuedInv, PreviousId, WriteRow
  <1>11. Committed'
    BY <1>2, CommittedStays DEF WriteRow
  <1> QED BY <1>5, <1>6, <1>7, <1>8, <1>9, <1>10, <1>11

----------------------------------------------------------------------------
\* The commit: the flushed row becomes the last row of its customer's ledger.
LEMMA CommitStep ==
  ASSUME IInv, NEW s \in Sessions, Commit(s), pc[s] = "written"
  PROVE  IInv'
  <1> USE DEF IInv, ids
  <1>00. PICK u \in Users, row \in Row, n \in Nat :
           u = op[s].user /\ row = draft[s] /\ n = Len(ledger[u])
    BY DEF Commit, PhaseInv, Working, Holding, Operation, TypeOK
  <1>0. /\ pc[s] = "written" /\ op[s] \in Operation /\ u = op[s].user
        /\ op[s].kind \in Kinds /\ seen[s] \in Account /\ row = draft[s]
        /\ DraftContinues(s) /\ ledger[u] \in Seq(Row) /\ n = Len(ledger[u])
        /\ lock[u] = s
    BY <1>00 DEF Commit, PhaseInv, Working, Holding, Operation, DraftInv, TypeOK, LockInv
  <1>1. \A t \in Sessions : t # s /\ pc[t] \in Holding => op[t].user # u
    BY <1>0 DEF LockInv
  <1>2. /\ account' = [account EXCEPT ![u] = seen[s]]
        /\ ledger' = [ledger EXCEPT ![u] = Append(ledger[u], row)]
        /\ rewards' = IF issued[s] # 0
                      THEN [rewards EXCEPT ![u] = rewards[u] \cup {issued[s]}]
                      ELSE rewards
        /\ nextId' = nextId /\ nextReward' = nextReward /\ cards' = cards
    BY <1>0 DEF Commit, ids
  <1>3. /\ account'[u] = seen[s]
        /\ Len(ledger'[u]) = n + 1
        /\ ledger'[u][n + 1] = row
        /\ \A i \in 1..n : ledger'[u][i] = ledger[u][i]
        /\ ledger'[u] \in Seq(Row)
    BY <1>0, <1>2 DEF TypeOK
  <1>4. \A v \in Users : v # u => ledger'[v] = ledger[v] /\ account'[v] = account[v]
    BY <1>0, <1>2 DEF TypeOK
  <1>5. /\ \A v \in Users : Len(ledger[v]) \in Nat
        /\ \A v \in Users : \A i \in 1..Len(ledger[v]) : ledger[v][i] \in Row
    BY DEF TypeOK
  <1>a. \A t \in Sessions : t # s =>
          /\ pc'[t] = pc[t] /\ op'[t] = op[t]
          /\ seen'[t] = seen[t] /\ draft'[t] = draft[t] /\ issued'[t] = issued[t]
    BY DEF TypeOK, Commit, Finish
  <1>b. /\ pc'[s] \in {"idle", "redraw"}
        /\ pc'[s] = "redraw" => op'[s] = CardScreen(u)
        /\ issued'[s] = 0
    BY <1>0 DEF TypeOK, Commit, Finish
  <1>c. CardScreen(u) \in Operation /\ CardScreen(u).kind = "card"
    BY <1>0 DEF CardScreen, Operation, Refs
  <1>d. \A v \in Users : v # u => lock'[v] = lock[v]
    BY <1>0 DEF TypeOK, Commit, Finish
  <1>e. ASSUME NEW v \in Users, NEW i \in 1..Len(ledger'[v])
        PROVE  \/ v = u /\ i = n + 1 /\ ledger'[v][i] = row
               \/ /\ ~(v = u /\ i = n + 1)
                  /\ i \in 1..Len(ledger[v]) /\ ledger'[v][i] = ledger[v][i]
    <2>1. CASE v # u
      BY <2>1, <1>4
    <2>2. CASE v = u
      <3>1. i \in 1..n + 1
        BY <2>2, <1>3
      <3>2. i = n + 1 \/ i \in 1..n
        BY <3>1
      <3> QED BY <2>2, <3>2, <1>0, <1>3
    <2> QED BY <2>1, <2>2
  <1>6. TypeOK'
    <2>1. account' \in [Users -> Account] /\ ledger' \in [Users -> Seq(Row)]
      BY <1>0, <1>2, <1>3 DEF TypeOK
    <2>2. rewards' \in [Users -> SUBSET Nat]
      BY <1>0, <1>2 DEF TypeOK, Row
    <2>3. /\ lock' \in [Users -> Sessions \cup {None}]
          /\ issued' \in [Sessions -> Nat]
          /\ pc' \in [Sessions -> Phases]
          /\ seen' \in [Sessions -> Account \cup {None}]
          /\ draft' \in [Sessions -> Row \cup {None}]
      BY DEF TypeOK, Commit, Finish, Phases
    <2>4. op' \in [Sessions -> Operation \cup {None}]
      <3>1. op' = [op EXCEPT ![s] = IF op[s].kind = "redemption"
                                   THEN CardScreen(u) ELSE None]
        BY <1>0 DEF Commit, Finish, TypeOK
      <3> QED BY <3>1, <1>c DEF TypeOK
    <2> QED BY <1>2, <2>1, <2>2, <2>3, <2>4 DEF TypeOK
  <1>7. PhaseInv'
    <2> SUFFICES ASSUME NEW t \in Sessions PROVE PhaseInv!(t)'
      BY DEF PhaseInv
    <2>1. CASE t # s
      BY <2>1, <1>a DEF PhaseInv
    <2>2. CASE t = s
      BY <2>2, <1>b, <1>c DEF Working, Holding, Refused
    <2> QED BY <2>1, <2>2
  <1>8. LockInv'
    <2> SUFFICES ASSUME NEW t \in Sessions, pc'[t] \in Holding
                 PROVE  lock'[op'[t].user] = t
      BY DEF LockInv
    <2>1. t # s /\ pc[t] \in Holding /\ op'[t] = op[t]
      BY <1>a, <1>b DEF Holding, Refused
    <2>2. op[t].user \in Users /\ op[t].user # u /\ lock[op[t].user] = t
      BY <1>1, <2>1 DEF PhaseInv, Working, Operation, LockInv
    <2> QED BY <1>d, <2>1, <2>2
  <1>9. FreshInv' /\ RefusedBeforeWriting'
    <2>1. RefusedBeforeWriting'
      BY <1>a, <1>b DEF RefusedBeforeWriting
    <2>2. ASSUME NEW t \in Sessions, pc'[t] \in {"locked", "issued"}
          PROVE  seen'[t] = account'[op'[t].user]
      <3>1. t # s /\ pc[t] \in {"locked", "issued"} /\ op'[t] = op[t] /\ seen'[t] = seen[t]
        BY <2>2, <1>a, <1>b
      <3>2. op[t].user \in Users /\ op[t].user # u /\ seen[t] = account[op[t].user]
        BY <1>1, <3>1 DEF PhaseInv, Working, Holding, Operation, FreshInv
      <3> QED BY <1>4, <3>1, <3>2
    <2> QED BY <2>1, <2>2 DEF FreshInv
  <1>10. IdsInv'
    <2> SUFFICES ASSUME NEW v \in Users PROVE IdsInv!(v)'
      BY DEF IdsInv
    <2>1. CASE v # u
      BY <2>1, <1>2, <1>4 DEF IdsInv
    <2>2. CASE v = u
      <3>1. \A i \in 1..n + 1 : i \in 1..n \/ i = n + 1
        BY <1>0
      <3>2. /\ \A i \in 1..n : ledger[u][i].id \in 1..nextId
            /\ \A i, j \in 1..n : i < j => ledger[u][i].id < ledger[u][j].id
            /\ \A i \in 1..n : ledger[u][i].id < row.id
            /\ row.id \in 1..nextId
        BY <1>0 DEF IdsInv, DraftContinues
      <3>3. \A i \in 1..n + 1 : ledger'[u][i].id \in 1..nextId
        BY <1>3, <3>1, <3>2
      <3>4. ASSUME NEW i \in 1..n + 1, NEW j \in 1..n + 1, i < j
            PROVE  ledger'[u][i].id < ledger'[u][j].id
        <4>1. i \in 1..n
          BY <3>4, <1>0
        <4> QED BY <1>3, <3>1, <3>2, <3>4, <4>1
      <3> QED BY <2>2, <1>2, <1>3, <3>3, <3>4
    <2> QED BY <2>1, <2>2
  <1>11. DraftInv'
    <2> SUFFICES ASSUME NEW t \in Sessions, pc'[t] = "written"
                 PROVE  DraftContinues(t)'
      BY DEF DraftInv
    <2>1. t # s /\ pc[t] = "written" /\ op'[t] = op[t] /\ seen'[t] = seen[t]
          /\ draft'[t] = draft[t] /\ issued'[t] = issued[t]
      BY <1>a, <1>b
    <2>2. op[t].user \in Users /\ op[t].user # u /\ DraftContinues(t)
      BY <1>1, <2>1 DEF PhaseInv, Working, Holding, Operation, DraftInv
    <2> QED BY <1>2, <1>4, <2>1, <2>2 DEF DraftContinues, Booked, PreviousId
  <1>18. CheckedInv'
    <2> SUFFICES ASSUME NEW t \in Sessions, pc'[t] = "issued"
                 PROVE  ClaimChecked(t)'
      BY DEF CheckedInv
    <2>1. t # s /\ pc[t] = "issued" /\ op'[t] = op[t] /\ seen'[t] = seen[t]
      BY <1>a, <1>b
    <2>2. op[t].user \in Users /\ op[t].user # u /\ ClaimChecked(t)
      BY <1>1, <2>1 DEF PhaseInv, Working, Holding, Operation, CheckedInv
    <2> QED BY <1>4, <2>1, <2>2 DEF ClaimChecked, PreviousId
  <1>19. IssuedInv'
    <2>1. ASSUME NEW v \in Users
          PROVE  rewards'[v] \subseteq rewards[v] \cup ({issued[s]} \ {0})
      BY <1>2 DEF TypeOK
    <2>2. \A v \in Users : rewards'[v] \subseteq 1..nextReward
      BY <2>1 DEF IssuedInv, TypeOK
    <2>3. ASSUME NEW t \in Sessions, t # s, issued[t] # 0, NEW v \in Users
          PROVE  issued[t] \notin rewards'[v]
      BY <2>1, <2>3 DEF IssuedInv
    <2>4. 0 \in 0..nextReward
      BY DEF TypeOK
    <2> QED BY <1>2, <1>a, <1>b, <2>2, <2>3, <2>4 DEF IssuedInv
  <1>12. OwnerInv'
    <2> SUFFICES ASSUME NEW v \in Users, NEW i \in 1..Len(ledger'[v])
                 PROVE  OwnerInv!(v)!(i)'
      BY DEF OwnerInv
    <2>1. CASE v = u /\ ledger'[v][i] = row
      BY <2>1, <1>0 DEF DraftContinues, PhaseInv, Working, Holding
    <2>2. CASE i \in 1..Len(ledger[v]) /\ ledger'[v][i] = ledger[v][i]
      BY <2>2 DEF Committed, OwnerInv
    <2> QED BY <2>1, <2>2, <1>e
  <1>13. LedgerExplainsBalance'
    <2> SUFFICES ASSUME NEW v \in Users PROVE LedgerExplainsBalance!(v)'
      BY DEF LedgerExplainsBalance
    <2>1. CASE v # u
      BY <2>1, <1>4 DEF Committed, LedgerExplainsBalance, Before
    <2>2. CASE v = u
      <3>1. ASSUME NEW i \in 1..n + 1
            PROVE  Before(u, i)' = Before(u, i)
        <4>1. i = 1 \/ i - 1 \in 1..n
          OBVIOUS
        <4> QED BY <4>1, <1>3 DEF Before
      <3>2. Before(u, n + 2)' = row.after
        BY <1>0, <1>3 DEF Before
      <3>3. account[u].stamps = Before(u, n + 1)
        BY <1>0 DEF Committed, LedgerExplainsBalance
      <3>4. row.after = Before(u, n + 1) + row.amount /\ account'[u].stamps = row.after
        BY <1>0, <1>3, <3>3 DEF DraftContinues
      <3>5. ASSUME NEW i \in 1..n + 1
            PROVE  ledger'[u][i].after = Before(u, i)' + ledger'[u][i].amount
        <4>1. CASE i = n + 1
          BY <4>1, <1>3, <3>1, <3>4
        <4>2. CASE i # n + 1
          <5>1. i \in 1..n
            BY <4>2, <1>0
          <5> QED BY <5>1, <1>0, <1>3, <3>1 DEF Committed, LedgerExplainsBalance
        <4> QED BY <4>1, <4>2
      <3> QED BY <2>2, <1>0, <1>3, <3>2, <3>4, <3>5
    <2> QED BY <2>1, <2>2
  <1>14. EventBookedOnce'
    <2>1. ASSUME NEW v \in Users, NEW i \in 1..Len(ledger[v]),
                 row.kind \in Credits, ledger[v][i].kind = row.kind,
                 ledger[v][i].ref = row.ref
          PROVE  v # u /\ row.kind = "referral"
      <3>1. v # u
        BY <2>1, <1>0 DEF DraftContinues, Booked
      <3>2. row.kind = "purchase" => Owner[row.ref] = u /\ Owner[row.ref] = v
        BY <2>1, <1>0 DEF DraftContinues, PhaseInv, Working, Holding, Committed, OwnerInv
      <3>3. row.kind = "roulette" => Spinner[row.ref] = u /\ Spinner[row.ref] = v
        BY <2>1, <1>0 DEF DraftContinues, PhaseInv, Working, Holding, Committed, OwnerInv
      <3> QED BY <2>1, <3>1, <3>2, <3>3 DEF Credits
    <2> SUFFICES ASSUME NEW v \in Users, NEW w \in Users,
                        NEW i \in 1..Len(ledger'[v]), NEW j \in 1..Len(ledger'[w]),
                        ledger'[v][i].kind \in Credits,
                        ledger'[w][j].kind = ledger'[v][i].kind,
                        ledger'[w][j].ref = ledger'[v][i].ref
                 PROVE  (v = w /\ i = j) \/ (v # w /\ ledger'[v][i].kind = "referral")
      BY DEF EventBookedOnce
    <2>2. CASE v = u /\ i = n + 1
      <3>1. ledger'[v][i] = row
        BY <2>2, <1>3
      <3>2. CASE w = u /\ j = n + 1
        BY <2>2, <3>2
      <3>3. CASE ~(w = u /\ j = n + 1)
        <4>1. j \in 1..Len(ledger[w]) /\ ledger'[w][j] = ledger[w][j]
          BY <3>3, <1>e
        <4>2. w # u /\ row.kind = "referral"
          BY <4>1, <3>1, <2>1
        <4> QED BY <2>2, <3>1, <4>2
      <3> QED BY <3>2, <3>3
    <2>3. CASE w = u /\ j = n + 1 /\ ~(v = u /\ i = n + 1)
      <3>1. ledger'[w][j] = row
        BY <2>3, <1>3
      <3>2. i \in 1..Len(ledger[v]) /\ ledger'[v][i] = ledger[v][i]
        BY <2>3, <1>e
      <3>3. v # u /\ row.kind = "referral"
        BY <3>1, <3>2, <2>1
      <3> QED BY <2>3, <3>1, <3>3
    <2>4. CASE ~(v = u /\ i = n + 1) /\ ~(w = u /\ j = n + 1)
      <3>1. /\ i \in 1..Len(ledger[v]) /\ ledger'[v][i] = ledger[v][i]
            /\ j \in 1..Len(ledger[w]) /\ ledger'[w][j] = ledger[w][j]
        BY <2>4, <1>e
      <3> QED BY <3>1 DEF Committed, EventBookedOnce
    <2> QED BY <2>2, <2>3, <2>4
  <1>15. PurchasesCounted'
    <2> SUFFICES ASSUME NEW v \in Users
                 PROVE  account'[v].purchases = Cardinality(PurchaseRows(v)')
      BY DEF PurchasesCounted
    <2>0. account[v].purchases = Cardinality(PurchaseRows(v))
      BY DEF Committed, PurchasesCounted
    <2>1. CASE v # u
      BY <2>0, <2>1, <1>4 DEF PurchaseRows
    <2>2. CASE v = u
      <3>1. PurchaseRows(u)' = PurchaseRows(u) \cup
              (IF row.kind = "purchase" THEN {n + 1} ELSE {})
        <4>1. PurchaseRows(u) = {i \in 1..n : ledger[u][i].kind = "purchase"}
          BY <1>0 DEF PurchaseRows
        <4>2. PurchaseRows(u)' = {i \in 1..n + 1 : ledger'[u][i].kind = "purchase"}
          BY <1>3 DEF PurchaseRows
        <4>3. /\ \A i \in 1..n : i \in 1..n + 1 /\ i # n + 1
              /\ n + 1 \in 1..n + 1
              /\ \A i \in 1..n + 1 : i \in 1..n \/ i = n + 1
          BY <1>0
        <4>4. /\ \A i \in 1..n : ledger'[u][i] = ledger[u][i]
              /\ ledger'[u][n + 1] = row
          BY <1>3
        <4> HIDE DEF PurchaseRows
        <4> QED BY <4>1, <4>2, <4>3, <4>4
      <3>2. PurchaseRows(u) \subseteq 1..n
        BY <1>0 DEF PurchaseRows
      <3>3. IsFiniteSet(PurchaseRows(u))
        <4>1. IsFiniteSet(1..n)
          BY FS_Interval
        <4> QED BY <4>1, <3>2, FS_Subset
      <3>4. n + 1 \notin PurchaseRows(u)
        BY <3>2
      <3>5. Cardinality(PurchaseRows(u) \cup {n + 1}) = Cardinality(PurchaseRows(u)) + 1
        BY <3>3, <3>4, FS_AddElement
      <3>6. account'[u].purchases =
              account[u].purchases + (IF row.kind = "purchase" THEN 1 ELSE 0)
        BY <1>0, <1>3 DEF DraftContinues
      <3>7. account[u].purchases \in Nat
        BY DEF TypeOK, Account
      <3> QED BY <2>0, <2>2, <3>1, <3>5, <3>6, <3>7
    <2> QED BY <2>1, <2>2
  <1>16. ClaimFollowsItsCard'
    <2> SUFFICES ASSUME NEW v \in Users, NEW i \in 1..Len(ledger'[v]),
                        ledger'[v][i].kind = "redemption"
                 PROVE  ledger'[v][i].card.version = PreviousId(v, i)'
      BY DEF ClaimFollowsItsCard
    <2>1. CASE v # u
      BY <2>1, <1>4 DEF Committed, ClaimFollowsItsCard, PreviousId
    <2>2. CASE v = u
      <3>1. PreviousId(u, i)' = PreviousId(u, i)
        BY <2>2, <1>0, <1>3 DEF PreviousId
      <3>2. CASE i = n + 1
        BY <2>2, <3>1, <3>2, <1>0, <1>3 DEF DraftContinues
      <3>3. CASE i # n + 1
        <4>1. i \in 1..n /\ ledger'[u][i] = ledger[u][i]
          BY <2>2, <3>3, <1>0, <1>3
        <4> QED BY <2>2, <3>1, <4>1, <1>0 DEF Committed, ClaimFollowsItsCard
      <3> QED BY <3>2, <3>3
    <2> QED BY <2>1, <2>2
  <1>17. DebitIffReward'
    <2> SUFFICES ASSUME NEW v \in Users PROVE DebitIffReward!(v)'
      BY DEF DebitIffReward
    <2>1. CASE v # u
      <3>1. rewards'[v] = rewards[v]
        BY <2>1, <1>0, <1>2 DEF TypeOK
      <3> QED BY <2>1, <3>1, <1>4 DEF Committed, DebitIffReward, Redemptions
    <2>2. CASE v = u
      <3> DEFINE Rows == Redemptions(u)
      <3>1. /\ rewards[u] = {ledger[u][i].reward : i \in Rows}
            /\ \A i, j \in Rows : ledger[u][i].reward = ledger[u][j].reward => i = j
            /\ Rows \subseteq 1..n
        BY <1>0 DEF Committed, DebitIffReward, Redemptions
      <3>2. \A i \in Rows : ledger'[u][i] = ledger[u][i]
        BY <3>1, <1>3
      <3>3. CASE row.kind # "redemption"
        <4>1. Redemptions(u)' = Rows
          BY <3>3, <1>0, <1>3 DEF Redemptions
        <4>2. rewards'[u] = rewards[u]
          BY <3>3, <1>0, <1>2 DEF IssuedInv, DraftContinues
        <4> HIDE DEF Rows
        <4> QED BY <2>2, <3>1, <3>2, <4>1, <4>2
      <3>4. CASE row.kind = "redemption"
        <4>1. Redemptions(u)' = Rows \cup {n + 1}
          <5>1. Redemptions(u)' = {i \in 1..n + 1 : ledger'[u][i].kind = "redemption"}
            BY <1>3 DEF Redemptions
          <5>2. Rows = {i \in 1..n : ledger[u][i].kind = "redemption"}
            BY <1>0 DEF Redemptions
          <5>3. 1..n + 1 = 1..n \cup {n + 1}
            BY <1>0
          <5> HIDE DEF Rows
          <5> QED BY <5>1, <5>2, <5>3, <3>4, <1>3
        <4>2. issued[s] # 0 /\ row.reward = issued[s]
          BY <3>4, <1>0 DEF IssuedInv, DraftContinues
        <4>3. rewards'[u] = rewards[u] \cup {row.reward} /\ row.reward \notin rewards[u]
          BY <4>2, <1>0, <1>2 DEF TypeOK, IssuedInv
        <4>4. \A i \in Rows : ledger'[u][i].reward \in rewards[u]
          BY <3>1, <3>2
        <4> HIDE DEF Rows
        <4>5. {ledger'[u][i].reward : i \in Rows} = rewards[u]
          BY <3>1, <3>2
        <4>6. rewards'[u] = {ledger'[u][i].reward : i \in Rows \cup {n + 1}}
          BY <4>3, <4>5, <1>3
        <4>7. ASSUME NEW i \in Rows \cup {n + 1}, NEW j \in Rows \cup {n + 1},
                     ledger'[u][i].reward = ledger'[u][j].reward
              PROVE  i = j
          <5>1. \A k \in Rows : ledger'[u][k].reward # ledger'[u][n + 1].reward
            BY <4>3, <4>4, <1>3
          <5>2. CASE i \in Rows /\ j \in Rows
            BY <5>2, <4>7, <3>1, <3>2
          <5> QED BY <5>1, <5>2, <4>7
        <4> QED BY <2>2, <4>1, <4>6, <4>7
      <3> QED BY <3>3, <3>4
    <2> QED BY <2>1, <2>2
  <1> QED BY <1>6, <1>7, <1>8, <1>9, <1>10, <1>11, <1>12, <1>13, <1>14, <1>15,
             <1>16, <1>17, <1>18, <1>19 DEF Committed

----------------------------------------------------------------------------
\* The steps that end or begin without writing a row.

\* The end of a transaction that commits nothing but frees its row.
LEMMA ReleaseStep ==
  ASSUME IInv, NEW s \in Sessions, Commit(s), pc[s] \in Refused
  PROVE  IInv'
  <1> USE DEF IInv, ids
  <1>0. PICK u \in Users : u = op[s].user
    BY DEF PhaseInv, Working, Holding, Operation
  <1>1. pc[s] \in Refused /\ op[s].user = u /\ lock[u] = s
    BY <1>0 DEF LockInv, Holding
  <1>2. \A t \in Sessions : t # s /\ pc[t] \in Holding => op[t].user # u
    BY <1>1 DEF LockInv
  <1>3. CardScreen(u) \in Operation /\ CardScreen(u).kind = "card"
    BY DEF CardScreen, Operation, Refs
  <1>4. TypeOK'
    <2>1. op' = [op EXCEPT ![s] = IF op[s].kind = "redemption"
                                 THEN CardScreen(u) ELSE None]
      BY <1>0 DEF Commit, Finish, TypeOK
    <2>2. op' \in [Sessions -> Operation \cup {None}]
      BY <2>1, <1>3 DEF TypeOK
    <2>3. account' = account /\ ledger' = ledger /\ rewards' \in [Users -> SUBSET Nat]
      BY <1>1 DEF TypeOK, Commit, Refused
    <2> QED BY <2>2, <2>3 DEF TypeOK, Commit, Finish, Phases
  <1>5. \A t \in Sessions : t # s =>
          /\ pc'[t] = pc[t] /\ op'[t] = op[t]
          /\ seen'[t] = seen[t] /\ draft'[t] = draft[t] /\ issued'[t] = issued[t]
    BY DEF TypeOK, Commit, Finish
  <1>6. /\ issued'[s] = 0
        /\ pc'[s] \in {"idle", "redraw"}
        /\ pc'[s] = "redraw" => op'[s] = CardScreen(u)
        /\ \A v \in Users : v # u => lock'[v] = lock[v]
    BY <1>0 DEF TypeOK, Commit, Finish
  <1>7. UNCHANGED <<account, ledger, rewards, nextId, nextReward>>
    <2>1. issued[s] = 0
      BY <1>1 DEF IssuedInv, Refused
    <2> QED BY <1>1, <2>1 DEF Commit, Refused, ids
  <1>8. PhaseInv'
    <2> SUFFICES ASSUME NEW t \in Sessions PROVE PhaseInv!(t)'
      BY DEF PhaseInv
    <2>1. CASE t # s
      BY <2>1, <1>5 DEF PhaseInv
    <2>2. CASE t = s
      BY <2>2, <1>6, <1>3 DEF Working, Holding, Refused
    <2> QED BY <2>1, <2>2
  <1>9. LockInv'
    <2> SUFFICES ASSUME NEW t \in Sessions, pc'[t] \in Holding
                 PROVE  lock'[op'[t].user] = t
      BY DEF LockInv
    <2>1. t # s /\ pc[t] \in Holding /\ op'[t] = op[t]
      BY <1>5, <1>6 DEF Holding, Refused
    <2>2. op[t].user \in Users /\ op[t].user # u /\ lock[op[t].user] = t
      BY <1>2, <2>1 DEF PhaseInv, Working, Operation, LockInv
    <2> QED BY <1>6, <2>1, <2>2
  <1>10. FreshInv' /\ IdsInv' /\ RefusedBeforeWriting'
    BY <1>5, <1>6, <1>7 DEF FreshInv, IdsInv, RefusedBeforeWriting
  <1>11. DraftInv'
    <2> SUFFICES ASSUME NEW t \in Sessions, pc'[t] = "written"
                 PROVE  DraftContinues(t)'
      BY DEF DraftInv
    <2>1. t # s /\ pc[t] = "written" /\ op'[t] = op[t] /\ seen'[t] = seen[t]
          /\ draft'[t] = draft[t] /\ issued'[t] = issued[t] /\ DraftContinues(t)
      BY <1>5, <1>6 DEF DraftInv
    <2> QED BY <1>7, <2>1 DEF DraftContinues, Booked, PreviousId
  <1>12. CheckedInv' /\ IssuedInv'
    <2>1. ASSUME NEW t \in Sessions, pc'[t] = "issued"
          PROVE  ClaimChecked(t)'
      <3>1. t # s /\ pc[t] = "issued" /\ ClaimChecked(t)
        BY <2>1, <1>5, <1>6, <1>7 DEF CheckedInv
      <3> QED BY <3>1, <1>5, <1>6, <1>7 DEF ClaimChecked, PreviousId
    <2>2. 0 \in 0..nextReward
      BY DEF TypeOK
    <2> QED BY <2>1, <2>2, <1>5, <1>6, <1>7 DEF CheckedInv, IssuedInv
  <1>13. Committed'
    BY <1>7, CommittedStays
  <1> QED BY <1>4, <1>8, <1>9, <1>10, <1>11, <1>12, <1>13

\* The middleware's rollback: whatever was flushed is gone.
LEMMA RollbackStep ==
  ASSUME IInv, NEW s \in Sessions, Rollback(s)
  PROVE  IInv'
  <1> USE DEF IInv, ids
  <1>1. TypeOK'
    BY DEF TypeOK, Rollback, Phases
  <1>2. \A t \in Sessions : t # s =>
          /\ pc'[t] = pc[t] /\ op'[t] = op[t]
          /\ seen'[t] = seen[t] /\ draft'[t] = draft[t] /\ issued'[t] = issued[t]
    BY DEF TypeOK, Rollback
  <1>3. /\ pc'[s] = "idle" /\ issued'[s] = 0
        /\ UNCHANGED <<account, ledger, rewards, nextId, nextReward>>
    BY DEF TypeOK, Rollback, ids
  <1>4. PhaseInv'
    BY <1>2, <1>3 DEF PhaseInv, Working, Holding, Refused
  <1>5. LockInv'
    <2> SUFFICES ASSUME NEW t \in Sessions, pc'[t] \in Holding
                 PROVE  lock'[op'[t].user] = t
      BY DEF LockInv
    <2>1. t # s /\ pc[t] \in Holding /\ op'[t] = op[t] /\ lock[op[t].user] = t
      BY <1>2, <1>3 DEF Holding, Refused, LockInv
    <2>2. op[t].user \in Users
      BY <2>1 DEF PhaseInv, Working, Operation
    <2>3. pc[s] \in Holding => op[s].user # op[t].user
      BY <2>1 DEF LockInv
    <2>4. lock'[op[t].user] = lock[op[t].user]
      BY <2>2, <2>3 DEF Rollback, TypeOK
    <2> QED BY <2>1, <2>4
  <1>6. FreshInv' /\ IdsInv' /\ RefusedBeforeWriting'
    BY <1>2, <1>3 DEF FreshInv, IdsInv, RefusedBeforeWriting
  <1>7. DraftInv'
    <2> SUFFICES ASSUME NEW t \in Sessions, pc'[t] = "written"
                 PROVE  DraftContinues(t)'
      BY DEF DraftInv
    <2>1. t # s /\ pc[t] = "written" /\ op'[t] = op[t] /\ seen'[t] = seen[t]
          /\ draft'[t] = draft[t] /\ issued'[t] = issued[t] /\ DraftContinues(t)
      BY <1>2, <1>3 DEF DraftInv
    <2> QED BY <1>3, <2>1 DEF DraftContinues, Booked, PreviousId
  <1>8. CheckedInv' /\ IssuedInv'
    <2>1. ASSUME NEW t \in Sessions, pc'[t] = "issued"
          PROVE  ClaimChecked(t)'
      <3>1. t # s /\ pc[t] = "issued" /\ ClaimChecked(t)
        BY <2>1, <1>2, <1>3 DEF CheckedInv
      <3> QED BY <3>1, <1>2, <1>3 DEF ClaimChecked, PreviousId
    <2>2. 0 \in 0..nextReward
      BY DEF TypeOK
    <2> QED BY <2>1, <2>2, <1>2, <1>3 DEF CheckedInv, IssuedInv
  <1>9. Committed'
    BY <1>3, CommittedStays
  <1> QED BY <1>1, <1>4, <1>5, <1>6, <1>7, <1>8, <1>9

\* The card screen takes no lock and writes nothing.
LEMMA CardScreenStep ==
  ASSUME IInv, NEW s \in Sessions,
         (\E u \in Users : OpenCard(s, u)) \/ ReadBalance(s) \/ DrawCard(s)
  PROVE  IInv'
  <1> USE DEF IInv, ids
  <1>1. \A t \in Sessions : t # s =>
          /\ pc'[t] = pc[t] /\ op'[t] = op[t]
          /\ seen'[t] = seen[t] /\ draft'[t] = draft[t]
    BY DEF TypeOK, OpenCard, ReadBalance, DrawCard
  <1>2. UNCHANGED <<account, ledger, rewards, nextId, nextReward, issued, lock>>
    BY DEF OpenCard, ReadBalance, DrawCard, ids
  <1>3. \A u \in Users : CardScreen(u) \in Operation /\ CardScreen(u).kind = "card"
    BY DEF CardScreen, Operation, Refs
  <1>4. /\ pc[s] \in {"idle", "redraw", "balance_read"}
        /\ pc'[s] \in {"idle", "redraw", "balance_read"}
        /\ pc'[s] \in {"redraw", "balance_read"} =>
             op'[s] \in Operation /\ op'[s].kind = "card"
        /\ pc'[s] = "balance_read" => seen'[s] \in Account
    BY <1>3 DEF TypeOK, PhaseInv, OpenCard, ReadBalance, DrawCard, Operation
  <1>5. TypeOK'
    <2>1. CASE \E u \in Users : OpenCard(s, u)
      BY <2>1, <1>3 DEF TypeOK, OpenCard, Phases
    <2>2. CASE ReadBalance(s)
      BY <2>2 DEF TypeOK, ReadBalance, Phases, PhaseInv, Operation
    <2>3. CASE DrawCard(s)
      <3>1. PICK u \in Users : u = op[s].user
        BY <2>3 DEF DrawCard, PhaseInv, Operation
      <3>2. [stamps |-> seen[s].stamps, version |-> LatestId(u)] \in Card
        BY <2>3, LatestIsLast DEF DrawCard, PhaseInv, Card, Account
      <3>3. cards' \in [Users -> SUBSET Card]
        BY <2>3, <3>1, <3>2 DEF TypeOK, DrawCard
      <3> QED BY <2>3, <3>3 DEF TypeOK, DrawCard, Phases
    <2> QED BY <2>1, <2>2, <2>3
  <1>6. PhaseInv'
    <2> SUFFICES ASSUME NEW t \in Sessions PROVE PhaseInv!(t)'
      BY DEF PhaseInv
    <2>1. CASE t # s
      BY <2>1, <1>1 DEF PhaseInv
    <2>2. CASE t = s
      BY <2>2, <1>4 DEF Working, Holding, Refused
    <2> QED BY <2>1, <2>2
  <1>7. LockInv' /\ FreshInv' /\ IdsInv' /\ RefusedBeforeWriting'
    BY <1>1, <1>2, <1>4 DEF LockInv, FreshInv, IdsInv, RefusedBeforeWriting, Holding, Refused
  <1>8. DraftInv'
    <2> SUFFICES ASSUME NEW t \in Sessions, pc'[t] = "written"
                 PROVE  DraftContinues(t)'
      BY DEF DraftInv
    <2>1. t # s /\ pc[t] = "written" /\ op'[t] = op[t] /\ seen'[t] = seen[t]
          /\ draft'[t] = draft[t] /\ DraftContinues(t)
      BY <1>1, <1>4 DEF DraftInv
    <2> QED BY <1>2, <2>1 DEF DraftContinues, Booked, PreviousId
  <1>9. CheckedInv' /\ IssuedInv'
    BY <1>1, <1>2, <1>4 DEF TypeOK, CheckedInv, ClaimChecked, IssuedInv, PreviousId
  <1>10. Committed'
    BY <1>2, CommittedStays
  <1> QED BY <1>5, <1>6, <1>7, <1>8, <1>9, <1>10

----------------------------------------------------------------------------
\* One case per operation that starts, and per outcome of the bookings.

\* Any of the operations of LoyaltyService begins, or a card is opened.
LEMMA StartStep ==
  ASSUME IInv, NEW s \in Sessions, Start(s)
  PROVE  IInv'
  <1> USE LedgerAssumption
  <1>1. CASE \E o \in Orders, n \in 0..MaxStamps : RecordPurchase(s, o, n)
    <2>1. PICK o \in Orders, n \in 0..MaxStamps : RecordPurchase(s, o, n)
      BY <1>1
    <2> DEFINE rec == [user |-> Owner[o], kind |-> "purchase", amount |-> n,
                       ref |-> o, card |-> None]
    <2>2. rec \in Operation
      BY DEF Operation, Kinds, Credits, Refs
    <2> HIDE DEF rec
    <2> QED BY <2>1, <2>2, BeginStep DEF RecordPurchase, Kinds, Credits, rec
  <1>2. CASE \E r \in Referrals, u \in Users, n \in 0..MaxStamps : CreditReferral(s, r, u, n)
    <2>1. PICK r \in Referrals, u \in Users, n \in 0..MaxStamps : CreditReferral(s, r, u, n)
      BY <1>2
    <2> DEFINE rec == [user |-> u, kind |-> "referral", amount |-> n,
                       ref |-> r, card |-> None]
    <2>2. rec \in Operation
      BY DEF Operation, Kinds, Credits, Refs
    <2> HIDE DEF rec
    <2> QED BY <2>1, <2>2, BeginStep DEF CreditReferral, Kinds, Credits, rec
  <1>3. CASE \E p \in Spins, n \in 0..MaxStamps : CreditRoulette(s, p, n)
    <2>1. PICK p \in Spins, n \in 0..MaxStamps : CreditRoulette(s, p, n)
      BY <1>3
    <2> DEFINE rec == [user |-> Spinner[p], kind |-> "roulette", amount |-> n,
                       ref |-> p, card |-> None]
    <2>2. rec \in Operation
      BY DEF Operation, Kinds, Credits, Refs
    <2> HIDE DEF rec
    <2> QED BY <2>1, <2>2, BeginStep DEF CreditRoulette, Kinds, Credits, rec
  <1>4. CASE \E u \in Users, n \in -MaxStamps..MaxStamps : Adjust(s, u, n)
    <2>1. PICK u \in Users, n \in -MaxStamps..MaxStamps : Adjust(s, u, n)
      BY <1>4
    <2> DEFINE rec == [user |-> u, kind |-> "adjustment", amount |-> n,
                       ref |-> None, card |-> None]
    <2>2. rec \in Operation
      BY DEF Operation, Kinds, Credits, Refs
    <2> HIDE DEF rec
    <2> QED BY <2>1, <2>2, BeginStep DEF Adjust, Kinds, Credits, rec
  <1>5. CASE \E u \in Users : \E c \in cards[u] : ClaimFreeBottle(s, u, c)
    <2>0. PICK u \in Users : \E c \in cards[u] : ClaimFreeBottle(s, u, c)
      BY <1>5
    <2>1. PICK c \in cards[u] : ClaimFreeBottle(s, u, c)
      BY <2>0
    <2>2. c \in Card
      BY DEF IInv, TypeOK
    <2> DEFINE rec == [user |-> u, kind |-> "redemption", amount |-> -StampsRequired,
                       ref |-> None, card |-> c]
    <2>3. rec \in Operation
      BY <2>2 DEF Operation, Kinds, Credits, Refs
    <2> HIDE DEF rec
    <2> QED BY <2>1, <2>2, <2>3, BeginStep DEF ClaimFreeBottle, Kinds, Credits, rec
  <1>6. CASE \E u \in Users : OpenCard(s, u)
    BY <1>6, CardScreenStep
  <1> QED BY <1>1, <1>2, <1>3, <1>4, <1>5, <1>6 DEF Start

\* Any of the operations goes on under the lock: a refusal, a replay or a row.
LEMMA BookStep ==
  ASSUME IInv, NEW s \in Sessions, Book(s)
  PROVE  IInv'
  <1> DEFINE bonus == IF op[s].kind = "purchase" THEN 1 ELSE 0
  <1>0. pc[s] \in {"locked", "issued"} /\ op[s] \in Operation /\ seen[s] \in Account
        /\ op[s].user \in Users
        /\ (op[s].kind \in Credits => op[s].amount >= 0)
        /\ (op[s].kind = "redemption" => op[s].amount = -StampsRequired)
    BY DEF Book, BookPurchase, BookBonus, BookAdjustment, IssueReward, BookRedemption,
           IInv, PhaseInv, Working, Holding, Operation
  <1>1. seen[s].stamps \in Nat /\ seen[s].purchases \in Nat /\ op[s].amount \in Int
    BY <1>0 DEF Account, Operation
  <1>2. CASE BookPurchase(s)
    <2>1. CASE Booked(op[s])
      BY <1>0, <1>2, <2>1, AnswerStep DEF BookPurchase, Refused
    <2>2. CASE ~Booked(op[s])
      <3>1. seen[s].stamps + op[s].amount >= 0
        BY <1>0, <1>1, <1>2 DEF BookPurchase, Credits
      <3> QED BY <1>0, <1>2, <2>2, <3>1, AppendStep DEF BookPurchase
    <2> QED BY <2>1, <2>2
  <1>3. CASE BookBonus(s)
    <2>1. CASE Booked(op[s])
      BY <1>0, <1>3, <2>1, AnswerStep DEF BookBonus, Refused
    <2>2. CASE ~Booked(op[s])
      <3>1. seen[s].stamps + op[s].amount >= 0
        BY <1>0, <1>1, <1>3 DEF BookBonus, Credits
      <3>2. seen[s].purchases + bonus = seen[s].purchases
        BY <1>1, <1>3 DEF BookBonus
      <3> QED BY <1>0, <1>3, <2>2, <3>1, <3>2, AppendStep DEF BookBonus
    <2> QED BY <2>1, <2>2
  <1>4. CASE BookAdjustment(s)
    <2>1. CASE seen[s].stamps + op[s].amount < 0
      BY <1>0, <1>4, <2>1, AnswerStep DEF BookAdjustment, Refused
    <2>2. CASE ~(seen[s].stamps + op[s].amount < 0)
      <3>1. seen[s].stamps + op[s].amount >= 0
        BY <1>1, <2>2
      <3>2. seen[s].purchases + bonus = seen[s].purchases
        BY <1>1, <1>4 DEF BookAdjustment
      <3> QED BY <1>0, <1>4, <2>2, <3>1, <3>2, AppendStep DEF BookAdjustment, Credits
    <2> QED BY <2>1, <2>2
  <1>5. CASE IssueReward(s)
    <2>1. CASE ClaimRefusal(s) # "none"
      <3>1. ClaimRefusal(s) \in Refused
        BY <2>1 DEF ClaimRefusal, Refused
      <3> QED BY <1>5, <2>1, <3>1, AnswerStep DEF IssueReward
    <2>2. CASE ClaimRefusal(s) = "none"
      <3>1. LatestId(op[s].user) = op[s].card.version /\ seen[s].stamps >= StampsRequired
        BY <2>2, <1>1, LedgerAssumption DEF ClaimRefusal
      <3> QED BY <1>5, <2>2, <3>1, IssueStep DEF IssueReward
    <2> QED BY <2>1, <2>2
  <1>6. CASE BookRedemption(s)
    <2>1. op[s].kind = "redemption" /\ seen[s].stamps >= StampsRequired
      BY <1>6 DEF BookRedemption, IInv, PhaseInv, Working, Holding, CheckedInv, ClaimChecked
    <2>2. seen[s].stamps + op[s].amount >= 0
      BY <1>0, <1>1, <2>1, LedgerAssumption
    <2>3. seen[s].purchases + bonus = seen[s].purchases
      BY <1>1, <2>1
    <2> QED BY <1>0, <1>6, <2>1, <2>2, <2>3, AppendStep DEF BookRedemption, Credits
  <1> QED BY <1>2, <1>3, <1>4, <1>5, <1>6 DEF Book

\* IInv speaks of the variables only.
LEMMA StutterStep == IInv /\ UNCHANGED vars => IInv'
  BY CommittedStays
  DEF vars, ids, IInv, TypeOK, PhaseInv, LockInv, FreshInv, IdsInv, DraftInv,
      CheckedInv, ClaimChecked, IssuedInv, DraftContinues, Booked, PreviousId, RefusedBeforeWriting

\* Every step of the ledger preserves the inductive invariant.
LEMMA NextIInv == IInv /\ [Next]_vars => IInv'
  <1> SUFFICES ASSUME IInv, [Next]_vars PROVE IInv'
    OBVIOUS
  <1>1. CASE UNCHANGED vars
    BY <1>1, StutterStep
  <1>2. CASE Next
    <2> PICK s \in Sessions :
          \/ Start(s) \/ LockAccount(s) \/ Book(s)
          \/ Commit(s) \/ Rollback(s)
          \/ ReadBalance(s) \/ DrawCard(s)
      BY <1>2 DEF Next
    <2>1. Commit(s) => pc[s] = "written" \/ pc[s] \in Refused
      BY DEF Commit
    <2> QED BY <2>1, StartStep, LockStep, BookStep, CommitStep, ReleaseStep,
               RollbackStep, CardScreenStep
  <1> QED BY <1>1, <1>2

\* The inductive invariant holds in every reachable state: what the account lock
\* and the refreshed instance (lock_account) give every operation to rely on.
THEOREM LedgerInductive == Spec => []IInv
  BY InitIInv, NextIInv, PTL DEF Spec

\* Every variable keeps its type: in particular no committed balance and no
\* balance_after is ever negative (the CHECK constraints never fire).
THEOREM LedgerTypeCorrect == Spec => []TypeOK
  <1>1. IInv => TypeOK
    BY DEF IInv
  <1> QED BY <1>1, LedgerInductive, PTL

\* The ledger explains every cached balance row by row, for any number of
\* sessions racing, replaying, refusing and crashing.
THEOREM LedgerAlwaysExplainsBalance == Spec => []LedgerExplainsBalance
  <1>1. IInv => LedgerExplainsBalance
    BY DEF IInv, Committed
  <1> QED BY <1>1, LedgerInductive, PTL

\* No earning event is ever booked twice, with the account lock alone: the
\* unique constraints are a backstop that is never needed.
THEOREM EventsBookedOnce == Spec => []EventBookedOnce
  <1>1. IInv => EventBookedOnce
    BY DEF IInv, Committed
  <1> QED BY <1>1, LedgerInductive, PTL

\* The cached purchase count is the number of purchase rows.
THEOREM PurchaseCountExact == Spec => []PurchasesCounted
  <1>1. IInv => PurchasesCounted
    BY DEF IInv, Committed
  <1> QED BY <1>1, LedgerInductive, PTL

\* A claim spends the card it was tapped on: nothing moved in between.
THEOREM ClaimsFollowTheirCard == Spec => []ClaimFollowsItsCard
  <1>1. IInv => ClaimFollowsItsCard
    BY DEF IInv, Committed
  <1> QED BY <1>1, LedgerInductive, PTL

\* Committed rewards and the debits that pay for them correspond one to one:
\* claim_free_bottle writes them in two flushes and its handler commits refusals
\* too, so this needs every check of a claim to come before its first write and
\* to stay true until its second (CheckedInv, IssuedInv).
THEOREM DebitsMatchRewards == Spec => []DebitIffReward
  <1>1. IInv => DebitIffReward
    BY DEF IInv, Committed
  <1> QED BY <1>1, LedgerInductive, PTL

\* The LedgerInvariantError of _append is unreachable.
THEOREM NeverInvariantError == Spec => []RefusedBeforeWriting
  <1>1. IInv => RefusedBeforeWriting
    BY DEF IInv
  <1> QED BY <1>1, LedgerInductive, PTL
============================================================================
