--------------------------- MODULE RouletteProofs ---------------------------
(***************************************************************************)
(* Proofs about Roulette, for any customers, orders, prizes and number of  *)
(* transactions at once: the prize shown is the one saved, a backfill      *)
(* leaves nobody out, only a start through a friend's link ever waits in a *)
(* circle with it, and all of it implements SpinBook.                      *)
(***************************************************************************)
EXTENDS Roulette, SequenceTheorems, WellFoundedInduction, TLAPS

\* The phases of a session that plays, starts or activates, until it has ended.
Playing == {"tapped", "locked", "replay", "won"}
Starting == {"started", "granting", "linked", "decided"}
Activating == {"booting", "opening", "topping"}

Kinds ==
  /\ accounts \subseteq Users /\ grants \in Seq(Grant) /\ spins \subseteq Spin
  /\ accountLock \in [Users -> Sessions \cup {None}]
  /\ welcomeLock \in [Users -> Sessions \cup {None}]
  /\ pc \in [Sessions -> SpinPhases \cup StartPhases \cup BackfillPhases \cup {"idle"}]
  /\ job \in [Sessions -> Job \cup {None}]

\* No spin is granted twice for the same thing.
GrantedOnce ==
  \A g, h \in DOMAIN grants :
    g # h /\ grants[g].source = grants[h].source =>
      grants[g].source = "welcome" /\ grants[g].user # grants[h].user

\* A grant is spent exactly if there is a spin of it, by its customer.
SpentBySpin ==
  /\ \A spin \in spins : Owns(spin.user, spin.grant) /\ grants[spin.grant].spent
  /\ \A g \in DOMAIN grants : grants[g].spent => \E spin \in spins : spin.grant = g

\* A tap plays a grant of its customer, unspent still once it was found so under
\* the lock of the account; what it shows is saved.
PlayInv(s) ==
  /\ pc[s] \in Playing => Owns(User(s), Button(s)) /\ job[s].prize \in Prizes
  /\ pc[s] \in {"locked", "won"} => accountLock[User(s)] = s
  /\ pc[s] = "won" => ~grants[Button(s)].spent
  /\ pc[s] = "told_prize" =>
       [grant |-> Button(s), user |-> User(s), prize |-> job[s].prize] \in spins

Inserted(s, u) == \E i \in DOMAIN job[s].inserted : job[s].inserted[i] = u

\* A row that is locked is the session's own: an account a backfill locked is
\* new, and so is a welcome grant whoever inserted it.
RowInv(s) ==
  /\ \A u \in Users : accountLock[u] = s =>
       \/ pc[s] \in {"locked", "replay", "won", "decided"}
       \/ pc[s] \in {"opening", "topping"} /\ u \notin accounts
  /\ \A u \in Users : welcomeLock[u] = s =>
       /\ ~Welcomed(u)
       /\ pc[s] = "topping" \/ (pc[s] \in {"linked", "decided"} /\ u = User(s))
  /\ pc[s] \in Starting \cup Activating =>
       /\ \A u \in Users : welcomeLock[u] = s <=> Inserted(s, u)
       /\ \A i, j \in DOMAIN job[s].inserted :
            job[s].inserted[i] = job[s].inserted[j] => i = j

\* A backfill leaves nobody out, and goes through the customers upwards.
BackfillInv(s) ==
  /\ pc[s] = "opening" => \A u \in Users :
       /\ u \in accounts \/ accountLock[u] = s \/ u \in job[s].todo
       /\ accountLock[u] = s => \A v \in job[s].todo : u < v
  /\ pc[s] = "topping" => \A u \in Users :
       /\ u \in accounts \/ accountLock[u] = s
       /\ Welcomed(u) \/ welcomeLock[u] = s \/ u \in job[s].todo
       /\ welcomeLock[u] = s => \A v \in job[s].todo : u < v
  /\ pc[s] = "activated" => accounts = Users /\ \A u \in Users : Welcomed(u)

SessionInv(s) ==
  /\ pc[s] # "idle" => job[s] \in Job
  /\ pc[s] \in Playing \cup Starting => User(s) \in Users
  /\ PlayInv(s) /\ RowInv(s) /\ BackfillInv(s)

\* The inductive invariant.
IInv == Kinds /\ GrantedOnce /\ SpentBySpin /\ \A s \in Sessions : SessionInv(s)

----------------------------------------------------------------------------
\* What a transaction does to the database.

\* A session that has ended holds nothing, and takes nothing from the others.
LEMMA Freed ==
  ASSUME Kinds, NEW s \in Sessions, Release(s)
  PROVE  /\ \A u \in Users : accountLock'[u] # s /\ welcomeLock'[u] # s
         /\ \A u \in Users, t \in Sessions \ {s} :
              /\ accountLock'[u] = t <=> accountLock[u] = t
              /\ welcomeLock'[u] = t <=> welcomeLock[u] = t
         /\ accountLock' \in [Users -> Sessions \cup {None}]
         /\ welcomeLock' \in [Users -> Sessions \cup {None}]
BY RouletteAssumption DEF Release, Kinds

\* What the grants were stays as it was, but for one that is spent.
Kept(spent) ==
  /\ DOMAIN grants \subseteq DOMAIN grants'
  /\ \A g \in DOMAIN grants :
       /\ grants'[g].user = grants[g].user /\ grants'[g].source = grants[g].source
       /\ grants'[g].spent <=> grants[g].spent \/ g \in spent

LEMMA Joined ==
  ASSUME NEW x \in Seq(Grant), NEW y \in Seq(Grant)
  PROVE  /\ x \o y \in Seq(Grant) /\ Len(x \o y) = Len(x) + Len(y)
         /\ Len(x) \in Nat /\ Len(y) \in Nat
         /\ DOMAIN x = 1..Len(x) /\ DOMAIN y = 1..Len(y) /\ DOMAIN (x \o y) = 1..(Len(x) + Len(y))
         /\ \A g \in DOMAIN x : (x \o y)[g] = x[g]
         /\ \A g \in DOMAIN (x \o y) \ DOMAIN x : g - Len(x) \in DOMAIN y /\ (x \o y)[g] = y[g - Len(x)]
OBVIOUS

\* The welcome grants a session inserted, one for each customer it locked.
LEMMA WelcomesKinds ==
  ASSUME IInv, NEW s \in Sessions, pc[s] \in {"decided", "topping"}
  PROVE  /\ Welcomes(s) \in Seq(Grant)
         /\ DOMAIN Welcomes(s) = DOMAIN job[s].inserted
         /\ \A i \in DOMAIN Welcomes(s) :
              /\ Welcomes(s)[i].source = "welcome" /\ ~Welcomes(s)[i].spent
              /\ Welcomes(s)[i].user = job[s].inserted[i]
              /\ Welcomes(s)[i].user \in Users
              /\ welcomeLock[Welcomes(s)[i].user] = s
         /\ \A i, j \in DOMAIN Welcomes(s) : Welcomes(s)[i].user = Welcomes(s)[j].user => i = j
         /\ \A u \in Users : welcomeLock[u] = s => \E i \in DOMAIN Welcomes(s) : Welcomes(s)[i].user = u
<1>1. job[s].inserted \in Seq(Users)
  BY DEF IInv, SessionInv, Job
<1>2. /\ \A u \in Users : welcomeLock[u] = s <=> Inserted(s, u)
      /\ \A i, j \in DOMAIN job[s].inserted :
           job[s].inserted[i] = job[s].inserted[j] => i = j
  BY DEF IInv, SessionInv, RowInv, Starting, Activating
<1> DEFINE ids == job[s].inserted
           w == Welcomes(s)
           grant(u) == [user |-> u, source |-> "welcome", spent |-> FALSE]
<1>3. /\ DOMAIN ids = 1..Len(ids) /\ Len(ids) \in Nat
      /\ \A i \in DOMAIN ids : ids[i] \in Users
  BY <1>1
<1>4. w = [i \in DOMAIN ids |-> grant(ids[i])]
  BY DEF Welcomes
<1>5. \A u \in Users : grant(u) \in Grant /\ grant(u).user = u
                       /\ grant(u).source = "welcome" /\ ~grant(u).spent
  BY DEF Grant
<1>6. \A u \in Users : welcomeLock[u] = s <=> \E i \in DOMAIN ids : ids[i] = u
  BY <1>2 DEF Inserted
<1>7. \A i, j \in DOMAIN ids : ids[i] = ids[j] => i = j
  BY <1>2
<1> HIDE DEF ids, w, grant
<1>8. DOMAIN w = DOMAIN ids /\ \A i \in DOMAIN ids : w[i] = grant(ids[i])
  BY <1>4
<1>9. w \in Seq(Grant)
  <2>1. w \in [1..Len(ids) -> Grant]
    BY <1>3, <1>4, <1>5
  <2> QED BY <1>3, <2>1
<1>10. \A i \in DOMAIN w :
         /\ w[i].source = "welcome" /\ ~w[i].spent /\ w[i].user = ids[i] /\ w[i].user \in Users
  BY <1>3, <1>5, <1>8
<1>11. \A i \in DOMAIN w : welcomeLock[w[i].user] = s
  BY <1>6, <1>8, <1>10
<1>12. \A i, j \in DOMAIN w : w[i].user = w[j].user => i = j
  BY <1>7, <1>8, <1>10
<1>13. \A u \in Users : welcomeLock[u] = s => \E i \in DOMAIN w : w[i].user = u
  BY <1>6, <1>8, <1>10
<1> QED BY <1>8, <1>9, <1>10, <1>11, <1>12, <1>13 DEF ids, w

\* A start or a backfill commits: what it inserted is there.
LEMMA WelcomesCommitted ==
  ASSUME IInv, NEW s \in Sessions, pc[s] \in {"decided", "topping"},
         grants' = grants \o Welcomes(s)
  PROVE  /\ grants' \in Seq(Grant) /\ Kept({})
         /\ \A g \in DOMAIN grants' \ DOMAIN grants :
              /\ grants'[g].source = "welcome" /\ ~grants'[g].spent
              /\ grants'[g].user \in Users /\ welcomeLock[grants'[g].user] = s
         /\ GrantedOnce'
         /\ \A u \in Users : welcomeLock[u] = s => Welcomed(u)'
<1> DEFINE w == Welcomes(s)
<1>1. grants \in Seq(Grant) /\ w \in Seq(Grant)
  BY WelcomesKinds DEF IInv, Kinds
<1>2. /\ grants' \in Seq(Grant) /\ Len(grants) \in Nat /\ Len(w) \in Nat
      /\ DOMAIN grants = 1..Len(grants) /\ DOMAIN w = 1..Len(w)
      /\ DOMAIN grants' = 1..(Len(grants) + Len(w))
      /\ \A g \in DOMAIN grants : grants'[g] = grants[g]
      /\ \A g \in DOMAIN grants' \ DOMAIN grants :
           g - Len(grants) \in DOMAIN w /\ grants'[g] = w[g - Len(grants)]
  BY <1>1, Joined
<1>3. Kept({})
  BY <1>2 DEF Kept
<1>4. /\ \A i \in DOMAIN w : /\ w[i].source = "welcome" /\ ~w[i].spent
                             /\ w[i].user \in Users /\ welcomeLock[w[i].user] = s
      /\ \A i, j \in DOMAIN w : w[i].user = w[j].user => i = j
      /\ \A u \in Users : welcomeLock[u] = s => \E i \in DOMAIN w : w[i].user = u
  BY WelcomesKinds
<1> HIDE DEF w
<1>5. \A g \in DOMAIN grants' \ DOMAIN grants :
        /\ grants'[g].source = "welcome" /\ ~grants'[g].spent
        /\ grants'[g].user \in Users /\ welcomeLock[grants'[g].user] = s
  BY <1>2, <1>4
<1>6. \A u \in Users : welcomeLock[u] = s => ~Welcomed(u)
  BY DEF IInv, SessionInv, RowInv
<1>7. ASSUME NEW g \in DOMAIN grants', NEW h \in DOMAIN grants', g # h,
             grants'[g].source = grants'[h].source
      PROVE  grants'[g].source = "welcome" /\ grants'[g].user # grants'[h].user
  <2>1. CASE g \in DOMAIN grants /\ h \in DOMAIN grants
    BY <1>2, <1>7, <2>1 DEF IInv, GrantedOnce
  <2>2. CASE g \in DOMAIN grants /\ h \notin DOMAIN grants
    <3>1. grants'[h].source = "welcome" /\ ~Welcomed(grants'[h].user) /\ grants'[g] = grants[g]
      BY <1>2, <1>5, <1>6, <2>2
    <3> QED BY <1>7, <2>2, <3>1 DEF Welcomed
  <2>3. CASE g \notin DOMAIN grants /\ h \in DOMAIN grants
    <3>1. grants'[g].source = "welcome" /\ ~Welcomed(grants'[g].user) /\ grants'[h] = grants[h]
      BY <1>2, <1>5, <1>6, <2>3
    <3> QED BY <1>7, <2>3, <3>1 DEF Welcomed
  <2>4. CASE g \notin DOMAIN grants /\ h \notin DOMAIN grants
    <3>1. g - Len(grants) # h - Len(grants)
      BY <1>2, <1>7
    <3> QED BY <1>2, <1>4, <1>5, <1>7, <2>4, <3>1
  <2> QED BY <2>1, <2>2, <2>3, <2>4
<1>8. GrantedOnce'
  BY <1>7 DEF GrantedOnce
<1>9. ASSUME NEW u \in Users, welcomeLock[u] = s PROVE Welcomed(u)'
  <2>1. PICK i \in DOMAIN w : w[i].user = u
    BY <1>4, <1>9
  <2>2. Len(grants) + i \in DOMAIN grants' \ DOMAIN grants /\ (Len(grants) + i) - Len(grants) = i
    BY <1>2
  <2>3. grants'[Len(grants) + i] = w[i]
    BY <1>2, <2>2
  <2>4. grants'[Len(grants) + i].user = u /\ grants'[Len(grants) + i].source = "welcome"
    BY <1>4, <2>1, <2>3
  <2>5. \E g \in DOMAIN grants' : grants'[g].user = u /\ grants'[g].source = "welcome"
    BY <2>2, <2>4
  <2> QED BY <2>5 DEF Welcomed
<1> QED BY <1>2, <1>3, <1>5, <1>8, <1>9

LEMMA PlayedOnce ==
  ASSUME IInv, NEW s \in Sessions, pc[s] = "won", Save(s)
  PROVE  LET g == Button(s)
             spin == [grant |-> g, user |-> User(s), prize |-> job[s].prize]
         IN  /\ g \in DOMAIN grants /\ ~grants[g].spent /\ grants[g].user = User(s)
             /\ job[s].prize \in Prizes
             /\ grants' \in Seq(Grant) /\ DOMAIN grants' = DOMAIN grants /\ Kept({g})
             /\ spins' = spins \cup {spin} /\ spin \in Spin
             /\ GrantedOnce' /\ SpentBySpin'
<1> DEFINE g == Button(s)
           spin == [grant |-> g, user |-> User(s), prize |-> job[s].prize]
<1>1. /\ g \in DOMAIN grants /\ ~grants[g].spent /\ grants[g].user = User(s)
      /\ User(s) \in Users /\ job[s].prize \in Prizes
  BY DEF IInv, SessionInv, PlayInv, Playing, Owns
<1>2. grants \in Seq(Grant) /\ spins \subseteq Spin
  BY DEF IInv, Kinds
<1>3. DOMAIN grants = 1..Len(grants) /\ Len(grants) \in Nat /\ g \in Nat
      /\ \A h \in DOMAIN grants : grants[h] \in Grant
  BY <1>1, <1>2
<1>4. grants' = [grants EXCEPT ![g].spent = TRUE] /\ spins' = spins \cup {spin}
  BY DEF Save
<1>5. spin \in Spin
  BY <1>1, <1>3 DEF Spin
<1> HIDE DEF g, spin
<1>6. [grants[g] EXCEPT !.spent = TRUE] \in Grant
  BY <1>1, <1>3 DEF Grant
<1>7. /\ grants' \in Seq(Grant) /\ DOMAIN grants' = DOMAIN grants
      /\ \A h \in DOMAIN grants : grants'[h] = IF h = g THEN [grants[g] EXCEPT !.spent = TRUE] ELSE grants[h]
  <2>1. grants' = [grants EXCEPT ![g] = [grants[g] EXCEPT !.spent = TRUE]]
    BY <1>4
  <2>2. [grants EXCEPT ![g] = [grants[g] EXCEPT !.spent = TRUE]] \in Seq(Grant)
    BY <1>1, <1>2, <1>6
  <2> QED BY <1>1, <2>1, <2>2
<1>8. \A h \in DOMAIN grants :
        /\ grants'[h].user = grants[h].user /\ grants'[h].source = grants[h].source
        /\ grants'[h].spent <=> grants[h].spent \/ h = g
  <2> SUFFICES ASSUME NEW h \in DOMAIN grants
               PROVE  /\ grants'[h].user = grants[h].user /\ grants'[h].source = grants[h].source
                      /\ grants'[h].spent <=> grants[h].spent \/ h = g
    OBVIOUS
  <2>1. grants[h] \in Grant
    BY <1>3
  <2>2. CASE h = g
    BY <1>7, <2>1, <2>2 DEF Grant
  <2>3. CASE h # g
    BY <1>7, <2>3
  <2> QED BY <2>2, <2>3
<1>9. Kept({g})
  BY <1>7, <1>8 DEF Kept
<1>10. GrantedOnce'
  <2>1. GrantedOnce
    BY DEF IInv
  <2> QED BY <1>7, <1>8, <2>1 DEF GrantedOnce
<1>11. SpentBySpin'
  <2>1. ASSUME NEW p \in spins'
        PROVE  /\ p.grant \in DOMAIN grants' /\ grants'[p.grant].user = p.user
               /\ grants'[p.grant].spent
    <3>1. CASE p \in spins
      <4>1. p.grant \in DOMAIN grants /\ grants[p.grant].user = p.user /\ grants[p.grant].spent
        BY <3>1 DEF IInv, SpentBySpin, Owns
      <4> QED BY <1>7, <1>8, <4>1
    <3>2. CASE p = spin
      <4>1. p.grant = g /\ p.user = User(s)
        BY <3>2 DEF spin
      <4> QED BY <1>1, <1>7, <1>8, <4>1
    <3> QED BY <1>4, <3>1, <3>2
  <2>2. ASSUME NEW h \in DOMAIN grants', grants'[h].spent
        PROVE  \E p \in spins' : p.grant = h
    <3>1. CASE h = g
      <4>1. spin.grant = h /\ spin \in spins'
        BY <1>4, <3>1 DEF spin
      <4> QED BY <4>1
    <3>2. CASE h # g
      <4>1. h \in DOMAIN grants /\ grants[h].spent
        BY <1>7, <1>8, <2>2, <3>2
      <4> QED BY <1>4, <4>1 DEF IInv, SpentBySpin
    <3> QED BY <3>1, <3>2
  <2> QED BY <2>1, <2>2 DEF SpentBySpin, Owns
<1> QED BY <1>1, <1>4, <1>5, <1>7, <1>9, <1>10, <1>11 DEF g, spin

\* What was spent before, and nothing new, is spent after.
LEMMA SpentKept ==
  ASSUME SpentBySpin, Kept({}), spins' = spins,
         \A g \in DOMAIN grants' \ DOMAIN grants : ~grants'[g].spent
  PROVE  SpentBySpin'
<1>1. ASSUME NEW p \in spins
      PROVE  /\ p.grant \in DOMAIN grants' /\ grants'[p.grant].user = p.user
             /\ grants'[p.grant].spent
  <2>1. p.grant \in DOMAIN grants /\ grants[p.grant].user = p.user /\ grants[p.grant].spent
    BY DEF SpentBySpin, Owns
  <2> QED BY <2>1 DEF Kept
<1>2. ASSUME NEW g \in DOMAIN grants', grants'[g].spent
      PROVE  \E p \in spins : p.grant = g
  <2>1. g \in DOMAIN grants /\ grants[g].spent
    BY <1>2 DEF Kept
  <2> QED BY <2>1 DEF SpentBySpin
<1> QED BY <1>1, <1>2 DEF SpentBySpin, Owns

\* How the committed rows change, if they do: they grow, by what the session
\* locked, and only a grant it won is spent.
Grows(s) ==
  /\ accounts' = accounts \/ accounts' = accounts \cup Opened(s)
  /\ spins \subseteq spins' /\ spins' \subseteq Spin /\ grants' \in Seq(Grant)
  /\ Kept({}) \/ (pc[s] = "won" /\ Kept({Button(s)}))
  /\ \A g \in DOMAIN grants' \ DOMAIN grants :
       grants'[g].source = "welcome" /\ welcomeLock[grants'[g].user] = s
  /\ GrantedOnce' /\ SpentBySpin'

LEMMA GrownBySame ==
  ASSUME IInv, NEW s \in Sessions, UNCHANGED <<grants, spins>>,
         accounts' = accounts \/ accounts' = accounts \cup Opened(s)
  PROVE  Grows(s)
<1>1. Kept({})
  BY DEF Kept
<1>2. GrantedOnce' /\ SpentBySpin'
  BY DEF IInv, GrantedOnce, SpentBySpin, Owns
<1> QED BY <1>1, <1>2 DEF Grows, IInv, Kinds

LEMMA GrownBySave ==
  ASSUME IInv, NEW s \in Sessions, pc[s] = "won", Save(s)
  PROVE  Grows(s)
<1>1. accounts' = accounts \cup Opened(s)
  BY DEF Save
<1> QED BY <1>1, PlayedOnce DEF Grows, IInv, Kinds

LEMMA GrownByWelcomes ==
  ASSUME IInv, NEW s \in Sessions, pc[s] \in {"decided", "topping"},
         accounts' = accounts \cup Opened(s), grants' = grants \o Welcomes(s), UNCHANGED spins
  PROVE  Grows(s)
BY WelcomesCommitted, SpentKept DEF Grows, IInv, Kinds

LEMMA DbStep ==
  ASSUME IInv, NEW s \in Sessions, Step(s)
  PROVE  Grows(s)
<1>1. CASE UNCHANGED <<accounts, book>>
  BY <1>1, GrownBySame DEF book
<1>2. CASE Replay(s)
  BY <1>2, GrownBySame DEF Replay, book
<1>3. CASE CommitSpin(s) \/ FailSpin(s)
  BY <1>1, <1>3, GrownBySave DEF CommitSpin, FailSpin
<1>4. CASE CommitStart(s) \/ CommitBackfill(s)
  BY <1>4, GrownByWelcomes DEF CommitStart, CommitBackfill
<1> QED BY <1>1, <1>2, <1>3, <1>4
        DEF Step, Tap, LockAccount, Play, RefuseSpin, Start, FindWelcome, InsertWelcome,
            FollowLink, Boot, FindMissingAccounts, OpenAccount, FindMissingWelcomes, TopUp,
            Told, Abort, book

----------------------------------------------------------------------------
\* What a session has is its own.

\* Whatever the database gains, a session that does nothing has what it had.
LEMMA SessionKept ==
  ASSUME Kinds, NEW t \in Sessions, SessionInv(t),
         pc'[t] = pc[t], job'[t] = job[t],
         \A u \in Users : /\ accountLock'[u] = t <=> accountLock[u] = t
                          /\ welcomeLock'[u] = t <=> welcomeLock[u] = t,
         accounts \subseteq accounts', accounts' \subseteq Users,
         \A u \in Users : accountLock[u] = t /\ u \in accounts' => u \in accounts,
         spins \subseteq spins',
         \A u \in Users : Welcomed(u) => Welcomed(u)',
         \A u \in Users : welcomeLock[u] = t /\ Welcomed(u)' => Welcomed(u),
         pc[t] \in Playing => Owns(User(t), Button(t))',
         pc[t] = "won" => ~grants'[Button(t)].spent
  PROVE  SessionInv(t)'
<1>1. User(t)' = User(t) /\ Button(t)' = Button(t) /\ \A u : Inserted(t, u)' <=> Inserted(t, u)
  BY DEF User, Button, Inserted
<1>2. PlayInv(t)'
  BY <1>1 DEF SessionInv, PlayInv, Playing
<1>3. RowInv(t)'
  <2>1. \A u \in Users : accountLock'[u] = t =>
          \/ pc[t] \in {"locked", "replay", "won", "decided"}
          \/ pc[t] \in {"opening", "topping"} /\ u \notin accounts'
    BY DEF SessionInv, RowInv
  <2>2. \A u \in Users : welcomeLock'[u] = t =>
          /\ ~Welcomed(u)'
          /\ pc[t] = "topping" \/ (pc[t] \in {"linked", "decided"} /\ u = User(t))
    BY DEF SessionInv, RowInv
  <2>3. pc[t] \in Starting \cup Activating =>
          /\ \A u \in Users : welcomeLock'[u] = t <=> Inserted(t, u)
          /\ \A i, j \in DOMAIN job[t].inserted :
               job[t].inserted[i] = job[t].inserted[j] => i = j
    BY DEF SessionInv, RowInv
  <2> QED BY <1>1, <2>1, <2>2, <2>3 DEF RowInv
<1>4. BackfillInv(t)'
  <2>1. pc[t] = "opening" => \A u \in Users :
          /\ u \in accounts' \/ accountLock'[u] = t \/ u \in job[t].todo
          /\ accountLock'[u] = t => \A v \in job[t].todo : u < v
    BY DEF SessionInv, BackfillInv
  <2>2. pc[t] = "topping" => \A u \in Users :
          /\ u \in accounts' \/ accountLock'[u] = t
          /\ Welcomed(u)' \/ welcomeLock'[u] = t \/ u \in job[t].todo
          /\ welcomeLock'[u] = t => \A v \in job[t].todo : u < v
    BY DEF SessionInv, BackfillInv
  <2>3. pc[t] = "activated" => accounts' = Users /\ \A u \in Users : Welcomed(u)'
    BY DEF SessionInv, BackfillInv
  <2> QED BY <2>1, <2>2, <2>3 DEF BackfillInv
<1> QED BY <1>1, <1>2, <1>3, <1>4 DEF SessionInv

\* Grants stay whose and what for they were.
LEMMA GrantsKept ==
  ASSUME NEW spent, Kept(spent)
  PROVE  /\ \A u : Welcomed(u) => Welcomed(u)'
         /\ \A u, g : Owns(u, g) => g \in DOMAIN grants' /\ grants'[g].user = u
<1>1. \A g \in DOMAIN grants :
        g \in DOMAIN grants' /\ grants'[g].user = grants[g].user /\ grants'[g].source = grants[g].source
  BY DEF Kept
<1>2. ASSUME NEW u, Welcomed(u) PROVE Welcomed(u)'
  <2>1. PICK g \in DOMAIN grants : grants[g].user = u /\ grants[g].source = "welcome"
    BY <1>2 DEF Welcomed
  <2>2. g \in DOMAIN grants' /\ grants'[g].user = u /\ grants'[g].source = "welcome"
    BY <1>1, <2>1
  <2> QED BY <2>2 DEF Welcomed
<1> QED BY <1>1, <1>2 DEF Owns

LEMMA OthersUntouched ==
  ASSUME Kinds, NEW s \in Sessions, Step(s), NEW t \in Sessions, t # s
  PROVE  /\ pc'[t] = pc[t] /\ job'[t] = job[t]
         /\ \A u \in Users : /\ accountLock'[u] = t <=> accountLock[u] = t
                             /\ welcomeLock'[u] = t <=> welcomeLock[u] = t
<1>1. pc'[t] = pc[t] /\ job'[t] = job[t]
  BY DEF Kinds, Step, Tap, LockAccount, Play, Replay, CommitSpin, FailSpin, RefuseSpin, Start,
         FindWelcome, InsertWelcome, FollowLink, CommitStart, Boot, FindMissingAccounts,
         OpenAccount, FindMissingWelcomes, TopUp, CommitBackfill, Told, Abort,
         Begin, Leave, Go, InsertGrant, SkipGrant
<1>2. CASE Release(s)
  BY <1>1, <1>2, Freed
<1>3. CASE UNCHANGED locks
  BY <1>1, <1>3 DEF locks
<1>4. CASE LockAccount(s) \/ FollowLink(s)
  BY <1>1, <1>3, <1>4, RouletteAssumption DEF LockAccount, FollowLink, Acquire, Kinds
<1>5. CASE OpenAccount(s)
  <2>1. UNCHANGED welcomeLock
    BY <1>5 DEF OpenAccount
  <2>2. PICK u \in Users :
          /\ u \in accounts \/ accountLock[u] \in {None, s}
          /\ accountLock' = IF u \in accounts THEN accountLock ELSE [accountLock EXCEPT ![u] = s]
    BY <1>5 DEF OpenAccount
  <2> QED BY <1>1, <2>1, <2>2, RouletteAssumption DEF Kinds
<1>6. CASE InsertWelcome(s)
  BY <1>1, <1>6, RouletteAssumption DEF InsertWelcome, InsertGrant, Kinds
<1>7. CASE TopUp(s)
  <2>1. UNCHANGED accountLock
    BY <1>7 DEF TopUp
  <2>2. PICK u \in Users :
          /\ Welcomed(u) \/ welcomeLock[u] = None
          /\ IF Welcomed(u) THEN SkipGrant(s, u) ELSE InsertGrant(s, u)
    BY <1>7 DEF TopUp
  <2> QED BY <1>1, <2>1, <2>2, RouletteAssumption DEF SkipGrant, InsertGrant, Kinds
<1> QED BY <1>2, <1>3, <1>4, <1>5, <1>6, <1>7
        DEF Step, Tap, Play, Replay, CommitSpin, FailSpin, RefuseSpin, Start, FindWelcome,
            CommitStart, Boot, FindMissingAccounts, FindMissingWelcomes, CommitBackfill, Told, Abort

LEMMA OthersKeep ==
  ASSUME IInv, NEW s \in Sessions, Step(s), NEW t \in Sessions, t # s
  PROVE  SessionInv(t)'
<1>1. Kinds /\ SessionInv(s) /\ SessionInv(t) /\ Grows(s)
  BY DbStep DEF IInv
<1>2. /\ pc'[t] = pc[t] /\ job'[t] = job[t]
      /\ \A u \in Users : /\ accountLock'[u] = t <=> accountLock[u] = t
                          /\ welcomeLock'[u] = t <=> welcomeLock[u] = t
  BY <1>1, OthersUntouched
<1>3. /\ accounts \subseteq accounts' /\ accounts' \subseteq Users
      /\ \A u \in Users : accountLock[u] = t /\ u \in accounts' => u \in accounts
  BY <1>1 DEF Grows, Opened, Kinds
<1>4. PICK spent : Kept(spent) /\ (spent = {} \/ (pc[s] = "won" /\ spent = {Button(s)}))
  BY <1>1 DEF Grows
<1>5. \A u \in Users : welcomeLock[u] = t /\ Welcomed(u)' => Welcomed(u)
  <2> SUFFICES ASSUME NEW u \in Users, welcomeLock[u] = t, Welcomed(u)' PROVE Welcomed(u)
    OBVIOUS
  <2>1. PICK g \in DOMAIN grants' : grants'[g].user = u /\ grants'[g].source = "welcome"
    BY DEF Welcomed
  <2>2. g \in DOMAIN grants
    BY <1>1, <2>1 DEF Grows
  <2>3. grants[g].user = u /\ grants[g].source = "welcome"
    BY <1>4, <2>1, <2>2 DEF Kept
  <2> QED BY <2>2, <2>3 DEF Welcomed
<1>6. pc[t] \in Playing => Owns(User(t), Button(t)) /\ User(t) \in Users
  BY <1>1 DEF SessionInv, PlayInv
<1>7. pc[t] \in Playing => Owns(User(t), Button(t))'
  <2>1. pc[t] \in Playing => Button(t) \in DOMAIN grants' /\ grants'[Button(t)].user = User(t)
    BY <1>4, <1>6, GrantsKept
  <2>2. User(t)' = User(t) /\ Button(t)' = Button(t)
    BY <1>2 DEF User, Button
  <2> QED BY <2>1, <2>2 DEF Owns
<1>8. pc[t] = "won" => ~grants'[Button(t)].spent
  <2> SUFFICES ASSUME pc[t] = "won" PROVE ~grants'[Button(t)].spent
    OBVIOUS
  <2>1. /\ ~grants[Button(t)].spent /\ accountLock[User(t)] = t
        /\ Button(t) \in DOMAIN grants /\ grants[Button(t)].user = User(t)
    BY <1>1, <1>6 DEF SessionInv, PlayInv, Playing, Owns
  <2>2. pc[s] = "won" => /\ accountLock[User(s)] = s
                         /\ Button(s) \in DOMAIN grants /\ grants[Button(s)].user = User(s)
    BY <1>1 DEF SessionInv, PlayInv, Playing, Owns
  <2>3. Button(t) \notin spent
    BY <1>4, <2>1, <2>2
  <2> QED BY <1>4, <2>1, <2>3 DEF Kept
<1>9. spins \subseteq spins' /\ \A u \in Users : Welcomed(u) => Welcomed(u)'
  BY <1>1, <1>4, GrantsKept DEF Grows
<1> QED BY <1>1, <1>2, <1>3, <1>5, <1>7, <1>8, <1>9, SessionKept

----------------------------------------------------------------------------
\* A session goes on.

\* It has ended, and holds nothing any more.
LEMMA SelfReleased ==
  ASSUME Kinds, NEW s \in Sessions, Release(s), pc'[s] \in Telling \cup {"idle"},
         pc'[s] # "idle" => job'[s] \in Job,
         pc'[s] = "told_prize" =>
           [grant |-> job'[s].grant, user |-> job'[s].user, prize |-> job'[s].prize] \in spins',
         pc'[s] = "activated" => accounts' = Users /\ \A u \in Users : Welcomed(u)'
  PROVE  SessionInv(s)'
<1>1. \A u \in Users : accountLock'[u] # s /\ welcomeLock'[u] # s
  BY Freed
<1>2. /\ pc'[s] \notin Playing \cup Starting \cup Activating
      /\ pc'[s] \notin {"locked", "won", "opening", "topping"}
  BY DEF Telling, Playing, Starting, Activating
<1>3. PlayInv(s)'
  BY <1>2 DEF PlayInv, Playing, User, Button
<1>4. RowInv(s)'
  BY <1>1, <1>2 DEF RowInv
<1>5. BackfillInv(s)'
  BY <1>2 DEF BackfillInv
<1> QED BY <1>2, <1>3, <1>4, <1>5 DEF SessionInv

\* It holds what it held, and nobody committed anything.
LEMMA SelfSame ==
  ASSUME IInv, NEW s \in Sessions, UNCHANGED <<accounts, book, locks>>,
         pc'[s] # "idle", job'[s] \in Job,
         pc'[s] \in Playing \cup Starting => job'[s].user \in Users,
         pc'[s] \in Playing => job'[s].prize \in Prizes
                               /\ job'[s].grant \in DOMAIN grants
                               /\ grants[job'[s].grant].user = job'[s].user,
         pc'[s] \in {"locked", "won"} => accountLock[job'[s].user] = s,
         pc'[s] = "won" => ~grants[job'[s].grant].spent,
         pc'[s] # "told_prize",
         RowInv(s)', BackfillInv(s)'
  PROVE  SessionInv(s)'
<1>1. PlayInv(s)'
  BY DEF PlayInv, Playing, User, Button, Owns, book, locks
<1> QED BY <1>1 DEF SessionInv, User

LEMMA PlayStep ==
  ASSUME IInv, NEW s \in Sessions,
         \/ \E u \in Users, g \in 1..(Len(grants) + 1), p \in Prizes : Tap(s, u, g, p)
         \/ LockAccount(s) \/ Play(s)
  PROVE  SessionInv(s)'
<1>1. Kinds /\ SessionInv(s) /\ grants \in Seq(Grant) /\ Len(grants) \in Nat
  BY DEF IInv, Kinds
<1>2. ASSUME NEW u \in Users, NEW g \in 1..(Len(grants) + 1), NEW p \in Prizes, Tap(s, u, g, p)
      PROVE  SessionInv(s)'
  <2>1. /\ pc[s] = "idle" /\ UNCHANGED <<accounts, book, locks>>
        /\ pc'[s] \in {"nothing", "replay", "tapped"}
        /\ pc'[s] # "nothing" => Owns(u, g)
        /\ job'[s] = [user |-> u, grant |-> g, prize |-> p, todo |-> {}, inserted |-> <<>>]
    BY <1>1, <1>2 DEF Tap, Begin, Go, Kinds
  <2>2. job'[s] \in Job /\ job'[s].user = u /\ job'[s].grant = g /\ job'[s].prize = p
    BY <1>1, <2>1 DEF Job
  <2>3. \A v \in Users : accountLock'[v] # s /\ welcomeLock'[v] # s
    BY <1>1, <2>1 DEF SessionInv, RowInv, locks
  <2>4. RowInv(s)' /\ BackfillInv(s)'
    BY <2>1, <2>3 DEF RowInv, BackfillInv, Starting, Activating
  <2> QED BY <2>1, <2>2, <2>4, SelfSame DEF Playing, Starting, Owns
<1>3. CASE LockAccount(s)
  <2>1. /\ pc[s] = "tapped" /\ pc'[s] = "locked" /\ UNCHANGED <<accounts, book, job>>
        /\ accountLock' = [accountLock EXCEPT ![User(s)] = s] /\ UNCHANGED welcomeLock
    BY <1>1, <1>3 DEF LockAccount, Acquire, Go, Kinds
  <2>2. /\ job[s] \in Job /\ User(s) \in Users /\ Owns(User(s), Button(s)) /\ job[s].prize \in Prizes
    BY <1>1, <2>1 DEF SessionInv, PlayInv, Playing
  <2>3. accountLock'[User(s)] = s
    BY <1>1, <2>1, <2>2 DEF Kinds
  <2>4. \A v \in Users : welcomeLock'[v] # s
    BY <1>1, <2>1 DEF SessionInv, RowInv
  <2>5. User(s)' = User(s) /\ Owns(User(s), Button(s))'
    BY <2>1, <2>2 DEF User, Button, Owns, book
  <2>6. PlayInv(s)'
    BY <2>1, <2>2, <2>3, <2>5 DEF PlayInv, Playing, User
  <2>7. RowInv(s)' /\ BackfillInv(s)'
    BY <2>1, <2>4 DEF RowInv, BackfillInv, Starting, Activating
  <2> QED BY <2>1, <2>2, <2>5, <2>6, <2>7 DEF SessionInv
<1>4. CASE Play(s)
  <2>1. /\ pc[s] = "locked" /\ UNCHANGED <<accounts, book, locks, job>>
        /\ pc'[s] \in {"replay", "won"} /\ (pc'[s] = "won" => ~grants[Button(s)].spent)
    BY <1>1, <1>4 DEF Play, Go, Kinds
  <2>2. /\ job[s] \in Job /\ User(s) \in Users /\ Owns(User(s), Button(s)) /\ job[s].prize \in Prizes
        /\ accountLock[User(s)] = s
    BY <1>1, <2>1 DEF SessionInv, PlayInv, Playing
  <2>3. \A v \in Users : welcomeLock'[v] # s
    BY <1>1, <2>1 DEF SessionInv, RowInv, locks
  <2>4. RowInv(s)' /\ BackfillInv(s)'
    BY <2>1, <2>3 DEF RowInv, BackfillInv, Starting, Activating
  <2> QED BY <2>1, <2>2, <2>4, SelfSame DEF Playing, Starting, Owns, User, Button
<1> QED BY <1>2, <1>3, <1>4

\* The answers to a tap: what is shown was saved before, or is saved now.
LEMMA AnswerStep ==
  ASSUME IInv, NEW s \in Sessions,
         Replay(s) \/ CommitSpin(s) \/ FailSpin(s) \/ RefuseSpin(s) \/ Told(s) \/ Abort(s)
  PROVE  SessionInv(s)'
<1>1. Kinds /\ SessionInv(s)
  BY DEF IInv
<1>2. CASE Replay(s)
  <2>1. PICK spin \in spins :
          spin.grant = Button(s) /\ job' = [job EXCEPT ![s].prize = spin.prize]
    BY <1>2 DEF Replay
  <2>2. /\ pc[s] = "replay" /\ pc'[s] = "told_prize" /\ Release(s) /\ UNCHANGED spins
    BY <1>1, <1>2 DEF Replay, Go, Kinds, book
  <2>3. job[s] \in Job /\ Owns(User(s), Button(s))
    BY <1>1, <2>2 DEF SessionInv, PlayInv, Playing
  <2>4. /\ spin \in Spin /\ Owns(spin.user, spin.grant)
    BY <1>1 DEF IInv, SpentBySpin, Kinds
  <2>5. spin = [grant |-> Button(s), user |-> User(s), prize |-> spin.prize] /\ spin.prize \in Prizes
    BY <2>1, <2>3, <2>4 DEF Spin, Owns
  <2>6. job'[s] = [job[s] EXCEPT !.prize = spin.prize]
    BY <1>1, <2>1 DEF Kinds
  <2>7. /\ job'[s] \in Job /\ job'[s].grant = Button(s) /\ job'[s].user = User(s)
        /\ job'[s].prize = spin.prize
    BY <2>3, <2>5, <2>6 DEF Job, User, Button
  <2> QED BY <1>1, <2>2, <2>5, <2>7, SelfReleased DEF Telling
<1>3. CASE CommitSpin(s)
  <2>1. /\ pc[s] = "won" /\ pc'[s] \in {"told_clash", "told_prize"} /\ Release(s) /\ job' = job
        /\ pc'[s] = "told_prize" => Save(s)
    BY <1>1, <1>3 DEF CommitSpin, Go, Kinds
  <2>2. job[s] \in Job
    BY <1>1, <2>1 DEF SessionInv
  <2>3. pc'[s] = "told_prize" =>
          [grant |-> Button(s), user |-> User(s), prize |-> job[s].prize] \in spins'
    BY <2>1 DEF Save
  <2> QED BY <1>1, <2>1, <2>2, <2>3, SelfReleased DEF Telling, User, Button
<1>4. CASE FailSpin(s) \/ RefuseSpin(s)
  <2>1. /\ pc[s] # "idle" /\ pc'[s] \in {"told_failed", "told_stale"} /\ Release(s) /\ job' = job
    BY <1>1, <1>4 DEF FailSpin, RefuseSpin, Go, Kinds
  <2>2. job[s] \in Job
    BY <1>1, <2>1 DEF SessionInv
  <2> QED BY <1>1, <2>1, <2>2, SelfReleased DEF Telling
<1>5. CASE Abort(s)
  <2>1. pc'[s] = "idle" /\ Release(s)
    BY <1>1, <1>5 DEF Abort, Leave, Go, Kinds
  <2> QED BY <1>1, <2>1, SelfReleased DEF Telling
<1>6. CASE Told(s)
  <2>1. pc[s] \in Telling /\ pc'[s] = "idle" /\ UNCHANGED locks
    BY <1>1, <1>6 DEF Told, Leave, Go, Kinds
  <2>2. \A u \in Users : accountLock'[u] # s /\ welcomeLock'[u] # s
    BY <1>1, <2>1 DEF SessionInv, RowInv, Telling, locks
  <2>3. PlayInv(s)' /\ RowInv(s)' /\ BackfillInv(s)'
    BY <2>1, <2>2 DEF PlayInv, RowInv, BackfillInv, Playing, Starting, Activating
  <2> QED BY <2>1, <2>3 DEF SessionInv, Playing, Starting
<1> QED BY <1>2, <1>3, <1>4, <1>5, <1>6

LEMMA EmptyList ==
  ASSUME NEW ids \in Seq(Users), DOMAIN ids = {}
  PROVE  ids = <<>>
<1>1. Len(ids) \in Nat /\ DOMAIN ids = 1..Len(ids)
  OBVIOUS
<1>2. Len(ids) = 0
  <2>1. CASE Len(ids) # 0
    <3>1. 1 \in DOMAIN ids
      BY <1>1, <2>1
    <3> QED BY <3>1
  <2> QED BY <2>1
<1> QED BY <1>2

\* A start inserts the newcomer's welcome grant, if there is none.
LEMMA StartStep ==
  ASSUME IInv, NEW s \in Sessions,
         \/ \E u \in Users : Start(s, u)
         \/ FindWelcome(s) \/ InsertWelcome(s) \/ FollowLink(s) \/ CommitStart(s)
  PROVE  SessionInv(s)'
<1>1. Kinds /\ SessionInv(s)
  BY DEF IInv
<1>2. ASSUME NEW u \in Users, Start(s, u) PROVE SessionInv(s)'
  <2>1. /\ pc[s] = "idle" /\ pc'[s] = "started" /\ UNCHANGED <<accounts, book, locks>>
        /\ job'[s] = [user |-> u, grant |-> 0, prize |-> None, todo |-> {}, inserted |-> <<>>]
    BY <1>1, <1>2 DEF Start, Begin, Go, Kinds
  <2>2. job'[s] \in Job /\ job'[s].user = u /\ job'[s].inserted = <<>>
    BY <1>1, <2>1 DEF Job
  <2>3. \A v \in Users : accountLock'[v] # s /\ welcomeLock'[v] # s
    BY <1>1, <2>1 DEF SessionInv, RowInv, locks
  <2>4. RowInv(s)' /\ BackfillInv(s)'
    BY <2>1, <2>2, <2>3 DEF RowInv, BackfillInv, Inserted
  <2> QED BY <2>1, <2>2, <2>4, SelfSame DEF Playing, Starting
<1>3. CASE FindWelcome(s)
  <2>1. /\ pc[s] = "started" /\ pc'[s] \in {"linked", "granting"}
        /\ UNCHANGED <<accounts, book, locks, job>>
    BY <1>1, <1>3 DEF FindWelcome, Go, Kinds
  <2>2. job[s] \in Job /\ User(s) \in Users
    BY <1>1, <2>1 DEF SessionInv, Starting
  <2>3. \A v \in Users : accountLock'[v] # s /\ welcomeLock'[v] # s
    BY <1>1, <2>1 DEF SessionInv, RowInv, locks
  <2>4. RowInv(s)' /\ BackfillInv(s)'
    BY <1>1, <2>1, <2>3 DEF SessionInv, RowInv, BackfillInv, Inserted, Starting, locks
  <2> QED BY <2>1, <2>2, <2>4, SelfSame DEF Playing, Starting, User
<1>4. CASE InsertWelcome(s)
  <2>1. /\ pc[s] = "granting" /\ pc'[s] = "linked" /\ UNCHANGED <<accounts, book, accountLock>>
        /\ welcomeLock[User(s)] = None
        /\ IF Welcomed(User(s)) THEN UNCHANGED <<welcomeLock, job>> ELSE InsertGrant(s, User(s))
    BY <1>1, <1>4 DEF InsertWelcome, Go, Kinds
  <2>2. job[s] \in Job /\ User(s) \in Users
    BY <1>1, <2>1 DEF SessionInv, Starting
  <2>3. \A v \in Users : accountLock'[v] # s /\ welcomeLock[v] # s
    BY <1>1, <2>1 DEF SessionInv, RowInv
  <2>4. \A v \in Users : ~Inserted(s, v)
    BY <1>1, <2>1, <2>3 DEF SessionInv, RowInv, Starting
  <2>5. job[s].inserted = <<>>
    <3>1. \A i \in DOMAIN job[s].inserted : job[s].inserted[i] \in Users
      BY <2>2 DEF Job
    <3>2. DOMAIN job[s].inserted = {} /\ job[s].inserted \in Seq(Users)
      BY <2>2, <2>4, <3>1 DEF Inserted, Job
    <3> QED BY <3>2, EmptyList
  <2>6. CASE Welcomed(User(s))
    <3>1. RowInv(s)' /\ BackfillInv(s)'
      BY <2>1, <2>3, <2>5, <2>6 DEF RowInv, BackfillInv, Inserted
    <3> QED BY <2>1, <2>2, <2>6, <3>1, SelfSame DEF Playing, Starting, User, locks
  <2>7. CASE ~Welcomed(User(s))
    <3>1. /\ welcomeLock' = [welcomeLock EXCEPT ![User(s)] = s]
          /\ job'[s] = [job[s] EXCEPT !.todo = @ \ {User(s)}, !.inserted = Append(@, User(s))]
      BY <1>1, <2>1, <2>7 DEF InsertGrant, Kinds
    <3>2. Append(<<>>, User(s)) = <<User(s)>>
      OBVIOUS
    <3>3. /\ job'[s] \in Job /\ job'[s].user = User(s) /\ job'[s].inserted = <<User(s)>>
      <4>1. job'[s] = [job[s] EXCEPT !.todo = @ \ {User(s)}, !.inserted = <<User(s)>>]
        BY <2>5, <3>1, <3>2
      <4>2. <<User(s)>> \in Seq(Users)
        BY <2>2
      <4> QED BY <2>2, <4>1, <4>2 DEF Job, User
    <3>4. \A v \in Users : welcomeLock'[v] = s <=> v = User(s)
      BY <1>1, <2>2, <2>3, <3>1 DEF Kinds
    <3>5. \A v : Welcomed(v)' <=> Welcomed(v)
      BY <2>1 DEF Welcomed, book
    <3>6. \A v \in Users : Inserted(s, v)' <=> v = User(s)
      BY <3>3 DEF Inserted
    <3>7. \A i, j \in DOMAIN job'[s].inserted : job'[s].inserted[i] = job'[s].inserted[j] => i = j
      BY <3>3
    <3>8. User(s)' = User(s)
      BY <3>3 DEF User
    <3>9. \A v \in Users : welcomeLock'[v] = s => ~Welcomed(v)' /\ v = User(s)'
      BY <2>7, <3>4, <3>5, <3>8
    <3>10. RowInv(s)'
      BY <2>1, <2>3, <3>4, <3>6, <3>7, <3>9 DEF RowInv
    <3>11. BackfillInv(s)' /\ PlayInv(s)'
      BY <2>1 DEF BackfillInv, PlayInv, Playing
    <3> QED BY <2>1, <2>2, <3>3, <3>8, <3>10, <3>11 DEF SessionInv
  <2> QED BY <2>6, <2>7
<1>5. CASE FollowLink(s)
  <2>1. /\ pc[s] = "linked" /\ pc'[s] = "decided" /\ UNCHANGED <<accounts, book, job, welcomeLock>>
    BY <1>1, <1>5 DEF FollowLink, Acquire, Go, Kinds, locks
  <2>2. job[s] \in Job /\ User(s) \in Users
    BY <1>1, <2>1 DEF SessionInv, Starting
  <2>3. User(s)' = User(s) /\ (\A v : Inserted(s, v)' <=> Inserted(s, v))
        /\ (\A v : Welcomed(v)' <=> Welcomed(v))
    BY <2>1 DEF User, Inserted, Welcomed, book
  <2>4. \A v \in Users : welcomeLock[v] = s => ~Welcomed(v) /\ v = User(s)
    BY <1>1, <2>1 DEF SessionInv, RowInv
  <2>5. /\ \A v \in Users : welcomeLock[v] = s <=> Inserted(s, v)
        /\ \A i, j \in DOMAIN job[s].inserted : job[s].inserted[i] = job[s].inserted[j] => i = j
    BY <1>1, <2>1 DEF SessionInv, RowInv, Starting
  <2>6. RowInv(s)'
    BY <2>1, <2>3, <2>4, <2>5 DEF RowInv
  <2>7. BackfillInv(s)' /\ PlayInv(s)'
    BY <2>1 DEF BackfillInv, PlayInv, Playing
  <2> QED BY <2>1, <2>2, <2>3, <2>6, <2>7 DEF SessionInv
<1>6. CASE CommitStart(s)
  <2>1. pc[s] = "decided" /\ pc'[s] = "answering" /\ Release(s) /\ job' = job
    BY <1>1, <1>6 DEF CommitStart, Go, Kinds
  <2>2. job[s] \in Job
    BY <1>1, <2>1 DEF SessionInv
  <2> QED BY <1>1, <2>1, <2>2, SelfReleased DEF Telling
<1> QED BY <1>2, <1>3, <1>4, <1>5, <1>6

\* A welcome grant inserted is locked, and one that was not there before.
LEMMA GrantInserted ==
  ASSUME Kinds, NEW s \in Sessions, job[s] \in Job, NEW u \in Users, InsertGrant(s, u)
  PROVE  /\ job'[s] \in Job /\ job'[s].todo = job[s].todo \ {u}
         /\ \A v \in Users : Inserted(s, v)' <=> Inserted(s, v) \/ v = u
         /\ \A v \in Users : welcomeLock'[v] = s <=> welcomeLock[v] = s \/ v = u
         /\ (/\ ~Inserted(s, u)
             /\ \A i, j \in DOMAIN job[s].inserted :
                  job[s].inserted[i] = job[s].inserted[j] => i = j)
            => \A i, j \in DOMAIN job'[s].inserted :
                 job'[s].inserted[i] = job'[s].inserted[j] => i = j
<1> DEFINE ids == job[s].inserted
<1>1. /\ welcomeLock' = [welcomeLock EXCEPT ![u] = s]
      /\ job'[s] = [job[s] EXCEPT !.todo = @ \ {u}, !.inserted = Append(@, u)]
  BY DEF InsertGrant, Kinds
<1>2. ids \in Seq(Users) /\ job[s].todo \subseteq Users
  BY DEF Job
<1>3. /\ Append(ids, u) \in Seq(Users) /\ Len(ids) \in Nat
      /\ DOMAIN ids = 1..Len(ids) /\ DOMAIN Append(ids, u) = 1..(Len(ids) + 1)
      /\ \A i \in DOMAIN ids : Append(ids, u)[i] = ids[i]
      /\ Append(ids, u)[Len(ids) + 1] = u
  BY <1>2
<1>4. job'[s] \in Job /\ job'[s].todo = job[s].todo \ {u} /\ job'[s].inserted = Append(ids, u)
  BY <1>1, <1>2, <1>3 DEF Job
<1>5. \A v \in Users : (\E i \in DOMAIN Append(ids, u) : Append(ids, u)[i] = v)
                       <=> (\E i \in DOMAIN ids : ids[i] = v) \/ v = u
  <2> HIDE DEF ids
  <2>1. \A i \in DOMAIN Append(ids, u) : i \in DOMAIN ids \/ i = Len(ids) + 1
    BY <1>3
  <2>2. Len(ids) + 1 \in DOMAIN Append(ids, u) /\ DOMAIN ids \subseteq DOMAIN Append(ids, u)
    BY <1>3
  <2> QED BY <1>3, <2>1, <2>2
<1>6. \A v \in Users : Inserted(s, v)' <=> Inserted(s, v) \/ v = u
  BY <1>4, <1>5 DEF Inserted
<1>7. \A v \in Users : welcomeLock'[v] = s <=> welcomeLock[v] = s \/ v = u
  BY <1>1 DEF Kinds
<1>8. ASSUME ~Inserted(s, u), \A i, j \in DOMAIN ids : ids[i] = ids[j] => i = j,
             NEW i \in DOMAIN Append(ids, u), NEW j \in DOMAIN Append(ids, u),
             Append(ids, u)[i] = Append(ids, u)[j]
      PROVE  i = j
  <2>1. \A k \in DOMAIN ids : ids[k] # u
    BY <1>8 DEF Inserted
  <2> HIDE DEF ids
  <2>2. (i \in DOMAIN ids \/ i = Len(ids) + 1) /\ (j \in DOMAIN ids \/ j = Len(ids) + 1)
    BY <1>3
  <2> QED BY <1>3, <1>8, <2>1, <2>2
<1> QED BY <1>4, <1>6, <1>7, <1>8

\* A backfill takes the rows it misses upwards, and has seen to everyone when
\* it commits.
LEMMA BackfillStep ==
  ASSUME IInv, NEW s \in Sessions,
         \/ Boot(s) \/ FindMissingAccounts(s) \/ OpenAccount(s)
         \/ FindMissingWelcomes(s) \/ TopUp(s) \/ CommitBackfill(s)
  PROVE  SessionInv(s)'
<1>1. Kinds /\ SessionInv(s)
  BY DEF IInv
<1>2. CASE Boot(s)
  <2>1. /\ pc[s] = "idle" /\ pc'[s] = "booting" /\ UNCHANGED <<accounts, book, locks>>
        /\ job'[s] = [user |-> None, grant |-> 0, prize |-> None, todo |-> {}, inserted |-> <<>>]
    BY <1>1, <1>2 DEF Boot, Begin, Go, Kinds
  <2>2. job'[s] \in Job /\ job'[s].inserted = <<>>
    BY <1>1, <2>1 DEF Job
  <2>3. \A v \in Users : accountLock'[v] # s /\ welcomeLock'[v] # s
    BY <1>1, <2>1 DEF SessionInv, RowInv, locks
  <2>4. RowInv(s)' /\ BackfillInv(s)'
    BY <2>1, <2>2, <2>3 DEF RowInv, BackfillInv, Inserted
  <2> QED BY <2>1, <2>2, <2>4, SelfSame DEF Playing, Starting
<1>3. CASE FindMissingAccounts(s)
  <2>1. /\ pc[s] = "booting" /\ pc'[s] = "opening" /\ UNCHANGED <<accounts, book, locks>>
        /\ job'[s] = [job[s] EXCEPT !.todo = Users \ accounts]
    BY <1>1, <1>3 DEF FindMissingAccounts, Go, Kinds
  <2>2. job[s] \in Job
    BY <1>1, <2>1 DEF SessionInv
  <2>3. /\ job'[s] \in Job /\ job'[s].todo = Users \ accounts
        /\ job'[s].inserted = job[s].inserted
    BY <2>1, <2>2 DEF Job
  <2>4. \A v \in Users : accountLock'[v] # s /\ welcomeLock'[v] # s
    BY <1>1, <2>1 DEF SessionInv, RowInv, locks
  <2>5. RowInv(s)' /\ BackfillInv(s)'
    BY <1>1, <2>1, <2>3, <2>4 DEF SessionInv, RowInv, BackfillInv, Inserted, Activating, locks
  <2> QED BY <2>1, <2>3, <2>5, SelfSame DEF Playing, Starting
<1>4. CASE OpenAccount(s)
  <2>1. PICK u \in Users :
          /\ NextMissing(s, u)
          /\ accountLock' = IF u \in accounts THEN accountLock ELSE [accountLock EXCEPT ![u] = s]
          /\ job' = [job EXCEPT ![s].todo = @ \ {u}]
    BY <1>4 DEF OpenAccount
  <2>2. pc[s] = "opening" /\ UNCHANGED <<accounts, book, welcomeLock, pc>>
    BY <1>4 DEF OpenAccount
  <2>3. job[s] \in Job
    BY <1>1, <2>2 DEF SessionInv
  <2>4. /\ job'[s] \in Job /\ job'[s].todo = job[s].todo \ {u}
        /\ job'[s].inserted = job[s].inserted /\ job[s].todo \subseteq Users
    BY <1>1, <2>1, <2>3 DEF Job, Kinds
  <2>5. \A v \in Users : accountLock'[v] = s <=> accountLock[v] = s \/ (v = u /\ u \notin accounts)
    BY <1>1, <2>1 DEF Kinds, SessionInv, RowInv
  <2>6. \A v \in job'[s].todo : u < v
    BY <2>1, <2>4, RouletteAssumption DEF NextMissing
  <2>7. RowInv(s)'
    <3>1. \A v \in Users : accountLock'[v] = s => v \notin accounts
      BY <1>1, <2>2, <2>5 DEF SessionInv, RowInv
    <3>2. /\ \A v \in Users : welcomeLock[v] # s
          /\ \A v \in Users : welcomeLock[v] = s <=> Inserted(s, v)
          /\ \A i, j \in DOMAIN job[s].inserted : job[s].inserted[i] = job[s].inserted[j] => i = j
      BY <1>1, <2>2 DEF SessionInv, RowInv, Activating
    <3>3. \A v : Inserted(s, v)' <=> Inserted(s, v)
      BY <2>4 DEF Inserted
    <3> QED BY <2>2, <2>4, <3>1, <3>2, <3>3 DEF RowInv
  <2>8. BackfillInv(s)'
    <3>1. \A v \in Users : v \in accounts \/ accountLock'[v] = s \/ v \in job'[s].todo
      BY <1>1, <2>2, <2>4, <2>5 DEF SessionInv, BackfillInv
    <3>2. \A v \in Users : accountLock'[v] = s => \A w \in job'[s].todo : v < w
      BY <1>1, <2>2, <2>4, <2>5, <2>6 DEF SessionInv, BackfillInv
    <3> QED BY <2>2, <3>1, <3>2 DEF BackfillInv
  <2>9. PlayInv(s)'
    BY <2>2 DEF PlayInv, Playing
  <2> QED BY <2>2, <2>4, <2>7, <2>8, <2>9 DEF SessionInv, Playing, Starting
<1>5. CASE FindMissingWelcomes(s)
  <2>1. /\ pc[s] = "opening" /\ pc'[s] = "topping" /\ UNCHANGED <<accounts, book, locks>>
        /\ job[s].todo = {}
        /\ job'[s] = [job[s] EXCEPT !.todo = {u \in Users : ~Welcomed(u)}]
    BY <1>1, <1>5 DEF FindMissingWelcomes, Go, Kinds
  <2>2. job[s] \in Job
    BY <1>1, <2>1 DEF SessionInv
  <2>3. /\ job'[s] \in Job /\ job'[s].todo = {u \in Users : ~Welcomed(u)}
        /\ job'[s].inserted = job[s].inserted
    BY <2>1, <2>2 DEF Job
  <2>4. /\ \A v : Welcomed(v)' <=> Welcomed(v)
        /\ \A v : Inserted(s, v)' <=> Inserted(s, v)
        /\ accounts' = accounts /\ accountLock' = accountLock /\ welcomeLock' = welcomeLock
    BY <2>1, <2>3 DEF Welcomed, Inserted, book, locks
  <2>5. RowInv(s)'
    <3>1. /\ \A v \in Users : accountLock[v] = s => v \notin accounts
          /\ \A v \in Users : welcomeLock[v] # s
          /\ \A v \in Users : welcomeLock[v] = s <=> Inserted(s, v)
          /\ \A i, j \in DOMAIN job[s].inserted : job[s].inserted[i] = job[s].inserted[j] => i = j
      BY <1>1, <2>1 DEF SessionInv, RowInv, Activating
    <3> QED BY <2>1, <2>3, <2>4, <3>1 DEF RowInv
  <2>6. BackfillInv(s)'
    <3>1. \A v \in Users : v \in accounts \/ accountLock[v] = s
      BY <1>1, <2>1 DEF SessionInv, BackfillInv
    <3>2. \A v \in Users : Welcomed(v) \/ v \in job'[s].todo
      BY <2>3
    <3>3. \A v \in Users : welcomeLock[v] # s
      BY <1>1, <2>1 DEF SessionInv, RowInv
    <3> QED BY <2>1, <2>4, <3>1, <3>2, <3>3 DEF BackfillInv
  <2> QED BY <2>1, <2>3, <2>5, <2>6, SelfSame DEF Playing, Starting
<1>6. CASE TopUp(s)
  <2>1. PICK u \in Users :
          /\ NextMissing(s, u)
          /\ Welcomed(u) \/ welcomeLock[u] = None
          /\ IF Welcomed(u) THEN SkipGrant(s, u) ELSE InsertGrant(s, u)
    BY <1>6 DEF TopUp
  <2>2. pc[s] = "topping" /\ UNCHANGED <<accounts, book, accountLock, pc>>
    BY <1>6 DEF TopUp
  <2>3. job[s] \in Job
    BY <1>1, <2>2 DEF SessionInv
  <2>4. /\ \A v \in Users : accountLock[v] = s => v \notin accounts
        /\ \A v \in Users : welcomeLock[v] = s => ~Welcomed(v)
        /\ \A v \in Users : welcomeLock[v] = s <=> Inserted(s, v)
        /\ \A i, j \in DOMAIN job[s].inserted : job[s].inserted[i] = job[s].inserted[j] => i = j
    BY <1>1, <2>2 DEF SessionInv, RowInv, Activating
  <2>5. /\ job'[s] \in Job /\ job'[s].todo = job[s].todo \ {u}
        /\ \A v \in Users : welcomeLock'[v] = s <=> Inserted(s, v)'
        /\ \A v \in Users : welcomeLock'[v] = s <=>
             welcomeLock[v] = s \/ (v = u /\ ~Welcomed(u))
        /\ \A i, j \in DOMAIN job'[s].inserted :
             job'[s].inserted[i] = job'[s].inserted[j] => i = j
    <3>1. CASE Welcomed(u)
      <4>1. welcomeLock' = welcomeLock /\ job'[s] = [job[s] EXCEPT !.todo = @ \ {u}]
        BY <1>1, <2>1, <3>1 DEF SkipGrant, Kinds
      <4>2. /\ job'[s] \in Job /\ job'[s].todo = job[s].todo \ {u}
            /\ job'[s].inserted = job[s].inserted
        BY <2>3, <4>1 DEF Job
      <4>3. \A v : Inserted(s, v)' <=> Inserted(s, v)
        BY <4>2 DEF Inserted
      <4> QED BY <2>4, <3>1, <4>1, <4>2, <4>3
    <3>2. CASE ~Welcomed(u)
      <4>1. InsertGrant(s, u) /\ welcomeLock[u] # s
        BY <2>1, <3>2, RouletteAssumption
      <4>2. ~Inserted(s, u)
        BY <2>4, <4>1
      <4> QED BY <1>1, <2>3, <2>4, <3>2, <4>1, <4>2, GrantInserted
    <3> QED BY <3>1, <3>2
  <2>6. \A v \in job'[s].todo : u < v
    <3>1. job[s].todo \subseteq Users
      BY <2>3 DEF Job
    <3>2. u \in job[s].todo /\ \A v \in job[s].todo : u <= v
      BY <2>1 DEF NextMissing
    <3>3. job'[s].todo = job[s].todo \ {u}
      BY <2>5
    <3>4. Users \subseteq Int
      BY RouletteAssumption
    <3>5. \A v \in job'[s].todo : u \in Int /\ v \in Int /\ u <= v /\ v # u
      BY <3>1, <3>2, <3>3, <3>4
    <3> QED BY <3>5
  <2>7. \A v : Welcomed(v)' <=> Welcomed(v)
    BY <2>2 DEF Welcomed, book
  <2>8. RowInv(s)'
    <3>1. \A v \in Users : welcomeLock'[v] = s => ~Welcomed(v)'
      BY <2>4, <2>5, <2>7
    <3> QED BY <2>2, <2>4, <2>5, <3>1 DEF RowInv
  <2>9. BackfillInv(s)'
    <3>1. \A v \in Users : v \in accounts \/ accountLock[v] = s
      BY <1>1, <2>2 DEF SessionInv, BackfillInv
    <3>2. \A v \in Users : Welcomed(v)' \/ welcomeLock'[v] = s \/ v \in job'[s].todo
      BY <1>1, <2>2, <2>5, <2>7 DEF SessionInv, BackfillInv
    <3>3. \A v \in Users : welcomeLock'[v] = s => \A w \in job'[s].todo : v < w
      BY <1>1, <2>2, <2>5, <2>6 DEF SessionInv, BackfillInv
    <3> QED BY <2>2, <3>1, <3>2, <3>3 DEF BackfillInv
  <2>10. PlayInv(s)'
    BY <2>2 DEF PlayInv, Playing
  <2> QED BY <2>2, <2>5, <2>8, <2>9, <2>10 DEF SessionInv, Playing, Starting
<1>7. CASE CommitBackfill(s)
  <2>1. /\ pc[s] = "topping" /\ pc'[s] = "activated" /\ Release(s) /\ job' = job
        /\ job[s].todo = {} /\ accounts' = accounts \cup Opened(s)
        /\ grants' = grants \o Welcomes(s)
    BY <1>1, <1>7 DEF CommitBackfill, Go, Kinds
  <2>2. job[s] \in Job
    BY <1>1, <2>1 DEF SessionInv
  <2>3. \A u \in Users : /\ u \in accounts \/ accountLock[u] = s
                         /\ Welcomed(u) \/ welcomeLock[u] = s
    BY <1>1, <2>1 DEF SessionInv, BackfillInv
  <2>4. accounts' = Users
    BY <1>1, <2>1, <2>3 DEF Opened, Kinds
  <2>5. Kept({}) /\ \A u \in Users : welcomeLock[u] = s => Welcomed(u)'
    BY <2>1, WelcomesCommitted
  <2>6. \A u \in Users : Welcomed(u) => Welcomed(u)'
    BY <2>5, GrantsKept
  <2>7. \A u \in Users : Welcomed(u)'
    BY <2>3, <2>5, <2>6
  <2> QED BY <1>1, <2>1, <2>2, <2>4, <2>7, SelfReleased DEF Telling
<1> QED BY <1>2, <1>3, <1>4, <1>5, <1>6, <1>7

----------------------------------------------------------------------------
\* The invariant, and what it says of the runs' properties.

LEMMA KindsStep ==
  ASSUME IInv, NEW s \in Sessions, Step(s), SessionInv(s)'
  PROVE  Kinds'
<1>1. Kinds /\ SessionInv(s) /\ Grows(s)
  BY DbStep DEF IInv
<1>2. accounts' \subseteq Users /\ grants' \in Seq(Grant) /\ spins' \subseteq Spin
  BY <1>1 DEF Grows, Kinds, Opened
<1>3. /\ accountLock' \in [Users -> Sessions \cup {None}]
      /\ welcomeLock' \in [Users -> Sessions \cup {None}]
  <2>1. CASE Release(s)
    BY <1>1, <2>1, Freed
  <2>2. CASE UNCHANGED locks
    BY <1>1, <2>2 DEF Kinds, locks
  <2>3. CASE LockAccount(s) \/ FollowLink(s)
    BY <1>1, <2>2, <2>3 DEF LockAccount, FollowLink, Acquire, Kinds
  <2>4. CASE OpenAccount(s)
    BY <1>1, <2>4 DEF OpenAccount, Kinds
  <2>5. CASE InsertWelcome(s)
    BY <1>1, <2>5 DEF InsertWelcome, InsertGrant, Kinds
  <2>6. CASE TopUp(s)
    BY <1>1, <2>6 DEF TopUp, SkipGrant, InsertGrant, Kinds
  <2> QED BY <2>1, <2>2, <2>3, <2>4, <2>5, <2>6
          DEF Step, Tap, Play, Replay, CommitSpin, FailSpin, RefuseSpin, Start, FindWelcome,
              CommitStart, Boot, FindMissingAccounts, FindMissingWelcomes, CommitBackfill, Told, Abort
<1>4. pc' \in [Sessions -> SpinPhases \cup StartPhases \cup BackfillPhases \cup {"idle"}]
  BY <1>1 DEF Kinds, SpinPhases, StartPhases, BackfillPhases, Step, Tap, LockAccount, Play, Replay,
       CommitSpin, FailSpin, RefuseSpin, Start, FindWelcome, InsertWelcome, FollowLink, CommitStart,
       Boot, FindMissingAccounts, OpenAccount, FindMissingWelcomes, TopUp, CommitBackfill, Told,
       Abort, Begin, Leave, Go
<1>5. job' = [t \in Sessions |-> job'[t]]
  BY <1>1 DEF Kinds, Step, Tap, LockAccount, Play, Replay, CommitSpin, FailSpin, RefuseSpin,
       Start, FindWelcome, InsertWelcome, FollowLink, CommitStart, Boot, FindMissingAccounts,
       OpenAccount, FindMissingWelcomes, TopUp, CommitBackfill, Told, Abort, Begin, Leave,
       InsertGrant, SkipGrant
<1>6. job'[s] \in Job \cup {None}
  <2>1. pc'[s] # "idle" \/ job'[s] = None
    BY <1>1 DEF Kinds, Step, Tap, LockAccount, Play, Replay, CommitSpin, FailSpin, RefuseSpin,
         Start, FindWelcome, InsertWelcome, FollowLink, CommitStart, Boot, FindMissingAccounts,
         OpenAccount, FindMissingWelcomes, TopUp, CommitBackfill, Told, Abort, Begin, Leave, Go
  <2> QED BY <2>1 DEF SessionInv
<1>7. job' \in [Sessions -> Job \cup {None}]
  <2>1. \A t \in Sessions : job'[t] \in Job \cup {None}
    BY <1>1, <1>6, OthersUntouched DEF Kinds
  <2> QED BY <1>5, <2>1
<1> QED BY <1>2, <1>3, <1>4, <1>7 DEF Kinds

LEMMA SelfKeeps ==
  ASSUME IInv, NEW s \in Sessions, Step(s)
  PROVE  SessionInv(s)'
BY PlayStep, AnswerStep, StartStep, BackfillStep DEF Step

LEMMA StepKeeps ==
  ASSUME IInv, NEW s \in Sessions, Step(s)
  PROVE  IInv'
<1>1. Kinds' /\ GrantedOnce' /\ SpentBySpin'
  BY DbStep, SelfKeeps, KindsStep DEF Grows
<1>2. \A t \in Sessions : SessionInv(t)'
  BY SelfKeeps, OthersKeep
<1> QED BY <1>1, <1>2 DEF IInv

\* An order completed elsewhere grants one spin more, and nothing else changes.
LEMMA EarnKeeps ==
  ASSUME IInv, NEW u \in Users, NEW o \in Orders, Earn(u, o)
  PROVE  IInv' /\ Kept({})
<1> DEFINE new == [user |-> u, source |-> o, spent |-> FALSE]
<1>1. Kinds /\ GrantedOnce /\ SpentBySpin
  BY DEF IInv
<1>2. /\ \A g \in DOMAIN grants : grants[g].source # o
      /\ grants' = Append(grants, new)
      /\ UNCHANGED <<accounts, spins, ledger, rewards, locks, pc, job>>
  BY DEF Earn
<1>3. new \in Grant /\ ~new.spent /\ new.source = o /\ o # "welcome"
  BY RouletteAssumption DEF Grant
<1> HIDE DEF new
<1>4. grants \in Seq(Grant)
  BY <1>1 DEF Kinds
<1>5. /\ grants' \in Seq(Grant) /\ Len(grants) \in Nat
      /\ DOMAIN grants = 1..Len(grants) /\ DOMAIN grants' = 1..(Len(grants) + 1)
      /\ \A g \in DOMAIN grants : grants'[g] = grants[g]
      /\ grants'[Len(grants) + 1] = new
  BY <1>2, <1>3, <1>4
<1>6. \A g \in DOMAIN grants' : g \in DOMAIN grants \/ (grants'[g] = new /\ g = Len(grants) + 1)
  BY <1>5
<1>7. Kept({})
  BY <1>5 DEF Kept
<1>8. GrantedOnce'
  BY <1>1, <1>2, <1>3, <1>5, <1>6 DEF GrantedOnce
<1>9. SpentBySpin'
  <2>1. \A g \in DOMAIN grants' \ DOMAIN grants : ~grants'[g].spent
    BY <1>3, <1>6
  <2> QED BY <1>1, <1>2, <1>7, <2>1, SpentKept
<1>10. Kinds'
  BY <1>1, <1>2, <1>5 DEF Kinds, locks
<1>11. ASSUME NEW t \in Sessions PROVE SessionInv(t)'
  <2>1. SessionInv(t)
    BY DEF IInv
  <2>2. /\ pc' = pc /\ job' = job /\ accountLock' = accountLock /\ welcomeLock' = welcomeLock
        /\ accounts' = accounts /\ spins' = spins
    BY <1>2 DEF locks
  <2>3. \A v : Welcomed(v) <=> Welcomed(v)'
    <3>1. \A v : Welcomed(v) => Welcomed(v)'
      BY <1>7, GrantsKept
    <3>2. ASSUME NEW v, Welcomed(v)' PROVE Welcomed(v)
      <4>1. PICK g \in DOMAIN grants' : grants'[g].user = v /\ grants'[g].source = "welcome"
        BY <3>2 DEF Welcomed
      <4>2. g \in DOMAIN grants /\ grants[g] = grants'[g]
        BY <1>3, <1>5, <1>6, <4>1
      <4> QED BY <4>1, <4>2 DEF Welcomed
    <3> QED BY <3>1, <3>2
  <2>4. pc[t] \in Playing => Owns(User(t), Button(t))'
    <3>1. pc[t] \in Playing => Button(t) \in DOMAIN grants' /\ grants'[Button(t)].user = User(t)
      BY <1>7, <2>1, GrantsKept DEF SessionInv, PlayInv
    <3>2. User(t)' = User(t) /\ Button(t)' = Button(t)
      BY <2>2 DEF User, Button
    <3> QED BY <3>1, <3>2 DEF Owns
  <2>5. pc[t] = "won" => ~grants'[Button(t)].spent
    BY <1>5, <2>1 DEF SessionInv, PlayInv, Playing, Owns
  <2>6. accounts \subseteq accounts' /\ accounts' \subseteq Users /\ spins \subseteq spins'
    BY <1>1, <2>2 DEF Kinds
  <2> QED BY <1>1, <2>1, <2>2, <2>3, <2>4, <2>5, <2>6, SessionKept
<1> QED BY <1>7, <1>8, <1>9, <1>10, <1>11 DEF IInv

LEMMA StutterKeeps ==
  ASSUME IInv, UNCHANGED vars
  PROVE  IInv'
<1>1. /\ accounts' = accounts /\ grants' = grants /\ spins' = spins
      /\ accountLock' = accountLock /\ welcomeLock' = welcomeLock /\ pc' = pc /\ job' = job
  BY DEF vars, book, locks
<1>2. Kinds' /\ GrantedOnce' /\ SpentBySpin'
  BY <1>1 DEF IInv, Kinds, GrantedOnce, SpentBySpin, Owns
<1>3. ASSUME NEW t \in Sessions PROVE SessionInv(t)'
  <2>1. SessionInv(t) /\ Kinds
    BY DEF IInv
  <2> QED BY <1>1, <2>1 DEF SessionInv, PlayInv, RowInv, BackfillInv, User, Button, Inserted,
                            Welcomed, Owns
<1> QED BY <1>2, <1>3 DEF IInv

LEMMA InitInv == Init => IInv
<1> SUFFICES ASSUME Init PROVE IInv
  OBVIOUS
<1>1. Kinds
  BY RouletteAssumption DEF Init, Kinds
<1>2. GrantedOnce /\ SpentBySpin
  BY DEF Init, GrantedOnce, SpentBySpin
<1>3. ASSUME NEW s \in Sessions PROVE SessionInv(s)
  <2>1. pc[s] = "idle" /\ \A u \in Users : accountLock[u] # s /\ welcomeLock[u] # s
    BY RouletteAssumption DEF Init
  <2> QED BY <2>1 DEF SessionInv, PlayInv, RowInv, BackfillInv, Playing, Starting, Activating
<1> QED BY <1>1, <1>2, <1>3 DEF IInv

\* The rows, the locks, and what each session under way has locked and inserted.
THEOREM RouletteRows == Spec => []IInv
<1>1. IInv /\ [Next]_vars => IInv'
  BY StepKeeps, EarnKeeps, StutterKeeps DEF Next
<1> QED BY <1>1, InitInv, PTL DEF Spec

\* A customer only ever sees the prize their spin saved: at the first tap or a
\* later one, after a failure, a lost answer or a clash with another tap.
THEOREM PrizesShownAreSaved == Spec => []ShownIsSaved
<1>1. IInv => ShownIsSaved
  BY DEF IInv, SessionInv, PlayInv, ShownIsSaved
<1> QED BY <1>1, RouletteRows, PTL

\* A backfill that has committed left nobody without an account or a welcome
\* spin, whatever others inserted between its snapshot and its commit.
THEOREM BackfillsReachEveryone == Spec => []EveryoneActivated
<1>1. IInv => EveryoneActivated
  BY DEF IInv, SessionInv, BackfillInv, EveryoneActivated
<1> QED BY <1>1, RouletteRows, PTL

\* The rows are of their kinds, and the spins are those of the spent grants.
THEOREM RouletteTypes == Spec => []TypeOK
<1>1. ASSUME IInv PROVE TypeOK
  <2>1. Kinds /\ SpentBySpin
    BY <1>1 DEF IInv
  <2>2. {spin.grant : spin \in spins} = {g \in DOMAIN grants : grants[g].spent}
    BY <2>1 DEF SpentBySpin, Owns
  <2> QED BY <2>1, <2>2 DEF Kinds, TypeOK
<1> QED BY <1>1, RouletteRows, PTL

----------------------------------------------------------------------------
\* Who waits for whom.

\* A set of customers has one of the largest id: ids end at MaxId.
LEMMA LastOne ==
  ASSUME NEW ids, ids \subseteq Users, ids # {}
  PROVE  \E u \in ids : \A v \in ids : v <= u
<1>1. MaxId \in Nat
  BY SMT DEF MaxId
<1>2. \A u \in ids : u \in Nat /\ u <= MaxId /\ MaxId - u \in Nat
  BY <1>1, RouletteAssumption
<1> DEFINE left == {MaxId - u : u \in ids}
<1>3. left \subseteq Nat /\ left # {}
  BY <1>2
<1>4. PICK n \in left : \A m \in left : <<m, n>> \notin OpToRel(<, Nat)
  BY <1>3, NatLessThanWellFounded, WFMin, Zenon
<1>5. PICK u \in ids : n = MaxId - u
  BY <1>4
<1>6. ASSUME NEW v \in ids PROVE v <= u
  <2>1. MaxId - v \in left
    OBVIOUS
  <2>2. ~(MaxId - v < MaxId - u)
    BY <1>2, <1>4, <1>5, <2>1 DEF OpToRel
  <2> QED BY <1>1, <1>2, <2>2
<1> QED BY <1>6

\* What a session waits for that another has, at each of the phases that wait.
LEMMA WaitsFor ==
  ASSUME IInv, NEW s \in Sessions, NEW b \in Sessions, b \in Blockers(s)
  PROVE  \/ /\ pc[s] \in {"tapped", "linked"}
            /\ User(s) \in Users /\ accountLock[User(s)] = b
         \/ /\ pc[s] = "granting"
            /\ User(s) \in Users /\ welcomeLock[User(s)] = b
         \/ /\ pc[s] = "opening"
            /\ \E u \in Users \ accounts : NextMissing(s, u) /\ accountLock[u] = b
         \/ /\ pc[s] = "topping"
            /\ \E u \in Users : NextMissing(s, u) /\ ~Welcomed(u) /\ welcomeLock[u] = b
<1>1. b # None /\ SessionInv(s)
  BY RouletteAssumption DEF IInv
<1>2. pc[s] \in {"tapped", "linked", "granting"} => User(s) \in Users
  BY <1>1 DEF SessionInv, Playing, Starting
<1>3. CASE pc[s] = "tapped"
  BY <1>1, <1>2, <1>3 DEF Blockers
<1>4. CASE pc[s] = "linked"
  BY <1>1, <1>2, <1>4 DEF Blockers
<1>5. CASE pc[s] = "granting"
  BY <1>1, <1>2, <1>5 DEF Blockers
<1>6. CASE pc[s] = "opening"
  BY <1>1, <1>6 DEF Blockers
<1>7. CASE pc[s] = "topping"
  BY <1>1, <1>7 DEF Blockers
<1>8. CASE pc[s] \notin {"tapped", "linked", "granting", "opening", "topping"}
  BY <1>1, <1>8 DEF Blockers
<1> QED BY <1>3, <1>4, <1>5, <1>6, <1>7, <1>8

\* What a waiting session has: only backfills have accounts, and only of
\* customers without one; welcome grants are a backfill's or a link's own.
LEMMA WaitingHolds ==
  ASSUME IInv, NEW b \in Sessions, NEW u \in Users,
         pc[b] \in {"tapped", "linked", "granting", "opening", "topping"}
  PROVE  /\ accountLock[u] = b => pc[b] \in {"opening", "topping"} /\ u \notin accounts
         /\ welcomeLock[u] = b => pc[b] = "topping" \/ (pc[b] = "linked" /\ User(b) = u)
         /\ accountLock[u] = b /\ pc[b] = "opening" => \A v \in job[b].todo : u < v
         /\ welcomeLock[u] = b /\ pc[b] = "topping" => \A v \in job[b].todo : u < v
BY DEF IInv, SessionInv, RowInv, BackfillInv

\* In a circle every session waits, and for another one of it.
LEMMA CircleWaits ==
  ASSUME IInv, NEW stuck \in SUBSET Sessions, WaitCycle(stuck), NEW s \in stuck
  PROVE  /\ pc[s] \in {"tapped", "linked", "granting", "opening", "topping"}
         /\ \E b \in stuck :
              \/ /\ pc[s] \in {"tapped", "linked"}
                 /\ User(s) \in Users /\ accountLock[User(s)] = b
              \/ /\ pc[s] = "granting"
                 /\ User(s) \in Users /\ welcomeLock[User(s)] = b
              \/ /\ pc[s] = "opening"
                 /\ \E u \in Users \ accounts : NextMissing(s, u) /\ accountLock[u] = b
              \/ /\ pc[s] = "topping"
                 /\ \E u \in Users : NextMissing(s, u) /\ ~Welcomed(u) /\ welcomeLock[u] = b
<1>1. PICK b \in stuck : b \in Blockers(s)
  BY DEF WaitCycle
<1> QED BY <1>1, WaitsFor

\* Backfills open accounts upwards, so a circle is not made of these waits
\* alone: one of its sessions inserts welcome grants.
LEMMA CircleTopsUp ==
  ASSUME IInv, NEW stuck \in SUBSET Sessions, WaitCycle(stuck)
  PROVE  \E s \in stuck : pc[s] = "topping"
<1> SUFFICES ASSUME \A s \in stuck : pc[s] # "topping" PROVE FALSE
  OBVIOUS
<1> DEFINE next == {u \in Users : \E s \in stuck : pc[s] = "opening" /\ NextMissing(s, u)}
<1>1. \A b \in stuck, u \in Users : accountLock[u] = b =>
        pc[b] = "opening" /\ \A v \in job[b].todo : u < v
  BY CircleWaits, WaitingHolds
<1>2. \A s \in stuck : pc[s] = "opening" =>
        \E b \in stuck : \E u \in Users : NextMissing(s, u) /\ accountLock[u] = b
  BY CircleWaits
<1>3. \E s \in stuck : pc[s] = "opening"
  <2>1. PICK s \in stuck : TRUE
    BY DEF WaitCycle
  <2>2. CASE pc[s] \in {"tapped", "linked"}
    BY <1>1, <2>2, CircleWaits
  <2>3. CASE pc[s] = "granting"
    <3>1. PICK b \in stuck : User(s) \in Users /\ welcomeLock[User(s)] = b
      BY <2>3, CircleWaits
    <3>2. pc[b] = "linked"
      BY <3>1, CircleWaits, WaitingHolds
    <3> QED BY <1>1, <3>2, CircleWaits
  <2> QED BY <2>1, <2>2, <2>3, CircleWaits
<1>4. next # {}
  BY <1>2, <1>3
<1>5. PICK u \in next : \A v \in next : v <= u
  BY <1>4, LastOne
<1>6. PICK s \in stuck : pc[s] = "opening" /\ NextMissing(s, u)
  BY <1>5
<1>7. PICK b \in stuck, w \in Users : NextMissing(s, w) /\ accountLock[w] = b
  BY <1>2, <1>6
<1>8. w = u
  BY <1>5, <1>6, <1>7, RouletteAssumption DEF NextMissing
<1>9. pc[b] = "opening" /\ \A v \in job[b].todo : u < v
  BY <1>1, <1>7, <1>8
<1>10. PICK v \in Users : NextMissing(b, v)
  BY <1>2, <1>9
<1>11. v \in next /\ u < v
  BY <1>9, <1>10 DEF NextMissing
<1> QED BY <1>5, <1>11, RouletteAssumption

\* The only way to wait in a circle: a backfill that opened the account of a
\* customer whose start through a link has inserted their welcome grant.
THEOREM OnlyLinksWaitInCircles == Spec => []OnlyLinksMeetBackfills
<1>1. ASSUME IInv, NEW stuck \in SUBSET Sessions, WaitCycle(stuck)
      PROVE  \E s, t \in stuck :
               pc[s] = "topping" /\ pc[t] = "linked" /\ User(t) \notin accounts
  <2> DEFINE next == {u \in Users : \E s \in stuck : pc[s] = "topping" /\ NextMissing(s, u)}
  <2>1. \A s \in stuck : pc[s] = "topping" =>
          \E b \in stuck : \E u \in Users : NextMissing(s, u) /\ welcomeLock[u] = b
    BY <1>1, CircleWaits
  <2>2. \A b \in stuck, u \in Users : welcomeLock[u] = b =>
          \/ pc[b] = "topping" /\ \A v \in job[b].todo : u < v
          \/ pc[b] = "linked" /\ User(b) = u
    BY <1>1, CircleWaits, WaitingHolds
  <2>3. next # {}
    BY <1>1, <2>1, CircleTopsUp
  <2>4. PICK u \in next : \A v \in next : v <= u
    BY <2>3, LastOne
  <2>5. PICK s \in stuck : pc[s] = "topping" /\ NextMissing(s, u)
    BY <2>4
  <2>6. PICK b \in stuck, w \in Users : NextMissing(s, w) /\ welcomeLock[w] = b
    BY <2>1, <2>5
  <2>7. w = u
    BY <2>4, <2>5, <2>6, RouletteAssumption DEF NextMissing
  <2>8. pc[b] # "topping"
    <3> SUFFICES ASSUME pc[b] = "topping" PROVE FALSE
      OBVIOUS
    <3>1. PICK v \in Users : NextMissing(b, v)
      BY <2>1
    <3>2. v \in next /\ u < v
      BY <2>2, <2>6, <2>7, <3>1 DEF NextMissing
    <3> QED BY <2>4, <3>2, RouletteAssumption
  <2>9. pc[b] = "linked"
    BY <2>2, <2>6, <2>8
  <2>10. PICK c \in stuck : User(b) \in Users /\ accountLock[User(b)] = c
    BY <1>1, <2>9, CircleWaits
  <2>11. User(b) \notin accounts
    BY <1>1, <2>10, CircleWaits, WaitingHolds
  <2> QED BY <2>5, <2>9, <2>11
<1>2. IInv => OnlyLinksMeetBackfills
  BY <1>1 DEF OnlyLinksMeetBackfills
<1> QED BY <1>2, RouletteRows, PTL

----------------------------------------------------------------------------
\* The roulette implements SpinBook.

\* Grants appended are a step of the book, if there is one at all.
LEMMA BookGrants ==
  ASSUME IInv, IInv', Kept({}), NEW new \in Seq(Grant), grants' = grants \o new,
         \A i \in DOMAIN new : ~new[i].spent,
         UNCHANGED <<spins, ledger, rewards>>
  PROVE  Promise!Grant \/ UNCHANGED Promise!vars
<1>1. grants \in Seq(Grant) /\ GrantedOnce'
  BY DEF IInv, Kinds
<1>2. /\ grants' \in Seq(Grant) /\ Len(grants) \in Nat /\ Len(new) \in Nat
      /\ Len(grants') = Len(grants) + Len(new)
      /\ DOMAIN grants = 1..Len(grants) /\ DOMAIN new = 1..Len(new)
      /\ DOMAIN grants' = 1..(Len(grants) + Len(new))
      /\ \A g \in DOMAIN grants : grants'[g] = grants[g]
      /\ \A g \in DOMAIN grants' \ DOMAIN grants :
           g - Len(grants) \in DOMAIN new /\ grants'[g] = new[g - Len(grants)]
  BY <1>1, Joined
<1>3. CASE Len(new) = 0
  <2>1. grants' = grants
    BY <1>1, <1>2, <1>3
  <2> QED BY <2>1 DEF Promise!vars
<1>4. CASE Len(new) # 0
  <2>1. SubSeq(grants', 1, Len(grants)) = SubSeq(grants, 1, Len(grants))
    <3>1. /\ SubSeq(grants, 1, Len(grants)) \in Seq(Grant)
          /\ Len(SubSeq(grants, 1, Len(grants))) = Len(grants)
          /\ \A g \in 1..Len(grants) : SubSeq(grants, 1, Len(grants))[g] = grants[g]
      BY <1>1, <1>2
    <3>2. /\ SubSeq(grants', 1, Len(grants)) \in Seq(Grant)
          /\ Len(SubSeq(grants', 1, Len(grants))) = Len(grants)
          /\ \A g \in 1..Len(grants) : SubSeq(grants', 1, Len(grants))[g] = grants'[g]
      BY <1>2
    <3> QED BY <1>2, <3>1, <3>2
  <2>2. Len(grants) <= Len(grants') /\ grants # grants'
    <3>1. /\ Len(grants') = Len(grants) + Len(new)
          /\ Len(grants) \in Nat /\ Len(new) \in Nat /\ Len(new) # 0
      BY <1>2, <1>4
    <3>2. Len(grants) <= Len(grants')
      BY <3>1
    <3>3. Len(grants) # Len(grants')
      BY <3>1
    <3> QED BY <3>2, <3>3
  <2>3. Promise!IsStrictPrefix(grants, grants')
    BY <2>1, <2>2 DEF Promise!IsStrictPrefix, Promise!IsPrefix
  <2>4. Promise!EarnedOnce(grants')
    BY <1>1 DEF GrantedOnce, Promise!EarnedOnce
  <2>5. \A g \in DOMAIN grants' \ DOMAIN grants : ~grants'[g].spent
    BY <1>2
  <2> QED BY <2>3, <2>4, <2>5 DEF Promise!Grant
<1> QED BY <1>3, <1>4

\* A spin saved is a play of the grant on its button.
LEMMA BookPlay ==
  ASSUME IInv, NEW s \in Sessions, pc[s] = "won", Save(s)
  PROVE  Promise!Play
<1>1. PICK g : g = Button(s)
  OBVIOUS
<1>2. PICK p : p = job[s].prize
  OBVIOUS
<1>3. /\ g \in DOMAIN grants /\ ~grants[g].spent /\ grants[g].user = User(s) /\ p \in Prizes
  BY <1>1, <1>2, PlayedOnce
<1>4. /\ grants' = [grants EXCEPT ![g].spent = TRUE]
      /\ spins' = spins \cup {[grant |-> g, user |-> grants[g].user, prize |-> p]}
      /\ ledger' = IF p \in StampPrizes THEN ledger \cup {g} ELSE ledger
      /\ rewards' = IF p \in StampPrizes THEN rewards ELSE rewards \cup {g}
  BY <1>1, <1>2, <1>3 DEF Save
<1> QED BY <1>3, <1>4 DEF Promise!Play

LEMMA StepImplements ==
  ASSUME IInv, NEW s \in Sessions, Step(s)
  PROVE  [Promise!Next]_(Promise!vars)
<1>1. CASE UNCHANGED book
  BY <1>1 DEF book, Promise!vars
<1>2. CASE CommitSpin(s) \/ FailSpin(s)
  <2>1. CASE pc[s] = "won" /\ Save(s)
    BY <2>1, BookPlay DEF Promise!Next
  <2> QED BY <1>1, <1>2, <2>1 DEF CommitSpin, FailSpin, book
<1>3. CASE CommitStart(s) \/ CommitBackfill(s)
  <2>1. /\ pc[s] \in {"decided", "topping"} /\ grants' = grants \o Welcomes(s)
        /\ UNCHANGED <<spins, ledger, rewards>>
    BY <1>3 DEF CommitStart, CommitBackfill
  <2>2. PICK new : new = Welcomes(s)
    OBVIOUS
  <2>3. new \in Seq(Grant) /\ \A i \in DOMAIN new : ~new[i].spent
    BY <2>1, <2>2, WelcomesKinds
  <2>4. IInv' /\ Kept({})
    BY <2>1, StepKeeps, WelcomesCommitted
  <2>5. Promise!Grant \/ UNCHANGED Promise!vars
    BY <2>1, <2>2, <2>3, <2>4, BookGrants
  <2> QED BY <2>5 DEF Promise!Next
<1> QED BY <1>1, <1>2, <1>3
        DEF Step, Tap, LockAccount, Play, Replay, RefuseSpin, Start, FindWelcome, InsertWelcome,
            FollowLink, Boot, FindMissingAccounts, OpenAccount, FindMissingWelcomes, TopUp,
            Told, Abort

LEMMA EarnImplements ==
  ASSUME IInv, NEW u \in Users, NEW o \in Orders, Earn(u, o)
  PROVE  [Promise!Next]_(Promise!vars)
<1> DEFINE new == <<[user |-> u, source |-> o, spent |-> FALSE]>>
<1>1. new \in Seq(Grant) /\ \A i \in DOMAIN new : ~new[i].spent
  BY DEF Grant
<1>2. grants' = grants \o new /\ UNCHANGED <<spins, ledger, rewards>>
  <2>1. grants \in Seq(Grant) /\ [user |-> u, source |-> o, spent |-> FALSE] \in Grant
    BY DEF IInv, Kinds, Grant
  <2> QED BY <2>1, AppendIsConcat DEF Earn
<1>3. IInv' /\ Kept({})
  BY EarnKeeps
<1> HIDE DEF new
<1>4. Promise!Grant \/ UNCHANGED Promise!vars
  BY <1>1, <1>2, <1>3, BookGrants
<1> QED BY <1>4 DEF Promise!Next

\* Whatever interleaving of taps, starts, backfills and completed orders, with
\* failures and lost answers: every welcome spin is granted once, every order
\* earns one, and a grant is spent in the step that records and books its spin.
THEOREM RouletteImplementsBook == Spec => ImplementsSpinBook
<1>1. Init => Promise!Init
  BY DEF Init, Promise!Init
<1>2. IInv /\ [Next]_vars => [Promise!Next]_(Promise!vars)
  <2>1. CASE UNCHANGED vars
    BY <2>1 DEF vars, book, Promise!vars
  <2> QED BY <2>1, StepImplements, EarnImplements DEF Next
<1> QED BY <1>1, <1>2, RouletteRows, PTL DEF Spec, ImplementsSpinBook, Promise!Spec
=============================================================================
