# V-Shop in TLA+

V-Shop is a Telegram shop bot (aiogram 3, SQLAlchemy, PostgreSQL). Customers
browse a catalogue, fill a cart and order; admins move the orders; a loyalty
programme books stamps, bottles, referrals and roulette spins; administrators
keep the catalogue, credit stamps by hand, broadcast, and can be let in with an
emergency password. This directory models what that program does when several updates are handled at once, when a
transaction fails, when the answer to a commit is lost and when the process
dies, and says what stays true. Everything is translated from `src/app`.

## How the program runs

* One process, one event loop. Every Telegram update is a task; tasks interleave
  at each `await`, that is at every statement, every Bot API call and every
  process-local lock (`utils/concurrency.py keyed_lock`).
* One database session and transaction per update (`middlewares/database.py`):
  commit at the end, rollback on an exception. Many handlers commit earlier, so
  that nothing is locked while they talk to Telegram.
* PostgreSQL at READ COMMITTED: every statement sees what was committed when it
  started. Decisions rest on `SELECT ... FOR UPDATE` with `populate_existing`, on
  unique constraints, and on one advisory lock. Lost races surface as waits.
* `expire_on_commit=False`, `autoflush=False`: an ORM instance keeps what it was
  read with until it is read again. A stale instance is a real state here.
* Conversations (FSM) live in memory and are lost in a crash; updates that were
  pending during a restart are dropped (`lifecycle.py`).
* Several instances may overlap for a moment (a redeploy), so process-local locks
  are not what correctness may rest on. The models of the loyalty programme leave
  `keyed_lock` out for that reason; where the conversation itself is
  process-local (`Checkout`, `OrderForm`, `AdminWizards`, `Catalog`) or the lock is part of the
  question (`EmergencyAccess`, `KeyedLock`) it is there.

## Inventory

| Component | State | Operations | What is hard | Modules |
|---|---|---|---|---|
| Stamp ledger (`services/loyalty.py`) | `loyalty_accounts` (cached balance, purchase count), append-only `loyalty_transactions` | record a purchase, credit a referral side or a spin, adjust, claim a bottle | cached values, replays, overdraws, stale instances, double claims | `StampLedger`, `StampLedgerProofs` |
| Stamp card (`services/stamp_card.py`, `handlers/user/stamp_card.py`) | none of its own | award an order, draw the card, claim from it | the card is read in two statements and used much later | `StampLedger`, `OrderCompletion` |
| Orders administration (`services/admin/orders.py`) | `orders.status` | change the status, settle a completion, message | old screens, two admins, atomic settlement, commit before telling | `OrderRules`, `OrderBook`, `OrderCompletion`, `OrderCompletionProofs` |
| Spin entitlement (`services/spin_entitlement.py`) | `roulette_spin_grants` | milestone, referral and welcome spins | numbering purchases while others complete, one welcome spin | `OrderCompletion`, `OrderCompletionProofs`, `Roulette`, `RouletteProofs` |
| Referral programme (`services/referral*.py`) | `referrals` | attribute, qualify, pay out | loops made by two customers at once, first order in flight, lock cycles up a chain | `ReferralAttribution`, `ReferralAttributionProofs`, `OrderCompletion`, `OrderCompletionProofs` |
| Lucky Roulette (`services/roulette*.py`) | grants, `roulette_spins` | play, replay | a second tap, a lost commit answer, locks and animation | `SpinBook`, `Roulette`, `RouletteProofs` |
| Loyalty activation (`services/loyalty_activation.py`) | accounts, welcome grants | backfill at start | inserts racing uncommitted inserts | `Roulette`, `RouletteProofs` |
| Checkout (`handlers/user/checkout.py`, `services/order.py`) | conversation, orders | questions, reward, summary, confirm, cancel | double confirm, lost commit answer, stale prices and rewards, late and repeated answers, crash, cancel | `Checkout`, `CheckoutProofs`, `OrderForm`, `OrderFormProofs`, `RewardRules` |
| Cart (`services/cart.py`) | `cart_items` | add, change, remove | edits against a checkout; Telegram under a row lock | `Checkout`, `CheckoutProofs` |
| Rewards (`services/reward.py`) | `user_rewards` | issue, plan, redeem | redeemed under another summary | `RewardRules`, `Checkout`, `StampLedger` |
| Notifications (`services/*notification.py`) | none | message after the commit | never announce what is not durable | `OrderCompletion`, `OrderCompletionProofs`, `ReferralAttribution` |
| Onboarding (`handlers/user/start.py`) | `users` | `/start`, choose a city | welcome spin, attribution and account in one transaction; an old city button during a checkout | `ReferralAttribution`, `Roulette`, `OrderForm` |
| Keyed lock, double-tap guard (`utils/concurrency.py`, `utils/confirm.py`) | registry of locks, `submitted` in the FSM data | acquire, release, prune; first submission, retry after a failure | pruning a lock that is handed over; a mark never taken back | `KeyedLock`, `AdminWizards`, `AdministrationProofs`, `Catalog`, `Checkout` |
| Manual credits (`handlers/admin/loyalty.py`, `services/admin/loyalty.py`) | conversation, `loyalty_stamp_adjustments` | ask, confirm, credit once per operation id | the same confirmation twice, an older screen's button, a lost commit answer | `AdminWizards`, `AdministrationProofs`, `StampLedger` (the movement) |
| Broadcast (`handlers/admin/broadcast.py`, `services/broadcast.py`) | conversation; nothing persisted | compose, confirm, send to all | double confirm, rate limits, lost answers, restart | `AdminWizards`, `AdministrationProofs` |
| Emergency access (`handlers/user/emergency_admin.py`, `services/emergency_admin.py`, `services/admin_access.py`, `security/admin.py`) | `admin_access_attempts`, `admin_access_sessions` | authenticate, lock out, open, supersede, expire, revoke, resolve a grant | attempts sent at once around a slow hash, a session that ends while in use, two instances, two kinds of locks | `EmergencyAccess`, `EmergencyAccessProofs` |
| Catalogue administration (`services/admin/catalog.py`, `handlers/admin/{categories,subcategories,products}.py`, `product_manage/`) | categories, brands, products, one conversation | create, rename, show, hide, order, move, edit, delete | counts against later inserts, stale copies, double taps, flush and answer before commit | `Catalog`, `AdministrationProofs` (and prices in `Checkout`) |
| Catalogue browsing (`services/catalog.py`, `utils/cache.py`, `repositories/visibility.py`) | cached list of categories | list, open, buy | a list kept past a change, or of a session that was rolled back; two definitions of "on sale" | `Catalog`, `AdministrationProofs` |
| Statistics, information pages, localisation, keyboards, errors, configuration, migrations | none that others read | read, format, report | none of it changes shared state | not modelled |

What should hold, component by component, is the list of properties below;
`PROJECT.json` lists the hazards they answer, at the line where each one bites.

## The modules

### StampLedger

State: `account` and `ledger` are the committed rows, `rewards` the ids of the
bottles issued; `lock` is who holds each account row; `seen` is the ORM instance of
each session, `draft` its flushed and uncommitted ledger row, `issued` its flushed and
uncommitted bottle, `op` what it was asked for, `cards` the screens with their buttons.
One session is one transaction. `Begin` is `get_or_create_for_user` (the instance is
read, unlocked), `LockAccount` is `lock_account` (the row is locked and read again),
`BookPurchase`, `BookBonus` and `BookAdjustment` are the bodies of the public operations
up to `_append` (`WriteRow`). A claim writes twice: `IssueReward` checks the card and
flushes the bottle, `BookRedemption` flushes the debit that names it; an error or a crash
can come between. `Commit` publishes whatever the session has flushed, both, one or
nothing: the claim's handler commits after its refusals as well. `Rollback` is the other
end. `OpenCard`, `ReadBalance`, `DrawCard` are the card's two reads. The ledger is
append-only in the code and in the model; ids are drawn from a sequence at each insert,
so a rolled-back row leaves a gap, in either table.

### OrderRules, OrderBook, OrderCompletion

`OrderRules` holds the status table, which orders qualify and what they earn.
`OrderBook` is the abstract book: an order moves along the table, and its
completion settles stamps, milestone and referral in one step, one completion at
a time. `OrderCompletion` is the code: a tap read from a screen of any age, the
order row locked and read again, the move decided, the settlement statement by
statement with every lock in the order the code takes it, the commit, the message
to the customer and the news of a payout, each after the commit. What a session
has written and not committed is `rows` (of each customer), `won` and `qualifies`;
the commit appends it to the committed rows. It implements `OrderBook` under the
mapping from committed rows.

### RewardRules, Checkout

`RewardRules` translates totals, the percentage with its rounding and the choice
of the free bottle. `Checkout` is one customer's cart and conversation: edits of
cart rows, the checkout's steps, the summary, Confirm inside `keyed_lock` (read
the conversation, mark it submitted, lock cart and account, plan the reward again,
write the order, delete the items, commit), every refusal, a failure before the
commit, a commit whose answer is lost, Cancel, a crash of the process, prices and
visibility changed by admins, and payouts that need the same account.

### OrderForm

What `Checkout` does in one action, `AnswerQuestions`, handler by handler: name,
delivery, address, time, contact, payment, reward, summary, Confirm, with Cancel, the
menus, old city buttons (`on_city_chosen`), failures at any await and a restart.
aiogram reads the state of the conversation when an update arrives, and each
update's task writes it after its awaits; so the model's task keeps the question it
was let through for (`job.question`), and its answer may be written long after the
conversation has moved on, was cancelled or begun again. Reading and writing the
FSM does not suspend and is atomic; the user's row, with the city, is read by a
middleware before (`LoadUser`). A summary is kept with what it says and with the
other updates that overlapped its making or the tap on its Confirm (`others`), a
history variable the properties need. Carts, prices and locks of the database are
choices here: they are `Checkout`'s.

### ReferralAttribution

`/start` through a link: account lock, "new customer?", the advisory lock, the
walk up the chain one statement at a time (a walk longer than `MAX_CHAIN` counts
as a loop), the row, the commit, the answer. Next to it, placing an order and
paying out, reduced to the locks they take and the rows attribution reads.

### SpinBook, Roulette

`SpinBook` is the promise: one welcome spin for each customer, one spin for each
order, a grant played once, its prize recorded and booked in the same step.
`Roulette` is the code: the tap's first unlocked look, the account lock, the
second look, the unit of work, the commit, its failure or lost answer; the replay;
`/start`'s welcome spin inserted in a savepoint; the backfill of a starting
instance in two `INSERT ... SELECT ... ON CONFLICT DO NOTHING` statements. A row
inserted under a unique constraint and not yet committed is a lock, and is
modelled as one; `inserted` is the order in which a transaction wrote its grants.
Ids are those of an INTEGER key, up to `MaxId`: a backfill's order has an end. The draw is a free choice of a prize.

### KeyedLock

`utils/concurrency.py`: `registry` is `_locks`, `users` is `_users`; `queue` and
`locked` are the inside of an `asyncio.Lock`, `place` says where each coroutine is.
`Ask` is `_lock_for` up to the first suspension (`AskKnown`, `AskNew` with the
pruning), `Wake` the turn of the first waiter after a release, `Quit` the end of
the `async with`. A lock object nobody refers to may be used again as a new one.

### AdminWizards

The two conversations that end in something irreversible share one operator's FSM
state; the module extends `KeyedLock`, and `confirm_once` is `Queue`, `TakeLock`,
`Repeated`, `Claim*`, `Commit*`/`Release*`, `Fail*`. A task is one update: its
state filter is evaluated when it is dispatched (`TapCredit`, `SendAmount`, ...),
and what the handler does after its first `await` is another action, which finds
whatever conversation there is by then. `shown` are the screens in the chat with
their buttons: they outlive conversations and restarts. `Credit` is `credit_stamps`
under the account lock. The fan-out runs outside the lock, one recipient at a time;
Telegram delivers, delivers and loses its answer, refuses, or asks to wait.

### EmergencyAccess

One action per suspension of the password step: `OfferPassword` (the update),
`EnsureUser` (the users row perhaps written), `Discard` (Telegram), the keyed lock,
`LockUser` (`get_for_update`), then the decision (`RefuseLockedOut`, `RefuseEmpty`,
`StartHash` and `WrongPassword` or `RightPassword`, each reading the clock when the
code does), `CommitLogin`, `Answer`; `Abort` anywhere before the commit. What a
transaction has written and not committed is `draft`. `SendAdminUpdate`,
`ResolveGrant`, `Act` are an admin update from the filter's question to the
handler. `StartBot`, `ListSessions`, `RevokeListed`, `ReconcileFails` are a new
instance reconciling sessions with its switch while the old one's tasks still run.

### Catalog

`row` holds the committed rows of the three tables under disjoint ids. A task is an
administrator's update in one transaction: a handler's action reads without locks
and decides what to write (`put`: a row, `Gone`, or the columns the ORM found
changed), `LoadBelow` is what SQLAlchemy loads before a DELETE, `Flush` executes
the statements (waiting for rows and foreign keys in doubt, refused by `RESTRICT`)
and invalidates the cached list, `Answer` tells the administrator, and only then
`Commit`, the middleware's, makes it durable. `Refuse` rolls back, and so does
`AnswerFails`: Telegram refuses the answer, or the view sent after it, or the commit is
lost, so an administrator may have been told of what is then rolled back. `told` records
what was said last of each row's switch, and by which task until its transaction ends
(then `Null` if it committed, `Gone` if it was in vain). A tap on Enable of a product
that was read enabled writes nothing and is answered all the same; what it says counts
as told if no other task has the switch written and uncommitted. `dialog` is the conversation of one administrator, one action per
handler; the texts of a wizard are one step, and their content the number of the
run. New products, edits and brands go through `confirm_once` and its keyed lock
(`section` says which task is inside it). `ShowProducts` is the list of products and a
product's view, which replace the conversation's data and keep its state: the wizard
goes on, and ends in an exception or in nothing where the data is missing (`lost`).
Customers read the list through the cache (`ReadList`, `FillCache` and `ReadFails` are
the sides of the query), add to a cart from old screens, and order. A reader whose
handler fails after the fill leaves the list cached as it is, so that failure is no step
of the model; what it does to the cached rows is under "What the code does not keep".

`MC*.tla` name the model values and small data of the instances.

## The runs

| Run | Question | Bounds |
|---|---|---|
| `StampLedger` | does the ledger explain every balance, whatever races; does a claim spend its own card, and is every bottle issued paid for once | 2 customers, 2 transactions, an order, a spin, a referral between them, 3 ledger ids, 1 bottle, 1 stamp each |
| `OrderSettlement` | is each completion settled exactly once, without waiting in a cycle; does it implement `OrderBook` | 3 sessions, a chain of two invitations, 3 orders of the invited customer (below the threshold, at it, free) and one of the next |
| `OrderMoves` | does an order follow the table, do customers hear only what is durable, is every tap answered | 2 admins, 2 orders of one invited customer, one accepted and one shipped, four of the status buttons, 2 moves, fair |
| `Checkout` | is nothing ordered or charged twice, does a cancellation stop later confirmations | 2 updates at once, 1 product, 2 prices, a bottle and a discount, 2 confirmations, 2 cart rows |
| `OrderForm` | is an order complete, and what its summary said | 2 updates at once, one delivery of one city, one payment, a number or none, one reward, any number of checkouts |
| `Referrals` | no loop, no referral on top of an order, every `/start` ends | 3 customers, 2 sessions, chains of one followed, fair |
| `Roulette` | one grant, one spin, one result, nobody left out | 2 customers, every set of missing accounts, 2 transactions, 1 order, 2 prizes |
| `EmergencyAccess` | are guesses bounded, sessions single, lockouts recorded once, authority recent | 2 updates at once, a customer and an administrator, limit 2, window and session of 2 ticks, 3 attempts, 3 ticks, one redeploy |
| `EmergencyStuck` (violated) | does the lock order rule out waiting in a circle | as `EmergencyAccess` |
| `AdminWizards` | is a credit booked once and as shown, is a broadcast received once, does a fan-out end | 2 updates at once, 2 customers, 2 screens, 2 amounts, 1 retry, a registry pruned at 1, one restart, fair |
| `Catalog` | does nothing dangle, is the cached list as fresh as it says, is nothing made twice, is a switch as was told | 2 updates at once, 2 changes, one conversation, up to 3 categories, 2 brands, 3 products, of which one each is switched and renamed, the product there is hidden at first, TTL 1, 1 tick |
| `CatalogSold` (violated) | is a product sold exactly when customers can see it | as `Catalog`, but the product shown at first and no conversation |

Why the bounds are enough for the questions: each hazard is a race of two
transactions (two transactions suffice for every lost update, double booking and
stale read), except cycles of locks along a chain and a payout behind a checkout,
which have three. In `OrderForm` two updates are a summary and the answer that
overlaps it, with the third, its Confirm, after them; two values of an answer and
"none" tell any two orders apart. Ledgers of three rows hold a movement before, between and after
two racing ones. An order goes through the table in three moves; five leave room
for every refused and repeated tap. In `Referrals`, three customers form the
smallest chain that can be closed at both ends by two links opened at once, and
`MaxChain = 1` makes the cut of `MAX_CHAIN` bite. In `EmergencyAccess` two updates
race around one hash, and three attempts are one more than the limit; the window
and the session's life end within the clock. In `AdminWizards` the registry holds
one lock and there are two keys, so it is pruned whenever it is idle, and two
screens are an old button and a new one. In `Catalog` two changes are a count and
the insert behind it, a flush and the other's commit, an answer and the other's no-op, or
a second tap; a row of each table is there at first, and a second category to move to.
Hidden at first, the product is in a cart only after a change. In `StampLedger` one bottle
is flushed, and then paid for, rolled back or raced by a second claim; that two bottles
never share a debit, nor two debits a bottle, is left to the proof. `MaxStamps`, `MaxReward`,
`MaxId`, `MaxMoves`, `MaxVisits`, `MaxItem`, `MaxAttempts`, `MaxTime`, `MaxStarts`,
`MaxRestarts`, `MaxRuns`, `MaxChanges`, `Touched`, `Named` and `Askers` are the
bounds the code does not have; each is named in the module that uses it, and the
bounded actions stop there without stopping anything else. `CHECK_DEADLOCK FALSE`
is said in `OrderSettlement`, where every order ends up completed, and where the
clock and the number of changes run out.

Properties, and what the code must do for them:

* `LedgerExplainsBalance`, `PurchasesCounted`, `EventBookedOnce`,
  `ClaimFollowsItsCard`: the account lock, the refresh under it, and the look-up of the
  event or the card's version under it. `DebitIffReward`: refusals are committed, so every
  one has to come before the first of a claim's two writes, and what comes after it may
  fail only by an exception.
* `SettledWhole`, `ImplementsOrderBook`: the settlement is one transaction and every
  count in it is made under the customer's account lock.
* `PathFollowsTable`, `ToldWhatHappened`: the status is read again under the row
  lock; the commit comes before Telegram.
* `NoWaitCycle` (orders, referrals), `EveryTapEnds`, `EveryStartEnds`: the lock
  order of `docs/architecture.md` and the loop check.
* `EachItemOrderedOnce`, `OneOrderPerSummary`, `TotalExplained`: the cart's row is
  locked and emptied in the order's transaction, the mark `submitted`, the plan
  made again under the account lock. `CancelStopsConfirm`: inside the keyed lock the
  conversation is looked at again.
* `OrdersComplete`: Confirm checks every answer, since the state alone proves none,
  and `place_order_from_cart` checks the delivery against the city it reads.
  `DiffersOnlyByOverlap`: the summary and the order read the same answers, and a
  reward that no longer applies is dropped from both.
* `NoReferralLoop`, `OnlyNewCustomersReferred`: the advisory lock held over the
  walk, the account lock over "new customer?".
* `ShownIsSaved`, `EveryoneActivated`, `OnlyLinksMeetBackfills`,
  `ImplementsSpinBook`: the second look under the lock, the unique indexes and the
  order in which a backfill inserts.
* `FailuresBounded`, `RefusalsNotRepeated`, `OneActiveSession`: the users row is
  locked from the count to the commit, over the hash. `AuthorityIsRecent`: the
  grant is asked of the table at every update, and a session is never renewed. It
  speaks of when the grant was taken: an update already past the middleware goes
  on when its session ends.
* `KeysExclude`: a key's users are counted before anybody suspends, and pruning
  spares keys with users.
* `CreditedAsConfirmed`, `NeverStuckSubmitted`: the operation id in the button is
  compared with the conversation's, the credit looks its id up under the account
  lock, and `confirm_once` takes its mark back on an exception.
* `ReceivedOnce`, `CountsAddUp`, `FanOutEnds`: content taken out of the
  conversation before the fan-out, only `RetryAfter` retried, and so many times.
* `ParentsExist`: the foreign keys, whatever was counted before. `StaleOnlyByOverlap`,
  `HiddenListedBriefly`: the invalidation at the flush and the time to live. Because
  the invalidation comes before the commit, a read in between caches the old list
  for a whole TTL: that is what "overlap" excuses and the TTL bounds.
* `OneProductPerRun`: `confirm_once`. `ShownAsTold`: what an administrator was last told
  of a switch, once his transaction has committed, is what the row says, and no edit saved
  from an older copy, no renumbering and no later failure undoes it. Row locks order two
  answers about one row as their commits, and an edit writes neither the switch nor columns
  that did not change. Left out, because the code does not keep them, are answers of
  transactions that then failed, and answers about a row that another task was switching.

No run spends a property on a type invariant. `TypeOK` of `StampLedger`,
`ReferralAttribution`, `OrderForm` and `Roulette` is a theorem, of `EmergencyAccess` a
part of a proved one; `OrderCompletion` and `Checkout` state theirs for the reader.

Each property has a mutant in its module, a definition with a comment that begins
"Mutant:": the code with a plausible mistake, under which the run finds the
property violated.

### Fairness

`OrderMoves`, `Referrals` and `AdminWizards` need it. A session that can run its
next statement runs it (the event loop and PostgreSQL do not stop): weak fairness
of its working steps. PostgreSQL hands a lock to its waiters in turn and every
holder releases it: strong fairness of the steps that wait for a lock. In
`AdminWizards` the event loop runs every task that can run (`WF_vars(Handle(t))`).
Nothing is assumed of taps, links and orders (customers and admins need not act),
nor of failures, nor of what Telegram answers: `FanOutEnds` holds under any mixture
of deliveries, refusals and rate limits.

### What the code does not keep

Two statements of the repository are not what the code does; each is a run that
ends in a counterexample, and a finding in `PROJECT.json`.

1. `NoWaitCycle` of `EmergencyAccess`: a login whose profile changed holds its
   users row from `ensure_user` on, through a Telegram call and into the wait for
   the keyed lock, while another login of the same person holds the keyed lock and
   waits for the row. PostgreSQL sees one of the two waits, so neither ends.
2. `SoldIffVisible`: moving a brand leaves its products' `category_id` behind, and
   the checkout asks that link where the catalogue asks the brand's. The edit wizard
   can leave an old brand beside a new category in the same way.

More came up while the modules were written. They are behaviours of the models,
without a run of their own:

* Cancel does not wait for a confirmation in flight: the customer reads "Order
  cancelled" (locales/en.json:113) and the order is placed. `CancelStopsConfirm` says
  how far a cancellation reaches.
* Two payment buttons tapped at once are both let through. The second answer is
  written after the first one's summary was composed, and Confirm on that summary
  orders the other payment (tests/test_checkout_regression.py:376 calls repeated taps
  harmless). `DiffersOnlyByOverlap` says when this can be.
* A reward refused at Confirm is dropped from the conversation first and shown
  afterwards (`checkout.py:771`). When showing fails at Telegram, or a second tap
  already waits at the keyed lock, Confirm orders without the reward, which the
  summary the customer tapped on still had (against docs/architecture.md:307).
* Confirm names no summary: the button of an earlier one confirms the latest.
* `services/customer_notification.py:84`: messages of two status changes are sent
  after their commits and can arrive in the other order.
* `services/stamp_card.py:226`: the card's balance and version are read in two
  statements; a movement committed in between gives the card the new version and
  the old stamps, and its claim is accepted (docs/loyalty.md:147 has it redrawn).
* `handlers/user/cart.py:223`: the cart's buttons answer Telegram with their row
  flushed and uncommitted. A confirmation waits for that row with the account
  locked, and a payout waits for the account (against docs/architecture.md:118-121).
* `repositories/roulette_spin_grant.py:132`: a backfill of a second, starting
  instance and a `/start` through a link, of a customer who has neither account nor
  welcome spin, wait for each other's uncommitted rows until PostgreSQL aborts one.
  `OnlyLinksMeetBackfills` shows that this is the only cycle there is.
* A manual credit cancelled while it is being booked answers "cancelled"; a
  broadcast's Confirm carries no id and sends what the conversation holds by then;
  a restart in a fan-out loses the rest of it; a long caption's second message
  waits for `RetryAfter` and the photo is sent again (`services/broadcast.py:62-66`).
* An edited product is saved from the copy made when the wizard began, over a price
  or texts changed meanwhile (`product_manage/handlers.py:940-955`); a new price or
  description is asked for over the data of an interrupted run, its `submitted`
  mark included (`:311`); the last name of a new category sent twice makes two.
* The administrator reads "enabled", "hidden" or "shown" before the commit
  (`categories.py:348`, `subcategories.py:459`, `product_manage/handlers.py:191`). If what is
  sent next fails, or the commit, it is rolled back and what was read stays false. A tap on
  Enable of a product that was enabled answers "enabled" also when a "disable" is about
  to commit, or did between the read and the answer. `told` says so by `Gone`.
* `services/catalog.py:50`: the rows of the category list are cached before the handler that
  read them has shown them. If showing them fails at Telegram, the
  middleware rolls back (`database.py:41`); that expires every row of the session, whatever
  `expire_on_commit` is, and closing it detaches them. Until the list expires or a category
  changes, opening the catalogue is then an error for every customer
  (services/catalog.py:41-44 has the values stay readable). Its names and places, of which
  `StaleOnlyByOverlap` speaks, are those that were read. The model leaves this error out.
* The list of products, or a product's view, opened in the middle of a wizard replaces its
  data and keeps its state (`product_manage/handlers.py:124,158`): the texts that follow end
  in an exception, or in Confirm with data missing.
* `delete_subcategory`: a product added between its count and its DELETE is cut
  loose by the ORM, loses its brand, and can be bought without being listed;
  deleting a product in somebody's cart fails, though its foreign key says CASCADE.
* An account's lockout ends when its oldest failure leaves the window, not
  `emergency_admin_lockout_minutes` after it began (`config.py:199-203`); a
  session's `revoked_at` can be written twice (models/admin_access.py:90-98 "set
  once"); a login at the old instance can commit after the new one's reconciliation.

## What is proved

`StampLedgerProofs` proves, for any customers, sessions, orders, spins, referrals
and bounds (from `LedgerAssumption` only), that the ledger's type invariant and
its five safety invariants hold in every reachable state, and that the last check of
`_append` is never what stops an overdraw (`RefusedBeforeWriting`).

None of them is inductive alone: a commit appends a row that was computed earlier,
from an instance, by a session among others. `IInv` adds what makes it right:

* `LockInv`: a session past `lock_account` holds its customer's row, so at most
  one session is past it for each customer;
* `FreshInv`: its instance equals the committed account;
* `DraftInv`: the row it has flushed continues the committed ledger of its
  customer: the right balance, an id greater than all of that ledger, an event not
  booked yet, and for a claim the version of the newest row;
* `IdsInv`: ids grow along each ledger, because they are drawn under the lock;
  `LatestIsLast` turns "the greatest id" into "the last row";
* `CheckedInv`: a claim that has flushed its bottle has passed every check, and nothing can
  move the account before its debit;
* `IssuedInv`: a flushed bottle belongs to a claim on its way to its debit, never to one
  that was refused, and its id is in no other session and in no committed row. Without
  the two, a commit could publish a bottle nobody paid for, or pay twice for one;
* `OwnerInv`, `PhaseInv`: what each phase says of its operation and whose ledger
  an event can be in.

Only `Commit` disturbs the committed rows (`CommitStep`, with one step per
property), only `LockAccount`, `IssueReward` and `Book*` establish the facts a commit needs; the
other steps leave them alone because every other holder of the row is excluded.

`ReferralAttributionProofs` proves, for any customers, sessions and `MAX_CHAIN`
(from `AttributionAssumption` only), the safety properties of the `Referrals` run,
`TypeOK`, `NoReferralLoop`, `OnlyNewCustomersReferred` and `NoWaitCycle`, and that
nobody is answered under a lock (`StartTellsUnlocked`). Its `IInv` says of every session, one by one, what it knows and by
which lock:

* `LockInv`: whoever attributes holds the advisory lock and the newcomer's
  account, and no session holds a lock its phase does not account for;
* `NewInv`: under the account's lock the newcomer still has neither order nor
  referrer;
* `WalkInv`: the customers seen on the walk form a set that misses the newcomer
  and leads only to where the walk stands; at the end of the chain, nowhere.

A step of one session neither moves another nor touches its locks
(`OthersStay`), and only two kinds of step write committed rows (`WhoWrites`), so
`OthersKeep` treats all actions at once and `SelfKeeps` has one step per action.
`NoLoopStep` is the point of it all: a loop through the link being written would,
cut down to the customers seen on the walk, have been a loop before. That
these transactions never wait in a circle is then a corollary: whoever waits for one account
while holding another pays out to the referrer of the one whose account they
hold, so a circle of waits would be a loop of referrals.

`AdministrationProofs` proves `KeysExclude` of the keyed lock itself, for any
coroutines, keys, locks and limit (from `KeyedLockAssumption`). Its invariant ties the two halves together: the lock
of everybody who waits or is inside is the registered one of their key, `users`
counts them exactly, and a locked lock has one owner inside; pruning then cannot
touch a key in use. The same invariant then serves inside the wizards, for
all five safety properties of the `AdminWizards` run. Its `IInv` says what each
task has read and where it stands (`TaskInv`, `ReadInv`), who is in which section
(`SectionInv`), that an operation id or content not yet used is nowhere (`UnusedInv`),
and that one fan-out has one content (`OneFanOut`, `FanOutInv`: whoever is still to
come has not received it). `StepKeeps` handles what a step of one task leaves to the
others.

`OrderFormProofs` proves `TypeOK` and the properties of the run for any number of
updates at a time, any answers, deliveries, payments and rewards (from
`OrderFormAssumption`). `Inv` types every job and says that an answer under way fits
its question and that what is being ordered was checked. `DiffersOnlyByOverlap` needs
`SeenInv`: the lock is Confirm's (`Locked`); while a summary that overlapped nothing
can be confirmed, the answers are what it says and no task that could still write one
is under way (`SummaryCurrent`); a summary being made, or waiting to be let in, is
current as well, or was overlapped (`HeldCurrent`). `ArrivalTold` is the point: a task
that arrives is seen by every summary it could overlap, and in the confirmation state
no answer is let through any more.

`EmergencyAccessProofs` proves the four properties of the `EmergencyAccess` run for
any users, administrators, instances, limit, window and session life (from
`EmergencyAssumption`). `IInv` holds `TypeOK`; `TaskInv` for each task: a decision
is made under the row lock, nothing is drafted before it, and what is drafted then
(`AttemptSound`, `SessionSound`) is still right at the commit because nobody else
writes for that user; a grant in use was sound when it was taken (`GrantSound`);
`AttemptsPast`: no record is of the future; `SessionsOnRecord`: a session has its
successful attempt. `FailuresBounded` needs all of it: the count that allowed a
check was made under the lock, over a window that reaches back as far as any
stretch that ends with the new failure.

`OrderCompletionProofs` proves, for any customers, orders, admins and moves (from
`CompletionAssumption`), that an order moves along the status table
(`PathFollowsTable`), that an invitation once qualified keeps its order
(`QualifiedOnce`: it is not paid twice), and `NoWaitCycle`. `IInv` says of each
session which rows it holds, and that no other row is its own (`LockInv`); that the
status it decided on is the order's still (`MoveInv`); that the referral it is about
to qualify is pending still (`PayoutInv`). `CompletionsNeverCircular` takes one more
assumption, that each customer has a depth below which their referrer's lies: chains
of invitations do not loop. The code keeps them so when it attributes, and that is
`NoReferralLoop` of `ReferralAttributionProofs`. Then a session only ever waits for one of lower rank
(`WaitsDownwards`): by the depth of its buyer, and for one buyer by how far it is on
the way from the order's row to the referrer's account; and a circle of waits has no
lowest member.

The books come out right by a second invariant, `SInv`, from which `SettledWhole`,
`ToldWhatHappened` and `ImplementsOrderBook` follow. A session's uncommitted rows are
exactly what its phase says it has written so far (`WriteInv`): the purchase from the
booking on, each side's stamps after its step of the payout, the grants it has won.
So an event that is in a ledger is nowhere uncommitted, a row is booked under its
customer's lock, and a commit adds each row once. Milestones are counted under the
buyer's account lock, which is why the count found is the count at the commit.
`TellInv` counts what each session may still say against the path of its order. For
the refinement, every step of the code is a stutter of the book but two: a commit of a
plain move is a move, a commit of a completion is the whole settlement. The sum of a
ledger is a recursive function; that it grows by what is appended is shown by taking
the least index at which it would not.

`RouletteProofs` proves, for any customers, orders, prizes and transactions (from
`RouletteAssumption`), `ShownIsSaved`, `EveryoneActivated`, `OnlyLinksMeetBackfills`,
`ImplementsSpinBook` and `TypeOK`. `IInv` says that two grants are never for the same
reason (`GrantedOnce`); that a grant is spent exactly if it has a spin (`SpentBySpin`);
that a player past the second look holds the account and the grant they won is
unspent still, and that what they are told is saved (`PlayInv`); which session holds
which uncommitted row (`RowInv`); and that whoever a backfill has neither still to
insert nor inserted is served already (`BackfillInv`). Where sessions wait in a
circle, accounts alone do not close it: of those who wait only backfills hold any, and
they open them in the order of ids (`CircleTopsUp`). So backfills wait there for
welcome grants, and the one that waits at the greatest id waits for no backfill,
which would hold that row and wait at a greater one, but for a start through a link.
In `SpinBook`'s terms the commits of a win and of grants are its steps and everything
else is a stutter, also the commit of a backfill that found nobody to welcome.

`CheckoutProofs` proves `EachItemOrderedOnce`, `OneOrderPerSummary` and
`CancelStopsConfirm` for any updates at once, products, quantities, prices, rewards
and confirmations (from `TermsAssumption` and `CheckoutAssumption`). `IInv` has two
halves. About the cart: what is in it has a number that no order took (`ItemsInv`);
whoever holds the cart's row orders such numbers only, and by the commit has every
row of the cart under its write lock (`PlaceInv`); an edit commits the row with its own
number, or a row it inserted and still shares the cart's row for, so no order is placed
between (`EditInv`). About the conversation: a session past `keyed_lock` is alone
there, all orders are of earlier summaries than the one it confirms, and if that is
still the one on the screen it is marked submitted (`TalkInv`); so a summary that
would be let in was neither ordered nor cancelled (`SummaryInv`). `TalkEffect` sorts
all actions by what they do to the conversation, and the steps need only the sorts.

`TotalExplained` follows from `MoneyInv`: the use of a reward names an order that
exists, the lines a session read are priced, and from the plan made under the account
lock to the commit its reward is unused (`TermsInv`). A total is a fold over a set,
that is, a recursive function on its subsets. The proofs speak of any function that
takes one element at a time (`SumsTo`): one exists and only one, the sum without an
element is less by its value (`SumTakeOut`), and sums over two sets agree when the terms
do (`SumSame`); over finite sets these are shown by a smallest counterexample. From
them the items of an order add up to the lines of its cart, less one bottle where one is
free (`ItemsTotalSum`, `DraftExplained`).

`AdministrationProofs` also proves all five invariants of the `Catalog` run, for any
rows, tasks, conversations and changes (from `CatalogAssumption`: the ids of the three
tables are finite and apart, and the rows there are at first fit the tables and refer to
rows there are). None of them is inductive alone; `CatalogInv` adds:

* `Form`: what a task is about to write fits (`Fits`): whole rows or columns of the
  right table, a deletion of one row only and by no wizard, the switch only of the row
  the administrator is told about.
* `TellInv`: whoever has told of a switch and not committed yet has flushed it just so,
  and an answered task with a switch to commit was the last to tell of it, or was told
  over in vain. With `Sound`, by which no two tasks have one row's switch in doubt, the
  commit then makes true what was told (`CommitTells`), and the steps of everybody else
  leave it (`ToldStays`, `AnswerTells`): that is `ShownAsTold`.
* `Sound`: between flush and commit a task waits for nobody and is refused nothing,
  whatever others flush or commit meanwhile. It gives `ParentsExist`: a commit's new
  links were checked, and no one else in doubt deletes what they refer to. `CommitSound`
  is where both directions of that wait are used.
* `AddInv`: a task that adds a product is inside the section of Confirm until it has
  answered, and from its flush on the conversation is not its run any more; so whoever
  is let in next adds another run, which gives `OneProductPerRun`.
* `ListInv`, `StaleInv`: between a category's flush and its commit there is no cached
  list and no query under way that does not know it overlapped; and a list's time ends
  no later than its time to live after anything on it was hidden.
* `DialogInv`: data that is full, and every step after the category's, has a category
  (the column is NOT NULL, and no handler asks).

The actions are sorted by what they do (`Talks`, `Starts`, `Drops`) before any of this
is shown of them; what is left is one lemma each for the load before a DELETE, the
flush, the answer, the commit and the customers. That the numbering of new rows is
defined at all, a greatest place among finitely many, is `Greatest`.

Only model-checked: everything temporal (`EveryTapEnds`, `EveryStartEnds`,
`FanOutEnds`), since liveness under fairness is outside the prover's reach. And two
runs end in a counterexample, of which there is nothing to prove.

## What is not modelled, and why

Reads that change nothing (listings, paging, statistics, information pages), text,
keyboards and translations; the sending of a message beyond "sent or failed";
configuration and migrations. The uniqueness retry of referral codes and the draw's
odds are left out: each is one statement or one pure function of a random number.
So is `start_rename_category`, a handler no button reaches, the registry's change
of event loop, which only tests make, and cancellation of a coroutine that waits for
a keyed lock. The screens of the catalogue, statistics and orders read committed
rows and write none (the two that touch a conversation's data are `ShowProducts`). Error handling answers after the rollback that every module
has. The models take PostgreSQL, SQLAlchemy, asyncio and Telegram from how the code
uses them: row locks, foreign keys, transactions, the identity map, hand-over of a
lock, and messages that may fail.

## Plan

Done, in this order: `StampLedger` and its proofs; `OrderRules`, `OrderBook`,
`OrderCompletion` and its proofs; `RewardRules`, `Checkout` and its proofs;
`OrderForm` and its proofs;
`ReferralAttribution` and its proofs;
`SpinBook`, `Roulette` and its proofs; `EmergencyAccess` and its proofs; `KeyedLock`,
`AdminWizards` and their proofs; `Catalog` and its proofs.

Left:

1. `PrizeTable.draw`, `choose_free_bottle` and `percentage_off` against reference
   definitions over bounded inputs.
2. The cart's quantity taps, if the repository comes to say what two of them mean.
