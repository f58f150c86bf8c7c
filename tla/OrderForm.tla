----------------------------- MODULE OrderForm -----------------------------
(***************************************************************************)
(* The questions of a checkout, one customer's (handlers/user/checkout.py, *)
(* states/checkout.py), up to the order that carries the answers.  What    *)
(* Checkout does in one action, AnswerQuestions, is told here handler by   *)
(* handler; what it tells of carts, prices, rewards and locks is a choice  *)
(* here.                                                                   *)
(*                                                                         *)
(* A task handles one update.  The state its handler is chosen by is read  *)
(* when the update arrives, before the middlewares and ensure_user ask the *)
(* database (and wait there for the customer's own users row, if another   *)
(* task has touched it); reading and writing the FSM does not suspend.  So *)
(* an answer may be written long after the question it answers.  Buttons   *)
(* stay in the chat, and a callback may carry any of their values.         *)
(***************************************************************************)
EXTENDS FiniteSets

CONSTANTS
  Tasks,
  Texts,            \* what customers type, where it passes the validators
  BerlinDelivery,   \* _BERLIN_DELIVERY
  OtherDelivery,    \* _OTHER_DELIVERY
  Payments,         \* PaymentMethod
  Rewards,          \* rewards there may be for this cart
  None

ASSUME OrderFormAssumption ==
  /\ BerlinDelivery \cap OtherDelivery = {}
  /\ None \notin Tasks \cup Texts \cup BerlinDelivery \cup OtherDelivery
                 \cup Payments \cup Rewards \cup {"confirmation"}

VARIABLES
  city,     \* users.selected_city
  filled,   \* whether there is something in the cart
  fsm,      \* the conversation
  summary,  \* what can be confirmed: what it says, and the tasks it overlapped
  keyed,    \* the task inside keyed_lock("checkout:<customer>")
  pc, job   \* where each task is, and what it holds

shop == <<city, filled>>
vars == <<shop, fsm, summary, keyed, pc, job>>

Cities == {"berlin", "delivery"}
Deliveries == BerlinDelivery \cup OtherDelivery

\* delivery_allowed_for_city.
Allowed(c, d) == d \in (IF c = "berlin" THEN BerlinDelivery ELSE OtherDelivery)

\* What each question takes for an answer, in the order of CheckoutStates.
Answers == [customer_name |-> Texts, delivery_type |-> Deliveries, address |-> Texts,
            preferred_time |-> Texts, contact |-> Texts \cup {None},
            payment_method |-> Payments, reward |-> Rewards \cup {None}]
Questions == DOMAIN Answers
Required == Questions \ {"contact", "reward"}

NoAnswers == [q \in Questions |-> None]
Cleared == [state |-> None, data |-> NoAnswers, submitted |-> FALSE]
NoSummary == [data |-> NoAnswers, others |-> {}]
NoJob == [question |-> None, value |-> None, city |-> None, data |-> NoAnswers,
          summary |-> NoSummary]

Init ==
  /\ city \in Cities
  /\ filled = TRUE
  /\ fsm = Cleared
  /\ summary = NoSummary
  /\ keyed = None
  /\ pc = [t \in Tasks |-> "idle"]
  /\ job = [t \in Tasks |-> NoJob]

Go(t, phase) == pc' = [pc EXCEPT ![t] = phase]
Done(t) == Go(t, "idle") /\ job' = [job EXCEPT ![t] = NoJob]
LeaveLock(t) == keyed' = IF keyed = t THEN None ELSE keyed

Others(t) == {u \in Tasks \ {t} : pc[u] # "idle"}

\* A summary overlaps what is under way while it is made and while its Confirm
\* waits to be let in, and what arrives meanwhile.
Arrived(t, j) ==
  [u \in Tasks |-> IF pc[u] \in {"show", "confirm"}
                   THEN [j[u] EXCEPT !.summary.others = @ \cup {t}] ELSE j[u]]

\* Where no summary can be confirmed, it is forgotten.
Become(f) ==
  /\ fsm' = f
  /\ summary' = IF f.state = "confirmation" THEN summary ELSE NoSummary

Put(q, v) == [fsm EXCEPT !.data[q] = v]
PutAndAsk(q, v, next) == [Put(q, v) EXCEPT !.state = next]

----------------------------------------------------------------------------
\* The conversation begins, and ends before its time.

FillCart ==
  /\ ~filled
  /\ filled' = TRUE
  /\ UNCHANGED <<city, fsm, summary, keyed, pc, job>>

EmptyCart ==
  /\ filled
  /\ filled' = FALSE
  /\ UNCHANGED <<city, fsm, summary, keyed, pc, job>>

\* An update that any state lets through: the cart's checkout button, a menu
\* button or /start, a city's button.
Tap(t, phase) ==
  /\ pc[t] = "idle"
  /\ Go(t, phase)
  /\ job' = Arrived(t, job)
  /\ UNCHANGED <<shop, fsm, summary, keyed>>

TapCheckout(t) == Tap(t, "starting")
TapMenu(t) == Tap(t, "leaving")

\* Both buttons and the word, in every state of the conversation.
TapCancel(t) == fsm.state # None /\ Tap(t, "leaving")

\* start_checkout: over an empty cart there is no conversation left.
StartCheckout(t) ==
  /\ pc[t] = "starting"
  /\ Become(IF filled THEN [Cleared EXCEPT !.state = "customer_name"] ELSE Cleared)
  /\ Done(t)
  /\ UNCHANGED <<shop, keyed>>

Leave(t) ==
  /\ pc[t] = "leaving"
  /\ Become(Cleared)
  /\ Done(t)
  /\ UNCHANGED <<shop, keyed>>

\* on_city_chosen, from a button of the onboarding, however old: the row is
\* written, the conversation cleared, the customer answered, and only then the
\* city is committed.
TapCity(t, c) ==
  /\ pc[t] = "idle" /\ c # city
  /\ job' = Arrived(t, [job EXCEPT ![t].city = c])
  /\ Go(t, "city")
  /\ UNCHANGED <<shop, fsm, summary, keyed>>

ChooseCity(t) ==
  /\ pc[t] = "city"
  /\ \A u \in Tasks : pc[u] # "saving"
  /\ Become(Cleared)
  /\ Go(t, "saving")
  /\ UNCHANGED <<shop, keyed, job>>

CommitCity(t) ==
  /\ pc[t] = "saving"
  /\ city' = job[t].city
  /\ Done(t)
  /\ UNCHANGED <<filled, fsm, summary, keyed>>

----------------------------------------------------------------------------
\* The questions.

\* An answer to the question that is being asked, the reward's button included.
Answer(t, q, v) ==
  /\ pc[t] = "idle" /\ fsm.state = q /\ v \in Answers[q]
  /\ job' = Arrived(t, [job EXCEPT ![t].question = q, ![t].value = v])
  /\ Go(t, IF q = "delivery_type" THEN "middleware" ELSE "answered")
  /\ UNCHANGED <<shop, fsm, summary, keyed>>

\* The user's row is read by a middleware, and the city with it: the one answer
\* that is compared with it.
LoadUser(t) ==
  /\ pc[t] = "middleware"
  /\ job' = [job EXCEPT ![t].city = city]
  /\ Go(t, "answered")
  /\ UNCHANGED <<shop, fsm, summary, keyed>>

At(t, q) == pc[t] = "answered" /\ job[t].question = q

\* A question that is one message: the answer kept, the next question asked.
Ask(t, q, next) ==
  /\ At(t, q)
  /\ Become(PutAndAsk(q, job[t].value, next))
  /\ Done(t)
  /\ UNCHANGED <<shop, keyed>>

CheckoutName(t) == Ask(t, "customer_name", "delivery_type")
CheckoutAddress(t) == Ask(t, "address", "preferred_time")
CheckoutTime(t) == Ask(t, "preferred_time", "contact")

\* Offered for the city of the time the question was asked, and asked again.
CheckoutDelivery(t) ==
  /\ Allowed(job[t].city, job[t].value)
  /\ Ask(t, "delivery_type", "address")

RefuseDelivery(t) ==
  /\ At(t, "delivery_type") /\ ~Allowed(job[t].city, job[t].value)
  /\ Done(t)
  /\ UNCHANGED <<shop, fsm, summary, keyed>>

\* A contact, a typed number, or None for the Telegram account: the state
\* changes only in _ask_payment, after another look at the user.
CheckoutContact(t) ==
  /\ At(t, "contact")
  /\ Become(Put("contact", job[t].value))
  /\ Go(t, "asking")
  /\ UNCHANGED <<shop, keyed, job>>

AskPayment(t) ==
  /\ pc[t] = "asking"
  /\ Become([fsm EXCEPT !.state = "payment_method"])
  /\ Done(t)
  /\ UNCHANGED <<shop, keyed>>

\* The state stays what it is until the rewards were read.
CheckoutPayment(t) ==
  /\ At(t, "payment_method")
  /\ Become(Put("payment_method", job[t].value))
  /\ Go(t, "offer")
  /\ UNCHANGED <<shop, keyed, job>>

\* _offer_rewards, with nothing to offer and with something.
SkipRewards(t) ==
  /\ pc[t] = "offer"
  /\ Become(Put("reward", None))
  /\ Go(t, "compose")
  /\ UNCHANGED <<shop, keyed, job>>

OfferRewards(t) ==
  /\ pc[t] = "offer" /\ Rewards # {} /\ keyed # t
  /\ Become([fsm EXCEPT !.state = "reward"])
  /\ Done(t)
  /\ UNCHANGED <<shop, keyed>>

CheckoutReward(t) ==
  /\ At(t, "reward")
  /\ Become(Put("reward", job[t].value))
  /\ Go(t, "compose")
  /\ UNCHANGED <<shop, keyed, job>>

\* Not one of the customer's options any more: the options again.
RefuseOption(t) ==
  /\ At(t, "reward") /\ job[t].value # None
  /\ Go(t, "offer")
  /\ UNCHANGED <<shop, fsm, summary, keyed, job>>

----------------------------------------------------------------------------
\* _show_confirmation.

\* The data are read first, the cart after them.
Compose(t) ==
  /\ pc[t] = "compose"
  /\ job' = [job EXCEPT ![t].summary = [data |-> fsm.data, others |-> Others(t)]]
  /\ Go(t, "show")
  /\ UNCHANGED <<shop, fsm, summary, keyed>>

NothingToShow(t) ==
  /\ pc[t] = "show" /\ ~filled
  /\ Become(Cleared)
  /\ LeaveLock(t)
  /\ Done(t)
  /\ UNCHANGED shop

\* Mutant: the reward that no longer applies left out of the summary only.
DropRewardFromSummary(t) ==
  /\ pc[t] = "show" /\ job[t].summary.data["reward"] # None
  /\ job' = [job EXCEPT ![t].summary.data["reward"] = None]
  /\ UNCHANGED <<shop, fsm, summary, keyed, pc>>

\* The reward is of no use to the cart by now.
DropReward(t) ==
  /\ pc[t] = "show" /\ job[t].summary.data["reward"] # None
  /\ Become(Put("reward", None))
  /\ job' = [job EXCEPT ![t].summary.data["reward"] = None]
  /\ UNCHANGED <<shop, keyed, pc>>

\* The state first, then the text.  The text for want of an answer is an
\* exception: the state stays, and the Confirm buttons of earlier summaries.
ShowSummary(t) ==
  /\ pc[t] = "show"
  /\ fsm' = [fsm EXCEPT !.state = "confirmation"]
  /\ summary' = job[t].summary
  /\ LeaveLock(t)
  /\ Done(t)
  /\ UNCHANGED shop

----------------------------------------------------------------------------
\* checkout_confirm.

TapConfirm(t) ==
  /\ pc[t] = "idle" /\ fsm.state = "confirmation"
  /\ job' = Arrived(t, [job EXCEPT ![t].summary =
               [data |-> summary.data, others |-> summary.others \cup Others(t)]])
  /\ Go(t, "confirm")
  /\ UNCHANGED <<shop, fsm, summary, keyed>>

\* Inside the keyed_lock the data are read once, for good.  (A number that was
\* kept is still one when it is normalised again.)
EnterConfirm(t) ==
  /\ pc[t] = "confirm" /\ keyed = None
  /\ IF fsm.submitted \/ fsm.state # "confirmation"
     THEN Done(t) /\ UNCHANGED keyed
     ELSE /\ keyed' = t
          /\ job' = [job EXCEPT ![t].data = fsm.data]
          /\ Go(t, "checking")
  /\ UNCHANGED <<shop, fsm, summary>>

\* Mutant: the answers taken to be there because the state says so.
SubmitWhatever(t) ==
  /\ pc[t] = "checking"
  /\ Become([fsm EXCEPT !.submitted = TRUE])
  /\ job' = [job EXCEPT ![t].city = city]
  /\ Go(t, "place")
  /\ UNCHANGED <<shop, keyed>>

\* The user and city are read; every required answer is there.
Submit(t) ==
  /\ pc[t] = "checking"
  /\ \A q \in Required : job[t].data[q] # None
  /\ Become([fsm EXCEPT !.submitted = TRUE])
  /\ job' = [job EXCEPT ![t].city = city]
  /\ Go(t, "place")
  /\ UNCHANGED <<shop, keyed>>

\* Something missing: "something went wrong", and the conversation is over.
Incomplete(t) ==
  /\ pc[t] = "checking"
  /\ \E q \in Required : job[t].data[q] = None
  /\ Become(Cleared)
  /\ LeaveLock(t)
  /\ Done(t)
  /\ UNCHANGED shop

\* place_order_from_cart and its commit: the order has the task's data and city.
PlaceOrder(t) ==
  LET d == job[t].data IN
  /\ pc[t] = "place" /\ filled /\ Allowed(job[t].city, d["delivery_type"])
  /\ filled' = FALSE
  /\ Go(t, "placed")
  /\ UNCHANGED <<city, fsm, summary, keyed, job>>

\* EmptyCartError, InactiveProductError, InvalidDeliveryError; and the end of
\* the conversation after an order.
CloseCheckout(t) ==
  /\ pc[t] \in {"place", "placed"}
  /\ Become(Cleared)
  /\ LeaveLock(t)
  /\ Done(t)
  /\ UNCHANGED shop

\* LoyaltyError: the summary again without the reward, still inside the lock.
RefuseReward(t) ==
  /\ pc[t] = "place" /\ job[t].data["reward"] # None
  /\ Become([Put("reward", None) EXCEPT !.submitted = FALSE])
  /\ Go(t, "compose")
  /\ UNCHANGED <<shop, keyed, job>>

\* Any other error, before the commit or after it: Confirm may be tapped again.
FailOrder(t) ==
  /\ pc[t] \in {"place", "placed"}
  /\ Become([fsm EXCEPT !.submitted = FALSE])
  /\ LeaveLock(t)
  /\ Done(t)
  /\ UNCHANGED shop

----------------------------------------------------------------------------
\* An exception nothing catches, Telegram's among them: what is in the FSM
\* stays there.
Abort(t) ==
  /\ pc[t] \notin {"idle", "place", "placed"}
  /\ LeaveLock(t)
  /\ Done(t)
  /\ UNCHANGED <<shop, fsm, summary>>

Restart ==
  /\ Become(Cleared)
  /\ keyed' = None
  /\ pc' = [t \in Tasks |-> "idle"]
  /\ job' = [t \in Tasks |-> NoJob]
  /\ UNCHANGED shop

Arrive(t) ==
  \/ TapCheckout(t) \/ TapMenu(t) \/ TapCancel(t) \/ TapConfirm(t)
  \/ \E c \in Cities : TapCity(t, c)
  \/ \E q \in Questions, v \in Texts \cup Deliveries \cup Payments \cup Rewards \cup {None} :
       Answer(t, q, v)

Handle(t) ==
  \/ StartCheckout(t) \/ Leave(t) \/ ChooseCity(t) \/ CommitCity(t)
  \/ LoadUser(t)
  \/ CheckoutName(t) \/ CheckoutDelivery(t) \/ RefuseDelivery(t)
  \/ CheckoutAddress(t) \/ CheckoutTime(t) \/ CheckoutContact(t) \/ AskPayment(t)
  \/ CheckoutPayment(t) \/ SkipRewards(t) \/ OfferRewards(t)
  \/ CheckoutReward(t) \/ RefuseOption(t)
  \/ Compose(t) \/ NothingToShow(t) \/ DropReward(t) \/ ShowSummary(t)
  \/ EnterConfirm(t) \/ Submit(t) \/ Incomplete(t)
  \/ PlaceOrder(t) \/ CloseCheckout(t) \/ RefuseReward(t) \/ FailOrder(t)

Next ==
  \/ FillCart \/ EmptyCart \/ Restart
  \/ \E t \in Tasks : Arrive(t) \/ Handle(t) \/ Abort(t)

Spec == Init /\ [][Next]_vars

----------------------------------------------------------------------------
\* Properties.

Phases == {"idle", "starting", "leaving", "city", "saving", "middleware", "answered", "asking",
           "offer", "compose", "show", "confirm", "checking", "place", "placed"}
Data == [Questions -> Texts \cup Deliveries \cup Payments \cup Rewards \cup {None}]

\* Conversations, summaries, orders and tasks are of their kinds, and every
\* answer that is kept answers its own question.
TypeOK ==
  /\ city \in Cities /\ filled \in BOOLEAN
  /\ fsm.state \in Questions \cup {"confirmation", None}
  /\ fsm.submitted \in BOOLEAN
  /\ \A q \in Questions : fsm.data[q] \in Answers[q] \cup {None}
  /\ summary.data \in Data /\ summary.others \subseteq Tasks
  /\ keyed \in Tasks \cup {None}
  /\ pc \in [Tasks -> Phases]

\* The tasks whose order is committed; what it says is in their jobs.
Ordering == {t \in Tasks : pc[t] = "placed"}

\* No order lacks an answer, and its delivery is one of its city's (docs/
\* architecture.md, "city-gated"), though an answer may come in after the
\* conversation was cancelled and begun again, and a city change in between.
OrdersComplete ==
  \A t \in Ordering :
    /\ \A q \in Required : job[t].data[q] \in Answers[q]
    /\ Allowed(job[t].city, job[t].data["delivery_type"])

\* Unless another update of the same customer overlapped it, an order is what
\* the summary said on which Confirm was tapped, answer by answer, but for a
\* reward that was refused; a reward the customer did not see is never spent.
DiffersOnlyByOverlap ==
  \A t \in Ordering :
    LET seen == job[t].summary IN
    seen.others = {} => job[t].data \in {seen.data, [seen.data EXCEPT !["reward"] = None]}
=============================================================================
