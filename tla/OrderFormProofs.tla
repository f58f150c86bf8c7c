-------------------------- MODULE OrderFormProofs --------------------------
(***************************************************************************)
(* Proofs about OrderForm, for any number of updates at a time, any        *)
(* answers, deliveries, payments and rewards: kept answers fit their       *)
(* questions, no order lacks one, and an order is what the summary said    *)
(* unless another update overlapped it.                                    *)
(***************************************************************************)
EXTENDS OrderForm, TLAPS

\* Answers as the FSM keeps them: each to its own question, or none yet.
Values == Texts \cup Deliveries \cup Payments \cup Rewards \cup {None}
Kept == {d \in [Questions -> Values] : \A q \in Questions : d[q] \in Answers[q] \cup {None}}

Conversations == [state : Questions \cup {"confirmation", None}, data : Kept,
                  submitted : BOOLEAN]
Summaries == [data : Kept, others : SUBSET Tasks]
Jobs == [question : Questions \cup {None}, value : Values, city : Cities \cup {None},
         data : Kept, summary : Summaries]

Kinds ==
  /\ city \in Cities /\ filled \in BOOLEAN
  /\ fsm \in Conversations
  /\ summary \in Summaries
  /\ keyed \in Tasks \cup {None}
  /\ pc \in [Tasks -> Phases]
  /\ job \in [Tasks -> Jobs]

\* An answer under way answers the question it was taken for.
AnswersFit ==
  \A t \in Tasks :
    pc[t] \in {"middleware", "answered"} =>
      job[t].question \in Questions /\ job[t].value \in Answers[job[t].question]

\* A city under way is one.
CitiesFit == \A t \in Tasks : pc[t] \in {"city", "saving"} => job[t].city \in Cities

\* What is being ordered was checked for want of answers, and a committed order
\* for its delivery as well.
Checked ==
  \A t \in Tasks :
    /\ pc[t] \in {"place", "placed"} => \A q \in Required : job[t].data[q] # None
    /\ pc[t] = "placed" => Allowed(job[t].city, job[t].data["delivery_type"])

Inv == Kinds /\ AnswersFit /\ CitiesFit /\ Checked

\* The questions by name, and what answers them.
LEMMA QuestionNames ==
  /\ Questions = {"customer_name", "delivery_type", "address", "preferred_time",
                  "contact", "payment_method", "reward"}
  /\ \A q \in Questions : Answers[q] \subseteq Values
  /\ None \in Values
<1>1. Questions = {"customer_name", "delivery_type", "address", "preferred_time",
                   "contact", "payment_method", "reward"}
  BY DEF Questions, Answers
<1>2. \A q \in Questions : Answers[q] \subseteq Values
  BY <1>1 DEF Answers, Values
<1> QED  BY <1>1, <1>2 DEF Values

\* No answers at all are kept answers.
LEMMA NothingKept == NoAnswers \in Kept
<1> QED  BY QuestionNames DEF NoAnswers, Kept

LEMMA ClearedIsOne ==
  Cleared \in Conversations /\ NoSummary \in Summaries /\ NoJob \in Jobs
<1> QED  BY NothingKept, QuestionNames DEF Cleared, NoSummary, NoJob, Conversations, Summaries, Jobs

\* Keeping an answer to a question, or taking one back.
LEMMA PutKeeps ==
  ASSUME NEW d \in Kept, NEW q \in Questions, NEW v \in Answers[q] \cup {None}
  PROVE  [d EXCEPT ![q] = v] \in Kept
<1>1. v \in Values
  BY QuestionNames
<1> QED  BY <1>1 DEF Kept

LEMMA PutIsOne ==
  ASSUME fsm \in Conversations, NEW q \in Questions, NEW v \in Answers[q] \cup {None}
  PROVE  Put(q, v) \in Conversations
<1>1. fsm.data \in Kept
  BY DEF Conversations
<1>2. [fsm.data EXCEPT ![q] = v] \in Kept
  BY <1>1, PutKeeps
<1>3. Put(q, v) = [fsm EXCEPT !.data = [fsm.data EXCEPT ![q] = v]]
  BY DEF Put, Conversations
<1> QED  BY <1>2, <1>3 DEF Conversations

\* The conversation becomes what it may be, and the summary with it.
LEMMA BecomeIsOne ==
  ASSUME summary \in Summaries, NEW f \in Conversations, Become(f)
  PROVE  fsm' \in Conversations /\ summary' \in Summaries
<1> QED  BY ClearedIsOne DEF Become

\* The tasks' part of Inv.
TasksFit ==
  /\ pc \in [Tasks -> Phases]
  /\ job \in [Tasks -> Jobs]
  /\ AnswersFit /\ CitiesFit /\ Checked

\* A handler that ends, and one that goes on to where its job is not looked at.
LEMMA DoneFits ==
  ASSUME Inv, NEW t \in Tasks, Done(t)
  PROVE  TasksFit'
<1> USE ClearedIsOne DEF Inv, Kinds, Done, Go
<1>1. pc' \in [Tasks -> Phases] /\ job' \in [Tasks -> Jobs]
  BY DEF Phases
<1>2. AnswersFit' /\ CitiesFit'
  BY DEF AnswersFit, CitiesFit
<1>3. Checked'
  BY DEF Checked
<1> QED  BY <1>1, <1>2, <1>3 DEF TasksFit

LEMMA GoFits ==
  ASSUME Inv, NEW t \in Tasks,
         NEW phase \in {"starting", "leaving", "asking", "offer", "compose", "show",
                       "confirm"},
         Go(t, phase), job' \in [Tasks -> Jobs],
         \A u \in Tasks :
           /\ job'[u].question = job[u].question /\ job'[u].value = job[u].value
           /\ job'[u].city = job[u].city /\ job'[u].data = job[u].data
  PROVE  TasksFit'
<1> USE DEF Inv, Kinds, Go
<1>1. pc' \in [Tasks -> Phases]
  BY DEF Phases
<1>2. AnswersFit' /\ CitiesFit'
  BY <1>1 DEF AnswersFit, CitiesFit
<1>3. Checked'
  BY <1>1 DEF Checked
<1> QED  BY <1>1, <1>2, <1>3 DEF TasksFit

\* An arrival changes what summaries overlap and nothing else of a job.
LEMMA ArrivedFits ==
  ASSUME NEW t \in Tasks, NEW j \in [Tasks -> Jobs]
  PROVE  /\ Arrived(t, j) \in [Tasks -> Jobs]
         /\ \A u \in Tasks :
              /\ Arrived(t, j)[u].question = j[u].question
              /\ Arrived(t, j)[u].value = j[u].value
              /\ Arrived(t, j)[u].city = j[u].city
              /\ Arrived(t, j)[u].data = j[u].data
<1>1. \A s \in Summaries : [s EXCEPT !.others = @ \cup {t}] \in Summaries
  BY DEF Summaries
<1>2. ASSUME NEW u \in Tasks
      PROVE  LET k == [j[u] EXCEPT !.summary.others = @ \cup {t}] IN
             /\ k \in Jobs
             /\ k.question = j[u].question /\ k.value = j[u].value
             /\ k.city = j[u].city /\ k.data = j[u].data
  <2>1. j[u] \in Jobs /\ j[u].summary \in Summaries
    BY DEF Jobs
  <2>2. [j[u].summary EXCEPT !.others = @ \cup {t}] \in Summaries
    BY <1>1, <2>1
  <2>3. [j[u] EXCEPT !.summary.others = @ \cup {t}]
          = [j[u] EXCEPT !.summary = [j[u].summary EXCEPT !.others = @ \cup {t}]]
    BY <2>1 DEF Jobs
  <2> QED  BY <2>1, <2>2, <2>3 DEF Jobs
<1> QED  BY <1>2 DEF Arrived

\* The rest of Inv.
ShopFits ==
  /\ city \in Cities /\ filled \in BOOLEAN
  /\ fsm \in Conversations
  /\ summary \in Summaries
  /\ keyed \in Tasks \cup {None}

LEMMA InvParts == Inv <=> ShopFits /\ TasksFit
<1> QED  BY DEF Inv, Kinds, ShopFits, TasksFit

\* Updates arrive.
LEMMA ArriveKeeps ==
  ASSUME Inv, NEW t \in Tasks, Arrive(t)
  PROVE  Inv'
<1> USE DEF Inv, Kinds
<1>1. ShopFits'
  BY DEF ShopFits, Arrive, TapCheckout, TapMenu, TapCancel, Tap, TapConfirm, TapCity, Answer, shop
<1>2. ASSUME NEW phase \in {"starting", "leaving"}, Tap(t, phase)
      PROVE  TasksFit'
  <2>1. job' = Arrived(t, job) /\ Go(t, phase)
    BY <1>2 DEF Tap
  <2> QED  BY <2>1, ArrivedFits, GoFits
<1>3. CASE TapConfirm(t)
  <2> DEFINE s == [data |-> summary.data, others |-> summary.others \cup Others(t)]
             j == [job EXCEPT ![t].summary = s]
  <2>1. s \in Summaries
    BY DEF Summaries, Others
  <2>2. j \in [Tasks -> Jobs]
        /\ \A u \in Tasks : /\ j[u].question = job[u].question /\ j[u].value = job[u].value
                            /\ j[u].city = job[u].city /\ j[u].data = job[u].data
    BY <2>1 DEF Jobs
  <2>3. job' = Arrived(t, j) /\ Go(t, "confirm")
    BY <1>3 DEF TapConfirm
  <2> HIDE DEF j
  <2>4. TasksFit'
    BY <2>2, <2>3, ArrivedFits, GoFits
  <2> QED  BY <1>1, <2>4, InvParts DEF ShopFits, TasksFit
<1>4. ASSUME NEW c \in Cities, TapCity(t, c)
      PROVE  TasksFit'
  <2> DEFINE j == [job EXCEPT ![t].city = c]
  <2>1. /\ j \in [Tasks -> Jobs] /\ j[t].city = c
        /\ \A u \in Tasks : /\ j[u].question = job[u].question /\ j[u].value = job[u].value
                            /\ j[u].data = job[u].data
                            /\ u # t => j[u].city = job[u].city
    BY DEF Jobs
  <2>2. job' = Arrived(t, j) /\ pc' = [pc EXCEPT ![t] = "city"]
    BY <1>4 DEF TapCity, Go
  <2> HIDE DEF j
  <2>3. /\ pc' \in [Tasks -> Phases] /\ job' \in [Tasks -> Jobs]
        /\ AnswersFit' /\ CitiesFit'
    BY <2>1, <2>2, ArrivedFits DEF Phases, AnswersFit, CitiesFit
  <2>4. Checked'
    BY <2>1, <2>2, ArrivedFits DEF Checked
  <2> QED  BY <2>3, <2>4 DEF TasksFit
<1>5. ASSUME NEW q \in Questions, NEW v \in Answers[q], Answer(t, q, v)
      PROVE  TasksFit'
  <2> DEFINE j == [job EXCEPT ![t].question = q, ![t].value = v]
             phase == IF q = "delivery_type" THEN "middleware" ELSE "answered"
  <2>1. /\ j \in [Tasks -> Jobs] /\ j[t].question = q /\ j[t].value = v
        /\ \A u \in Tasks : /\ j[u].city = job[u].city /\ j[u].data = job[u].data
                            /\ u # t => /\ j[u].question = job[u].question
                                        /\ j[u].value = job[u].value
    BY QuestionNames DEF Jobs
  <2>2. job' = Arrived(t, j) /\ pc' = [pc EXCEPT ![t] = phase]
    BY <1>5 DEF Answer, Go
  <2> HIDE DEF j
  <2>3. /\ pc' \in [Tasks -> Phases] /\ job' \in [Tasks -> Jobs]
        /\ AnswersFit' /\ CitiesFit'
    BY <2>1, <2>2, ArrivedFits DEF Phases, AnswersFit, CitiesFit
  <2>4. Checked'
    BY <2>1, <2>2, ArrivedFits DEF Checked
  <2> QED  BY <2>3, <2>4 DEF TasksFit
<1>6. \A q, v : Answer(t, q, v) => v \in Answers[q]
  BY DEF Answer
<1>7. TasksFit'
  BY <1>2, <1>3, <1>4, <1>5, <1>6 DEF Arrive, TapCheckout, TapMenu, TapCancel, TasksFit
<1> QED  BY <1>1, <1>7, InvParts DEF ShopFits, TasksFit

\* A handler that leaves the conversation a conversation, and ends.
LEMMA EndsWell ==
  ASSUME Inv, NEW t \in Tasks, Done(t),
         fsm' \in Conversations, summary' \in Summaries,
         city' \in Cities, filled' \in BOOLEAN, keyed' \in Tasks \cup {None}
  PROVE  Inv'
<1> QED  BY DoneFits, InvParts DEF ShopFits, TasksFit, Inv, Kinds

\* One that goes on.
LEMMA GoesOnWell ==
  ASSUME Inv, NEW t \in Tasks,
         NEW phase \in {"asking", "offer", "compose"}, Go(t, phase), job' = job,
         fsm' \in Conversations, summary' \in Summaries, UNCHANGED <<shop, keyed>>
  PROVE  Inv'
<1>1. TasksFit'
  BY GoFits DEF Inv, Kinds
<1> QED  BY <1>1 DEF TasksFit, Inv, Kinds, shop

LEMMA LeaveLockIsOne ==
  ASSUME Inv, NEW t \in Tasks, LeaveLock(t)
  PROVE  keyed' \in Tasks \cup {None}
<1> QED  BY DEF LeaveLock, Inv, Kinds

\* The conversation is entered and left.
LEMMA EntryKeeps ==
  ASSUME Inv, NEW t \in Tasks,
         StartCheckout(t) \/ Leave(t) \/ ChooseCity(t) \/ CommitCity(t)
  PROVE  Inv'
<1> USE ClearedIsOne DEF Inv, Kinds, shop
<1>1. CASE StartCheckout(t)
  <2>1. [Cleared EXCEPT !.state = "customer_name"] \in Conversations
    BY QuestionNames DEF Conversations
  <2> QED  BY <1>1, <2>1, BecomeIsOne, EndsWell DEF StartCheckout
<1>2. CASE Leave(t)
  BY <1>2, BecomeIsOne, EndsWell DEF Leave
<1>3. CASE ChooseCity(t)
  <2>1. fsm' \in Conversations /\ summary' \in Summaries
    BY <1>3, BecomeIsOne DEF ChooseCity
  <2>2. pc' \in [Tasks -> Phases] /\ AnswersFit' /\ CitiesFit'
    BY <1>3 DEF ChooseCity, Go, Phases, AnswersFit, CitiesFit
  <2>3. Checked'
    BY <1>3 DEF ChooseCity, Go, Checked
  <2> QED  BY <1>3, <2>1, <2>2, <2>3 DEF ChooseCity
<1>4. CASE CommitCity(t)
  BY <1>4, EndsWell DEF CommitCity, CitiesFit
<1> QED  BY <1>1, <1>2, <1>3, <1>4

\* The questions.
LEMMA AnswerKept ==
  ASSUME Inv, NEW t \in Tasks, NEW q \in Questions, At(t, q)
  PROVE  Put(q, job[t].value) \in Conversations
<1> QED  BY PutIsOne DEF At, Inv, Kinds, AnswersFit

LEMMA AskKeeps ==
  ASSUME Inv, NEW t \in Tasks, NEW q \in Questions, NEW next \in Questions, Ask(t, q, next)
  PROVE  Inv'
<1>1. PutAndAsk(q, job[t].value, next) \in Conversations
  BY AnswerKept DEF Ask, PutAndAsk, Conversations
<1> QED  BY <1>1, BecomeIsOne, EndsWell DEF Ask, Inv, Kinds, shop

LEMMA QuestionsKeep ==
  ASSUME Inv, NEW t \in Tasks,
         \/ LoadUser(t) \/ CheckoutName(t) \/ CheckoutDelivery(t) \/ RefuseDelivery(t)
         \/ CheckoutAddress(t) \/ CheckoutTime(t) \/ CheckoutContact(t) \/ AskPayment(t)
         \/ CheckoutPayment(t)
  PROVE  Inv'
<1> USE DEF Inv, Kinds, shop
<1>1. CASE LoadUser(t)
  <2>1. job' \in [Tasks -> Jobs] /\ pc' \in [Tasks -> Phases]
    BY <1>1 DEF LoadUser, Go, Jobs, Phases
  <2>2. \A u \in Tasks :
          /\ job'[u].question = job[u].question /\ job'[u].value = job[u].value
          /\ job'[u].data = job[u].data /\ u # t => job'[u].city = job[u].city
    BY <1>1 DEF LoadUser, Jobs
  <2>3. AnswersFit' /\ CitiesFit'
    BY <1>1, <2>2 DEF LoadUser, Go, AnswersFit, CitiesFit
  <2>4. Checked'
    BY <1>1, <2>2 DEF LoadUser, Go, Checked
  <2> QED  BY <1>1, <2>1, <2>3, <2>4 DEF LoadUser
<1>2. CASE CheckoutName(t) \/ CheckoutDelivery(t) \/ CheckoutAddress(t) \/ CheckoutTime(t)
  BY <1>2, AskKeeps, QuestionNames
  DEF CheckoutName, CheckoutDelivery, CheckoutAddress, CheckoutTime
<1>3. CASE RefuseDelivery(t)
  BY <1>3, EndsWell DEF RefuseDelivery
<1>4. CASE CheckoutContact(t) \/ CheckoutPayment(t)
  <2>1. /\ "contact" \in Questions /\ "payment_method" \in Questions
    BY QuestionNames
  <2> QED  BY <1>4, <2>1, AnswerKept, BecomeIsOne, GoesOnWell
           DEF CheckoutContact, CheckoutPayment
<1>5. CASE AskPayment(t)
  <2>1. [fsm EXCEPT !.state = "payment_method"] \in Conversations
    BY QuestionNames DEF Conversations
  <2> QED  BY <1>5, <2>1, BecomeIsOne, EndsWell DEF AskPayment
<1> QED  BY <1>1, <1>2, <1>3, <1>4, <1>5

\* The rewards.
LEMMA NoRewardKept == Inv => Put("reward", None) \in Conversations
<1> QED  BY PutIsOne, QuestionNames DEF Inv, Kinds

LEMMA RewardsKeep ==
  ASSUME Inv, NEW t \in Tasks,
         SkipRewards(t) \/ OfferRewards(t) \/ CheckoutReward(t) \/ RefuseOption(t)
  PROVE  Inv'
<1> USE DEF Inv, Kinds, shop
<1>1. CASE SkipRewards(t)
  BY <1>1, NoRewardKept, BecomeIsOne, GoesOnWell DEF SkipRewards
<1>2. CASE OfferRewards(t)
  <2>1. [fsm EXCEPT !.state = "reward"] \in Conversations
    BY QuestionNames DEF Conversations
  <2> QED  BY <1>2, <2>1, BecomeIsOne, EndsWell DEF OfferRewards
<1>3. CASE CheckoutReward(t)
  <2>1. "reward" \in Questions
    BY QuestionNames
  <2> QED  BY <1>3, <2>1, AnswerKept, BecomeIsOne, GoesOnWell DEF CheckoutReward
<1>4. CASE RefuseOption(t)
  BY <1>4, GoesOnWell DEF RefuseOption
<1> QED  BY <1>1, <1>2, <1>3, <1>4

\* The summary.
LEMMA SummaryKeeps ==
  ASSUME Inv, NEW t \in Tasks,
         Compose(t) \/ NothingToShow(t) \/ DropReward(t) \/ ShowSummary(t)
  PROVE  Inv'
<1> USE DEF Inv, Kinds, shop
<1>1. CASE Compose(t)
  <2> DEFINE s == [data |-> fsm.data, others |-> Others(t)]
  <2>1. s \in Summaries
    BY DEF Summaries, Conversations, Others
  <2>2. /\ job' \in [Tasks -> Jobs]
        /\ \A u \in Tasks : /\ job'[u].question = job[u].question
                            /\ job'[u].value = job[u].value
                            /\ job'[u].city = job[u].city /\ job'[u].data = job[u].data
    BY <1>1, <2>1 DEF Compose, Jobs
  <2>3. TasksFit'
    BY <1>1, <2>2, GoFits DEF Compose
  <2> QED  BY <1>1, <2>3, InvParts DEF Compose, ShopFits, TasksFit
<1>2. CASE NothingToShow(t)
  BY <1>2, ClearedIsOne, BecomeIsOne, LeaveLockIsOne, EndsWell DEF NothingToShow
<1>3. CASE DropReward(t)
  <2>1. fsm' \in Conversations /\ summary' \in Summaries
    BY <1>3, NoRewardKept, BecomeIsOne DEF DropReward
  <2> DEFINE d == [job[t].summary.data EXCEPT !["reward"] = None]
             s == [job[t].summary EXCEPT !.data = d]
  <2>2. d \in Kept
    BY PutKeeps, QuestionNames DEF Jobs, Summaries
  <2>3. s \in Summaries
    BY <2>2 DEF Jobs, Summaries
  <2>4. job' = [job EXCEPT ![t] = [job[t] EXCEPT !.summary = s]]
    BY <1>3 DEF DropReward, Jobs, Summaries
  <2>5. /\ job' \in [Tasks -> Jobs]
        /\ \A u \in Tasks : /\ job'[u].question = job[u].question
                            /\ job'[u].value = job[u].value
                            /\ job'[u].city = job[u].city /\ job'[u].data = job[u].data
    BY <2>3, <2>4 DEF Jobs
  <2>6. pc' = pc
    BY <1>3 DEF DropReward
  <2>7. AnswersFit' /\ CitiesFit'
    BY <2>5, <2>6 DEF AnswersFit, CitiesFit
  <2>8. Checked'
    BY <2>5, <2>6 DEF Checked
  <2> QED  BY <1>3, <2>1, <2>5, <2>7, <2>8 DEF DropReward
<1>4. CASE ShowSummary(t)
  <2>1. fsm' \in Conversations /\ summary' \in Summaries
    BY <1>4 DEF ShowSummary, Conversations, Jobs
  <2> QED  BY <1>4, <2>1, LeaveLockIsOne, EndsWell DEF ShowSummary
<1> QED  BY <1>1, <1>2, <1>3, <1>4

\* Confirm: what is let in, what is refused, and the order.
LEMMA ConfirmKeeps ==
  ASSUME Inv, NEW t \in Tasks,
         \/ EnterConfirm(t) \/ Submit(t) \/ Incomplete(t) \/ PlaceOrder(t)
         \/ CloseCheckout(t) \/ RefuseReward(t) \/ FailOrder(t)
  PROVE  Inv'
<1> USE DEF Inv, Kinds, shop
<1>1. CASE EnterConfirm(t) /\ (fsm.submitted \/ fsm.state # "confirmation")
  BY <1>1, EndsWell DEF EnterConfirm
<1>2. CASE EnterConfirm(t) /\ ~(fsm.submitted \/ fsm.state # "confirmation")
  <2>1. pc' = [pc EXCEPT ![t] = "checking"] /\ job' = [job EXCEPT ![t].data = fsm.data]
    BY <1>2 DEF EnterConfirm, Go
  <2>2. fsm.data \in Kept
    BY DEF Conversations
  <2>3. /\ job' \in [Tasks -> Jobs]
        /\ \A u \in Tasks : /\ job'[u].question = job[u].question
                            /\ job'[u].value = job[u].value /\ job'[u].city = job[u].city
                            /\ u # t => job'[u].data = job[u].data
    BY <2>1, <2>2 DEF Jobs
  <2>4. pc' \in [Tasks -> Phases] /\ AnswersFit' /\ CitiesFit'
    BY <2>1, <2>3 DEF Phases, AnswersFit, CitiesFit
  <2>5. Checked'
    BY <2>1, <2>3 DEF Checked
  <2> QED  BY <1>2, <2>3, <2>4, <2>5 DEF EnterConfirm
<1>3. CASE Submit(t)
  <2>1. [fsm EXCEPT !.submitted = TRUE] \in Conversations
    BY DEF Conversations
  <2>2. fsm' \in Conversations /\ summary' \in Summaries
    BY <1>3, <2>1, BecomeIsOne DEF Submit
  <2>3. pc' = [pc EXCEPT ![t] = "place"] /\ job' = [job EXCEPT ![t].city = city]
    BY <1>3 DEF Submit, Go
  <2>4. /\ job' \in [Tasks -> Jobs]
        /\ \A u \in Tasks : /\ job'[u].question = job[u].question
                            /\ job'[u].value = job[u].value /\ job'[u].data = job[u].data
                            /\ u # t => job'[u].city = job[u].city
    BY <2>3 DEF Jobs
  <2>5. pc' \in [Tasks -> Phases] /\ AnswersFit' /\ CitiesFit'
    BY <2>3, <2>4 DEF Phases, AnswersFit, CitiesFit
  <2>6. \A q \in Required : job[t].data[q] # None
    BY <1>3 DEF Submit
  <2>7. Checked'
    BY <2>3, <2>4, <2>6 DEF Checked
  <2> QED  BY <1>3, <2>2, <2>4, <2>5, <2>7 DEF Submit
<1>4. CASE Incomplete(t)
  BY <1>4, ClearedIsOne, BecomeIsOne, LeaveLockIsOne, EndsWell DEF Incomplete
<1>5. CASE PlaceOrder(t)
  <2>1. pc' \in [Tasks -> Phases] /\ AnswersFit' /\ CitiesFit'
    BY <1>5 DEF PlaceOrder, Go, Phases, AnswersFit, CitiesFit
  <2>2. Checked'
    BY <1>5 DEF PlaceOrder, Go, Checked
  <2> QED  BY <1>5, <2>1, <2>2 DEF PlaceOrder
<1>6. CASE CloseCheckout(t)
  BY <1>6, ClearedIsOne, BecomeIsOne, LeaveLockIsOne, EndsWell DEF CloseCheckout
<1>7. CASE RefuseReward(t)
  <2>1. [Put("reward", None) EXCEPT !.submitted = FALSE] \in Conversations
    BY NoRewardKept DEF Conversations
  <2> QED  BY <1>7, <2>1, BecomeIsOne, GoesOnWell DEF RefuseReward
<1>8. CASE FailOrder(t)
  <2>1. [fsm EXCEPT !.submitted = FALSE] \in Conversations
    BY DEF Conversations
  <2> QED  BY <1>8, <2>1, BecomeIsOne, LeaveLockIsOne, EndsWell DEF FailOrder
<1> QED  BY <1>1, <1>2, <1>3, <1>4, <1>5, <1>6, <1>7, <1>8

LEMMA RestartKeeps == Inv /\ Restart => Inv'
<1> SUFFICES ASSUME Inv, Restart  PROVE Inv'
  OBVIOUS
<1> USE DEF Inv, Kinds, shop
<1>1. fsm' \in Conversations /\ summary' \in Summaries
  BY ClearedIsOne, BecomeIsOne DEF Restart
<1>2. pc' \in [Tasks -> Phases] /\ job' \in [Tasks -> Jobs] /\ keyed' \in Tasks \cup {None}
  BY ClearedIsOne DEF Restart, Phases
<1>3. AnswersFit' /\ CitiesFit' /\ Checked'
  BY DEF Restart, AnswersFit, CitiesFit, Checked
<1> QED  BY <1>1, <1>2, <1>3 DEF Restart

LEMMA StartFits == Init => Inv
<1> SUFFICES ASSUME Init  PROVE Inv
  OBVIOUS
<1>1. Kinds
  BY ClearedIsOne DEF Init, Kinds, Phases
<1>2. AnswersFit /\ CitiesFit /\ Checked
  BY DEF Init, AnswersFit, CitiesFit, Checked
<1> QED  BY <1>1, <1>2 DEF Inv

LEMMA StepKeeps == Inv /\ [Next]_vars => Inv'
<1> SUFFICES ASSUME Inv, [Next]_vars  PROVE Inv'
  OBVIOUS
<1>1. CASE FillCart \/ EmptyCart
  BY <1>1 DEF FillCart, EmptyCart, Inv, Kinds, AnswersFit, CitiesFit, Checked
<1>2. CASE Restart
  BY <1>2, RestartKeeps
<1>3. ASSUME NEW t \in Tasks, Arrive(t)  PROVE Inv'
  BY <1>3, ArriveKeeps
<1>4. ASSUME NEW t \in Tasks, Handle(t)  PROVE Inv'
  BY <1>4, EntryKeeps, QuestionsKeep, RewardsKeep, SummaryKeeps, ConfirmKeeps DEF Handle
<1>5. ASSUME NEW t \in Tasks, Abort(t)  PROVE Inv'
  BY <1>5, LeaveLockIsOne, EndsWell DEF Abort, Inv, Kinds, shop
<1>6. CASE UNCHANGED vars
  BY <1>6 DEF vars, shop, Inv, Kinds, AnswersFit, CitiesFit, Checked
<1> QED  BY <1>1, <1>2, <1>3, <1>4, <1>5, <1>6 DEF Next

THEOREM InvHolds == Spec => []Inv
<1> QED  BY StartFits, StepKeeps, PTL DEF Spec

\* Every conversation, summary and task is of its kind, and every answer that is
\* kept answers its own question, however many updates are under way.
THEOREM FormTyped == Spec => []TypeOK
<1>1. Inv => TypeOK
  BY QuestionNames
  DEF Inv, Kinds, TypeOK, Conversations, Summaries, Kept, Data, Values
<1> QED  BY <1>1, InvHolds, PTL

\* No order lacks a required answer or has a delivery its city does not, whatever
\* answers come in late, twice or after the conversation was begun anew.
THEOREM OrdersCompleteHolds == Spec => []OrdersComplete
<1>1. Inv => OrdersComplete
  <2> SUFFICES ASSUME Inv, NEW t \in Ordering  PROVE
        /\ \A q \in Required : job[t].data[q] \in Answers[q]
        /\ Allowed(job[t].city, job[t].data["delivery_type"])
    BY DEF OrdersComplete
  <2>1. t \in Tasks /\ pc[t] = "placed" /\ job[t].data \in Kept
    BY DEF Ordering, Inv, Kinds, Jobs
  <2> QED  BY <2>1 DEF Inv, Checked, Kept, Required
<1> QED  BY <1>1, InvHolds, PTL

----------------------------------------------------------------------------
\* An order and its summary.

\* What may be ordered on a summary: all of it, or all but the reward.
Like(d) == {d, [d EXCEPT !["reward"] = None]}

\* Where a task has nothing more to write into the answers.
Quiet == {"idle", "starting", "leaving", "city", "saving",
          "confirm", "checking", "place", "placed"}
Confirming == {"checking", "place", "placed"}
WithSummary(t) == pc[t] \in Quiet \/ (pc[t] \in {"compose", "show"} /\ keyed = t)
Alone(t) == \A u \in Tasks \ {t} : pc[u] = "idle"

\* Confirm's handler has the lock for as long as it holds the data.
Locked == \A t \in Tasks : pc[t] \in Confirming => keyed = t

\* A summary that overlapped nothing is what the answers still are, and nobody
\* who could change them is under way, but for Confirm's own new summary.
SummaryCurrent ==
  fsm.state = "confirmation" /\ summary.others = {} =>
    /\ fsm.data \in Like(summary.data)
    /\ \A t \in Tasks : WithSummary(t)

\* So is a summary being made, and one that waits to be confirmed; and one that
\* is being confirmed is what the data were.
HeldCurrent ==
  \A t \in Tasks :
    job[t].summary.others = {} =>
      /\ pc[t] = "show" => Alone(t) /\ fsm.data = job[t].summary.data
      /\ pc[t] = "confirm" => Alone(t) /\ fsm.data \in Like(job[t].summary.data)
      /\ pc[t] \in Confirming => job[t].data \in Like(job[t].summary.data)

SeenInv == Locked /\ SummaryCurrent /\ HeldCurrent

\* Dropping the reward stays within what may be ordered.
LEMMA LikeDropped ==
  ASSUME NEW d \in Kept, NEW e \in Like(d)
  PROVE  [e EXCEPT !["reward"] = None] \in Like(d)
<1> QED  BY DEF Like, Kept

\* A handler is one task's: what the others do and hold stays.
LEMMA OwnStep ==
  ASSUME Inv, NEW t \in Tasks, Handle(t) \/ Abort(t)
  PROVE  /\ pc[t] # "idle"
         /\ \A u \in Tasks \ {t} : pc'[u] = pc[u] /\ job'[u] = job[u]
<1> USE DEF Inv, Kinds, Go, Done
<1>1. CASE StartCheckout(t) \/ Leave(t) \/ ChooseCity(t) \/ CommitCity(t) \/ LoadUser(t)
  BY <1>1 DEF StartCheckout, Leave, ChooseCity, CommitCity, LoadUser
<1>2. CASE \/ CheckoutName(t) \/ CheckoutDelivery(t) \/ RefuseDelivery(t)
           \/ CheckoutAddress(t) \/ CheckoutTime(t)
  BY <1>2 DEF CheckoutName, CheckoutDelivery, RefuseDelivery, CheckoutAddress,
              CheckoutTime, Ask, At
<1>3. CASE \/ CheckoutContact(t) \/ AskPayment(t) \/ CheckoutPayment(t) \/ SkipRewards(t)
           \/ OfferRewards(t) \/ CheckoutReward(t) \/ RefuseOption(t)
  BY <1>3 DEF CheckoutContact, AskPayment, CheckoutPayment, SkipRewards, OfferRewards,
              CheckoutReward, RefuseOption, At
<1>4. CASE Compose(t) \/ NothingToShow(t) \/ DropReward(t) \/ ShowSummary(t)
  BY <1>4 DEF Compose, NothingToShow, DropReward, ShowSummary
<1>5. CASE \/ EnterConfirm(t) \/ Submit(t) \/ Incomplete(t) \/ PlaceOrder(t)
           \/ CloseCheckout(t) \/ RefuseReward(t) \/ FailOrder(t)
  BY <1>5 DEF EnterConfirm, Submit, Incomplete, PlaceOrder, CloseCheckout, RefuseReward,
              FailOrder
<1>6. CASE Abort(t)
  BY <1>6 DEF Abort
<1> QED  BY <1>1, <1>2, <1>3, <1>4, <1>5, <1>6 DEF Handle

\* Who is confirming has the lock.
LEMMA LockedKept ==
  ASSUME Inv, Locked, NEW t \in Tasks, Handle(t) \/ Abort(t)
  PROVE  Locked'
<1> USE DEF Inv, Kinds, Locked, Confirming
<1>1. keyed' = keyed \/ (keyed = t /\ keyed' = None) \/ (keyed = None /\ keyed' = t)
  BY DEF Handle, StartCheckout, Leave, ChooseCity, CommitCity, LoadUser, CheckoutName,
     CheckoutDelivery, RefuseDelivery, CheckoutAddress, CheckoutTime, Ask, CheckoutContact,
     AskPayment, CheckoutPayment, SkipRewards, OfferRewards, CheckoutReward, RefuseOption,
     Compose, NothingToShow, DropReward, ShowSummary, EnterConfirm, Submit, Incomplete,
     PlaceOrder, CloseCheckout, RefuseReward, FailOrder, Abort, LeaveLock
<1>2. pc'[t] \in Confirming => keyed' = t
  <2>1. CASE \/ StartCheckout(t) \/ Leave(t) \/ ChooseCity(t) \/ CommitCity(t) \/ LoadUser(t)
             \/ CheckoutName(t) \/ CheckoutDelivery(t) \/ RefuseDelivery(t)
             \/ CheckoutAddress(t) \/ CheckoutTime(t) \/ CheckoutContact(t) \/ AskPayment(t)
             \/ CheckoutPayment(t) \/ SkipRewards(t) \/ OfferRewards(t)
             \/ CheckoutReward(t) \/ RefuseOption(t)
    BY <2>1 DEF StartCheckout, Leave, ChooseCity, CommitCity, LoadUser, CheckoutName,
       CheckoutDelivery, RefuseDelivery, CheckoutAddress, CheckoutTime, Ask,
       CheckoutContact, AskPayment, CheckoutPayment, SkipRewards, OfferRewards,
       CheckoutReward, RefuseOption, Go, Done
  <2>2. CASE \/ Compose(t) \/ NothingToShow(t) \/ DropReward(t) \/ ShowSummary(t)
             \/ EnterConfirm(t) \/ Submit(t) \/ Incomplete(t) \/ PlaceOrder(t)
             \/ CloseCheckout(t) \/ RefuseReward(t) \/ FailOrder(t) \/ Abort(t)
    BY <2>2 DEF Compose, NothingToShow, DropReward, ShowSummary, EnterConfirm, Submit,
       Incomplete, PlaceOrder, CloseCheckout, RefuseReward, FailOrder, Abort, Go, Done
  <2> QED  BY <2>1, <2>2 DEF Handle
<1>3. \A u \in Tasks \ {t} : pc'[u] = pc[u]
  BY OwnStep
<1> QED  BY <1>1, <1>2, <1>3, OrderFormAssumption

\* Handlers that end, or go where no summary is held.
LEMMA LetGo ==
  ASSUME Inv, NEW t \in Tasks,
         \/ Done(t)
         \/ \E phase \in {"saving", "answered", "asking", "offer", "compose"} : Go(t, phase)
  PROVE  pc'[t] \notin {"show", "confirm"} \cup Confirming
<1> QED  BY DEF Done, Go, Inv, Kinds, Confirming

\* The summaries that are held, over a handler's step.
LEMMA HeldKept ==
  ASSUME Inv, SeenInv, NEW t \in Tasks, Handle(t) \/ Abort(t)
  PROVE  HeldCurrent'
<1> DEFINE Holds(u) ==
      job[u].summary.others = {} =>
        /\ pc[u] = "show" => Alone(u) /\ fsm.data = job[u].summary.data
        /\ pc[u] = "confirm" => Alone(u) /\ fsm.data \in Like(job[u].summary.data)
        /\ pc[u] \in Confirming => job[u].data \in Like(job[u].summary.data)
<1>1. ASSUME NEW u \in Tasks \ {t}  PROVE Holds(u)'
  <2>1. pc[t] # "idle" /\ pc'[u] = pc[u] /\ job'[u] = job[u]
    BY OwnStep
  <2>2. Holds(u)
    BY DEF SeenInv, HeldCurrent
  <2>3. job[u].summary.others = {} => pc[u] \notin {"show", "confirm"}
    BY <2>1, <2>2 DEF Alone
  <2> QED  BY <2>1, <2>2, <2>3 DEF Like, Confirming
<1>2. CASE pc'[t] \notin {"show", "confirm"} \cup Confirming
  <2>1. Holds(t)'
    BY <1>2
  <2> QED  BY <1>1, <2>1 DEF HeldCurrent
<1> USE DEF Inv, Kinds
<1>3. CASE Compose(t)
  <2>1. /\ job'[t].summary = [data |-> fsm.data, others |-> Others(t)]
        /\ pc'[t] = "show" /\ fsm' = fsm /\ \A u \in Tasks \ {t} : pc'[u] = pc[u]
    BY <1>3 DEF Compose, Go, Jobs
  <2>2. Others(t) = {} => Alone(t)
    BY DEF Others, Alone
  <2>3. Holds(t)'
    BY <2>1, <2>2 DEF Alone, Confirming
  <2> QED  BY <1>1, <2>3 DEF HeldCurrent
<1>4. CASE DropReward(t)
  <2> DEFINE d == job[t].summary.data
  <2>1. /\ job'[t].summary.data = [d EXCEPT !["reward"] = None]
        /\ job'[t].summary.others = job[t].summary.others
        /\ pc' = pc /\ pc[t] = "show"
        /\ fsm'.data = [fsm.data EXCEPT !["reward"] = None]
    BY <1>4 DEF DropReward, Become, Put, Jobs, Summaries, Conversations
  <2>2. Holds(t)
    BY DEF SeenInv, HeldCurrent
  <2>3. Holds(t)'
    BY <2>1, <2>2 DEF Alone, Confirming
  <2> QED  BY <1>1, <2>3 DEF HeldCurrent
<1>5. CASE EnterConfirm(t)
  <2>1. CASE fsm.submitted \/ fsm.state # "confirmation"
    BY <1>2, <1>5, <2>1, LetGo DEF EnterConfirm
  <2>2. CASE ~(fsm.submitted \/ fsm.state # "confirmation")
    <3>1. /\ job'[t].data = fsm.data /\ job'[t].summary = job[t].summary
          /\ pc'[t] = "checking" /\ pc[t] = "confirm"
      BY <1>5, <2>2 DEF EnterConfirm, Go, Jobs
    <3>2. Holds(t)
      BY DEF SeenInv, HeldCurrent
    <3>3. Holds(t)'
      BY <3>1, <3>2 DEF Confirming, Like
    <3> QED  BY <1>1, <3>3 DEF HeldCurrent
  <2> QED  BY <2>1, <2>2
<1>6. CASE Submit(t) \/ PlaceOrder(t)
  <2>1. /\ job'[t].data = job[t].data /\ job'[t].summary = job[t].summary
        /\ pc'[t] \in {"place", "placed"} /\ pc[t] \in Confirming
    BY <1>6 DEF Submit, PlaceOrder, Go, Jobs, Confirming
  <2>2. Holds(t)
    BY DEF SeenInv, HeldCurrent
  <2>3. Holds(t)'
    BY <2>1, <2>2 DEF Confirming, Like
  <2> QED  BY <1>1, <2>3 DEF HeldCurrent
<1>7. CASE \/ StartCheckout(t) \/ Leave(t) \/ ChooseCity(t) \/ CommitCity(t) \/ LoadUser(t)
           \/ CheckoutName(t) \/ CheckoutDelivery(t) \/ RefuseDelivery(t)
           \/ CheckoutAddress(t) \/ CheckoutTime(t)
  BY <1>2, <1>7, LetGo
  DEF StartCheckout, Leave, ChooseCity, CommitCity, LoadUser, CheckoutName, CheckoutDelivery,
      RefuseDelivery, CheckoutAddress, CheckoutTime, Ask
<1>8. CASE \/ CheckoutContact(t) \/ AskPayment(t) \/ CheckoutPayment(t) \/ SkipRewards(t)
           \/ OfferRewards(t) \/ CheckoutReward(t) \/ RefuseOption(t)
           \/ NothingToShow(t) \/ ShowSummary(t) \/ Incomplete(t) \/ CloseCheckout(t)
           \/ RefuseReward(t) \/ FailOrder(t) \/ Abort(t)
  BY <1>2, <1>8, LetGo
  DEF CheckoutContact, AskPayment, CheckoutPayment, SkipRewards, OfferRewards, CheckoutReward,
      RefuseOption, NothingToShow, ShowSummary, Incomplete, CloseCheckout, RefuseReward,
      FailOrder, Abort
<1> QED  BY <1>3, <1>4, <1>5, <1>6, <1>7, <1>8 DEF Handle

\* A task that may still write answers does not run beside a current summary.
LEMMA NoLateWriter ==
  ASSUME SummaryCurrent, fsm.state = "confirmation", summary.others = {}, NEW t \in Tasks
  PROVE  pc[t] \notin {"middleware", "answered", "asking", "offer"}
<1> QED  BY DEF SummaryCurrent, WithSummary, Quiet

\* The summary that can be confirmed, over a handler's step.
LEMMA SummaryKept ==
  ASSUME Inv, SeenInv, NEW t \in Tasks, Handle(t) \/ Abort(t)
  PROVE  SummaryCurrent'
<1> USE DEF Inv, Kinds
<1>1. SUFFICES ASSUME fsm'.state = "confirmation", summary'.others = {}
               PROVE  /\ fsm'.data \in Like(summary'.data)
                      /\ \A u \in Tasks : WithSummary(u)'
  BY DEF SummaryCurrent, Like
<1>2. \A u \in Tasks \ {t} : pc'[u] = pc[u]
  BY OwnStep
<1>3. CASE ShowSummary(t)
  <2>1. /\ pc[t] = "show" /\ pc'[t] = "idle" /\ fsm'.data = fsm.data
        /\ summary' = job[t].summary
    BY <1>3 DEF ShowSummary, Done, Go, Conversations
  <2>2. Alone(t) /\ fsm.data = summary'.data
    BY <1>1, <2>1 DEF SeenInv, HeldCurrent
  <2> QED  BY <1>2, <2>1, <2>2 DEF Alone, WithSummary, Quiet, Like
<1>4. CASE \/ StartCheckout(t) \/ Leave(t) \/ ChooseCity(t) \/ CheckoutName(t)
           \/ CheckoutDelivery(t) \/ CheckoutAddress(t) \/ CheckoutTime(t) \/ AskPayment(t)
           \/ OfferRewards(t) \/ NothingToShow(t) \/ Incomplete(t) \/ CloseCheckout(t)
  <2>1. Cleared.state # "confirmation"
    BY OrderFormAssumption DEF Cleared
  <2>2. \A q \in Questions : \A v, next : PutAndAsk(q, v, next).state = next
    BY DEF PutAndAsk, Put, Conversations
  <2>3. fsm'.state # "confirmation"
    BY <1>4, <2>1, <2>2, QuestionNames
    DEF StartCheckout, Leave, ChooseCity, CheckoutName, CheckoutDelivery, CheckoutAddress,
        CheckoutTime, Ask, AskPayment, OfferRewards, NothingToShow, Incomplete, CloseCheckout,
        Become, Cleared, Conversations
  <2> QED  BY <1>1, <2>3
\* From here on the summary was there before.
<1>5. ASSUME fsm'.state = fsm.state, summary' = summary, fsm'.data \in Like(summary.data),
             WithSummary(t)',
             keyed' = keyed \/ keyed' = None \/ keyed' = t, keyed \in {None, t} \/ keyed' = keyed
      PROVE  \A u \in Tasks : WithSummary(u)'
  <2>1. \A u \in Tasks : WithSummary(u)
    BY <1>1, <1>5 DEF SeenInv, SummaryCurrent
  <2> QED  BY <1>2, <1>5, <2>1, OrderFormAssumption DEF WithSummary
<1>6. fsm'.state = fsm.state /\ summary' = summary =>
        /\ fsm.data \in Like(summary.data)
        /\ pc[t] \notin {"middleware", "answered", "asking", "offer"}
        /\ pc[t] \in {"compose", "show"} => keyed = t
  BY <1>1, NoLateWriter DEF SeenInv, SummaryCurrent, WithSummary, Quiet
<1>7. CASE \/ LoadUser(t) \/ RefuseDelivery(t) \/ CheckoutContact(t) \/ CheckoutPayment(t)
           \/ SkipRewards(t) \/ CheckoutReward(t) \/ RefuseOption(t)
  <2>1. fsm'.state = fsm.state /\ summary' = summary
    BY <1>1, <1>7 DEF LoadUser, RefuseDelivery, CheckoutContact, CheckoutPayment, SkipRewards,
       CheckoutReward, RefuseOption, Become, Put, Conversations
  <2> QED  BY <1>6, <1>7, <2>1 DEF LoadUser, RefuseDelivery, CheckoutContact, CheckoutPayment,
           SkipRewards, CheckoutReward, RefuseOption, At
<1>8. CASE CommitCity(t) \/ Compose(t) \/ EnterConfirm(t) \/ PlaceOrder(t) \/ Abort(t)
  <2>1. fsm' = fsm /\ summary' = summary
    BY <1>8 DEF CommitCity, Compose, EnterConfirm, PlaceOrder, Abort
  <2>2. /\ WithSummary(t)'
        /\ keyed' = keyed \/ keyed' = None \/ keyed' = t
        /\ keyed \in {None, t} \/ keyed' = keyed
    BY <1>6, <1>8, <2>1
    DEF CommitCity, Compose, EnterConfirm, PlaceOrder, Abort, Go, Done, LeaveLock, WithSummary, Quiet
  <2> QED  BY <1>5, <1>6, <2>1, <2>2
<1>9. CASE Submit(t) \/ FailOrder(t)
  <2>1. fsm'.state = fsm.state /\ fsm'.data = fsm.data /\ summary' = summary
    BY <1>1, <1>9 DEF Submit, FailOrder, Become, Conversations
  <2>2. /\ WithSummary(t)'
        /\ keyed' = keyed \/ keyed' = None \/ keyed' = t
        /\ keyed \in {None, t} \/ keyed' = keyed
    BY <1>9 DEF Submit, FailOrder, Go, Done, LeaveLock, WithSummary, Quiet
  <2> QED  BY <1>5, <1>6, <2>1, <2>2
<1>10. CASE DropReward(t) \/ RefuseReward(t)
  <2>1. /\ fsm'.state = fsm.state /\ summary' = summary
        /\ fsm'.data = [fsm.data EXCEPT !["reward"] = None]
    BY <1>1, <1>10 DEF DropReward, RefuseReward, Become, Put, Conversations
  <2>2. keyed = t
    BY <1>6, <1>10, <2>1 DEF DropReward, RefuseReward, SeenInv, Locked, Confirming
  <2>3. pc'[t] \in {"compose", "show"} /\ keyed' = keyed
    BY <1>10 DEF DropReward, RefuseReward, Go
  <2>4. fsm'.data \in Like(summary.data)
    BY <1>6, <2>1, LikeDropped DEF Summaries
  <2> QED  BY <1>5, <2>1, <2>2, <2>3, <2>4 DEF WithSummary
<1> QED  BY <1>3, <1>4, <1>7, <1>8, <1>9, <1>10 DEF Handle

\* Who arrives was idle, and every summary being made or let in is told.
LEMMA ArrivalTold ==
  ASSUME Inv, NEW t \in Tasks, Arrive(t)
  PROVE  /\ pc[t] = "idle" /\ UNCHANGED <<fsm, summary, keyed>>
         /\ pc'[t] \in {"starting", "leaving", "city", "middleware", "answered", "confirm"}
         /\ pc'[t] \in {"middleware", "answered"} => fsm.state # "confirmation"
         /\ \A u \in Tasks \ {t} :
              /\ pc'[u] = pc[u] /\ job'[u].data = job[u].data
              /\ pc[u] \in {"show", "confirm"} => job'[u].summary.others # {}
              /\ pc[u] \notin {"show", "confirm"} => job'[u].summary = job[u].summary
<1> USE DEF Inv, Kinds
<1>1. /\ pc[t] = "idle" /\ UNCHANGED <<fsm, summary, keyed>>
      /\ \E phase \in {"starting", "leaving", "city", "middleware", "answered", "confirm"} :
           /\ pc' = [pc EXCEPT ![t] = phase]
           /\ phase \in {"middleware", "answered"} => fsm.state # "confirmation"
  BY QuestionNames
  DEF Arrive, TapCheckout, TapMenu, TapCancel, Tap, TapConfirm, TapCity, Answer, Go
<1>2. PICK j \in [Tasks -> Jobs] :
        job' = Arrived(t, j) /\ \A u \in Tasks \ {t} : j[u] = job[u]
  <2>1. CASE TapCheckout(t) \/ TapMenu(t) \/ TapCancel(t)
    BY <2>1 DEF TapCheckout, TapMenu, TapCancel, Tap
  <2>2. CASE TapConfirm(t)
    <3> DEFINE s == [data |-> summary.data, others |-> summary.others \cup Others(t)]
    <3>1. s \in Summaries
      BY DEF Summaries, Others
    <3>2. [job EXCEPT ![t].summary = s] \in [Tasks -> Jobs]
      BY <3>1 DEF Jobs
    <3> QED  BY <2>2, <3>2 DEF TapConfirm
  <2>3. ASSUME NEW c \in Cities, TapCity(t, c)
        PROVE  \E j \in [Tasks -> Jobs] :
                 job' = Arrived(t, j) /\ \A u \in Tasks \ {t} : j[u] = job[u]
    <3>1. [job EXCEPT ![t].city = c] \in [Tasks -> Jobs]
      BY DEF Jobs
    <3> QED  BY <2>3, <3>1 DEF TapCity
  <2>4. ASSUME NEW q \in Questions, NEW v, Answer(t, q, v)
        PROVE  \E j \in [Tasks -> Jobs] :
                 job' = Arrived(t, j) /\ \A u \in Tasks \ {t} : j[u] = job[u]
    <3>1. v \in Values
      BY <2>4, QuestionNames DEF Answer
    <3>2. [job EXCEPT ![t].question = q, ![t].value = v] \in [Tasks -> Jobs]
      BY <3>1 DEF Jobs
    <3> QED  BY <2>4, <3>2 DEF Answer
  <2> QED  BY <2>1, <2>2, <2>3, <2>4 DEF Arrive
<1>3. ASSUME NEW u \in Tasks \ {t}
      PROVE  /\ job'[u].data = job[u].data
             /\ pc[u] \in {"show", "confirm"} => job'[u].summary.others # {}
             /\ pc[u] \notin {"show", "confirm"} => job'[u].summary = job[u].summary
  <2>1. job'[u].data = job[u].data
    BY <1>2, ArrivedFits
  <2>2. CASE pc[u] \in {"show", "confirm"}
    <3>1. job'[u] = [job[u] EXCEPT !.summary.others = @ \cup {t}]
      BY <1>2, <2>2 DEF Arrived
    <3>2. job[u] \in Jobs /\ job[u].summary \in Summaries
      BY DEF Jobs
    <3>3. job'[u].summary.others = job[u].summary.others \cup {t}
      BY <3>1, <3>2 DEF Jobs, Summaries
    <3> QED  BY <2>1, <2>2, <3>3
  <2>3. CASE pc[u] \notin {"show", "confirm"}
    BY <1>2, <2>1, <2>3 DEF Arrived
  <2> QED  BY <2>2, <2>3
<1> QED  BY <1>1, <1>3

\* What Confirm was tapped on is what could be confirmed.
LEMMA TappedSummary ==
  ASSUME Inv, NEW t \in Tasks, Arrive(t), pc'[t] = "confirm"
  PROVE  /\ fsm.state = "confirmation" /\ job'[t].summary.data = summary.data
         /\ job'[t].summary.others = summary.others \cup Others(t)
<1> USE DEF Inv, Kinds
<1>1. TapConfirm(t)
  BY DEF Arrive, TapCheckout, TapMenu, TapCancel, Tap, TapCity, Answer, Go
<1> DEFINE s == [data |-> summary.data, others |-> summary.others \cup Others(t)]
<1>2. job' = Arrived(t, [job EXCEPT ![t].summary = s]) /\ pc[t] = "idle"
  BY <1>1 DEF TapConfirm
<1>3. job'[t] = [job EXCEPT ![t].summary = s][t]
  BY <1>2 DEF Arrived
<1>4. job'[t].summary = s
  BY <1>3 DEF Jobs
<1>5. s.data = summary.data /\ s.others = summary.others \cup Others(t)
  OBVIOUS
<1>6. fsm.state = "confirmation"
  BY <1>1 DEF TapConfirm
<1> HIDE DEF s
<1> QED  BY <1>4, <1>5, <1>6

LEMMA ArrivalSeen ==
  ASSUME Inv, SeenInv, NEW t \in Tasks, Arrive(t)
  PROVE  SeenInv'
<1> USE ArrivalTold DEF Inv, Kinds
<1>1. Locked'
  BY DEF SeenInv, Locked, Confirming
<1>2. SummaryCurrent'
  <2> SUFFICES ASSUME fsm.state = "confirmation", summary.others = {}
               PROVE  fsm.data \in Like(summary.data) /\ \A u \in Tasks : WithSummary(u)'
    BY DEF SummaryCurrent, Like
  <2>1. fsm.data \in Like(summary.data) /\ \A u \in Tasks : WithSummary(u)
    BY DEF SeenInv, SummaryCurrent
  <2>2. WithSummary(t)'
    BY DEF WithSummary, Quiet
  <2>3. \A u \in Tasks \ {t} : WithSummary(u)'
    BY <2>1 DEF WithSummary, Quiet
  <2> QED  BY <2>1, <2>2, <2>3
<1>3. HeldCurrent'
  <2>1. ASSUME NEW u \in Tasks \ {t}, job'[u].summary.others = {}
        PROVE  /\ pc'[u] \notin {"show", "confirm"}
               /\ pc'[u] \in Confirming => job'[u].data \in Like(job'[u].summary.data)
    BY <2>1 DEF SeenInv, HeldCurrent, Like
  <2>2. ASSUME job'[t].summary.others = {}
        PROVE  /\ pc'[t] \notin {"show"} \cup Confirming
               /\ pc'[t] = "confirm" =>
                    Alone(t)' /\ fsm'.data \in Like(job'[t].summary.data)
    <3>1. pc'[t] \notin {"show"} \cup Confirming
      BY DEF Confirming
    <3>2. ASSUME pc'[t] = "confirm"  PROVE Alone(t)' /\ fsm'.data \in Like(job'[t].summary.data)
      <4>1. summary.others = {} /\ Others(t) = {} /\ fsm.state = "confirmation"
            /\ job'[t].summary.data = summary.data
        BY <2>2, <3>2, TappedSummary
      <4>2. Alone(t)'
        BY <4>1 DEF Others, Alone
      <4> QED  BY <4>1, <4>2 DEF SeenInv, SummaryCurrent, Like
    <3> QED  BY <3>1, <3>2
  <2>3. \A u \in Tasks :
          job'[u].summary.others = {} =>
            /\ pc'[u] = "show" => Alone(u)' /\ fsm'.data = job'[u].summary.data
            /\ pc'[u] = "confirm" => Alone(u)' /\ fsm'.data \in Like(job'[u].summary.data)
            /\ pc'[u] \in Confirming => job'[u].data \in Like(job'[u].summary.data)
    BY <2>1, <2>2
  <2> QED  BY <2>3 DEF HeldCurrent, Like
<1> QED  BY <1>1, <1>2, <1>3 DEF SeenInv

LEMMA SeenStep == Inv /\ SeenInv /\ [Next]_vars => SeenInv'
<1> SUFFICES ASSUME Inv, SeenInv, [Next]_vars  PROVE SeenInv'
  OBVIOUS
<1>1. CASE FillCart \/ EmptyCart \/ UNCHANGED vars
  <2>1. UNCHANGED <<fsm, summary, keyed, pc, job>>
    BY <1>1 DEF FillCart, EmptyCart, vars, shop
  <2>2. Locked' /\ SummaryCurrent' /\ HeldCurrent'
    BY <2>1 DEF SeenInv, Locked, SummaryCurrent, HeldCurrent, WithSummary, Alone, Like
  <2> QED  BY <2>2 DEF SeenInv
<1>2. CASE Restart
  <2>1. /\ \A t \in Tasks : pc'[t] = "idle"
        /\ fsm'.state # "confirmation"
    BY <1>2, OrderFormAssumption DEF Restart, Become, Cleared
  <2> QED  BY <2>1 DEF SeenInv, Locked, SummaryCurrent, HeldCurrent, Confirming
<1>3. ASSUME NEW t \in Tasks, Arrive(t)  PROVE SeenInv'
  BY <1>3, ArrivalSeen
<1>4. ASSUME NEW t \in Tasks, Handle(t) \/ Abort(t)  PROVE SeenInv'
  <2>1. Locked'
    BY <1>4, LockedKept DEF SeenInv
  <2>2. SummaryCurrent' /\ HeldCurrent'
    BY <1>4, SummaryKept, HeldKept
  <2> QED  BY <2>1, <2>2 DEF SeenInv
<1> QED  BY <1>1, <1>2, <1>3, <1>4 DEF Next

\* An order is what the summary said that was confirmed, but for a refused reward,
\* whenever no other update of the customer overlapped that summary or its Confirm.
THEOREM OrderAsSeen == Spec => []DiffersOnlyByOverlap
<1>1. Init => SeenInv
  BY OrderFormAssumption
  DEF Init, SeenInv, Locked, SummaryCurrent, HeldCurrent, Confirming, Cleared
<1>2. SeenInv => DiffersOnlyByOverlap
  BY DEF SeenInv, HeldCurrent, DiffersOnlyByOverlap, Ordering, Confirming, Like
<1> QED  BY <1>1, <1>2, SeenStep, InvHolds, PTL DEF Spec
=============================================================================
