--------------------------- MODULE AdminWizards ---------------------------
(***************************************************************************)
(* The two conversations of an operator whose confirmation cannot be taken *)
(* back: crediting stamps by hand (handlers/admin/loyalty.py, services/    *)
(* admin/loyalty.py) and the broadcast (handlers/admin/broadcast.py,       *)
(* services/broadcast.py).  They share the operator's one FSM state, and   *)
(* both confirm through confirm_once under a keyed_lock (utils/confirm.py).*)
(*                                                                         *)
(* A task handles one update.  The state filter is read when the update is *)
(* dispatched; what the handler does after its first await can meet a      *)
(* conversation that has moved on.  FSM state lives in memory: reading and *)
(* writing it does not suspend, and a restart loses it, with every task,   *)
(* while the buttons already in the chat stay there.                       *)
(***************************************************************************)
EXTENDS KeyedLock

CONSTANTS
  Customers,   \* all of them are broadcast to
  Named,       \* bound: the customers stamps are credited to
  Amounts,     \* 1..loyalty_admin_max_stamp_adjustment
  Screens,     \* operation ids of confirmations, contents of broadcasts; bound
  MaxRetries,  \* _MAX_RATE_LIMIT_RETRIES
  MaxRestarts  \* bound

ASSUME WizardsAssumption ==
  /\ None \notin Customers \cup Screens
  /\ Named \subseteq Customers
  /\ {"stamps", "broadcast"} \subseteq Keys
  /\ Amounts \subseteq Nat /\ MaxRetries \in Nat /\ MaxRestarts \in Nat

VARIABLES
  fsm,       \* the operator's FSM state and data
  shown,     \* confirmation screens and previews in the chat, and what they say
  used,      \* operation ids and contents there have been
  pc, job,   \* where the task of each update is, and what it has read so far
  ledger,    \* committed: the manual credits, each a ledger row and its author row
  received,  \* how often the text of each broadcast reached each customer
  restarts

chat == <<fsm, shown, used>>
vars == <<lockVars, chat, pc, job, ledger, received, restarts>>

States == {None, "target", "amount", "confirmation", "compose", "preview"}
Cleared == [state |-> None, target |-> None, amount |-> 0, screen |-> None,
            content |-> None, submitted |-> FALSE]
Screen == [screen : Screens, kind : {"stamps", "broadcast"}, amount : Nat]

\* What a task holds: the customer and amount it read, the button it was sent
\* by, and how far a fan-out has come.
NoJob == [kind |-> None, target |-> None, amount |-> 0, screen |-> None,
          todo |-> {}, tries |-> 0, sent |-> {}, failed |-> {}]

Init ==
  /\ LockInit
  /\ fsm = Cleared
  /\ shown = {} /\ used = {}
  /\ pc = [t \in Procs |-> "idle"]
  /\ job = [t \in Procs |-> NoJob]
  /\ ledger = <<>>
  /\ received = [s \in Screens |-> [c \in Customers |-> 0]]
  /\ restarts = 0

Go(t, phase) == pc' = [pc EXCEPT ![t] = phase]
Done(t) == Go(t, "idle") /\ job' = [job EXCEPT ![t] = NoJob]
Fresh == Screens \ used

----------------------------------------------------------------------------
\* Entering and leaving a conversation.

\* The section's button and the command ask for the customer, the broadcast's
\* button for the content, in whatever state the operator is.
Enter(state) ==
  /\ fsm' = [Cleared EXCEPT !.state = state]
  /\ UNCHANGED <<lockVars, shown, used, pc, job, ledger, received, restarts>>
StartCredit == Enter("target")
StartBroadcast == Enter("compose")

\* Cancelling is let through by the state, and clears it once Telegram answered.
TapCancel(t) ==
  /\ pc[t] = "idle" /\ fsm.state # None
  /\ Go(t, "cancelling")
  /\ UNCHANGED <<lockVars, chat, job, ledger, received, restarts>>

Cancel(t) ==
  /\ pc[t] = "cancelling"
  /\ fsm' = Cleared
  /\ Done(t)
  /\ UNCHANGED <<lockVars, shown, used, ledger, received, restarts>>

----------------------------------------------------------------------------
\* Crediting stamps: the customer, the amount, the confirmation.

SendTarget(t, c) ==
  /\ pc[t] = "idle" /\ fsm.state = "target"
  /\ Go(t, "target")
  /\ job' = [job EXCEPT ![t].target = c]
  /\ UNCHANGED <<lockVars, chat, ledger, received, restarts>>

\* Found and not the operator: the customer goes into the FSM data.
ResolveTarget(t) ==
  /\ pc[t] = "target"
  /\ fsm' = [fsm EXCEPT !.target = job[t].target, !.state = "amount"]
  /\ Done(t)
  /\ UNCHANGED <<lockVars, shown, used, ledger, received, restarts>>

\* Unknown, ambiguous, malformed, or the operator themselves: asked again.
RefuseTarget(t) ==
  /\ pc[t] = "target"
  /\ Done(t)
  /\ UNCHANGED <<lockVars, chat, ledger, received, restarts>>

\* A whole number within the limit; anything else is asked again.
SendAmount(t, n) ==
  /\ pc[t] = "idle" /\ fsm.state = "amount"
  /\ IF fsm.target = None
     THEN fsm' = Cleared /\ UNCHANGED <<pc, job>>
     ELSE /\ Go(t, "amount")
          /\ job' = [job EXCEPT ![t].target = fsm.target, ![t].amount = n]
          /\ UNCHANGED fsm
  /\ UNCHANGED <<lockVars, shown, used, ledger, received, restarts>>

\* A fresh operation id for this confirmation screen.
ShowConfirmation(t) ==
  /\ pc[t] = "amount"
  /\ \E op \in Fresh :
       /\ fsm' = [fsm EXCEPT !.amount = job[t].amount, !.screen = op,
                             !.submitted = FALSE, !.state = "confirmation"]
       /\ shown' = shown \cup {[screen |-> op, kind |-> "stamps", amount |-> job[t].amount]}
       /\ used' = used \cup {op}
  /\ Done(t)
  /\ UNCHANGED <<lockVars, ledger, received, restarts>>

\* The customer is gone: the conversation ends.
LoseTarget(t) ==
  /\ pc[t] = "amount"
  /\ fsm' = Cleared
  /\ Done(t)
  /\ UNCHANGED <<lockVars, shown, used, ledger, received, restarts>>

----------------------------------------------------------------------------
\* confirm_once: under the keyed lock, the first submission goes on.

Tap(t, sc, state) ==
  /\ pc[t] = "idle" /\ fsm.state = state /\ sc \in shown
  /\ job' = [job EXCEPT ![t].kind = sc.kind, ![t].screen = sc.screen]

TapCredit(t, sc) ==
  /\ sc.kind = "stamps"
  /\ Tap(t, sc, "confirmation")
  /\ Go(t, "queueing")
  /\ UNCHANGED <<lockVars, chat, ledger, received, restarts>>

\* The broadcast's tap is answered first.
TapSend(t, sc) ==
  /\ sc.kind = "broadcast"
  /\ Tap(t, sc, "preview")
  /\ Go(t, "answering")
  /\ UNCHANGED <<lockVars, chat, ledger, received, restarts>>

AnswerTap(t) ==
  /\ pc[t] = "answering"
  /\ Go(t, "queueing")
  /\ UNCHANGED <<lockVars, chat, job, ledger, received, restarts>>

Queue(t) ==
  /\ pc[t] = "queueing" /\ place[t] = "out"
  /\ Ask(t, job[t].kind)
  /\ UNCHANGED <<chat, pc, job, ledger, received, restarts>>

TakeLock(t) ==
  /\ pc[t] = "queueing"
  /\ Wake(t)
  /\ UNCHANGED <<chat, pc, job, ledger, received, restarts>>

InSection(t, phase) == pc[t] = phase /\ place[t] = "inside"

\* Submitted before: nothing more, and the lock released.
Repeated(t) ==
  /\ InSection(t, "queueing") /\ fsm.submitted
  /\ Quit(t) /\ Done(t)
  /\ UNCHANGED <<chat, ledger, received, restarts>>

\* The button is not the one of this conversation's screen, or nothing is there
\* to send (or nobody to send it to): the conversation ends.
Stale(t) ==
  /\ InSection(t, "queueing") /\ ~fsm.submitted
  /\ \/ /\ job[t].kind = "stamps"
        /\ fsm.screen # job[t].screen \/ fsm.target = None
     \/ job[t].kind = "broadcast" /\ fsm.content = None
  /\ fsm' = Cleared
  /\ Quit(t) /\ Done(t)
  /\ UNCHANGED <<shown, used, ledger, received, restarts>>

\* Mutant: the operation id of the button not compared with the FSM data.
ClaimAnyCredit(t) ==
  /\ InSection(t, "queueing") /\ ~fsm.submitted
  /\ job[t].kind = "stamps" /\ fsm.target # None
  /\ fsm' = [fsm EXCEPT !.submitted = TRUE]
  /\ job' = [job EXCEPT ![t].target = fsm.target, ![t].amount = fsm.amount]
  /\ Go(t, "crediting")
  /\ UNCHANGED <<lockVars, shown, used, ledger, received, restarts>>

ClaimCredit(t) ==
  /\ InSection(t, "queueing") /\ ~fsm.submitted
  /\ job[t].kind = "stamps" /\ fsm.screen = job[t].screen /\ fsm.target # None
  /\ fsm' = [fsm EXCEPT !.submitted = TRUE]
  /\ job' = [job EXCEPT ![t].target = fsm.target, ![t].amount = fsm.amount]
  /\ Go(t, "crediting")
  /\ UNCHANGED <<lockVars, shown, used, ledger, received, restarts>>

Booked(op) == \E i \in DOMAIN ledger : ledger[i].screen = op

\* The author row of a credit, one per operation id, and its ledger row.
StampAdjustment(t) == [screen |-> job[t].screen, target |-> job[t].target, amount |-> job[t].amount]

\* credit_stamps under the account lock: an operation id already booked adds nothing.
Credit(t) == IF Booked(job[t].screen) THEN ledger ELSE Append(ledger, StampAdjustment(t))

\* A known operation id that booked something else is refused.
Differs(t) ==
  \E i \in DOMAIN ledger :
    /\ ledger[i].screen = job[t].screen
    /\ ledger[i].target # job[t].target \/ ledger[i].amount # job[t].amount

\* Committed inside confirm_once; the state is cleared as soon as the lock is released.
CommitCredit(t) ==
  /\ InSection(t, "crediting") /\ ~Differs(t)
  /\ ledger' = Credit(t)
  /\ fsm' = Cleared
  /\ Quit(t) /\ Done(t)
  /\ UNCHANGED <<shown, used, received, restarts>>

\* Refused before any write: the customer is gone, or the operation differs.
RefuseCredit(t) ==
  /\ InSection(t, "crediting")
  /\ fsm' = Cleared
  /\ Quit(t) /\ Done(t)
  /\ UNCHANGED <<shown, used, ledger, received, restarts>>

\* Mutant: the flag left set when the confirmation fails.
FailCreditSubmitted(t) ==
  /\ InSection(t, "crediting")
  /\ ledger' \in {ledger} \cup (IF Differs(t) THEN {} ELSE {Credit(t)})
  /\ Quit(t) /\ Done(t)
  /\ UNCHANGED <<chat, received, restarts>>

\* An exception: the transaction is rolled back, or the COMMIT took effect and
\* its answer was lost.  Either way the operator may tap again.
FailCredit(t) ==
  /\ InSection(t, "crediting")
  /\ ledger' \in {ledger} \cup (IF Differs(t) THEN {} ELSE {Credit(t)})
  /\ fsm' = [fsm EXCEPT !.submitted = FALSE]
  /\ Quit(t) /\ Done(t)
  /\ UNCHANGED <<shown, used, received, restarts>>

----------------------------------------------------------------------------
\* The broadcast: content, preview, fan-out.

\* A text or a photo goes into the FSM data; the recipients are then counted.
Compose(t) ==
  /\ pc[t] = "idle" /\ fsm.state = "compose"
  /\ \E s \in Fresh : fsm' = [fsm EXCEPT !.content = s] /\ used' = used \cup {s}
  /\ Go(t, "previewing")
  /\ UNCHANGED <<lockVars, shown, job, ledger, received, restarts>>

Preview(t) ==
  /\ pc[t] = "previewing"
  /\ fsm' = [fsm EXCEPT !.state = "preview"]
  /\ shown' = shown \cup
       (IF fsm.content = None THEN {}
        ELSE {[screen |-> fsm.content, kind |-> "broadcast", amount |-> 0]})
  /\ Done(t)
  /\ UNCHANGED <<lockVars, used, ledger, received, restarts>>

\* The claim reads content and recipients and commits.
ClaimSend(t) ==
  /\ InSection(t, "queueing") /\ ~fsm.submitted
  /\ job[t].kind = "broadcast" /\ fsm.content # None
  /\ fsm' = [fsm EXCEPT !.submitted = TRUE]
  /\ job' = [job EXCEPT ![t].screen = fsm.content, ![t].todo = Customers]
  /\ Go(t, "claimed")
  /\ UNCHANGED <<lockVars, shown, used, ledger, received, restarts>>

\* Mutant: the content left in the FSM data while it is sent.
ReleaseSendKept(t) ==
  /\ InSection(t, "claimed")
  /\ fsm' = [fsm EXCEPT !.submitted = FALSE]
  /\ Quit(t)
  /\ Go(t, "sending")
  /\ UNCHANGED <<shown, used, job, ledger, received, restarts>>

\* The state is cleared and the fan-out leaves the lock.  Taking the buttons away is
\* best effort: they may stay, like those of a conversation that was left.
ReleaseSend(t) ==
  /\ InSection(t, "claimed")
  /\ fsm' = Cleared
  /\ Quit(t)
  /\ Go(t, "sending")
  /\ UNCHANGED <<shown, used, job, ledger, received, restarts>>

\* An exception before that, the commit refused: Confirm may be tapped again.
FailSend(t) ==
  /\ InSection(t, "claimed")
  /\ fsm' = [fsm EXCEPT !.submitted = FALSE]
  /\ Quit(t) /\ Done(t)
  /\ UNCHANGED <<shown, used, ledger, received, restarts>>

\* The progress message cannot be sent: the broadcast is never begun.
FailProgress(t) ==
  /\ pc[t] = "sending" /\ job[t].todo = Customers /\ job[t].tries = 0
  /\ Done(t)
  /\ UNCHANGED <<lockVars, chat, ledger, received, restarts>>

\* The next recipient; a list has no order that matters here.
Upcoming(t) == CHOOSE c \in job[t].todo : TRUE

Settle(t, c, field) ==
  job' = [job EXCEPT ![t].todo = @ \ {c}, ![t].tries = 0,
            ![t].sent = IF field = "sent" THEN @ \cup {c} ELSE @,
            ![t].failed = IF field = "failed" THEN @ \cup {c} ELSE @]

Receive(t, c) == received' = [received EXCEPT ![job[t].screen][c] = @ + 1]

Sending(t) == pc[t] = "sending" /\ job[t].todo # {}

Deliver(t) ==
  /\ Sending(t)
  /\ Receive(t, Upcoming(t)) /\ Settle(t, Upcoming(t), "sent")
  /\ UNCHANGED <<lockVars, chat, pc, ledger, restarts>>

\* A network error after Telegram took the message: counted as failed.
LoseAnswer(t) ==
  /\ Sending(t)
  /\ Receive(t, Upcoming(t)) /\ Settle(t, Upcoming(t), "failed")
  /\ UNCHANGED <<lockVars, chat, pc, ledger, restarts>>

\* Blocked, deleted, or a network error before Telegram took it.
Reject(t) ==
  /\ Sending(t)
  /\ Settle(t, Upcoming(t), "failed")
  /\ UNCHANGED <<lockVars, chat, pc, ledger, received, restarts>>

\* Mutant: a rate limit waited out and the recipient taken for done.
RateLimitedSkips(t) ==
  /\ Sending(t)
  /\ Settle(t, Upcoming(t), "sent")
  /\ UNCHANGED <<lockVars, chat, pc, ledger, received, restarts>>

\* Mutant: rate limits retried for as long as they come.
RateLimitedForever(t) ==
  /\ Sending(t)
  /\ job' = [job EXCEPT ![t].tries = (@ + 1) % (MaxRetries + 1)]
  /\ UNCHANGED <<lockVars, chat, pc, ledger, received, restarts>>

\* RetryAfter: waited out and tried again, so many times.
RateLimited(t) ==
  /\ Sending(t)
  /\ IF job[t].tries < MaxRetries
     THEN job' = [job EXCEPT ![t].tries = @ + 1]
     ELSE Settle(t, Upcoming(t), "failed")
  /\ UNCHANGED <<lockVars, chat, pc, ledger, received, restarts>>

\* Everyone was tried: the summary.
Summarise(t) ==
  /\ pc[t] = "sending" /\ job[t].todo = {}
  /\ Done(t)
  /\ UNCHANGED <<lockVars, chat, ledger, received, restarts>>

----------------------------------------------------------------------------
\* The process ends and starts again: conversations, tasks and locks are gone.
Restart ==
  /\ restarts < MaxRestarts
  /\ restarts' = restarts + 1
  /\ fsm' = Cleared
  /\ pc' = [t \in Procs |-> "idle"]
  /\ job' = [t \in Procs |-> NoJob]
  /\ registry' = [k \in Keys |-> None]
  /\ users' = [k \in Keys |-> 0]
  /\ queue' = [l \in Locks |-> <<>>]
  /\ locked' = [l \in Locks |-> FALSE]
  /\ place' = [t \in Procs |-> "out"]
  /\ key' = [t \in Procs |-> None]
  /\ lock' = [t \in Procs |-> None]
  /\ UNCHANGED <<shown, used, ledger, received>>

Operator ==
  \/ StartCredit \/ StartBroadcast
  \/ \E t \in Procs :
       \/ TapCancel(t) \/ Compose(t)
       \/ \E c \in Named : SendTarget(t, c)
       \/ \E n \in Amounts : SendAmount(t, n)
       \/ \E sc \in shown : TapCredit(t, sc) \/ TapSend(t, sc)

Handle(t) ==
  \/ Cancel(t) \/ ResolveTarget(t) \/ RefuseTarget(t) \/ ShowConfirmation(t) \/ LoseTarget(t)
  \/ AnswerTap(t) \/ Queue(t) \/ TakeLock(t) \/ Repeated(t) \/ Stale(t)
  \/ ClaimCredit(t) \/ CommitCredit(t) \/ RefuseCredit(t) \/ FailCredit(t)
  \/ Preview(t) \/ ClaimSend(t) \/ ReleaseSend(t) \/ FailSend(t) \/ FailProgress(t)
  \/ Deliver(t) \/ LoseAnswer(t) \/ Reject(t) \/ RateLimited(t) \/ Summarise(t)

Next == Operator \/ Restart \/ \E t \in Procs : Handle(t)

Spec == Init /\ [][Next]_vars

\* The event loop runs every task that can run; nobody owes the bot a message.
FairSpec == Spec /\ \A t \in Procs : WF_vars(Handle(t))

----------------------------------------------------------------------------
\* Properties.

\* Every credit on record answers one confirmation screen, is the only one for
\* it, and is for the amount that screen showed: double taps, buttons of earlier
\* screens and a retry after a lost COMMIT notwithstanding.
CreditedAsConfirmed ==
  /\ \A i, k \in DOMAIN ledger : ledger[i].screen = ledger[k].screen => i = k
  /\ \A i \in DOMAIN ledger :
       [screen |-> ledger[i].screen, kind |-> "stamps", amount |-> ledger[i].amount] \in shown

\* A conversation that says "already submitted" has a task at work on it: a
\* confirmation that failed can be tapped again.
NeverStuckSubmitted ==
  fsm.submitted => \E t \in Procs : pc[t] \in {"crediting", "claimed"}

\* However often Confirm is tapped and whatever Telegram answers, nobody gets
\* the text of one broadcast twice.
ReceivedOnce == \A s \in Screens, c \in Customers : received[s][c] <= 1

\* What the summary will say: everyone is either still to come, sent or failed,
\* and whoever counts as sent has it.
CountsAddUp ==
  \A t \in Procs : pc[t] = "sending" =>
    /\ job[t].todo \cup job[t].sent \cup job[t].failed = Customers
    /\ job[t].sent \cap job[t].failed = {}
    /\ \A c \in job[t].sent : received[job[t].screen][c] >= 1

\* A fan-out comes to its end, or the process does, whatever Telegram answers.
FanOutEnds == \A t \in Procs : pc[t] = "sending" ~> pc[t] # "sending"
=============================================================================
