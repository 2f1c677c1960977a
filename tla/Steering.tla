------------------------------ MODULE Steering ------------------------------
(***************************************************************************)
(* The messages a user sends to a bot that is already working.             *)
(*                                                                         *)
(* One bot in one thread.  A message that finds no active run starts one.  *)
(* A message that finds a run at work becomes a steering row: attached to  *)
(* a conversational run, which takes it into its turn, or pending (no run) *)
(* behind a routine, webhook or intro turn, for the continuation that the  *)
(* finalizer creates when nothing is active any more.                      *)
(*                                                                         *)
(* Sources: packages/db/src/events.ts (sendUserMessage, claimSteering,     *)
(* finalizeRunOnce, createSteeringContinuation), apps/api thread-target.ts *)
(* (send, stop), router.ts (followUp of a group), executor.ts (wakeRoutine)*)
(*                                                                         *)
(* Every action is one database transaction; those that write rows take    *)
(* the thread's row lock first.  Claiming and starting a run, which the    *)
(* module RunLease takes apart, is one step here, so a leased run is still *)
(* "queued".  The slots of ended runs that no row names are used again.    *)
(***************************************************************************)
EXTENDS Naturals, FiniteSets, FiniteSetsExt

CONSTANTS
    Run,          \* run slots
    NoRun,        \* the run of a pending row
    NoRow,        \* the message has no steering row
    MaxMsg,       \* bound: messages sent
    MaxExtra,     \* bound: runs started by routines and by other bots
    Chats,        \* where messages come from, a subset of app, dm, channel
    Parallel,     \* triggers that start a run beside an active one:
                  \* a subset of bot_message, messaging
    Withdrawals,  \* runs withdrawn without touching their steering:
                  \* a subset of rollback, abandon, teach
    GroupThread   \* the thread is a group's (its follow-ups are different)

ASSUME RunAssumption == NoRun \notin Run /\ NoRow \notin Run \cup {NoRun}
ASSUME BoundAssumption == MaxMsg \in Nat /\ MaxExtra \in Nat
ASSUME ChoiceAssumption ==
    /\ Chats \subseteq {"app", "dm", "channel"}
    /\ Parallel \subseteq {"bot_message", "messaging"}
    /\ Withdrawals \subseteq {"rollback", "abandon", "teach"}
    /\ GroupThread \in BOOLEAN

VARIABLES
    status,    \* runs.status, or "none" for a slot never used
    trigger,   \* runs.trigger
    source,    \* runs.sourceMessageId as the message's seq, 0 if there is none
    opening,   \* runs whose creating handler has not returned yet
    primed,    \* running runs that have made the first claim of their attempt
    shown,     \* seenSteeringIds of a running attempt
    row,       \* steering_messages.runId of each message's row
    claimed,   \* rows with claimedAt set
    tagged,    \* rows with originTrigger = "messaging"
    chat,      \* the chat a message came from
    sent,      \* threads.nextMessageSeq
    extra,     \* runs started by routines and by other bots so far
    answered,  \* history: messages taken in by a run that completed
    retried    \* history: messages that a continuation was created for

runs == <<status, trigger, source>>
turn == <<primed, shown>>
rows == <<row, claimed, tagged>>
log  == <<chat, sent>>
hist == <<answered, retried>>
vars == <<status, trigger, source, opening, primed, shown, row, claimed,
          tagged, chat, sent, extra, answered, retried>>

Msg == 1 .. MaxMsg
Active == {"queued", "running", "waiting_input", "waiting_takeover"}
Terminal == {"completed", "failed", "cancelled"}
Trigger == {"user", "follow_up", "messaging", "webhook", "bot_message",
            "routine", "created"}

ActiveRuns == {r \in Run : status[r] \in Active}
Pending == {m \in Msg : row[m] = NoRun}

isConversationalRun(t) == t \notin {"routine", "webhook", "created"}

\* A thread opens empty, or with the bot's intro turn on the queue.
Init ==
    /\ \/ status = [r \in Run |-> "none"]
       \/ \E i \in Run :
            status = [r \in Run |-> IF r = i THEN "queued" ELSE "none"]
    /\ trigger = [r \in Run |-> "created"]
    /\ source = [r \in Run |-> 0]
    /\ opening = {} /\ primed = {} /\ shown = [r \in Run |-> {}]
    /\ row = [m \in Msg |-> NoRow] /\ claimed = {} /\ tagged = {}
    /\ chat = [m \in Msg |-> "app"] /\ sent = 0 /\ extra = 0
    /\ answered = {} /\ retried = {}

-----------------------------------------------------------------------------
(* Sending *)

Free(r) ==
    /\ status[r] \in Terminal \cup {"none"} /\ r \notin opening
    /\ \A m \in Msg : row[m] # r

CreateRun(r, t, src) ==
    /\ Free(r)
    /\ status' = [status EXCEPT ![r] = "queued"]
    /\ trigger' = [trigger EXCEPT ![r] = t]
    /\ source' = [source EXCEPT ![r] = src]

\* A run for the message just created.
StartRun(t) == \E r \in Run : CreateRun(r, t, sent + 1)

NewMessage(c) ==
    /\ sent < MaxMsg
    /\ sent' = sent + 1
    /\ chat' = [chat EXCEPT ![sent + 1] = c]

\* A steering row for the message just created.
Steer(r) ==
    /\ row' = [row EXCEPT ![sent + 1] = r]
    /\ UNCHANGED runs

steersUserMessage(r) ==
    /\ status[r] \in Active \ {"waiting_input"}
    /\ isConversationalRun(trigger[r])

\* threads.send.  A waiting ask takes the text as its answer, unless a live
\* conversational run takes it as steering.
Send ==
    /\ NewMessage("app")
    /\ LET steerable == {r \in ActiveRuns : steersUserMessage(r)}
           waiting == {r \in ActiveRuns : status[r] = "waiting_input"}
       IN \/ /\ waiting # {} /\ steerable = {}
             /\ status' = [r \in Run |-> IF r \in waiting THEN "queued" ELSE status[r]]
             /\ UNCHANGED <<trigger, source, row>>
          \/ \E r \in steerable : Steer(r)
          \/ ActiveRuns # {} /\ waiting = {} /\ steerable = {} /\ Steer(NoRun)
          \/ ActiveRuns = {} /\ StartRun("user") /\ UNCHANGED row
    /\ UNCHANGED <<opening, turn, claimed, tagged, extra, hist>>

\* Messages from a follow-up, a messaging app or a webhook.  Behind a run that
\* is not conversational the row is pending, and keeps its messaging origin.
sendUserMessage(t, c) ==
    /\ NewMessage(c)
    /\ LET busy == {r \in ActiveRuns : isConversationalRun(trigger[r])}
       IN \/ /\ ActiveRuns = {} /\ StartRun(t) /\ UNCHANGED <<row, tagged>>
          \/ \E r \in busy : Steer(r) /\ UNCHANGED tagged
          \/ /\ ActiveRuns # {} /\ busy = {} /\ Steer(NoRun)
             /\ tagged' = IF t = "messaging" THEN tagged \cup {sent + 1} ELSE tagged
    /\ UNCHANGED <<opening, turn, claimed, extra, hist>>

\* threads.followUp in a group: whatever run is active takes the message.
GroupFollowUp ==
    /\ GroupThread
    /\ NewMessage("app")
    /\ \/ ActiveRuns = {} /\ StartRun("follow_up") /\ UNCHANGED row
       \/ \E r \in ActiveRuns : Steer(r)
    /\ UNCHANGED <<opening, turn, claimed, tagged, extra, hist>>

Inbound ==
    \/ Send
    \/ GroupFollowUp
    \/ \E c \in Chats :
         IF c = "app"
         THEN \E t \in {"webhook", "follow_up"} :
                ~ (GroupThread /\ t = "follow_up") /\ sendUserMessage(t, c)
         ELSE sendUserMessage("messaging", c)

-----------------------------------------------------------------------------
(* Runs that start beside the conversation *)

\* wakeRoutine commits its run, then enqueues the job.
wakeRoutine ==
    /\ extra < MaxExtra /\ extra' = extra + 1
    /\ \E r \in Run : CreateRun(r, "routine", 0) /\ opening' = opening \cup {r}
    /\ UNCHANGED <<turn, rows, log, hist>>

\* A message of another bot, or of a team chat, brings its own run.
StartParallel(t) ==
    /\ extra < MaxExtra /\ extra' = extra + 1
    /\ NewMessage(IF t = "messaging" THEN "dm" ELSE "app")
    /\ \E r \in Run :
         /\ CreateRun(r, t, sent + 1)
         /\ opening' = IF t = "messaging" THEN opening \cup {r} ELSE opening
    /\ UNCHANGED <<turn, rows, hist>>

\* The handler that created the run returns.
Opened(r) ==
    /\ r \in opening
    /\ opening' = opening \ {r}
    /\ UNCHANGED <<runs, turn, rows, log, extra, hist>>

-----------------------------------------------------------------------------
(* A run's turn *)

\* The run's claim and start: a fresh attempt has seen no steering.
Begin(r) ==
    /\ status[r] \in {"queued", "waiting_takeover"}
    /\ status' = [status EXCEPT ![r] = "running"]
    /\ UNCHANGED <<trigger, source, opening, turn, rows, log, extra, hist>>

\* Mutant: what the attempt has seen outlives it.
EndTurnKeepsSeen(R) == primed' = primed \ R /\ shown' = shown

EndTurn(R) ==
    /\ primed' = primed \ R
    /\ shown' = [r \in Run |-> IF r \in R THEN {} ELSE shown[r]]

\* The attempt ends and the run goes back to the queue or waits for the user.
Yield(r) ==
    /\ status[r] = "running"
    /\ \E s \in {"queued", "waiting_input", "waiting_takeover"} :
         status' = [status EXCEPT ![r] = s]
    /\ EndTurn({r})
    /\ UNCHANGED <<trigger, source, opening, rows, log, extra, hist>>

\* The ask is answered, or the screen released.
Answer(r) ==
    /\ status[r] \in {"waiting_input", "waiting_takeover"}
    /\ status' = [status EXCEPT ![r] = "queued"]
    /\ UNCHANGED <<trigger, source, opening, turn, rows, log, extra, hist>>

ofChannel(r) == trigger[r] = "messaging" /\ chat[source[r]] = "channel"
ofDirect(r)  == trigger[r] = "messaging" /\ chat[source[r]] # "channel"

\* Mutant: rows already claimed are not returned.
steeringForUnclaimed(r) ==
    {m \in Msg \ claimed :
       row[m] \in IF isConversationalRun(trigger[r]) THEN {r, NoRun} ELSE {r}}

\* What claimSteering returns: the run's own rows and, for a conversational
\* run, the pending rows of its chat.
steeringFor(r) ==
    LET own == {m \in Msg : row[m] = r}
        pending == IF ofDirect(r) THEN Pending \cap tagged
                   ELSE IF ofChannel(r) THEN Pending ELSE Pending \ tagged
        mine == IF isConversationalRun(trigger[r]) THEN pending \cup own ELSE own
    IN {m \in mine \ shown[r] : /\ ofChannel(r) => chat[m] = "channel"
                                /\ ofDirect(r) => chat[m] # "channel"}

\* Only rows not yet claimed become the run's; the others are returned too.
claimSteering(r) ==
    /\ status[r] = "running"
    /\ primed' = primed \cup {r}
    /\ LET steering == IF trigger[r] = "created" THEN {} ELSE steeringFor(r)
       IN /\ r \in primed => steering # {}
          /\ row' = [m \in Msg |-> IF m \in steering \ claimed THEN r ELSE row[m]]
          /\ claimed' = claimed \cup steering
          /\ shown' = [shown EXCEPT ![r] = @ \cup steering]
    /\ UNCHANGED <<runs, opening, tagged, log, extra, hist>>

-----------------------------------------------------------------------------
(* finalizeRun *)

steeringOrigin(m) == IF m \in tagged THEN chat[m] ELSE "app"

\* Mutant: a continuation is created while another run is active.
createSteeringContinuationBusy(r, st, rw, cl) ==
    LET pending == {m \in Msg : rw[m] = NoRun}
    IN IF pending # {}
       THEN \E c \in Run \ {r} :
              /\ Free(c)
              /\ status' = [st EXCEPT ![c] = "queued"]
              /\ trigger' = [trigger EXCEPT ![c] = "follow_up"]
              /\ source' = [source EXCEPT ![c] = Max(pending)]
              /\ row' = [m \in Msg |-> IF m \in pending THEN c ELSE rw[m]]
              /\ claimed' = cl \ pending
              /\ retried' = retried \cup pending
       ELSE /\ status' = st /\ row' = rw /\ claimed' = cl
            /\ UNCHANGED <<trigger, source, retried>>

\* createSteeringContinuation after the run r has ended with the statuses st
\* and the rows rw: nothing while a run is active, else one run for the oldest
\* pending message and all the others of its origin.
createSteeringContinuation(r, st, rw, cl) ==
    LET pending == {m \in Msg : rw[m] = NoRun}
        batch == {m \in pending : steeringOrigin(m) = steeringOrigin(Min(pending))}
        idle == \A x \in Run : st[x] \notin Active
    IN IF idle /\ pending # {}
       THEN \E c \in Run \ {r} :
              /\ Free(c)
              /\ status' = [st EXCEPT ![c] = "queued"]
              /\ trigger' = [trigger EXCEPT ![c] =
                    IF steeringOrigin(Min(pending)) = "app"
                    THEN "follow_up" ELSE "messaging"]
              /\ source' = [source EXCEPT ![c] = Max(batch)]
              /\ row' = [m \in Msg |-> IF m \in batch THEN c ELSE rw[m]]
              /\ claimed' = cl \ batch
              /\ retried' = retried \cup batch
       ELSE /\ status' = st /\ row' = rw /\ claimed' = cl
            /\ UNCHANGED <<trigger, source, retried>>

\* Mutant: rows that the run did not claim stay attached to it.
CompleteKeepsUnclaimed(r) ==
    /\ status[r] = "running" /\ r \in primed
    /\ LET settled == {m \in claimed : row[m] = r}
       IN createSteeringContinuation(r, [status EXCEPT ![r] = "completed"],
            [m \in Msg |-> IF m \in settled THEN NoRow ELSE row[m]],
            claimed \ settled)
    /\ answered' = answered \cup shown[r]
    /\ EndTurn({r})
    /\ UNCHANGED <<opening, tagged, log, extra>>

\* The run completed: what it claimed is settled, what it did not is pending.
Complete(r) ==
    /\ status[r] = "running" /\ r \in primed
    /\ LET settled == {m \in claimed : row[m] = r}
           left == [m \in Msg |-> IF m \in settled THEN NoRow
                                  ELSE IF row[m] = r THEN NoRun ELSE row[m]]
       IN createSteeringContinuation(r, [status EXCEPT ![r] = "completed"],
                                     left, claimed \ settled)
    /\ answered' = answered \cup shown[r]
    /\ EndTurn({r})
    /\ UNCHANGED <<opening, tagged, log, extra>>

\* Mutant: a failed run keeps its rows.
FailDropsAll(r) ==
    /\ status[r] = "running"
    /\ createSteeringContinuation(r, [status EXCEPT ![r] = "failed"], row, claimed)
    /\ EndTurn({r})
    /\ UNCHANGED <<opening, tagged, log, extra, answered>>

\* The run failed: only messages newer than its own are given another run.
Fail(r) ==
    /\ status[r] = "running"
    /\ createSteeringContinuation(r, [status EXCEPT ![r] = "failed"],
         [m \in Msg |-> IF row[m] = r /\ m > source[r] THEN NoRun ELSE row[m]],
         claimed)
    /\ EndTurn({r})
    /\ UNCHANGED <<opening, tagged, log, extra, answered>>

-----------------------------------------------------------------------------
(* Cancelling *)

CancelActive ==
    /\ status' = [r \in Run |-> IF status[r] \in Active THEN "cancelled" ELSE status[r]]
    /\ EndTurn(Run)
    /\ UNCHANGED <<trigger, source, opening, log, extra, hist>>

DropRows ==
    /\ row' = [m \in Msg |-> NoRow]
    /\ claimed' = {} /\ tagged' = {}

stopThreadRuns == CancelActive /\ DropRows

\* clearThread deletes the messages, and their steering rows with them.
clearThread == CancelActive /\ DropRows

\* Teaching a skill cancels the bot's runs and leaves their steering.
cancelActiveRuns == "teach" \in Withdrawals /\ CancelActive /\ UNCHANGED rows

\* The enqueue failed: a routine's run still queued is deleted, and the rows
\* that named it name no run.
RollbackRoutine(r) ==
    /\ "rollback" \in Withdrawals
    /\ r \in opening /\ trigger[r] = "routine"
    /\ opening' = opening \ {r}
    /\ IF status[r] = "queued"
       THEN /\ status' = [status EXCEPT ![r] = "none"]
            /\ row' = [m \in Msg |-> IF row[m] = r THEN NoRun ELSE row[m]]
       ELSE UNCHANGED <<status, row>>
    /\ UNCHANGED <<trigger, source, turn, claimed, tagged, log, extra, hist>>

\* A team chat finds that a routine owns the message: its run is cancelled.
AbandonForRoutine(r) ==
    /\ "abandon" \in Withdrawals
    /\ r \in opening /\ trigger[r] = "messaging"
    /\ opening' = opening \ {r}
    /\ IF status[r] \in Active
       THEN status' = [status EXCEPT ![r] = "cancelled"] /\ EndTurn({r})
       ELSE UNCHANGED <<status, turn>>
    /\ UNCHANGED <<trigger, source, rows, log, extra, hist>>

-----------------------------------------------------------------------------

Turn(r) ==
    Begin(r) \/ claimSteering(r) \/ Yield(r) \/ Answer(r) \/ Complete(r) \/ Fail(r)

Next ==
    \/ Inbound
    \/ wakeRoutine
    \/ \E t \in Parallel : StartParallel(t)
    \/ \E r \in Run : Turn(r) \/ Opened(r) \/ RollbackRoutine(r) \/ AbandonForRoutine(r)
    \/ stopThreadRuns \/ clearThread \/ cancelActiveRuns

Spec == Init /\ [][Next]_vars

\* Jobs are delivered again until a run is claimed, the runtime claims steering
\* before its first prompt, and an attempt ends: the reconciler and the lease
\* see to that (module RunLease).  That a run does not yield for ever, and that
\* the user answers an ask, are assumptions.
Fairness ==
    \A r \in Run :
        /\ WF_vars(Begin(r)) /\ WF_vars(Answer(r)) /\ WF_vars(claimSteering(r))
        /\ SF_vars(Complete(r) \/ Fail(r))

FairSpec == Spec /\ Fairness

-----------------------------------------------------------------------------
(* Properties *)

\* Types; and what an attempt has seen is known only while it runs, so that the
\* next attempt of the run is shown its steering again.
TypeOK ==
    /\ status \in [Run -> Active \cup Terminal \cup {"none"}]
    /\ trigger \in [Run -> Trigger] /\ source \in [Run -> 0 .. MaxMsg]
    /\ opening \subseteq Run
    /\ primed \subseteq {r \in Run : status[r] = "running"}
    /\ shown \in [Run -> SUBSET Msg] /\ \A r \in Run \ primed : shown[r] = {}
    /\ row \in [Msg -> Run \cup {NoRun, NoRow}]
    /\ claimed \subseteq Msg /\ tagged \subseteq Msg
    /\ chat \in [Msg -> {"app", "dm", "channel"}]
    /\ sent \in 0 .. MaxMsg /\ extra \in 0 .. MaxExtra
    /\ answered \subseteq Msg /\ retried \subseteq Msg

\* A steering row is never stranded, nor left for a second answer.  It is
\* attached to a run still at work, or pending while some run is at work whose end
\* creates the continuation, or was given up with a run that failed - and then
\* only after a continuation had been created for it (events.ts 1140-1220); and
\* no completed run has taken the message in.
Abandoned(m) == row[m] \in Run /\ status[row[m]] = "failed"
NoStrandedSteering ==
    \A m \in Msg : row[m] # NoRow =>
        /\ m \notin answered
        /\ \/ row[m] \in ActiveRuns
           \/ row[m] = NoRun /\ ActiveRuns # {}
           \/ Abandoned(m) /\ m \in retried

\* The rows that a completion settles are rows the completing attempt was shown,
\* also when an earlier attempt of the run had claimed them.
ClaimedIsShown ==
    \A r \in primed : \A m \in claimed : row[m] = r => m \in shown[r]

\* A conversational run, be it a send's or a continuation, is created only when
\* the bot has nothing else at work in the thread: it replies beside no other.
ConversationStartsAlone ==
    [][\A r \in Run :
         (/\ r \notin ActiveRuns /\ status'[r] \in Active
          /\ isConversationalRun(trigger'[r]))
         => \A x \in Run \ {r} : status'[x] \notin Active]_vars

\* A steering row is at last settled, dropped by the user, or given up.
SteeringSettles ==
    \A m \in Msg :
        (row[m] # NoRow) ~> (row[m] = NoRow \/ Abandoned(m))

=============================================================================
