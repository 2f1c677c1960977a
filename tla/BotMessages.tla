----------------------------- MODULE BotMessages -----------------------------
(***************************************************************************)
(* Messages between bots, hand-offs in a group, and the return of an       *)
(* outcome to the bot that asked.                                          *)
(*                                                                         *)
(* A bot at work may send a message to another bot's chat, or hand its     *)
(* stage of a group's work to another member.  Both start a run there, in  *)
(* one transaction with the message.  When a run that was asked for        *)
(* something ends, its outcome goes back to the bot that asked: at once by *)
(* the worker that ended it, and again by the reconciler until the run is  *)
(* marked as returned.  The worker may die before, and both may be at it.  *)
(*                                                                         *)
(* A run's row holds with it what the source message says (who sent it, at *)
(* which hop, with what intent).  Intents: "request" stands for request,   *)
(* question and none, "fyi" for fyi and status of the tool, "outcome" for  *)
(* the result or status that is returned automatically.  What happens to a *)
(* run between its creation and its end is in RunLease: here it is         *)
(* "active", and "ended" when it completed or failed.                      *)
(***************************************************************************)
EXTENDS Integers, Sequences, FiniteSets, SequencesExt

CONSTANTS
    Bot,          \* the bots of one user
    Member,       \* those of them that share a group chat
    NoBot,
    MaxHop,       \* BOT_MESSAGE_MAX_HOPS
    Batch,        \* how many outcomes the reconciler reads at a time
    MaxRun,       \* bound: runs created
    MaxFault      \* bound: crashes, failed transactions and lost answers

ASSUME BotMessagesAssumption ==
    /\ Member \subseteq Bot /\ NoBot \notin Bot
    /\ MaxHop \in Nat /\ Batch \in Nat \ {0}
    /\ MaxRun \in Nat \ {0} /\ MaxFault \in Nat

Run      == 1 .. MaxRun
Returner == {"worker", "reconciler"}

VARIABLES
    run,          \* the rows of runs, with what their source message says
    sent,         \* the bot_message_sent blocks of a run's own tool calls
    autoOutcome,  \* how often a run's outcome was delivered under its key
    handed,       \* the runs that have handed their stage over
    archived,     \* bots with archivedAt
    outstanding,  \* ended and not yet returned, oldest updatedAt first
    returner,     \* returnBotMessageOutcome, per run and caller
    faults

msgVars == <<run, sent, autoOutcome, handed, archived, outstanding, returner, faults>>

-----------------------------------------------------------------------------
(* Rows.                                                                   *)

NoSource == [kind |-> "none", from |-> NoBot, hop |-> 0, intent |-> "none"]
Free     == [status |-> "none", bot |-> NoBot, group |-> FALSE, source |-> NoSource,
             returned |-> FALSE, depth |-> 0]

Unused == {r \in Run : run[r].status = "none"}

\* What a run was asked for by another bot; only that is answered.
Delegated(r) == run[r].source.kind = "message" /\ run[r].source.intent = "request"
Ended(r)     == run[r].status = "ended"

\* The bot's own result to the bot that asked makes the automatic one superfluous.
ToldResult(r) == <<run[r].source.from, "result">> \in sent[r]

\* Bound: a run is created only while every outcome still owed has a row left.
Owed == {r \in Run : /\ Delegated(r) /\ run[r].status # "cancelled"
                     /\ ~run[r].returned /\ autoOutcome[r] = 0}
Room(n) == Cardinality(Unused) > Cardinality(Owed) + n

\* Mutant: a message that answers starts a fresh chain.
NextHopFresh(r, kind) == IF run[r].source.kind = kind /\ run[r].source.intent # "outcome"
                         THEN run[r].source.hop + 1 ELSE 1

\* The hop of a delivery, from the message of the same kind that woke the sender.
NextHop(r, kind) == IF run[r].source.kind = kind THEN run[r].source.hop + 1 ELSE 1

NextUnused == {r \in Unused : \A x \in Unused : r <= x}

\* A run's row for c is created in the next free slot.
Creates(c) == \E n \in NextUnused : run' = [run EXCEPT ![n] = c]

\* The row that a message or a hand-off of run r creates; depth only counts.
Woken(r, kind, to, intent) ==
    [status |-> "active", bot |-> to, group |-> kind = "handoff",
     source |-> [kind |-> kind, from |-> run[r].bot, hop |-> NextHop(r, kind),
                 intent |-> intent],
     returned |-> FALSE, depth |-> run[r].depth + 1]

MsgInit ==
    /\ run = [r \in Run |-> Free] /\ sent = [r \in Run |-> {}]
    /\ autoOutcome = [r \in Run |-> 0] /\ handed = {}
    /\ archived = {} /\ outstanding = <<>>
    /\ returner = [r \in Run |-> [w \in Returner |-> "idle"]]
    /\ faults = 0

-----------------------------------------------------------------------------
(* Runs.                                                                   *)

\* A person writes to a bot, or to one in the group.
PersonAsks(b, inGroup) ==
    /\ b \notin archived /\ (inGroup => b \in Member) /\ Room(0)
    /\ Creates([Free EXCEPT !.status = "active", !.bot = b, !.group = inGroup])
    /\ UNCHANGED <<sent, autoOutcome, handed, archived, outstanding, returner, faults>>

\* The tool message_bot, which is offered outside groups: the key is the call's,
\* so that a call executed again finds the message and sends nothing.
alreadySent(r, to, intent) == <<to, intent>> \in sent[r]
senderMaySend(r) == run[r].status = "active"
hopAllows(r, kind) == NextHop(r, kind) <= MaxHop

MessageBot(r, to, intent) ==
    /\ senderMaySend(r) /\ ~run[r].group
    /\ to # run[r].bot /\ to \notin archived
    /\ ~alreadySent(r, to, intent) /\ hopAllows(r, "message")
    /\ Room(IF intent = "request" THEN 1 ELSE 0)
    /\ Creates(Woken(r, "message", to, intent))
    /\ sent' = [sent EXCEPT ![r] = @ \cup {<<to, intent>>}]
    /\ UNCHANGED <<autoOutcome, handed, archived, outstanding, returner, faults>>

\* handoff_to_bot, in a group: one per run, whatever attempt calls it and for
\* whichever bot, and not back to the bot that handed the stage over.
alreadyHanded(r) == r \in handed

Handoff(r, to) ==
    /\ run[r].status = "active" /\ run[r].group /\ run[r].bot \in Member
    /\ ~alreadyHanded(r)
    /\ to # run[r].bot /\ to \in Member \ archived
    /\ ~(run[r].source.kind = "handoff" /\ run[r].source.from = to)
    /\ hopAllows(r, "handoff") /\ Room(0)
    /\ Creates(Woken(r, "handoff", to, "none"))
    /\ handed' = handed \cup {r}
    /\ UNCHANGED <<sent, autoOutcome, archived, outstanding, returner, faults>>

\* Mutant: runs of every trigger.
awaitsReturnAny(r) == TRUE

\* The runs the reconciler looks for: those that a message of a bot has started.
awaitsReturn(r) == run[r].source.kind = "message"

\* finalizeRun; the worker then goes on to return the outcome, if the run has
\* one that it knows of and the worker lives.
Finish(r, at) ==
    /\ run[r].status = "active"
    /\ at = "look" => run[r].source.kind = "message"
    /\ run' = [run EXCEPT ![r].status = "ended"]
    /\ outstanding' = IF awaitsReturn(r) THEN Append(outstanding, r) ELSE outstanding
    /\ returner' = [returner EXCEPT ![r]["worker"] = at]
    /\ UNCHANGED <<sent, autoOutcome, handed, archived, faults>>

StopRun(r) ==
    /\ run[r].status = "active"
    /\ run' = [run EXCEPT ![r].status = "cancelled"]
    /\ UNCHANGED <<sent, autoOutcome, handed, archived, outstanding, returner, faults>>

ArchiveBot(b) ==
    /\ b \notin archived
    /\ archived' = archived \cup {b}
    /\ run' = [r \in Run |-> IF run[r].bot = b /\ run[r].status = "active"
                             THEN [run[r] EXCEPT !.status = "cancelled"] ELSE run[r]]
    /\ UNCHANGED <<sent, autoOutcome, handed, outstanding, returner, faults>>

-----------------------------------------------------------------------------
(* The return of an outcome.                                               *)

\* The reconciler takes the oldest outcomes that are due, one batch at a time.
Reconcile ==
    /\ outstanding # <<>>
    /\ \A r \in Run : returner[r]["reconciler"] = "idle"
    /\ LET batch == {outstanding[i] : i \in 1 .. Len(outstanding) \cap 1 .. Batch}
       IN  returner' = [r \in Run |-> IF r \in batch
                           THEN [returner[r] EXCEPT !["reconciler"] = "look"]
                           ELSE returner[r]]
    /\ UNCHANGED <<run, sent, autoOutcome, handed, archived, outstanding, faults>>

\* A run stands in the list at most once.
Without(s, r) ==
    IF \E i \in 1 .. Len(s) : s[i] = r
    THEN RemoveAt(s, CHOOSE i \in 1 .. Len(s) : s[i] = r) ELSE s

Moves(r, w, at) == returner' = [returner EXCEPT ![r][w] = at]

\* Reads the source message and what the run itself has sent.
Look(r, w) ==
    /\ returner[r][w] = "look"
    /\ Moves(r, w, IF Delegated(r) /\ ~ToldResult(r) THEN "send" ELSE "mark")
    /\ UNCHANGED <<run, sent, autoOutcome, handed, archived, outstanding, faults>>

\* Mutant: a key of its own for every delivery.
outcomeSentNever(r) == FALSE

\* messageBot with the key auto-outcome:<run>, whose sender has ended: exempt
\* from the hop limit, since it goes back to the bot that asked.
outcomeSent(r) == autoOutcome[r] > 0

DeliverOutcome(r) ==
    IF outcomeSent(r) THEN UNCHANGED <<run, autoOutcome>>
    ELSE /\ Creates(Woken(r, "message", run[r].source.from, "outcome"))
         /\ autoOutcome' = [autoOutcome EXCEPT ![r] = @ + 1]

\* What a caller does when the return has failed: the worker gives up, the
\* reconciler puts the run behind the others.
GivenUp(w) == IF w = "worker" THEN "idle" ELSE "bump"

SendOutcome(r, w) ==
    /\ returner[r][w] = "send"
    /\ run[r].source.from \notin archived
    /\ DeliverOutcome(r)
    /\ Moves(r, w, "mark")
    /\ UNCHANGED <<sent, handed, archived, outstanding, faults>>

\* The bot that asked is gone.
NoAddressee(r, w) ==
    /\ returner[r][w] = "send" /\ run[r].source.from \in archived
    /\ Moves(r, w, GivenUp(w))
    /\ UNCHANGED <<run, sent, autoOutcome, handed, archived, outstanding, faults>>

\* The transaction fails, or it commits and its answer is lost.
SendFails(r, w) ==
    /\ returner[r][w] = "send" /\ faults < MaxFault
    /\ faults' = faults + 1
    /\ \/ UNCHANGED <<run, autoOutcome>>
       \/ run[r].source.from \notin archived /\ DeliverOutcome(r)
    /\ Moves(r, w, GivenUp(w))
    /\ UNCHANGED <<sent, handed, archived, outstanding>>

\* markBotOutcomeReturned.
Mark(r, w) ==
    /\ returner[r][w] = "mark"
    /\ run' = [run EXCEPT ![r].returned = TRUE]
    /\ outstanding' = Without(outstanding, r)
    /\ Moves(r, w, "idle")
    /\ UNCHANGED <<sent, autoOutcome, handed, archived, faults>>

\* Mutant: what could not be returned stays the first.
BumpNot(r) ==
    /\ returner[r]["reconciler"] = "bump"
    /\ Moves(r, "reconciler", "idle")
    /\ UNCHANGED <<run, sent, autoOutcome, handed, archived, outstanding, faults>>

\* The reconciler renews updatedAt of a run it could not return.
Bump(r) ==
    /\ returner[r]["reconciler"] = "bump"
    /\ outstanding' = IF run[r].returned THEN outstanding
                      ELSE Append(Without(outstanding, r), r)
    /\ Moves(r, "reconciler", "idle")
    /\ UNCHANGED <<run, sent, autoOutcome, handed, archived, faults>>

\* A worker, or the reconciler with its whole batch, dies.
Dies(lost) ==
    /\ faults < MaxFault /\ faults' = faults + 1
    /\ \E p \in lost : returner[p[1]][p[2]] # "idle"
    /\ returner' = [r \in Run |-> [w \in Returner |->
                       IF <<r, w>> \in lost THEN "idle" ELSE returner[r][w]]]
    /\ UNCHANGED <<run, sent, autoOutcome, handed, archived, outstanding>>

ReturnStep(r, w) ==
    \/ Look(r, w) \/ SendOutcome(r, w) \/ NoAddressee(r, w) \/ Mark(r, w)
    \/ w = "reconciler" /\ Bump(r)

MsgNext ==
    \/ \E b \in Bot : ArchiveBot(b) \/ \E g \in BOOLEAN : PersonAsks(b, g)
    \/ \E r \in Run, to \in Bot :
          Handoff(r, to) \/ \E i \in {"request", "result", "fyi"} : MessageBot(r, to, i)
    \/ \E r \in Run : \/ StopRun(r) \/ Dies({<<r, "worker">>})
                      \/ \E at \in {"look", "idle"} : Finish(r, at)
    \/ \E r \in Run, w \in Returner : ReturnStep(r, w) \/ SendFails(r, w)
    \/ Reconcile \/ Dies(Run \X {"reconciler"})

\* The reconciler's timer fires and its loop goes on; nothing is asked of workers.
MsgFairness ==
    /\ WF_msgVars(Reconcile)
    /\ \A r \in Run : WF_msgVars(ReturnStep(r, "reconciler"))

MsgSpec == MsgInit /\ [][MsgNext]_msgVars /\ MsgFairness

-----------------------------------------------------------------------------
(* Properties.                                                             *)

Sources == [kind : {"none", "message", "handoff"}, from : Bot \cup {NoBot},
            hop : 0 .. MaxHop + 1, intent : {"none", "request", "result", "fyi", "outcome"}]
Rows    == [status : {"none", "active", "ended", "cancelled"}, bot : Bot \cup {NoBot},
            group : BOOLEAN, source : Sources, returned : BOOLEAN, depth : Nat]

MsgTypeOK ==
    /\ run \in [Run -> Rows]
    /\ sent \in [Run -> SUBSET (Bot \X {"request", "result", "fyi"})]
    /\ autoOutcome \in [Run -> Nat] /\ handed \subseteq Run
    /\ archived \subseteq Bot /\ faults \in 0 .. MaxFault
    /\ outstanding \in Seq(Run)
    /\ \A r \in Run : Ended(r) /\ run[r].source.kind = "message" /\ ~run[r].returned
                      <=> \E i \in 1 .. Len(outstanding) : outstanding[i] = r
    /\ returner \in [Run -> [Returner -> {"idle", "look", "send", "mark", "bump"}]]

\* A bot that asked is told the outcome once: not by worker and reconciler both,
\* not again after a lost answer, and not on top of a result that the bot has
\* sent itself; and a run marked as returned has told it (bot-messages.ts 349-405).
OutcomeOnce ==
    \A r \in Run : Delegated(r) =>
        /\ autoOutcome[r] <= (IF ToldResult(r) THEN 0 ELSE 1)
        /\ run[r].returned => autoOutcome[r] = 1 \/ ToldResult(r)

\* Bots cannot keep each other busy: counted from a person's message, no run is
\* deeper than the limit, but for the outcome that goes back from there, and no
\* further message follows on that (core bot-messages.ts 10-15).
ChainsEnd ==
    \A r \in Run : run[r].depth <= MaxHop + (IF run[r].source.intent = "outcome" THEN 1 ELSE 0)

\* The outcome of every run that was asked for is marked as returned, though its
\* worker died and though other outcomes, with nobody to return to, stand before
\* it in every batch: again and again nothing is owed (job-reconciler.ts 243-302).
OutcomeReturns ==
    []<>(\A r \in Run :
            Ended(r) /\ Delegated(r) => run[r].returned \/ run[r].source.from \in archived)
=============================================================================
