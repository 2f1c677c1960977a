------------------------------- MODULE MCWakes -------------------------------
(***************************************************************************)
(* What wakes a bot besides its user: messages and outcomes of other bots  *)
(* (BotMessages), and the dates of a routine (Routine).  They share no row *)
(* but the runs they start, so each is run in a setting of its own while   *)
(* the other one rests.                                                    *)
(***************************************************************************)
EXTENDS BotMessages, Routine

CONSTANTS A, B, C

Bots  == {A, B, C}
Wakes == {1, 2}

VARIABLE setting

wakeVars == <<setting, msgVars, rtVars>>

Setting == {"volley", "relay", "stage", "routine"}

In(s, rest) == setting = s /\ UNCHANGED <<setting, rest>>

\* All the runs of a setting go back to one message of a person to bot A.
OneAsk(inGroup) ==
    \A r \in Run : run'[r].status # "none" /\ run'[r].source.kind = "none"
                   => r = 1 /\ run'[r].bot = A /\ run'[r].group = inGroup

Told == UNION {sent'[r] \ (Bot \X {"request"}) : r \in Run}

\* Two bots that may answer each other for ever; their workers and the
\* reconciler return outcomes at the same time.
Volley(Step) ==
    /\ In("volley", rtVars) /\ Step /\ OneAsk(FALSE)
    /\ archived' = {} /\ Cardinality(Told) <= 1
    /\ \A r \in Run : run'[r].bot # C /\ run'[r].status # "cancelled"

\* A chain of requests whose workers all die at the end of their run: the
\* reconciler returns the outcomes, also past those whose asker is archived.
Relay(Step) ==
    /\ In("relay", rtVars) /\ Step /\ OneAsk(FALSE)
    /\ archived' \subseteq {A} /\ Told = {}
    /\ \A r \in Run : /\ returner'[r]["worker"] = "idle"
                      /\ run'[r].status = "cancelled" => archived' # {}

\* A group whose members hand a stage on.
Stage(Step) == In("stage", rtVars) /\ Step /\ OneAsk(TRUE)

\* A routine, one-shot or not.
Dated(Step) == In("routine", msgVars) /\ Step

MCInit == setting \in Setting /\ MsgInit /\ RtInit /\ (setting # "routine" => ~once)

MCNext == Volley(MsgNext) \/ Relay(MsgNext) \/ Stage(MsgNext) \/ Dated(RtNext)

\* The fairness of the modules, within their settings.
MCFairness ==
    /\ WF_wakeVars(Relay(Reconcile))
    /\ \A r \in Run : WF_wakeVars(Relay(ReturnStep(r, "reconciler")))
    /\ WF_wakeVars(Dated(TimePasses))
    /\ WF_wakeVars(Dated(\E w \in Wake, d \in Date : WakeReads(w, d)))
    /\ \A w \in Wake : WF_wakeVars(Dated(WakeStep(w)))
    /\ \A f \in Fire : WF_wakeVars(Dated(RunBegins(f)))

MCSpec == MCInit /\ [][MCNext]_wakeVars /\ MCFairness

-----------------------------------------------------------------------------

\* OutcomeReturns (BotMessages), in the setting whose steps are fair: the workers
\* die, and the reconciler alone returns what is owed (job-reconciler.ts 243-302).
RelayReturns == setting = "relay" => OutcomeReturns

\* DateGetsRun (Routine), in its setting: a stored date that nobody edits gets its
\* run through lost jobs, crashes and failed enqueues (executor.ts 1018-1087).
DatedGetsRun == setting = "routine" => DateGetsRun

WakesTypeOK == MsgTypeOK /\ RtTypeOK
=============================================================================
