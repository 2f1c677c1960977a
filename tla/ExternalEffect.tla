---------------------------- MODULE ExternalEffect ----------------------------
(***************************************************************************)
(* The consequential tool calls of one run and the rows of                 *)
(* `external_effects` that keep them from happening twice.                 *)
(*                                                                         *)
(* Every attempt of a run replays its tool calls from the start, so a call *)
(* is recorded under a key made of its arguments and is claimed by a       *)
(* compare-and-set before it acts.  A gate decides, for each attempt anew, *)
(* whether a call has to be approved: by the rules of the user, which may  *)
(* change between two attempts, or by a model that reviews the call.       *)
(* Calls that need approval pause the run; the answer moves the row and    *)
(* queues the run again.  A worker that lost the lease of the run is not   *)
(* stopped at once: it and its successor may both be inside the same call. *)
(***************************************************************************)
EXTENDS Naturals, FiniteSets

CONSTANTS
    Effect,       \* the tool calls of the run, by idempotency key
    Policy,       \* what the gate goes by for each: see Policies
    Repeats,      \* the earlier occurrences of a call: same tool and arguments
    Attempt,      \* executions of the run that may overlap
    NoAttempt,    \* the null lease owner
    MaxStart      \* bound: how often the run is claimed

\* "plain": not consequential, and no rule asks about it; "ruled": consequential,
\* as the rules and the review say; "mandatory": asks whatever they say.
Policies == {"plain", "ruled", "mandatory"}

ASSUME PolicyAssumption == Policy \in [Effect -> Policies]
ASSUME RepeatsAssumption == Repeats \in [Effect -> SUBSET Effect]
ASSUME AttemptAssumption == NoAttempt \notin Attempt
ASSUME StartAssumption == MaxStart \in Nat

VARIABLES
    effect,       \* external_effects.status, "none" before the row exists
    review,       \* external_effects.reviewDecision; "ask" stands for "error" too
    effRun,       \* runs.status
    holder,       \* runs.leaseOwner
    lapsed,       \* runs.leaseExpiresAt <= now
    asking,       \* the effect of the approval card that is pending, or none
    call,         \* per attempt: where applyTool is, and what it holds
    acted,        \* history: how often the effect reached the outside world
    allowed,      \* history: the effects a user allowed
    passed,       \* history: the effects that the gate of an attempt let through
    starts        \* number of claims of the run so far

effVars == <<effect, review, effRun, holder, lapsed, asking, call, acted,
             allowed, passed, starts>>

EffStatus == {"none", "intended", "approved", "executing", "completed",
              "uncertain", "denied"}

Idle == [at |-> "idle", on |-> {}, dup |-> FALSE, saw |-> "none",
         asks |-> FALSE, claimed |-> FALSE, done |-> {}, replay |-> {}, took |-> {}]

EffectInit ==
    /\ effect = [e \in Effect |-> "none"] /\ review = [e \in Effect |-> "none"]
    /\ effRun = "queued" /\ holder = NoAttempt /\ lapsed = FALSE
    /\ asking = {}
    /\ call = [a \in Attempt |-> Idle]
    /\ acted = [e \in Effect |-> 0]
    /\ allowed = {} /\ passed = {} /\ starts = 0

-----------------------------------------------------------------------------
(* The run around the calls: what RunLease has in full.                    *)

\* A worker claims the run and reads the approved effects it has to replay.
StartAttempt(a) ==
    /\ call[a].at = "idle" /\ starts < MaxStart
    /\ effRun = "queued" \/ (effRun = "working" /\ lapsed)
    /\ effRun' = "working" /\ holder' = a /\ lapsed' = FALSE
    /\ call' = [call EXCEPT ![a] =
                  [Idle EXCEPT !.at = "ready",
                               !.replay = {e \in Effect : effect[e] = "approved"}]]
    /\ starts' = starts + 1
    /\ UNCHANGED <<effect, review, asking, acted, allowed, passed>>

LeaseLapses ==
    /\ effRun = "working" /\ ~lapsed
    /\ lapsed' = TRUE
    /\ UNCHANGED <<effect, review, effRun, holder, asking, call, acted, allowed,
                   passed, starts>>

\* The process dies, or a worker that lost its lease notices and aborts.
AttemptDies(a) ==
    /\ call[a].at # "idle"
    /\ call' = [call EXCEPT ![a] = Idle]
    /\ UNCHANGED <<effect, review, effRun, holder, lapsed, asking, acted, allowed,
                   passed, starts>>

\* The user stops the run; its lease columns stay as they are.
StopRun ==
    /\ effRun \in {"queued", "working", "waiting_input"}
    /\ effRun' = "cancelled" /\ asking' = {}
    /\ UNCHANGED <<effect, review, holder, lapsed, call, acted, allowed, passed,
                   starts>>

Go(a, fields) == call' = [call EXCEPT ![a] = fields]

\* The attempt leaves applyTool with a result; the turn goes on.
Returns(a) ==
    [call[a] EXCEPT !.at = "ready", !.on = {}, !.done = @ \cup call[a].on,
                    !.claimed = FALSE]

\* Mutant: nothing asserts that the approved requests were replayed.
DrainedOutcomeAlways(a) == "completed"

\* assertDrained throws while an approved request was not taken.
DrainedOutcome(a) == IF call[a].replay = {} THEN "completed" ELSE "failed"

\* The attempt commits the outcome of the run, if it still holds it.
FinishRun(a) ==
    /\ call[a].at = "ready"
    /\ IF effRun = "working" /\ holder = a
         THEN /\ effRun' = DrainedOutcome(a)
              /\ holder' = NoAttempt /\ lapsed' = FALSE
         ELSE UNCHANGED <<effRun, holder, lapsed>>
    /\ Go(a, Idle)
    /\ UNCHANGED <<effect, review, asking, acted, allowed, passed, starts>>

-----------------------------------------------------------------------------
(* applyTool.                                                              *)

\* Mutant: the rules cover what must always be asked.
PlansByRule(e) == IF Policy[e] = "plain" THEN {"allow"} ELSE {"ask", "allow", "judge"}

\* planActionGate.  An attempt reads the user's rules and review preference
\* once, for itself; the user may change them between two attempts, by
\* answering "always" too.  (Which of them an attempt sees is left open.)
Plans(e) ==
    CASE Policy[e] = "plain" -> {"allow"}
      [] Policy[e] = "mandatory" -> {"ask"}
      [] Policy[e] = "ruled" -> {"ask", "allow", "judge"}

\* The approved requests one of which a call takes before anything else: those
\* of its tool and arguments.  Its row is found later, by its occurrence.
Takes(a, e) == {d \in call[a].replay : d = e \/ d \in Repeats[e] \/ e \in Repeats[d]}

\* The calls that may come next: an approved request is replayed first, and
\* an attempt makes each call (arguments and occurrence) once, in order.
MayCall(a, e) ==
    /\ e \notin call[a].done /\ Repeats[e] \subseteq call[a].done
    /\ call[a].replay = {} \/ Takes(a, e) # {}

\* take() has removed the request, but its arguments no longer fit the tool:
\* the call answers with an error, and no row is looked up.
TakeInVain(a, d) ==
    /\ call[a].at = "ready" /\ d \in call[a].replay
    /\ Go(a, [call[a] EXCEPT !.replay = @ \ {d}, !.took = @ \cup {d}])
    /\ UNCHANGED <<effect, review, effRun, holder, lapsed, asking, acted, allowed,
                   passed, starts>>

\* recordEffect: find the row of the key, or create it.  The key is unique:
\* of two attempts that create it, one fails and its attempt ends.  A plan to
\* "judge" takes the decision that is stored with the row, if there is one.
RecordEffect(a, e) ==
    /\ call[a].at = "ready" /\ MayCall(a, e)
    /\ effect' = [effect EXCEPT ![e] = IF @ = "none" THEN "intended" ELSE @]
    /\ \E plan \in Plans(e),
          taken \in IF call[a].replay = {} THEN {{}} ELSE {{d} : d \in Takes(a, e)} :
         LET judges == plan = "judge" /\ review[e] = "none"
             asks == plan = "ask" \/ (plan = "judge" /\ review[e] = "ask")
         IN /\ Go(a, [call[a] EXCEPT !.at = IF judges THEN "judging" ELSE "recorded",
                         !.on = {e}, !.dup = effect[e] # "none", !.saw = effect[e],
                         !.asks = asks, !.replay = @ \ taken, !.took = @ \cup taken])
            /\ passed' = IF judges \/ asks THEN passed ELSE passed \cup {e}
    /\ UNCHANGED <<review, effRun, holder, lapsed, asking, acted, allowed, starts>>

InCall(a, pc, e) == call[a].at = pc /\ call[a].on = {e}

\* runAutoReview: the attempt goes by its own verdict, which it stores over
\* whatever another attempt has stored, and whatever the row has become.
Review(a, e, verdict) ==
    /\ InCall(a, "judging", e)
    /\ review' = [review EXCEPT ![e] = verdict]
    /\ Go(a, [call[a] EXCEPT !.at = "recorded", !.asks = verdict = "ask"])
    /\ passed' = IF verdict = "pass" THEN passed \cup {e} ELSE passed
    /\ UNCHANGED <<effect, effRun, holder, lapsed, asking, acted, allowed, starts>>

\* resolveDuplicateEffectGate, "return": the stored result is the result.
ReturnRecorded(a, e) ==
    /\ InCall(a, "recorded", e)
    /\ call[a].dup /\ call[a].saw \in {"completed", "denied", "uncertain"}
    /\ Go(a, Returns(a))
    /\ UNCHANGED <<effect, review, effRun, holder, lapsed, asking, acted, allowed,
                   passed, starts>>

\* Mutant: what may have happened is opened again.
settleAsIntended(e) ==
    effect' = [effect EXCEPT ![e] = IF @ = "executing" THEN "intended" ELSE @]

\* settleUncertainEffect: nobody knows what the earlier execution did.
settleUncertainEffect(e) ==
    effect' = [effect EXCEPT ![e] = IF @ = "executing" THEN "uncertain" ELSE @]

SettleUncertain(a, e) ==
    /\ InCall(a, "recorded", e)
    /\ call[a].dup /\ call[a].saw = "executing"
    /\ settleUncertainEffect(e)
    /\ Go(a, Returns(a))
    /\ UNCHANGED <<review, effRun, holder, lapsed, asking, acted, allowed, passed,
                   starts>>

\* The status a call claims from; "none" when it is not claimed here.
ClaimFrom(a, e) ==
    CASE call[a].dup /\ call[a].saw = "approved" -> "approved"
      [] call[a].dup /\ call[a].saw = "intended" /\ ~call[a].asks -> "intended"
      [] ~call[a].dup /\ ~call[a].asks /\ Policy[e] # "plain" -> "intended"
      [] OTHER -> "none"

\* Mutant: the claim compares only that nothing is stored yet.
claimUnlessSettled(a, e) == effect[e] \notin {"completed", "uncertain", "denied"}

\* claimApprovedEffect and claimIntendedEffect.
claimWins(a, e) == effect[e] = ClaimFrom(a, e)

ClaimEffect(a, e) ==
    /\ InCall(a, "recorded", e) /\ ClaimFrom(a, e) # "none"
    /\ claimWins(a, e)
    /\ effect' = [effect EXCEPT ![e] = "executing"]
    /\ Go(a, [call[a] EXCEPT !.at = "acting", !.claimed = TRUE])
    /\ UNCHANGED <<review, effRun, holder, lapsed, asking, acted, allowed, passed,
                   starts>>

\* The claim lost: the row is read again, and the model is told what it says;
\* nothing acts.  (A row that a user has approved since then is left alone:
\* applyTool throws, as it does not know what became of the call.)
LoseClaim(a, e) ==
    /\ InCall(a, "recorded", e) /\ ClaimFrom(a, e) # "none"
    /\ ~claimWins(a, e)
    /\ settleUncertainEffect(e)
    /\ Go(a, Returns(a))
    /\ UNCHANGED <<review, effRun, holder, lapsed, asking, acted, allowed, passed,
                   starts>>

\* A call nobody has to approve acts on the "intended" row, unclaimed.
ActPlainly(a, e) ==
    /\ InCall(a, "recorded", e)
    /\ ~call[a].dup /\ ~call[a].asks /\ Policy[e] = "plain"
    /\ Go(a, [call[a] EXCEPT !.at = "acting"])
    /\ UNCHANGED <<effect, review, effRun, holder, lapsed, asking, acted, allowed,
                   passed, starts>>

\* Mutant: any worker pauses the run.
pausesAnyway(a) == effRun = "working"

pauses(a) == effRun = "working" /\ holder = a

\* requestApproval: renew the lease, then pause the run with the card.  When
\* the run is another worker's, or already waits, the attempt just leaves.
RequestApproval(a, e) ==
    /\ InCall(a, "recorded", e)
    /\ call[a].asks /\ (call[a].dup => call[a].saw = "intended")
    /\ IF pauses(a)
         THEN /\ effRun' = "waiting_input" /\ asking' = {e}
              /\ holder' = NoAttempt /\ lapsed' = FALSE
         ELSE UNCHANGED <<effRun, asking, holder, lapsed>>
    /\ Go(a, Idle)
    /\ UNCHANGED <<effect, review, acted, allowed, passed, starts>>

\* The tool reaches the outside world ...
Act(a, e) ==
    /\ InCall(a, "acting", e)
    /\ acted' = [acted EXCEPT ![e] = @ + 1]
    /\ Go(a, [call[a] EXCEPT !.at = "acted"])
    /\ UNCHANGED <<effect, review, effRun, holder, lapsed, asking, allowed, passed,
                   starts>>

completable(a, e) ==
    effect[e] = IF call[a].claimed THEN "executing" ELSE "intended"

\* ... and completeEffect stores its result, from the status it was taken in.
CompleteEffect(a, e) ==
    /\ InCall(a, "acted", e)
    /\ effect' = [effect EXCEPT ![e] = IF completable(a, e) THEN "completed" ELSE @]
    /\ Go(a, Returns(a))
    /\ UNCHANGED <<review, effRun, holder, lapsed, asking, acted, allowed, passed,
                   starts>>

-----------------------------------------------------------------------------
(* answerRun, for an approval card: one transaction.                       *)

\* "allow" and "always" move the row alike; what "always" adds to the rules is
\* in what Plans leaves open.
AnswerAsk(e, answer) ==
    /\ effRun = "waiting_input" /\ asking = {e}
    /\ effect[e] = "intended"
    /\ effRun' = "queued" /\ asking' = {}
    /\ effect' = [effect EXCEPT ![e] =
                    IF answer = "deny" THEN "denied" ELSE "approved"]
    /\ allowed' = IF answer = "deny" THEN allowed ELSE allowed \cup {e}
    /\ UNCHANGED <<review, holder, lapsed, call, acted, passed, starts>>

CallStep(a, e) ==
    \/ TakeInVain(a, e) \/ RecordEffect(a, e) \/ \E v \in {"pass", "ask"} : Review(a, e, v)
    \/ ReturnRecorded(a, e) \/ SettleUncertain(a, e)
    \/ ClaimEffect(a, e) \/ LoseClaim(a, e) \/ ActPlainly(a, e)
    \/ RequestApproval(a, e) \/ Act(a, e) \/ CompleteEffect(a, e)

EffectNext ==
    \/ \E a \in Attempt : StartAttempt(a) \/ AttemptDies(a) \/ FinishRun(a)
    \/ \E a \in Attempt, e \in Effect : CallStep(a, e)
    \/ LeaseLapses \/ StopRun
    \/ \E e \in Effect, answer \in {"allow", "deny"} : AnswerAsk(e, answer)

EffectSpec == EffectInit /\ [][EffectNext]_effVars

-----------------------------------------------------------------------------
(* Properties.                                                             *)

EffectTypeOK ==
    /\ effect \in [Effect -> EffStatus]
    /\ review \in [Effect -> {"none", "pass", "ask"}]
    /\ effRun \in {"queued", "working", "waiting_input", "completed", "failed",
                   "cancelled"}
    /\ holder \in Attempt \cup {NoAttempt} /\ lapsed \in BOOLEAN
    /\ asking \subseteq Effect
    /\ call \in [Attempt ->
          [at : {"idle", "ready", "judging", "recorded", "acting", "acted"},
           on : SUBSET Effect, dup : BOOLEAN, saw : EffStatus, asks : BOOLEAN,
           claimed : BOOLEAN, done : SUBSET Effect, replay : SUBSET Effect,
           took : SUBSET Effect]]
    /\ acted \in [Effect -> Nat]
    /\ allowed \subseteq Effect /\ passed \subseteq Effect /\ starts \in 0..MaxStart

\* A consequential call happens at most once, however often the run is
\* claimed, crashes inside the call or is executed by two workers that its
\* gate treats differently (approval-effect.ts 416-439, settleUncertainEffect).
ConsequentialOnce ==
    \A e \in Effect : Policy[e] # "plain" => acted[e] <= 1

\* What happened was allowed by a user or let through by the gate of an
\* attempt; what must always be asked was allowed, and what a user denied never
\* happened (executor.ts 2039-2260).
ActedWasAllowed ==
    \A e \in Effect :
       acted[e] > 0 => /\ effect[e] # "denied" /\ e \in allowed \cup passed
                       /\ Policy[e] = "mandatory" => e \in allowed

\* A call whose claimed execution is recorded as completed did happen, and a
\* call that may have happened is never open to a new approval.
CompletedDidAct ==
    \A e \in Effect :
       /\ effect[e] = "completed" => acted[e] > 0
       /\ Policy[e] # "plain" /\ acted[e] > 0 =>
             effect[e] \in {"executing", "completed", "uncertain"}

\* A run that waits for an approval waits for one that can still be answered
\* (events.ts 612-624): no attempt has moved the row of the pending card, but
\* one whose own gate let the same call through.  (Attempts that overlap may
\* disagree so; then nobody can answer the card.)
AskCanBeAnswered ==
    effRun = "waiting_input" =>
       \E e \in Effect : asking = {e} /\ (effect[e] = "intended" \/ e \in passed)

\* A run completes over an approval that is still open only when the attempt
\* that completes it has taken the approved request without coming to its row:
\* its arguments no longer fitted the tool, or the call was the repetition of
\* another one (approval-effect.ts 29-39, executor.ts 2012-2038, 2101-2108).
NoApprovalForgotten ==
    [][effRun # "completed" /\ effRun' = "completed" =>
         \A e \in Effect : effect[e] = "approved" =>
            e \in call[holder].took \ call[holder].done]_effVars
=============================================================================
