------------------------ MODULE ExternalEffect_proofs ------------------------
(***************************************************************************)
(* Theorems about ExternalEffect, for any tool calls, policies, attempts   *)
(* and number of claims, whatever the rules say and the reviews find: its  *)
(* types, that no consequential call happens twice, that what happened was *)
(* allowed, and that it is recorded; that a pending card can be answered   *)
(* unless attempts disagree, and that no approval is forgotten.            *)
(***************************************************************************)
EXTENDS ExternalEffect, TLAPS

Consequential == {e \in Effect : Policy[e] # "plain"}

\* The statuses of a call that somebody has claimed: they lead nowhere else.
Claimed == {"executing", "completed", "uncertain"}

\* An attempt is between the claim of a call and its result.
Doing(a, e) == call[a].at \in {"acting", "acted"} /\ call[a].on = {e}

\* A user allowed the call or the gate of an attempt let it through; the user,
\* if it had to be asked about.
Permitted(e) ==
    /\ e \in allowed \cup passed
    /\ Policy[e] = "mandatory" => e \in allowed

-----------------------------------------------------------------------------
(* The inductive invariant.                                                *)

\* A consequential call is claimed once: one attempt is in it, and nothing has
\* happened before that attempt acts.
OneDoes ==
    \A e \in Consequential :
       /\ acted[e] <= 1
       /\ acted[e] > 0 => effect[e] \in Claimed
       /\ \A a \in Attempt : Doing(a, e) =>
             /\ effect[e] \in Claimed
             /\ call[a].at = "acting" => acted[e] = 0
             /\ \A b \in Attempt : Doing(b, e) => a = b

\* Who stores a result has acted.
ResultsAreReal ==
    \A e \in Effect :
       /\ effect[e] = "completed" => acted[e] > 0
       /\ \A a \in Attempt : call[a].at = "acted" /\ call[a].on = {e} => acted[e] > 0

\* What the gate decided still holds, whatever other attempts decide: only what
\* may be asked about asks, and only what may go ahead goes ahead.
GateHolds ==
    \A e \in Effect :
       /\ Policy[e] = "mandatory" => e \notin passed
       /\ asking = {e} => Policy[e] # "plain"
       /\ effect[e] \in {"denied", "approved"} => Policy[e] # "plain"
       /\ effect[e] = "approved" => e \in allowed
       /\ acted[e] > 0 => Permitted(e)
       /\ \A a \in Attempt :
            /\ InCall(a, "judging", e) => Policy[e] = "ruled"
            /\ InCall(a, "recorded", e) => IF call[a].asks THEN Policy[e] # "plain"
                                                           ELSE e \in passed
            /\ Doing(a, e) => Permitted(e)

EffectInv == EffectTypeOK /\ OneDoes /\ ResultsAreReal /\ GateHolds

-----------------------------------------------------------------------------
(* Types.                                                                  *)

CallRec ==
    [at : {"idle", "ready", "judging", "recorded", "acting", "acted"},
     on : SUBSET Effect, dup : BOOLEAN, saw : EffStatus, asks : BOOLEAN,
     claimed : BOOLEAN, done : SUBSET Effect, replay : SUBSET Effect,
     took : SUBSET Effect]

LEMMA IdleIsCall == Idle \in CallRec
BY DEF Idle, CallRec, EffStatus

\* Returning from a call gives a call record.
LEMMA ReturnsIsCall ==
    ASSUME NEW a \in Attempt, call \in [Attempt -> CallRec]
    PROVE  Returns(a) \in CallRec
BY DEF Returns, CallRec

\* Taking approved requests and entering a call give a call record.
LEMMA RecordedIsCall ==
    ASSUME NEW c \in CallRec, NEW e \in Effect, NEW s \in EffStatus, NEW t \in SUBSET Effect,
           NEW d \in BOOLEAN, NEW k \in BOOLEAN, NEW pc \in {"judging", "recorded"}
    PROVE  /\ [c EXCEPT !.at = pc, !.on = {e}, !.dup = d, !.saw = s, !.asks = k,
                        !.replay = @ \ t, !.took = @ \cup t] \in CallRec
           /\ [c EXCEPT !.at = "recorded", !.asks = k] \in CallRec
<1>1. [c EXCEPT !.at = pc, !.on = {e}, !.dup = d, !.saw = s, !.asks = k,
                !.replay = @ \ t, !.took = @ \cup t] \in CallRec
  BY ZenonT(60) DEF CallRec
<1>2. [c EXCEPT !.at = "recorded", !.asks = k] \in CallRec
  BY ZenonT(60) DEF CallRec
<1> QED
  BY <1>1, <1>2

\* Taking an approved request in vain gives a call record.
LEMMA TakenIsCall ==
    ASSUME NEW c \in CallRec, NEW e \in Effect
    PROVE  [c EXCEPT !.replay = @ \ {e}, !.took = @ \cup {e}] \in CallRec
BY DEF CallRec

\* Acting on a call, claimed or not, gives a call record.
LEMMA ActingIsCall ==
    ASSUME NEW c \in CallRec
    PROVE  /\ [c EXCEPT !.at = "acting", !.claimed = TRUE] \in CallRec
           /\ [c EXCEPT !.at = "acting"] \in CallRec
           /\ [c EXCEPT !.at = "acted"] \in CallRec
<1>1. [c EXCEPT !.at = "acting", !.claimed = TRUE] \in CallRec
  BY ZenonT(60) DEF CallRec
<1>2. [c EXCEPT !.at = "acting"] \in CallRec /\ [c EXCEPT !.at = "acted"] \in CallRec
  BY ZenonT(60) DEF CallRec
<1> QED
  BY <1>1, <1>2

\* What an attempt goes into a call with: the gate's plan has asked or let the
\* call through, or a review will say; what it took it no longer has to replay.
LEMMA Recorded ==
    ASSUME call \in [Attempt -> CallRec], effect \in [Effect -> EffStatus],
           passed \subseteq Effect, NEW a \in Attempt, NEW e \in Effect, RecordEffect(a, e)
    PROVE  /\ call' \in [Attempt -> CallRec] /\ \A b \in Attempt \ {a} : call'[b] = call[b]
           /\ call'[a].at \in {"judging", "recorded"} /\ call'[a].on = {e}
           /\ call'[a].dup = (effect[e] # "none") /\ call'[a].saw = effect[e]
           /\ call'[a].done = call[a].done
           /\ call'[a].replay \cup call'[a].took = call[a].replay \cup call[a].took
           /\ passed' \in {passed, passed \cup {e}}
           /\ e \in passed' \ passed => Policy[e] # "mandatory"
           /\ call'[a].at = "judging" => Policy[e] = "ruled"
           /\ call'[a].at = "recorded" =>
                 IF call'[a].asks THEN Policy[e] # "plain" ELSE e \in passed'
<1>1. PICK plan \in Plans(e),
           taken \in IF call[a].replay = {} THEN {{}} ELSE {{d} : d \in Takes(a, e)} :
        LET judges == plan = "judge" /\ review[e] = "none"
            asks == plan = "ask" \/ (plan = "judge" /\ review[e] = "ask")
        IN /\ Go(a, [call[a] EXCEPT !.at = IF judges THEN "judging" ELSE "recorded",
                        !.on = {e}, !.dup = effect[e] # "none", !.saw = effect[e],
                        !.asks = asks, !.replay = @ \ taken, !.took = @ \cup taken])
           /\ passed' = IF judges \/ asks THEN passed ELSE passed \cup {e}
  BY DEF RecordEffect
<1> DEFINE judges == plan = "judge" /\ review[e] = "none"
           asks == plan = "ask" \/ (plan = "judge" /\ review[e] = "ask")
           pc == IF judges THEN "judging" ELSE "recorded"
           known == effect[e] # "none"
           c == [call[a] EXCEPT !.at = pc, !.on = {e}, !.dup = known, !.saw = effect[e],
                     !.asks = asks, !.replay = @ \ taken, !.took = @ \cup taken]
<1>2. call' = [call EXCEPT ![a] = c]
  BY <1>1 DEF Go
<1>3. taken \subseteq call[a].replay /\ taken \in SUBSET Effect
  BY DEF Takes, CallRec
<1>4. judges \in BOOLEAN /\ asks \in BOOLEAN /\ known \in BOOLEAN
      /\ pc \in {"judging", "recorded"} /\ call[a] \in CallRec /\ effect[e] \in EffStatus
  BY ZenonT(30)
<1>5. c \in CallRec
  <2> HIDE DEF judges, asks, pc, known
  <2> QED
    BY <1>3, <1>4, RecordedIsCall
<1>6. /\ c.at = pc /\ c.on = {e} /\ c.dup = known /\ c.saw = effect[e] /\ c.asks = asks
      /\ c.done = call[a].done /\ c.replay = call[a].replay \ taken
      /\ c.took = call[a].took \cup taken
  <2> HIDE DEF judges, asks, pc, known
  <2> QED
    BY <1>4 DEF CallRec
<1>7. /\ plan = "ask" => Policy[e] # "plain"
      /\ plan = "judge" => Policy[e] = "ruled"
      /\ plan = "allow" => Policy[e] # "mandatory"
      /\ plan \in {"ask", "allow", "judge"}
  BY PolicyAssumption DEF Plans, Policies
<1>8. call'[a] = c /\ call' \in [Attempt -> CallRec] /\ \A b \in Attempt \ {a} : call'[b] = call[b]
  <2> HIDE DEF c
  <2> QED
    BY <1>2, <1>5
<1>9. passed' = IF judges \/ asks THEN passed ELSE passed \cup {e}
  BY <1>1
<1>10. call'[a].replay \cup call'[a].took = call[a].replay \cup call[a].took
  BY <1>3, <1>6, <1>8
<1>11. ~judges /\ asks => Policy[e] # "plain"
  BY <1>7
<1>12. judges => Policy[e] = "ruled"
  BY <1>7
<1>13. ~judges /\ ~asks => Policy[e] # "mandatory"
  BY <1>7
<1> HIDE DEF judges, asks, known, c
<1> QED
  BY <1>4, <1>6, <1>8, <1>9, <1>10, <1>11, <1>12, <1>13 DEF known

\* Every step of a call keeps the types.
LEMMA CallTypes ==
    ASSUME EffectTypeOK, NEW a \in Attempt, NEW e \in Effect, CallStep(a, e)
    PROVE  EffectTypeOK'
<1> USE AttemptAssumption, StartAssumption
<1>0. /\ call \in [Attempt -> CallRec] /\ effect \in [Effect -> EffStatus]
      /\ acted \in [Effect -> Nat] /\ passed \subseteq Effect
      /\ review \in [Effect -> {"none", "pass", "ask"}]
  BY DEF EffectTypeOK, CallRec
<1>1. CASE RecordEffect(a, e)
  <2>4. call' \in [Attempt -> CallRec] /\ passed' \subseteq Effect
    BY <1>0, <1>1, Recorded
  <2>5. effect' \in [Effect -> EffStatus]
    BY <1>0, <1>1 DEF RecordEffect, EffStatus
  <2> QED
    BY <1>1, <2>4, <2>5 DEF RecordEffect, EffectTypeOK, CallRec
<1>6. CASE TakeInVain(a, e)
  <2>1. [call[a] EXCEPT !.replay = @ \ {e}, !.took = @ \cup {e}] \in CallRec
    BY <1>0, TakenIsCall
  <2>2. call' \in [Attempt -> CallRec]
    BY <1>0, <1>6, <2>1 DEF TakeInVain, Go
  <2> QED
    BY <1>6, <2>2 DEF TakeInVain, EffectTypeOK, CallRec
<1>7. ASSUME NEW v \in {"pass", "ask"}, Review(a, e, v)
      PROVE  EffectTypeOK'
  <2> DEFINE k == v = "ask"
  <2>1. k \in BOOLEAN
    OBVIOUS
  <2>2. [call[a] EXCEPT !.at = "recorded", !.asks = k] \in CallRec
    <3> HIDE DEF k
    <3> QED
      BY <1>0, <2>1, RecordedIsCall DEF EffStatus
  <2>3. call' \in [Attempt -> CallRec]
    BY <1>0, <1>7, <2>2 DEF Review, Go
  <2>4. review' \in [Effect -> {"none", "pass", "ask"}] /\ passed' \subseteq Effect
    BY <1>0, <1>7 DEF Review
  <2> QED
    BY <1>7, <2>3, <2>4 DEF Review, EffectTypeOK, CallRec
<1>2. CASE ReturnRecorded(a, e) \/ SettleUncertain(a, e) \/ LoseClaim(a, e) \/ CompleteEffect(a, e)
  <2>1. call' \in [Attempt -> CallRec]
    BY <1>0, <1>2, ReturnsIsCall
       DEF ReturnRecorded, SettleUncertain, LoseClaim, CompleteEffect, Go
  <2>2. effect' \in [Effect -> EffStatus]
    BY <1>0, <1>2 DEF ReturnRecorded, SettleUncertain, LoseClaim, CompleteEffect,
                      settleUncertainEffect, EffStatus
  <2> QED
    BY <1>2, <2>1, <2>2 DEF ReturnRecorded, SettleUncertain, LoseClaim, CompleteEffect,
                            EffectTypeOK, CallRec
<1>3. CASE ClaimEffect(a, e) \/ ActPlainly(a, e)
  <2>1. [call[a] EXCEPT !.at = "acting", !.claimed = TRUE] \in CallRec
    BY <1>0, ActingIsCall
  <2>2. [call[a] EXCEPT !.at = "acting"] \in CallRec
    BY <1>0, ActingIsCall
  <2>3. call' \in [Attempt -> CallRec]
    BY <1>0, <1>3, <2>1, <2>2 DEF ClaimEffect, ActPlainly, Go
  <2>4. effect' \in [Effect -> EffStatus]
    BY <1>0, <1>3 DEF ClaimEffect, ActPlainly, EffStatus
  <2> QED
    BY <1>3, <2>3, <2>4 DEF ClaimEffect, ActPlainly, EffectTypeOK, CallRec
<1>4. CASE RequestApproval(a, e)
  <2>1. call' \in [Attempt -> CallRec]
    BY <1>0, <1>4, IdleIsCall DEF RequestApproval, Go
  <2> QED
    BY <1>4, <2>1 DEF RequestApproval, EffectTypeOK, CallRec
<1>5. CASE Act(a, e)
  <2>1. [call[a] EXCEPT !.at = "acted"] \in CallRec
    BY <1>0, ActingIsCall
  <2>2. call' \in [Attempt -> CallRec] /\ acted' \in [Effect -> Nat]
    BY <1>0, <1>5, <2>1 DEF Act, Go
  <2> QED
    BY <1>5, <2>2 DEF Act, EffectTypeOK, CallRec
<1> QED
  BY <1>1, <1>2, <1>3, <1>4, <1>5, <1>6, <1>7 DEF CallStep

LEMMA StepTypes == EffectTypeOK /\ [EffectNext]_effVars => EffectTypeOK'
<1> SUFFICES ASSUME EffectTypeOK, [EffectNext]_effVars PROVE EffectTypeOK'
  OBVIOUS
<1> USE AttemptAssumption, StartAssumption
<1>0. call \in [Attempt -> CallRec] /\ effect \in [Effect -> EffStatus]
  BY DEF EffectTypeOK, CallRec
<1>1. ASSUME NEW a \in Attempt, StartAttempt(a) PROVE EffectTypeOK'
  <2>1. [Idle EXCEPT !.at = "ready", !.replay = {e \in Effect : effect[e] = "approved"}] \in CallRec
    BY DEF Idle, CallRec, EffStatus
  <2>2. call' \in [Attempt -> CallRec]
    BY <1>0, <1>1, <2>1 DEF StartAttempt
  <2>3. starts' \in 0 .. MaxStart
    BY <1>1 DEF StartAttempt, EffectTypeOK
  <2> QED
    BY <1>1, <2>2, <2>3 DEF StartAttempt, EffectTypeOK, CallRec
<1>2. ASSUME NEW a \in Attempt, AttemptDies(a) \/ FinishRun(a) PROVE EffectTypeOK'
  <2>1. call' \in [Attempt -> CallRec]
    BY <1>0, <1>2, IdleIsCall DEF AttemptDies, FinishRun, Go
  <2>2. DrainedOutcome(a) \in {"completed", "failed"}
    BY DEF DrainedOutcome
  <2> QED
    BY <1>2, <2>1, <2>2 DEF AttemptDies, FinishRun, EffectTypeOK, CallRec
<1>3. ASSUME NEW a \in Attempt, NEW e \in Effect, CallStep(a, e) PROVE EffectTypeOK'
  BY <1>3, CallTypes
<1>4. CASE LeaseLapses \/ StopRun
  BY <1>4 DEF LeaseLapses, StopRun, EffectTypeOK
<1>5. ASSUME NEW e \in Effect, NEW answer \in {"allow", "deny"}, AnswerAsk(e, answer)
      PROVE  EffectTypeOK'
  <2>2. effect' \in [Effect -> EffStatus]
    BY <1>0, <1>5 DEF AnswerAsk, EffStatus
  <2>3. allowed' \subseteq Effect
    BY <1>5 DEF AnswerAsk, EffectTypeOK
  <2> QED
    BY <1>5, <2>2, <2>3 DEF AnswerAsk, EffectTypeOK
<1>6. CASE UNCHANGED effVars
  BY <1>6 DEF effVars, EffectTypeOK
<1> QED
  BY <1>1, <1>2, <1>3, <1>4, <1>5, <1>6 DEF EffectNext

\* Initially every variable has its type.
LEMMA EffectInitTypes == EffectInit => EffectTypeOK
<1> SUFFICES ASSUME EffectInit PROVE EffectTypeOK
  OBVIOUS
<1>1. call \in [Attempt -> CallRec]
  BY IdleIsCall DEF EffectInit
<1>2. holder \in Attempt \cup {NoAttempt} /\ starts \in 0 .. MaxStart
  BY StartAssumption DEF EffectInit
<1>3. effect \in [Effect -> EffStatus] /\ acted \in [Effect -> Nat]
  BY DEF EffectInit, EffStatus
<1>4. /\ lapsed \in BOOLEAN /\ review \in [Effect -> {"none", "pass", "ask"}]
      /\ asking \subseteq Effect /\ allowed \subseteq Effect /\ passed \subseteq Effect
  BY DEF EffectInit
<1> QED
  BY <1>1, <1>2, <1>3, <1>4 DEF EffectInit, EffectTypeOK, CallRec

\* Every variable of the tool calls has its type.
THEOREM EffectTypes == EffectSpec => []EffectTypeOK
BY EffectInitTypes, StepTypes, PTL DEF EffectSpec

-----------------------------------------------------------------------------
(* The invariant is inductive.                                             *)

\* A step that takes an attempt out of its call, and that changes at most an
\* open execution into an uncertain one, keeps the invariant.
LEMMA LeavingKeeps ==
    ASSUME EffectInv, NEW a \in Attempt,
           \A b \in Attempt \ {a} : call'[b] = call[b],
           call'[a].at \in {"idle", "ready"},
           UNCHANGED <<acted, allowed, passed>>,
           asking' = asking \/ asking' = {} \/ \E x \in Consequential : asking' = {x},
           \A x \in Effect : effect'[x] # effect[x] =>
               effect[x] = "executing" /\ effect'[x] = "uncertain"
    PROVE  OneDoes' /\ ResultsAreReal' /\ GateHolds'
<1> USE DEF Doing, InCall, Consequential, Claimed
<1>0. OneDoes /\ ResultsAreReal /\ GateHolds
  BY DEF EffectInv
<1>1. OneDoes'
  BY <1>0 DEF OneDoes
<1>2. ResultsAreReal'
  BY <1>0 DEF ResultsAreReal
<1>3. GateHolds'
  BY <1>0 DEF GateHolds, Permitted
<1> QED
  BY <1>1, <1>2, <1>3

\* The claims, the actions and the results of one step of a call.
LEMMA CallInv ==
    ASSUME EffectInv, NEW a \in Attempt, NEW e \in Effect, CallStep(a, e)
    PROVE  OneDoes' /\ ResultsAreReal' /\ GateHolds'
<1>0. /\ call \in [Attempt -> CallRec] /\ effect \in [Effect -> EffStatus]
      /\ acted \in [Effect -> Nat] /\ Policy \in [Effect -> Policies] /\ passed \subseteq Effect
      /\ OneDoes /\ ResultsAreReal /\ GateHolds
  BY PolicyAssumption DEF EffectInv, EffectTypeOK, CallRec
<1> USE DEF Doing, InCall, Consequential, Claimed
<1>1. CASE RecordEffect(a, e)
  <2>1. /\ \A b \in Attempt \ {a} : call'[b] = call[b]
        /\ call'[a].at \in {"judging", "recorded"} /\ call'[a].on = {e}
        /\ passed' \in {passed, passed \cup {e}}
        /\ e \in passed' \ passed => Policy[e] # "mandatory"
        /\ call'[a].at = "judging" => Policy[e] = "ruled"
        /\ call'[a].at = "recorded" =>
              IF call'[a].asks THEN Policy[e] # "plain" ELSE e \in passed'
    BY <1>0, <1>1, Recorded
  <2>e. /\ UNCHANGED <<asking, acted, allowed>>
        /\ \A x \in Effect : effect'[x] # effect[x] => effect[x] = "none" /\ effect'[x] = "intended"
    BY <1>0, <1>1 DEF RecordEffect
  <2>2. OneDoes'
    BY <1>0, <2>1, <2>e DEF OneDoes
  <2>3. ResultsAreReal'
    BY <1>0, <2>1, <2>e DEF ResultsAreReal
  <2>4. GateHolds'
    <3> SUFFICES ASSUME NEW x \in Effect
                 PROVE  /\ Policy[x] = "mandatory" => x \notin passed'
                        /\ \A b \in Attempt :
                             /\ InCall(b, "judging", x)' => Policy[x] = "ruled"
                             /\ InCall(b, "recorded", x)' =>
                                  IF call'[b].asks THEN Policy[x] # "plain" ELSE x \in passed'
      BY <1>0, <2>1, <2>e DEF GateHolds, Permitted
    <3>1. Policy[x] = "mandatory" => x \notin passed'
      BY <1>0, <2>1 DEF GateHolds
    <3>2. ASSUME NEW b \in Attempt, b # a
          PROVE  /\ InCall(b, "judging", x)' => Policy[x] = "ruled"
                 /\ InCall(b, "recorded", x)' =>
                      IF call'[b].asks THEN Policy[x] # "plain" ELSE x \in passed'
      BY <1>0, <2>1, <3>2 DEF GateHolds
    <3>3. /\ InCall(a, "judging", x)' => Policy[x] = "ruled"
          /\ InCall(a, "recorded", x)' =>
               IF call'[a].asks THEN Policy[x] # "plain" ELSE x \in passed'
      BY <2>1
    <3> QED
      BY <3>1, <3>2, <3>3
  <2> QED
    BY <2>2, <2>3, <2>4
<1>8. CASE TakeInVain(a, e)
  <2>1. /\ \A b \in Attempt \ {a} : call'[b] = call[b]
        /\ call'[a].at = "ready"
        /\ UNCHANGED <<effect, asking, acted, allowed, passed>>
    BY <1>0, <1>8 DEF TakeInVain, Go, CallRec
  <2> QED
    BY <2>1, LeavingKeeps
<1>9. ASSUME NEW v \in {"pass", "ask"}, Review(a, e, v)
      PROVE  OneDoes' /\ ResultsAreReal' /\ GateHolds'
  <2>1. /\ \A b \in Attempt \ {a} : call'[b] = call[b]
        /\ call'[a].at = "recorded" /\ call'[a].on = {e} /\ call'[a].asks = (v = "ask")
        /\ Policy[e] = "ruled"
        /\ UNCHANGED <<effect, asking, acted, allowed>>
        /\ passed' = IF v = "pass" THEN passed \cup {e} ELSE passed
    BY <1>0, <1>9 DEF Review, Go, CallRec, GateHolds
  <2>2. OneDoes' /\ ResultsAreReal'
    BY <1>0, <2>1 DEF OneDoes, ResultsAreReal
  <2>3. GateHolds'
    <3>1. passed \subseteq passed' /\ (\A x \in Effect : x \in passed' \ passed => Policy[x] = "ruled")
      BY <2>1
    <3>2. ASSUME NEW b \in Attempt, b # a, NEW x \in Effect
          PROVE  /\ InCall(b, "judging", x)' => Policy[x] = "ruled"
                 /\ InCall(b, "recorded", x)' =>
                      IF call'[b].asks THEN Policy[x] # "plain" ELSE x \in passed'
                 /\ Doing(b, x)' => Permitted(x)
      BY <1>0, <2>1, <3>1, <3>2 DEF GateHolds
    <3>3. ASSUME NEW x \in Effect
          PROVE  /\ ~ InCall(a, "judging", x)' /\ ~ Doing(a, x)'
                 /\ InCall(a, "recorded", x)' =>
                      IF call'[a].asks THEN Policy[x] # "plain" ELSE x \in passed'
      BY <2>1
    <3>4. \A x \in Effect : Permitted(x) => Permitted(x)'
      BY <2>1, <3>1 DEF Permitted
    <3>6. ASSUME NEW x \in Effect, NEW b \in Attempt
          PROVE  /\ InCall(b, "judging", x)' => Policy[x] = "ruled"
                 /\ InCall(b, "recorded", x)' =>
                      IF call'[b].asks THEN Policy[x] # "plain" ELSE x \in passed'
                 /\ Doing(b, x)' => Permitted(x)'
      <4>1. CASE b = a
        BY <3>3, <4>1
      <4>2. CASE b # a
        BY <3>2, <3>4, <4>2
      <4> QED
        BY <4>1, <4>2
    <3>7. ASSUME NEW x \in Effect
          PROVE  /\ asking' = {x} => Policy[x] # "plain"
                 /\ effect'[x] \in {"denied", "approved"} => Policy[x] # "plain"
                 /\ effect'[x] = "approved" => x \in allowed'
                 /\ acted'[x] > 0 => Permitted(x)'
                 /\ Policy[x] = "mandatory" => x \notin passed'
      <4>1. Permitted(x) => Permitted(x)'
        BY <3>4
      <4>2. acted[x] > 0 => Permitted(x)
        BY <1>0 DEF GateHolds
      <4> QED
        BY <1>0, <2>1, <3>1, <4>1, <4>2 DEF GateHolds
    <3> QED
      BY <3>6, <3>7 DEF GateHolds
  <2> QED
    BY <2>2, <2>3
<1>2. CASE ReturnRecorded(a, e) \/ SettleUncertain(a, e) \/ LoseClaim(a, e)
  <2>1. /\ \A b \in Attempt \ {a} : call'[b] = call[b]
        /\ call'[a].at = "ready"
        /\ UNCHANGED <<asking, acted, allowed, passed>>
    <3>1. call' = [call EXCEPT ![a] = Returns(a)] /\ UNCHANGED <<asking, acted, allowed, passed>>
      BY <1>2 DEF ReturnRecorded, SettleUncertain, LoseClaim, Go
    <3>2. Returns(a).at = "ready"
      BY <1>0 DEF Returns, CallRec
    <3> QED
      BY <1>0, <3>1, <3>2
  <2>2. \A x \in Effect : effect'[x] # effect[x] =>
           effect[x] = "executing" /\ effect'[x] = "uncertain"
    BY <1>0, <1>2 DEF ReturnRecorded, SettleUncertain, LoseClaim, settleUncertainEffect
  <2> QED
    BY <2>1, <2>2, LeavingKeeps
<1>3. CASE RequestApproval(a, e)
  <2>1. /\ \A b \in Attempt \ {a} : call'[b] = call[b]
        /\ call'[a].at = "idle"
        /\ UNCHANGED <<effect, acted, allowed, passed>>
    BY <1>0, <1>3 DEF RequestApproval, Go, Idle
  <2>2. asking' = asking \/ \E x \in Consequential : asking' = {x}
    BY <1>0, <1>3 DEF RequestApproval, GateHolds
  <2> QED
    BY <2>1, <2>2, LeavingKeeps
<1>4. CASE ClaimEffect(a, e)
  <2>1. /\ \A b \in Attempt \ {a} : call'[b] = call[b]
        /\ call'[a].at = "acting" /\ call'[a].on = {e}
        /\ UNCHANGED <<asking, acted, allowed, passed>>
        /\ effect' = [effect EXCEPT ![e] = "executing"]
    BY <1>0, <1>4 DEF ClaimEffect, Go, CallRec
  <2>2. effect[e] \in {"approved", "intended"}
    BY <1>0, <1>4 DEF ClaimEffect, claimWins, ClaimFrom
  <2>x. e \in Consequential => acted[e] = 0 /\ \A b \in Attempt : ~Doing(b, e)
    BY <1>0, <2>2 DEF OneDoes
  <2>3. OneDoes'
    <3> SUFFICES ASSUME NEW x \in Consequential
                 PROVE  /\ acted[x] <= 1
                        /\ acted[x] > 0 => effect'[x] \in Claimed
                        /\ \A b \in Attempt : Doing(b, x)' =>
                              /\ effect'[x] \in Claimed
                              /\ call'[b].at = "acting" => acted[x] = 0
                              /\ \A c \in Attempt : Doing(c, x)' => b = c
      BY <2>1 DEF OneDoes
    <3>1. CASE x = e
      BY <1>0, <2>1, <2>x, <3>1
    <3>2. CASE x # e
      <4>1. effect'[x] = effect[x]
        BY <1>0, <2>1, <3>2
      <4>2. \A b \in Attempt : Doing(b, x)' => b # a /\ call'[b] = call[b] /\ Doing(b, x)
        BY <2>1, <3>2
      <4> QED
        BY <1>0, <4>1, <4>2 DEF OneDoes
    <3> QED
      BY <3>1, <3>2
  <2>4. ResultsAreReal'
    BY <1>0, <2>1, <2>2 DEF ResultsAreReal
  <2>5. Permitted(e)
    <3>1. CASE effect[e] = "approved"
      BY <1>0, <3>1 DEF GateHolds, Permitted
    <3>2. CASE effect[e] = "intended"
      <4>1. ~call[a].asks
        BY <1>4, <3>2 DEF ClaimEffect, claimWins, ClaimFrom
      <4>2. e \in passed
        BY <1>0, <1>4, <4>1 DEF ClaimEffect, GateHolds
      <4> QED
        BY <1>0, <4>2 DEF GateHolds, Permitted
    <3> QED
      BY <2>2, <3>1, <3>2
  <2>6. GateHolds'
    BY <1>0, <2>1, <2>5 DEF GateHolds, Permitted
  <2> QED
    BY <2>3, <2>4, <2>6
<1>5. CASE ActPlainly(a, e)
  <2>1. /\ \A b \in Attempt \ {a} : call'[b] = call[b]
        /\ call'[a].at = "acting" /\ call'[a].on = {e}
        /\ UNCHANGED <<effect, asking, acted, allowed, passed>>
        /\ Policy[e] = "plain" /\ e \in passed
    BY <1>0, <1>5 DEF ActPlainly, Go, CallRec, GateHolds
  <2>x. \A x \in Consequential, b \in Attempt : Doing(b, x)' => b # a /\ Doing(b, x)
    BY <2>1
  <2>2. OneDoes'
    BY <1>0, <2>1, <2>x DEF OneDoes
  <2>3. ResultsAreReal'
    BY <1>0, <2>1 DEF ResultsAreReal
  <2>4. GateHolds'
    BY <1>0, <2>1 DEF GateHolds, Permitted
  <2> QED
    BY <2>2, <2>3, <2>4
<1>6. CASE Act(a, e)
  <2>1. /\ \A b \in Attempt \ {a} : call'[b] = call[b]
        /\ call[a].at = "acting" /\ call[a].on = {e}
        /\ call'[a].at = "acted" /\ call'[a].on = {e}
        /\ UNCHANGED <<effect, asking, allowed, passed>>
        /\ acted' = [acted EXCEPT ![e] = @ + 1]
    BY <1>0, <1>6 DEF Act, Go, CallRec
  <2>y. /\ \A x \in Effect : acted'[x] = IF x = e THEN acted[x] + 1 ELSE acted[x]
        /\ \A x \in Effect : acted[x] \in Nat
        /\ \A b \in Attempt, x \in Effect : Doing(b, x)' <=> Doing(b, x)
        /\ Permitted(e)
    <3>1. Permitted(e)
      BY <1>0, <2>1 DEF GateHolds
    <3> QED
      BY <1>0, <2>1, <3>1
  <2>x. e \in Consequential => /\ acted[e] = 0 /\ effect[e] \in Claimed
                               /\ \A b \in Attempt : Doing(b, e) => b = a
    BY <1>0, <2>1 DEF OneDoes
  <2>2. OneDoes'
    <3> SUFFICES ASSUME NEW x \in Consequential
                 PROVE  /\ acted'[x] <= 1
                        /\ acted'[x] > 0 => effect[x] \in Claimed
                        /\ \A b \in Attempt : Doing(b, x)' =>
                              /\ effect[x] \in Claimed
                              /\ call'[b].at = "acting" => acted'[x] = 0
                              /\ \A c \in Attempt : Doing(c, x)' => b = c
      BY <2>1 DEF OneDoes
    <3>1. CASE x = e
      BY <1>0, <2>1, <2>x, <3>1
    <3>2. CASE x # e
      <4>1. acted'[x] = acted[x]
        BY <2>y, <3>2
      <4>2. \A b \in Attempt : Doing(b, x) => b # a
        BY <2>1, <3>2
      <4> QED
        BY <1>0, <2>1, <2>y, <4>1, <4>2 DEF OneDoes
    <3> QED
      BY <3>1, <3>2
  <2>3. ResultsAreReal'
    <3>1. \A x \in Effect : acted'[x] > 0 <=> x = e \/ acted[x] > 0
      BY <2>y
    <3>2. \A b \in Attempt, x \in Effect :
             call'[b].at = "acted" /\ call'[b].on = {x} =>
                x = e \/ (call[b].at = "acted" /\ call[b].on = {x})
      BY <2>1
    <3> QED
      BY <1>0, <2>1, <3>1, <3>2 DEF ResultsAreReal
  <2>4. GateHolds'
    BY <1>0, <2>1, <2>y DEF GateHolds, Permitted
  <2> QED
    BY <2>2, <2>3, <2>4
<1>7. CASE CompleteEffect(a, e)
  <2>1. /\ \A b \in Attempt \ {a} : call'[b] = call[b]
        /\ call[a].at = "acted" /\ call[a].on = {e} /\ call'[a].at = "ready"
        /\ UNCHANGED <<asking, acted, allowed, passed>>
    BY <1>0, <1>7 DEF CompleteEffect, Go, Returns, CallRec
  <2>x. \A x \in Effect : effect'[x] = effect[x] \/ (x = e /\ effect'[x] = "completed")
    BY <1>0, <1>7 DEF CompleteEffect
  <2>y. acted[e] > 0 /\ Permitted(e)
    BY <1>0, <2>1 DEF ResultsAreReal, GateHolds
  <2>2. OneDoes'
    BY <1>0, <2>1, <2>x DEF OneDoes
  <2>3. ResultsAreReal'
    BY <1>0, <2>1, <2>x, <2>y DEF ResultsAreReal
  <2>4. GateHolds'
    BY <1>0, <2>1, <2>x, <2>y DEF GateHolds, Permitted
  <2> QED
    BY <2>2, <2>3, <2>4
<1> QED
  BY <1>1, <1>2, <1>3, <1>4, <1>5, <1>6, <1>7, <1>8, <1>9 DEF CallStep

LEMMA EffectInvStep == EffectInv /\ [EffectNext]_effVars => EffectInv'
<1> SUFFICES ASSUME EffectInv, [EffectNext]_effVars PROVE EffectInv'
  OBVIOUS
<1>0. /\ call \in [Attempt -> CallRec] /\ effect \in [Effect -> EffStatus]
      /\ OneDoes /\ ResultsAreReal /\ GateHolds
  BY DEF EffectInv, EffectTypeOK, CallRec
<1>t. EffectTypeOK'
  BY StepTypes DEF EffectInv
<1> SUFFICES OneDoes' /\ ResultsAreReal' /\ GateHolds'
  BY <1>t DEF EffectInv
<1>1. ASSUME NEW a \in Attempt, StartAttempt(a) \/ AttemptDies(a) \/ FinishRun(a)
      PROVE  OneDoes' /\ ResultsAreReal' /\ GateHolds'
  <2>1. /\ \A b \in Attempt \ {a} : call'[b] = call[b]
        /\ call'[a].at \in {"idle", "ready"}
        /\ UNCHANGED <<effect, asking, acted, allowed, passed>>
    <3>1. CASE StartAttempt(a)
      BY <1>0, <3>1 DEF StartAttempt, Idle
    <3>2. CASE AttemptDies(a) \/ FinishRun(a)
      BY <1>0, <3>2 DEF AttemptDies, FinishRun, Go, Idle
    <3> QED
      BY <1>1, <3>1, <3>2
  <2> QED
    BY <2>1, LeavingKeeps
<1>2. ASSUME NEW a \in Attempt, NEW e \in Effect, CallStep(a, e)
      PROVE  OneDoes' /\ ResultsAreReal' /\ GateHolds'
  BY <1>2, CallInv
<1> USE DEF Doing, InCall, Consequential, Claimed
<1>3. CASE LeaseLapses \/ StopRun \/ UNCHANGED effVars
  <2>1. /\ UNCHANGED <<call, effect, acted, allowed, passed>>
        /\ asking' = asking \/ asking' = {}
    BY <1>3 DEF LeaseLapses, StopRun, effVars
  <2>2. OneDoes' /\ ResultsAreReal'
    BY <1>0, <2>1 DEF OneDoes, ResultsAreReal
  <2>3. GateHolds'
    BY <1>0, <2>1 DEF GateHolds, Permitted
  <2> QED
    BY <2>2, <2>3
<1>4. ASSUME NEW e \in Effect, NEW answer \in {"allow", "deny"}, AnswerAsk(e, answer)
      PROVE  OneDoes' /\ ResultsAreReal' /\ GateHolds'
  <2>1. /\ asking = {e} /\ asking' = {} /\ effect[e] = "intended"
        /\ UNCHANGED <<call, acted, passed>>
        /\ effect' = [effect EXCEPT ![e] = IF answer = "deny" THEN "denied" ELSE "approved"]
        /\ allowed' = IF answer = "deny" THEN allowed ELSE allowed \cup {e}
    BY <1>4 DEF AnswerAsk
  <2>2. OneDoes' /\ ResultsAreReal'
    BY <1>0, <2>1 DEF OneDoes, ResultsAreReal
  <2>3. Policy[e] # "plain"
    BY <1>0, <2>1 DEF GateHolds
  <2>4. GateHolds'
    BY <1>0, <2>1, <2>3 DEF GateHolds, Permitted
  <2> QED
    BY <2>2, <2>4
<1> QED
  BY <1>1, <1>2, <1>3, <1>4 DEF EffectNext

LEMMA EffectInvHolds == EffectSpec => []EffectInv
<1>1. EffectInit => EffectTypeOK
  BY EffectInitTypes
<1>2. EffectInit => EffectInv
  <2> SUFFICES ASSUME EffectInit PROVE OneDoes /\ ResultsAreReal /\ GateHolds
    BY <1>1 DEF EffectInv
  <2>1. /\ \A a \in Attempt : call[a].at = "idle"
        /\ \A e \in Effect : acted[e] = 0 /\ effect[e] = "none"
        /\ asking = {} /\ passed = {}
    BY DEF EffectInit, Idle
  <2> QED
    BY <2>1 DEF OneDoes, ResultsAreReal, GateHolds, Doing, InCall, Consequential
<1> QED
  BY <1>2, EffectInvStep, PTL DEF EffectSpec

-----------------------------------------------------------------------------

\* However often the run is claimed, dies inside a call or is executed by two
\* workers at once, a consequential call happens at most once.
THEOREM HappensOnce == EffectSpec => []ConsequentialOnce
<1>1. EffectInv => ConsequentialOnce
  BY DEF EffectInv, OneDoes, ConsequentialOnce, Consequential
<1> QED
  BY <1>1, EffectInvHolds, PTL

\* Whatever happened was allowed by a user or let through by the gate of an
\* attempt, what must always be asked about by a user; and nothing that was
\* denied ever happened.
THEOREM OnlyAllowedHappens == EffectSpec => []ActedWasAllowed
<1>1. EffectInv => ActedWasAllowed
  BY DEF EffectInv, OneDoes, GateHolds, Permitted, ActedWasAllowed, Consequential, Claimed
<1> QED
  BY <1>1, EffectInvHolds, PTL

\* A result that is stored is that of a call that happened, and a call that
\* may have happened is never open to be approved again.
THEOREM ResultsTellTheTruth == EffectSpec => []CompletedDidAct
<1>1. EffectInv => CompletedDidAct
  BY DEF EffectInv, OneDoes, ResultsAreReal, CompletedDidAct, Consequential, Claimed
<1> QED
  BY <1>1, EffectInvHolds, PTL

-----------------------------------------------------------------------------
(* The pending card, and what was approved.                                *)

HoldsRun(a) == effRun = "working" /\ holder = a

\* The attempt may pause the run with a card for the call.
Requesting(a, e) ==
    /\ HoldsRun(a)
    /\ InCall(a, "judging", e) \/ (InCall(a, "recorded", e) /\ call[a].asks)
    /\ call[a].dup => call[a].saw = "intended"

\* Nobody can claim the call, or some attempt's own gate let it through.
OpenToAnswer(e) == effect[e] = "intended" \/ e \in passed

\* The card that is pending, and every card that the holder of the run may be
\* about to put, is about such a call; who acts unclaimed was let through.
AskInv ==
    /\ effRun = "waiting_input" => \E e \in Effect : asking = {e} /\ OpenToAnswer(e)
    /\ \A a \in Attempt, e \in Effect : Requesting(a, e) => OpenToAnswer(e)
    /\ \A a \in Attempt, e \in Effect : Doing(a, e) /\ ~call[a].claimed => e \in passed

\* The attempt still owes the call, or has taken its request, and has not come
\* past its row; if it is at the row, it came to replay it.
Owes(a, e) ==
    /\ e \in call[a].replay \cup call[a].took /\ e \notin call[a].done
    /\ InCall(a, "judging", e) \/ InCall(a, "recorded", e) =>
          call[a].dup /\ call[a].saw = "approved"

\* Whoever holds the run owes every call that is approved.
ReplayInv ==
    \A a \in Attempt : HoldsRun(a) /\ call[a].at # "idle" =>
       \A e \in Effect : effect[e] = "approved" => Owes(a, e)

\* Where each step leaves the call that takes it.
LEMMA CallMoves ==
    ASSUME EffectTypeOK, NEW a \in Attempt, NEW e \in Effect
    PROVE  /\ RequestApproval(a, e) => call'[a].at = "idle"
           /\ ReturnRecorded(a, e) \/ SettleUncertain(a, e) \/ LoseClaim(a, e)
                  \/ CompleteEffect(a, e) =>
                 /\ call[a].at \in {"recorded", "acted"} /\ call[a].on = {e}
                 /\ call'[a].at = "ready" /\ call'[a].done = call[a].done \cup {e}
                 /\ call'[a].replay = call[a].replay /\ call'[a].took = call[a].took
           /\ TakeInVain(a, e) =>
                 /\ call'[a].at = "ready" /\ call'[a].done = call[a].done
                 /\ call'[a].replay \cup call'[a].took = call[a].replay \cup call[a].took
           /\ (\E v \in {"pass", "ask"} : Review(a, e, v)) =>
                 /\ InCall(a, "judging", e) /\ InCall(a, "recorded", e)'
                 /\ call'[a].dup = call[a].dup /\ call'[a].saw = call[a].saw
                 /\ call'[a].replay = call[a].replay /\ call'[a].took = call[a].took
                 /\ call'[a].done = call[a].done
           /\ ClaimEffect(a, e) \/ ActPlainly(a, e) =>
                 /\ call'[a].at = "acting" /\ call'[a].on = {e} /\ call'[a].done = call[a].done
                 /\ call'[a].replay = call[a].replay /\ call'[a].took = call[a].took
           /\ ClaimEffect(a, e) => call'[a].claimed
           /\ Act(a, e) =>
                 /\ Doing(a, e) /\ call'[a].claimed = call[a].claimed
                 /\ call'[a].at = "acted" /\ call'[a].on = {e} /\ call'[a].done = call[a].done
                 /\ call'[a].replay = call[a].replay /\ call'[a].took = call[a].took
<1>1. call \in [Attempt -> CallRec]
  BY DEF EffectTypeOK, CallRec
<1>2. /\ Returns(a).at = "ready" /\ Returns(a).replay = call[a].replay
      /\ Returns(a).took = call[a].took /\ Returns(a).done = call[a].done \cup call[a].on
  BY <1>1 DEF Returns, CallRec
<1>3. RequestApproval(a, e) => call'[a].at = "idle"
  BY <1>1 DEF RequestApproval, Go, Idle
<1>4. ReturnRecorded(a, e) \/ SettleUncertain(a, e) \/ LoseClaim(a, e) \/ CompleteEffect(a, e) =>
        call'[a] = Returns(a) /\ call[a].at \in {"recorded", "acted"} /\ call[a].on = {e}
  BY <1>1 DEF ReturnRecorded, SettleUncertain, LoseClaim, CompleteEffect, InCall, Go
<1>5. TakeInVain(a, e) =>
         /\ call'[a].at = "ready" /\ call'[a].done = call[a].done
         /\ call'[a].replay \cup call'[a].took = call[a].replay \cup call[a].took
  BY <1>1 DEF TakeInVain, Go, CallRec
<1>6. ASSUME NEW v \in {"pass", "ask"}, Review(a, e, v)
      PROVE  /\ InCall(a, "judging", e) /\ InCall(a, "recorded", e)'
             /\ call'[a].dup = call[a].dup /\ call'[a].saw = call[a].saw
             /\ call'[a].replay = call[a].replay /\ call'[a].took = call[a].took
             /\ call'[a].done = call[a].done
  BY <1>1, <1>6 DEF Review, InCall, Go, CallRec
<1>7. ClaimEffect(a, e) =>
         /\ call'[a].at = "acting" /\ call'[a].on = {e} /\ call'[a].done = call[a].done
         /\ call'[a].replay = call[a].replay /\ call'[a].took = call[a].took /\ call'[a].claimed
  BY <1>1 DEF ClaimEffect, InCall, Go, CallRec
<1>8. ActPlainly(a, e) =>
         /\ call'[a].at = "acting" /\ call'[a].on = {e} /\ call'[a].done = call[a].done
         /\ call'[a].replay = call[a].replay /\ call'[a].took = call[a].took
  BY <1>1 DEF ActPlainly, InCall, Go, CallRec
<1>9. Act(a, e) =>
         /\ Doing(a, e) /\ call'[a].claimed = call[a].claimed
         /\ call'[a].at = "acted" /\ call'[a].on = {e} /\ call'[a].done = call[a].done
         /\ call'[a].replay = call[a].replay /\ call'[a].took = call[a].took
  BY <1>1 DEF Act, InCall, Doing, Go, CallRec
<1> QED
  BY <1>2, <1>3, <1>4, <1>5, <1>6, <1>7, <1>8, <1>9

\* A step of a call moves no other attempt, and takes the run from nobody but
\* to put a card of its own.
LEMMA CallAround ==
    ASSUME EffectTypeOK, NEW a \in Attempt, NEW e \in Effect, CallStep(a, e)
    PROVE  /\ \A b \in Attempt \ {a} : call'[b] = call[b]
           /\ call[a].at # "idle" /\ passed \subseteq passed'
           /\ UNCHANGED <<effRun, holder, asking>> \/ (RequestApproval(a, e) /\ pauses(a))
<1>0. call \in [Attempt -> CallRec] /\ effect \in [Effect -> EffStatus] /\ passed \subseteq Effect
  BY DEF EffectTypeOK, CallRec
<1>1. \A b \in Attempt \ {a} : call'[b] = call[b]
  <2>1. CASE RecordEffect(a, e)
    BY <1>0, <2>1, Recorded
  <2>2. CASE ~ RecordEffect(a, e)
    BY <1>0, <2>2
       DEF CallStep, TakeInVain, Review, ReturnRecorded, SettleUncertain, ClaimEffect, LoseClaim,
           ActPlainly, RequestApproval, Act, CompleteEffect, Go
  <2> QED
    BY <2>1, <2>2
<1>2. call[a].at # "idle" /\ passed \subseteq passed'
  BY DEF CallStep, RecordEffect, TakeInVain, Review, ReturnRecorded, SettleUncertain, ClaimEffect,
         LoseClaim, ActPlainly, RequestApproval, Act, CompleteEffect, InCall
<1>3. UNCHANGED <<effRun, holder, asking>> \/ (RequestApproval(a, e) /\ pauses(a))
  BY DEF CallStep, RecordEffect, TakeInVain, Review, ReturnRecorded, SettleUncertain, ClaimEffect,
         LoseClaim, ActPlainly, RequestApproval, Act, CompleteEffect
<1> QED
  BY <1>1, <1>2, <1>3

\* A step of a call, of any attempt, leaves what is open to an answer open, and
\* approves nothing.
LEMMA OpenStaysOpen ==
    ASSUME EffectInv, AskInv, NEW a \in Attempt, NEW e \in Effect, CallStep(a, e)
    PROVE  /\ \A x \in Effect : OpenToAnswer(x) => OpenToAnswer(x)'
           /\ \A x \in Effect : effect'[x] = "approved" => effect[x] = "approved"
<1>0. effect \in [Effect -> EffStatus] /\ GateHolds /\ passed \subseteq passed'
  BY CallAround DEF EffectInv, EffectTypeOK
<1>1. CASE ~ ClaimEffect(a, e) /\ ~ CompleteEffect(a, e)
  <2>1. \A x \in Effect : effect'[x] # effect[x] => effect[x] \in {"none", "executing"}
                                                    /\ effect'[x] \in {"intended", "uncertain"}
    BY <1>0, <1>1 DEF CallStep, RecordEffect, TakeInVain, Review, ReturnRecorded, SettleUncertain,
                      LoseClaim, ActPlainly, RequestApproval, Act, settleUncertainEffect
  <2> QED
    BY <1>0, <2>1 DEF OpenToAnswer
<1>2. CASE ClaimEffect(a, e)
  <2>1. \A x \in Effect : effect'[x] = IF x = e THEN "executing" ELSE effect[x]
    BY <1>0, <1>2 DEF ClaimEffect
  <2>2. effect[e] = "intended" => e \in passed
    <3> SUFFICES ASSUME effect[e] = "intended" PROVE e \in passed
      OBVIOUS
    <3>1. ~ call[a].asks
      BY <1>2 DEF ClaimEffect, claimWins, ClaimFrom
    <3> QED
      BY <1>0, <1>2, <3>1 DEF ClaimEffect, GateHolds
  <2> QED
    BY <1>0, <2>1, <2>2 DEF OpenToAnswer
<1>3. CASE CompleteEffect(a, e)
  <2>1. \A x \in Effect : effect'[x] = effect[x] \/ (x = e /\ effect'[x] = "completed")
    BY <1>0, <1>3 DEF CompleteEffect
  <2>2. effect'[e] # effect[e] /\ effect[e] = "intended" => e \in passed
    <3> SUFFICES ASSUME completable(a, e), effect[e] = "intended" PROVE e \in passed
      BY <1>0, <1>3 DEF CompleteEffect
    <3>1. ~ call[a].claimed
      BY DEF completable
    <3> QED
      BY <1>3, <3>1 DEF CompleteEffect, InCall, Doing, AskInv
  <2> QED
    BY <1>0, <2>1, <2>2 DEF OpenToAnswer
<1> QED
  BY <1>1, <1>2, <1>3

LEMMA AskCall ==
    ASSUME EffectInv, AskInv, NEW a \in Attempt, NEW e \in Effect, CallStep(a, e)
    PROVE  AskInv'
<1>0. /\ EffectTypeOK /\ GateHolds
      /\ call \in [Attempt -> CallRec] /\ effect \in [Effect -> EffStatus] /\ passed \subseteq Effect
      /\ \A x \in Effect : OpenToAnswer(x) => OpenToAnswer(x)'
      /\ \A b \in Attempt \ {a} : call'[b] = call[b]
      /\ passed \subseteq passed'
      /\ UNCHANGED <<effRun, holder, asking>> \/ (RequestApproval(a, e) /\ pauses(a))
  BY OpenStaysOpen, CallAround DEF EffectInv, EffectTypeOK, CallRec
<1>2. effRun' = "waiting_input" => \E x \in Effect : asking' = {x} /\ OpenToAnswer(x)'
  <2>1. CASE UNCHANGED <<effRun, holder, asking>>
    BY <1>0, <2>1 DEF AskInv
  <2>2. CASE RequestApproval(a, e) /\ pauses(a)
    <3>1. Requesting(a, e) /\ asking' = {e}
      BY <2>2 DEF RequestApproval, pauses, Requesting, HoldsRun
    <3> QED
      BY <1>0, <3>1 DEF AskInv
  <2> QED
    BY <1>0, <2>1, <2>2
<1>3. \A b \in Attempt : HoldsRun(b)' => HoldsRun(b)
  BY <1>0 DEF RequestApproval, HoldsRun
<1>4. ASSUME NEW x \in Effect, Requesting(a, x)'
      PROVE  OpenToAnswer(x)'
  <2>1. call'[a].at \in {"judging", "recorded"} /\ call'[a].on = {x}
    BY <1>4 DEF Requesting, InCall
  <2>2. RecordEffect(a, e) \/ \E v \in {"pass", "ask"} : Review(a, e, v)
    BY <1>0, <2>1, CallMoves DEF CallStep
  <2>3. CASE RecordEffect(a, e)
    <3>1. /\ call'[a].on = {e} /\ call'[a].dup = (effect[e] # "none") /\ call'[a].saw = effect[e]
      BY <1>0, <2>3, Recorded
    <3>2. effect'[e] = IF effect[e] = "none" THEN "intended" ELSE effect[e]
      BY <1>0, <2>3 DEF RecordEffect
    <3> QED
      BY <1>4, <2>1, <3>1, <3>2 DEF Requesting, OpenToAnswer
  <2>4. CASE \E v \in {"pass", "ask"} : Review(a, e, v)
    <3>1. /\ InCall(a, "judging", e) /\ InCall(a, "recorded", e)'
          /\ call'[a].dup = call[a].dup /\ call'[a].saw = call[a].saw
      BY <1>0, <2>4, CallMoves
    <3>2. x = e
      BY <2>1, <3>1 DEF InCall
    <3>3. Requesting(a, x)
      BY <1>3, <1>4, <3>1, <3>2 DEF Requesting
    <3> QED
      BY <1>0, <3>3 DEF AskInv
  <2> QED
    BY <2>2, <2>3, <2>4
<1>5. ASSUME NEW b \in Attempt \ {a}, NEW x \in Effect, Requesting(b, x)'
      PROVE  OpenToAnswer(x)'
  BY <1>0, <1>3, <1>5 DEF AskInv, Requesting, InCall
<1>6. ASSUME NEW x \in Effect, Doing(a, x)', ~ call'[a].claimed
      PROVE  x \in passed'
  <2>1. call'[a].at \in {"acting", "acted"} /\ call'[a].on = {x}
    BY <1>6 DEF Doing
  <2>2. ClaimEffect(a, e) \/ ActPlainly(a, e) \/ Act(a, e)
    <3>1. RecordEffect(a, e) => call'[a].at \in {"judging", "recorded"}
      BY <1>0, Recorded
    <3> QED
      BY <1>0, <2>1, <3>1, CallMoves DEF CallStep, InCall
  <2>4. CASE ClaimEffect(a, e)
    BY <1>0, <1>6, <2>4, CallMoves
  <2>5. CASE ActPlainly(a, e)
    <3>1. call'[a].on = {e} /\ InCall(a, "recorded", e) /\ ~ call[a].asks
      BY <1>0, <2>5, CallMoves DEF ActPlainly
    <3> QED
      BY <1>0, <2>1, <3>1 DEF GateHolds
  <2>6. CASE Act(a, e)
    <3>1. Doing(a, e) /\ call'[a].on = {e} /\ ~ call[a].claimed
      BY <1>0, <1>6, <2>6, CallMoves
    <3> QED
      BY <1>0, <2>1, <3>1 DEF AskInv
  <2> QED
    BY <2>2, <2>4, <2>5, <2>6
<1>7. ASSUME NEW b \in Attempt \ {a}, NEW x \in Effect, Doing(b, x)', ~ call'[b].claimed
      PROVE  x \in passed'
  BY <1>0, <1>7 DEF AskInv, Doing
<1> QED
  BY <1>2, <1>4, <1>5, <1>6, <1>7 DEF AskInv

LEMMA AskStep == EffectInv /\ AskInv /\ [EffectNext]_effVars => AskInv'
<1> SUFFICES ASSUME EffectInv, AskInv, [EffectNext]_effVars PROVE AskInv'
  OBVIOUS
<1>0. call \in [Attempt -> CallRec] /\ effect \in [Effect -> EffStatus]
  BY DEF EffectInv, EffectTypeOK, CallRec
<1>1. ASSUME NEW a \in Attempt, StartAttempt(a) \/ AttemptDies(a) \/ FinishRun(a)
      PROVE  AskInv'
  <2>1. /\ \A b \in Attempt \ {a} : call'[b] = call[b]
        /\ call'[a].at \in {"idle", "ready"}
        /\ UNCHANGED <<effect, asking, passed>>
    <3>1. CASE StartAttempt(a)
      BY <1>0, <3>1 DEF StartAttempt, Idle
    <3>2. CASE AttemptDies(a) \/ FinishRun(a)
      BY <1>0, <3>2 DEF AttemptDies, FinishRun, Go, Idle
    <3> QED
      BY <1>1, <3>1, <3>2
  <2>2. /\ effRun' = "waiting_input" => effRun = "waiting_input"
        /\ \A b \in Attempt \ {a} : HoldsRun(b)' => HoldsRun(b)
    BY <1>1 DEF StartAttempt, AttemptDies, FinishRun, DrainedOutcome, HoldsRun
  <2>3. \A x \in Effect : OpenToAnswer(x)' <=> OpenToAnswer(x)
    BY <2>1 DEF OpenToAnswer
  <2>4. \A b \in Attempt, x \in Effect : Requesting(b, x)' => b # a /\ Requesting(b, x)
    BY <2>1, <2>2 DEF Requesting, InCall
  <2>5. \A b \in Attempt, x \in Effect : Doing(b, x)' => b # a /\ Doing(b, x) /\ call'[b] = call[b]
    BY <2>1 DEF Doing
  <2> QED
    BY <2>1, <2>2, <2>3, <2>4, <2>5 DEF AskInv
<1>2. CASE LeaseLapses \/ StopRun \/ UNCHANGED effVars
  <2>1. /\ UNCHANGED <<call, effect, passed>> /\ (effRun' = "waiting_input" => UNCHANGED asking)
        /\ effRun' = "waiting_input" => effRun = "waiting_input"
        /\ \A b \in Attempt : HoldsRun(b)' => HoldsRun(b)
    BY <1>2 DEF LeaseLapses, StopRun, effVars, HoldsRun
  <2>2. \A x \in Effect : OpenToAnswer(x)' <=> OpenToAnswer(x)
    BY <2>1 DEF OpenToAnswer
  <2> QED
    BY <2>1, <2>2 DEF AskInv, Requesting, InCall, Doing
<1>3. ASSUME NEW e \in Effect, NEW answer \in {"allow", "deny"}, AnswerAsk(e, answer)
      PROVE  AskInv'
  <2>1. call' = call /\ effRun' = "queued" /\ passed' = passed
    BY <1>3 DEF AnswerAsk
  <2> QED
    BY <2>1 DEF AskInv, Requesting, HoldsRun, Doing
<1> QED
  BY <1>1, <1>2, <1>3, AskCall DEF EffectNext

\* Initially no run waits and no attempt calls anything.
LEMMA AskInit == EffectInit => AskInv /\ ReplayInv
<1> SUFFICES ASSUME EffectInit PROVE AskInv /\ ReplayInv
  OBVIOUS
<1>1. effRun = "queued" /\ \A a \in Attempt : call[a].at = "idle"
  BY DEF EffectInit, Idle
<1> QED
  BY <1>1 DEF AskInv, ReplayInv, Requesting, HoldsRun, Doing

\* A step of a call leaves its attempt owing every call that is still approved:
\* only a claim comes past the row of one, and it takes the approval with it.
LEMMA ReplayCall ==
    ASSUME EffectInv, AskInv, ReplayInv, NEW a \in Attempt, NEW e \in Effect, CallStep(a, e)
    PROVE  ReplayInv'
<1>0. /\ EffectTypeOK /\ OneDoes /\ GateHolds
      /\ call \in [Attempt -> CallRec] /\ effect \in [Effect -> EffStatus] /\ passed \subseteq Effect
      /\ \A x \in Effect : effect'[x] = "approved" => effect[x] = "approved"
      /\ \A b \in Attempt \ {a} : call'[b] = call[b]
      /\ call[a].at # "idle"
  BY OpenStaysOpen, CallAround DEF EffectInv, EffectTypeOK, CallRec
<1>1. \A b \in Attempt : HoldsRun(b)' => HoldsRun(b)
  BY CallAround DEF EffectInv, RequestApproval, HoldsRun
<1>2. ASSUME NEW b \in Attempt \ {a}, HoldsRun(b)', call'[b].at # "idle",
             NEW x \in Effect, effect'[x] = "approved"
      PROVE  Owes(b, x)'
  BY <1>0, <1>1, <1>2 DEF ReplayInv, Owes, InCall
<1>3. ASSUME HoldsRun(a)', call'[a].at # "idle", NEW x \in Effect, effect'[x] = "approved"
      PROVE  Owes(a, x)'
  <2>1. effect[x] = "approved" /\ Owes(a, x)
    BY <1>0, <1>1, <1>3 DEF ReplayInv
  <2>2. ~ Doing(a, x)
    BY <1>0, <2>1 DEF OneDoes, GateHolds, Consequential, Claimed
  <2>3. CASE RecordEffect(a, e)
    <3>1. /\ call'[a].on = {e} /\ call'[a].dup = (effect[e] # "none") /\ call'[a].saw = effect[e]
          /\ call'[a].done = call[a].done
          /\ call'[a].replay \cup call'[a].took = call[a].replay \cup call[a].took
      BY <1>0, <2>3, Recorded
    <3>2. InCall(a, "judging", x)' \/ InCall(a, "recorded", x)' => x = e
      BY <3>1 DEF InCall
    <3> QED
      BY <2>1, <3>1, <3>2 DEF Owes
  <2>4. CASE TakeInVain(a, e)
    BY <1>0, <2>1, <2>4, CallMoves DEF Owes, InCall
  <2>5. CASE \E v \in {"pass", "ask"} : Review(a, e, v)
    <3>1. /\ InCall(a, "judging", e) /\ InCall(a, "recorded", e)'
          /\ call'[a].dup = call[a].dup /\ call'[a].saw = call[a].saw
          /\ call'[a].replay = call[a].replay /\ call'[a].took = call[a].took
          /\ call'[a].done = call[a].done
      BY <1>0, <2>5, CallMoves
    <3> QED
      BY <2>1, <3>1 DEF Owes, InCall
  <2>6. CASE ClaimEffect(a, e) \/ ActPlainly(a, e) \/ Act(a, e)
    BY <1>0, <2>1, <2>6, CallMoves DEF Owes, InCall
  <2>7. CASE ReturnRecorded(a, e) \/ SettleUncertain(a, e) \/ LoseClaim(a, e) \/ CompleteEffect(a, e)
    <3>1. /\ call[a].at \in {"recorded", "acted"} /\ call[a].on = {e}
          /\ call'[a].at = "ready" /\ call'[a].done = call[a].done \cup {e}
          /\ call'[a].replay = call[a].replay /\ call'[a].took = call[a].took
      BY <1>0, <2>7, CallMoves
    <3>2. x # e
      <4> SUFFICES ASSUME x = e PROVE FALSE
        OBVIOUS
      <4>1. InCall(a, "recorded", e)
        BY <2>2, <3>1 DEF Doing, InCall
      <4>2. call[a].dup /\ call[a].saw = "approved" /\ effect[e] = "approved"
        BY <2>1, <4>1 DEF Owes
      <4> QED
        BY <2>7, <4>1, <4>2
           DEF ReturnRecorded, SettleUncertain, LoseClaim, CompleteEffect, InCall, claimWins, ClaimFrom
    <3> QED
      BY <2>1, <3>1, <3>2 DEF Owes, InCall
  <2>8. CASE RequestApproval(a, e)
    BY <1>0, <1>3, <2>8, CallMoves
  <2> QED
    BY <2>3, <2>4, <2>5, <2>6, <2>7, <2>8 DEF CallStep
<1> QED
  BY <1>2, <1>3 DEF ReplayInv

LEMMA ReplayStep == EffectInv /\ AskInv /\ ReplayInv /\ [EffectNext]_effVars => ReplayInv'
<1> SUFFICES ASSUME EffectInv, AskInv, ReplayInv, [EffectNext]_effVars PROVE ReplayInv'
  OBVIOUS
<1>0. call \in [Attempt -> CallRec] /\ effect \in [Effect -> EffStatus]
  BY DEF EffectInv, EffectTypeOK, CallRec
<1>1. ASSUME NEW a \in Attempt, StartAttempt(a)
      PROVE  ReplayInv'
  <2>1. /\ call'[a].replay = {x \in Effect : effect[x] = "approved"}
        /\ call'[a].at = "ready" /\ call'[a].done = {}
        /\ effect' = effect /\ effRun' = "working" /\ holder' = a
    BY <1>0, <1>1 DEF StartAttempt, Idle
  <2> QED
    BY <2>1 DEF ReplayInv, HoldsRun, Owes, InCall
<1>2. ASSUME NEW a \in Attempt, AttemptDies(a) \/ FinishRun(a)
      PROVE  ReplayInv'
  <2>1. /\ \A b \in Attempt \ {a} : call'[b] = call[b]
        /\ call'[a].at = "idle" /\ effect' = effect
    BY <1>0, <1>2 DEF AttemptDies, FinishRun, Go, Idle
  <2>2. \A b \in Attempt : HoldsRun(b)' => HoldsRun(b)
    BY <1>2 DEF AttemptDies, FinishRun, DrainedOutcome, HoldsRun
  <2> QED
    BY <2>1, <2>2 DEF ReplayInv, Owes, InCall
<1>3. CASE LeaseLapses \/ StopRun \/ UNCHANGED effVars
  <2>1. /\ UNCHANGED <<call, effect>>
        /\ \A b \in Attempt : HoldsRun(b)' => HoldsRun(b)
    BY <1>3 DEF LeaseLapses, StopRun, effVars, HoldsRun
  <2> QED
    BY <2>1 DEF ReplayInv, Owes, InCall
<1>4. ASSUME NEW e \in Effect, NEW answer \in {"allow", "deny"}, AnswerAsk(e, answer)
      PROVE  ReplayInv'
  BY <1>4 DEF AnswerAsk, ReplayInv, HoldsRun
<1> QED
  BY <1>1, <1>2, <1>3, <1>4, ReplayCall DEF EffectNext

\* However many workers are in the same calls, the card a run waits for can be
\* answered: nobody has moved its row, unless the gate of another attempt let
\* the very call through that the card asks about.
THEOREM CardsCanBeAnswered == EffectSpec => []AskCanBeAnswered
<1>1. AskInv => AskCanBeAnswered
  BY DEF AskInv, OpenToAnswer, AskCanBeAnswered
<1> QED
  BY <1>1, AskInit, AskStep, EffectInvHolds, PTL DEF EffectSpec

\* An attempt that completes the run over an approval has taken the approved
\* request and has not come past the row of that call; no other approval is
\* left open by a run that completes.
THEOREM ApprovalsAreUsed == EffectSpec => NoApprovalForgotten
<1> DEFINE Completes == effRun # "completed" /\ effRun' = "completed"
           Accounted == \A e \in Effect : effect[e] = "approved" =>
                           e \in call[holder].took \ call[holder].done
<1>1. ReplayInv /\ [EffectNext]_effVars => [Completes => Accounted]_effVars
  <2> SUFFICES ASSUME ReplayInv, [EffectNext]_effVars, Completes PROVE Accounted
    OBVIOUS
  <2>3. ASSUME NEW a \in Attempt, NEW e \in Effect, CallStep(a, e) PROVE FALSE
    BY <2>3 DEF CallStep, RecordEffect, TakeInVain, Review, ReturnRecorded, SettleUncertain,
                ClaimEffect, LoseClaim, ActPlainly, RequestApproval, Act, CompleteEffect
  <2>4. ASSUME NEW e \in Effect, NEW answer \in {"allow", "deny"}, AnswerAsk(e, answer) PROVE FALSE
    BY <2>4 DEF AnswerAsk
  <2>5. ASSUME NEW a \in Attempt, StartAttempt(a) \/ AttemptDies(a) PROVE FALSE
    BY <2>5 DEF StartAttempt, AttemptDies
  <2>6. ~ LeaseLapses /\ ~ StopRun /\ ~ UNCHANGED effVars
    BY DEF LeaseLapses, StopRun, effVars
  <2>1. PICK a \in Attempt : FinishRun(a)
    BY <2>3, <2>4, <2>5, <2>6 DEF EffectNext
  <2>2. HoldsRun(a) /\ call[a].at = "ready" /\ call[a].replay = {} /\ holder = a
    BY <2>1 DEF FinishRun, DrainedOutcome, HoldsRun
  <2> QED
    BY <2>2 DEF ReplayInv, Owes
<1>2. EffectInit /\ [][EffectNext]_effVars => []ReplayInv
  BY AskInit, AskStep, ReplayStep, EffectInvHolds, PTL DEF EffectSpec
<1> QED
  BY <1>1, <1>2, PTL DEF EffectSpec, NoApprovalForgotten
=============================================================================
