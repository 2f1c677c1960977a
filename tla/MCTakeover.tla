------------------------------ MODULE MCTakeover ------------------------------
(***************************************************************************)
(* A computer of two bots, one with two runs, or of one bot.  Two requests *)
(* are under way at a time; each behaviour has a setting, the kinds of     *)
(* requests that come in it.                                               *)
(***************************************************************************)
EXTENDS Takeover, TLC

CONSTANTS b1, b2, x1, x2, x3, q1, q2

AllRuns     == {x1, x2, x3}
TwoBots     == x1 :> b1 @@ x2 :> b2 @@ x3 :> b1
OneBot      == [r \in AllRuns |-> b1]
TwoRequests == {q1, q2}

VARIABLE setting

mcVars == <<setting, takeVars>>

\* What q1 and q2 may be, which runs there are, how many calls fail, and whether
\* messages steer runs that wait and execution leases lapse.
Setting(k1, k2, runs, failing, beside) ==
    [q1 |-> k1, q2 |-> k2, runs |-> runs, failing |-> failing, beside |-> beside]

Settings ==
    {Setting({"takeover", "release", "expiry", "teach"}, {}, {x1, x2}, 1, {"steer"}),
     Setting({"takeover", "release"}, {"expiry"}, {x1}, 1, {"steer"}),
     Setting({"takeover"}, {"expiry"}, {x1, x2}, 0, {}),
     Setting({"takeover", "release", "expiry"}, {}, {x1, x3}, 0, {"steer", "lapse"}),
     Setting({"takeover"}, {"takeover", "release", "expiry"}, {x1}, 0, {}),
     Setting({"teach"}, {"takeover", "expiry"}, {x1}, 0, {})}

In(A) ==
    /\ A /\ UNCHANGED setting
    /\ req'[q1].kind \in setting.q1 \cup {"none"} /\ req'[q2].kind \in setting.q2 \cup {"none"}
    /\ \A r \in Waiter \ setting.runs : run'[r] = "none"
    /\ refusals' <= setting.failing
    /\ (\E r \in Waiter : Steer(r)) => "steer" \in setting.beside
    /\ (\E b \in Bots : Lapses(b)) => "lapse" \in setting.beside

MCInit == setting \in Settings /\ TakeInit

\* TakeFairness, in a setting.
MCFairness == /\ \A q \in Req : WF_mcVars(In(ReqStep(q)))
              /\ SF_mcVars(In(\E q \in Req : DueJob(q)))
              /\ WF_mcVars(In(FallsDue))

MCSpec == MCInit /\ [][In(TakeNext)]_mcVars /\ MCFairness
=============================================================================
