------------------------------ MODULE MCComputer ------------------------------
(***************************************************************************)
(* Operations of two bots on their computer, a few of them at a time: each *)
(* behaviour has one setting, the operations that happen in it.            *)
(***************************************************************************)
EXTENDS ComputerLifecycle, TLC

CONSTANTS b1, b2, r1, r2, boot, reset, update, recover, stop, sleep

TwoBots    == {b1, b2}
Operations == {r1, r2, boot, reset, update, recover, stop, sleep}
Sorts      == r1 :> "run" @@ r2 :> "run" @@ boot :> "boot" @@ reset :> "reset"
              @@ update :> "update" @@ recover :> "recover" @@ stop :> "stop"
              @@ sleep :> "sleep"
BotsOf     == [o \in Operations |-> IF o \in {r1, stop} THEN b1 ELSE b2]

VARIABLE setting

mcVars == <<setting, lifeVars>>

\* On a team computer, and on any.
OfATeam == {{r1, stop, sleep}, {stop, reset}, {stop, boot}, {reset, recover}}
OfAny   == {{r1, r2, sleep}, {r1, boot, sleep}, {r1, reset}, {r1, update, sleep},
            {r1, recover}, {update, boot}, {reset, boot}}

MCInit == /\ setting \in OfATeam \cup OfAny /\ LifeInit
          /\ setting \in OfATeam => comp.team

In(o, A) == o \in setting /\ A /\ UNCHANGED setting

MCNext ==
    \/ \E o \in Op : In(o, Step(o) \/ Begin(o) \/ Die(o) \/ ReleaseInterrupted(o))
    \/ UNCHANGED setting /\ (StampAges \/ \E b \in Bot : LeaseLapses(b))

MCFairness ==
    /\ \A o \in Op : WF_mcVars(In(o, Step(o)))
    /\ \A b \in Bot : WF_mcVars(ForsakenLapses(b) /\ UNCHANGED setting)
    /\ WF_mcVars(StampAges /\ UNCHANGED setting)

MCSpec == MCInit /\ [][MCNext]_mcVars /\ MCFairness

\* RunGetsComputer, for a run that is not retried in step with another.
LoneRunGetsComputer == r2 \notin setting => RunGetsComputer
=============================================================================
