---------------------------- MODULE MCDeliveries ----------------------------
(***************************************************************************)
(* Three ways in which the system acts on the world outside and cannot     *)
(* take it back, on small instances: the tool calls of a run, the outbox   *)
(* of the messaging apps, and a cloud agent.                               *)
(*                                                                         *)
(* They share no row, so nothing is learnt from their interleaving: each   *)
(* behaviour lets one of them run, in one of several settings, and the     *)
(* states of the run are the sum of theirs.                                *)
(***************************************************************************)
EXTENDS ExternalEffect, MessagingOutbox, CloudAgent, TLC

CONSTANTS shell, deploy, purge, purge2, a1, a2, m1, i1, i2, d1, d2, p1, p2

\* purge2 repeats purge: the same tool and arguments once more.
ToolCalls == {shell, deploy, purge, purge2}
Gates    == shell :> "plain" @@ deploy :> "ruled" @@ purge :> "mandatory"
                             @@ purge2 :> "mandatory"
Again    == [e \in ToolCalls |-> IF e = purge2 THEN {purge} ELSE {}]
Attempts == {a1, a2}
Chats    == {m1}
Invites  == {i1, i2}
Drains   == {d1, d2}
Pollers  == {p1, p2}

VARIABLE setting

dlvVars == <<setting, effVars, outVars, caVars>>

Settings == {"tools", "chats", "invites", "poll", "polls"}

\* The calls that a run makes.
Together == {{shell}, {deploy, purge}, {purge, purge2}}

\* A step of a component in one of its settings, with the others at rest.  (The
\* attempts differ by name only: the first is a1's.)
Tools(A) ==
    /\ setting = "tools" /\ A /\ (starts = 0 => call'[a2] = Idle)
    /\ \E calls \in Together : {e \in Effect : effect'[e] # "none"} \subseteq calls
    /\ UNCHANGED <<setting, outVars, caVars>>

Outbox(A) ==
    /\ setting \in {"chats", "invites"} /\ A
    /\ \A r \in IF setting = "chats" THEN Invite ELSE Chat : out'[r] = "none"
    /\ UNCHANGED <<setting, effVars, caVars>>

\* "poll": one poll at a time, with losses, deaths and cancellations;
\* "polls": polls that overlap and a chat that is cleared, none of these, and
\* runs that finish (a run that fails is read and reported in the same way).
Poll(A) ==
    /\ setting = "poll" /\ A /\ poller'[p2] = Resting
    /\ UNCHANGED <<setting, effVars, outVars>>

Polls(A) ==
    /\ setting = "polls" /\ A /\ cancels' = 0 /\ losses' = 0
    /\ \A r \in RemoteRun : remote'[r] # "failed"
    /\ UNCHANGED <<setting, effVars, outVars>>

DlvInit == setting \in Settings /\ EffectInit /\ OutboxInit /\ CloudInit
DlvNext == Tools(EffectNext) \/ Outbox(OutboxNext) \/ Poll(CloudNext) \/ Polls(CloudNext)

\* OutboxFairness and CloudFairness, in their settings.
DlvFairness ==
    /\ \A r \in Row : WF_dlvVars(Outbox(BackoffPasses(r)))
    /\ \A d \in Drain : WF_dlvVars(Outbox(StartDrain(d) \/ \E r \in Row : RowStep(d, r)))
    /\ WF_dlvVars(Poll(PollStep(p1))) /\ SF_dlvVars(Poll(LooksAtNewest(p1)))
    /\ WF_dlvVars(Poll(CloudLeaseLapses))
    /\ \A r \in RemoteRun : WF_dlvVars(Poll(RemoteEnds(r, "cancelled")))

DlvSpec == DlvInit /\ [][DlvNext]_dlvVars /\ DlvFairness

\* UnwantedStops, for polls that do not take the lease from each other for ever.
SoleUnwantedStops == setting = "poll" => UnwantedStops

DlvTypeOK == EffectTypeOK /\ OutboxTypeOK /\ CloudTypeOK
=============================================================================
