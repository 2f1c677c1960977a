--------------------------- MODULE ComputerLifecycle ---------------------------
(***************************************************************************)
(* One computer, a dedicated one or one that several bots share: its row,  *)
(* the execution lease of each bot (a dedicated computer has none), the    *)
(* boxes the sandbox provider runs, and the operations that move it: runs  *)
(* that provision it, boot, reset, update, recover and stop of the user,   *)
(* and the idle stop.                                                      *)
(*                                                                         *)
(* An operation is many steps: it reads the row, claims it by a            *)
(* compare-and-set, calls the provider, and writes what came of it under   *)
(* the stamp (updatedAt) of its claim.  Other operations, deaths of the    *)
(* worker and failures of the provider come between any two steps.         *)
(*                                                                         *)
(* The control columns of the row belong to Takeover: nobody controls the  *)
(* screen here.                                                            *)
(***************************************************************************)
EXTENDS Naturals, FiniteSets

CONSTANTS
    Bot,          \* the bots of the computer
    Op,           \* operations: executions of a run, requests of users, sleep jobs
    NoOp,         \* null: no owner of a lease, no maintenance
    Kind,         \* what each operation is
    BotOf,        \* the bot each operation is for
    MaxBox,       \* bound: boxes of the provider at a time
    MaxFence,     \* bound: fences are told apart up to this one
    MaxDeath,     \* bound: operations whose process dies
    MaxFault      \* bound: failed calls of the provider and lapses of a live lease

Kinds == {"run", "boot", "reset", "update", "recover", "stop", "sleep"}
Box   == 1..MaxBox

ASSUME LifecycleAssumption ==
    /\ NoOp \notin Op
    /\ Kind \in [Op -> Kinds] /\ BotOf \in [Op -> Bot]
    /\ {MaxBox, MaxFence, MaxDeath, MaxFault} \subseteq Nat /\ MaxBox > 0

VARIABLES
    comp,         \* the row: scope, state, providerRef (0 is null) and maintenanceId
    abandoned,    \* the stamp of the row is older than BOOT_CLAIM_STALE_MS
    lease,        \* the execution lease row of each bot
    op,           \* per operation: where it is and what it has read
    box,          \* the provider's boxes
    deaths,       \* number of deaths so far
    faults        \* number of faults so far

lifeVars == <<comp, abandoned, lease, op, box, deaths, faults>>

Unstable == {"booting", "suspending"}
Resting  == {"stopped", "suspended", "error"}
States   == {"running"} \cup Unstable \cup Resting

\* What an operation keeps: the state it saw first, the state and reference it
\* claims from, whether the stamp it knows is still the row's (cur), whether
\* that stamp was abandoned when it was first seen (old), and its box (got).
At(pc) == [at |-> pc, seen |-> "none", st |-> "none", ref |-> 0,
           cur |-> FALSE, old |-> FALSE, got |-> 0]

NoLease == [owner |-> NoOp, live |-> FALSE, fence |-> 0]

LifeInit ==
    /\ abandoned = FALSE /\ deaths = 0 /\ faults = 0
    /\ lease = [b \in Bot |-> NoLease]
    /\ op = [o \in Op |-> At("none")]
    /\ \E t \in BOOLEAN :
       \/ /\ comp = [team |-> t, state |-> "stopped", ref |-> 0, maint |-> NoOp]
          /\ box = [n \in Box |-> "gone"]
       \/ /\ comp = [team |-> t, state |-> "running", ref |-> 1, maint |-> NoOp]
          /\ box = [n \in Box |-> IF n = 1 THEN "up" ELSE "gone"]

Runs     == {o \in Op : Kind[o] = "run"}
Replaces == {o \in Op : Kind[o] \in {"reset", "update", "recover"}}
Updates  == {o \in Op : Kind[o] \in {"update", "recover"}}

\* The run's row is in ACTIVE_RUN_STATUSES, and its worker's lease has not run out.
ActiveRun(r) == r \in Runs /\ op[r].at \notin {"none", "leave", "done"}
LeasedRun(r) == ActiveRun(r) /\ op[r].at \notin {"start", "retry", "lapsed"}

Live(b)      == lease[b].live
Holds(o)     == comp.team => LET l == lease[BotOf[o]] IN l.owner = o /\ l.live
Reserved(o)  == comp.maint \notin {NoOp, o}
liveSuspending == comp.state = "suspending" /\ ~abandoned

\* updatedAt is unique to the write that set it: a write makes the stamp that
\* every other operation knows old, and its own too unless it chose the stamp.
Stamped(o, r) == [p \in Op |-> IF p = o THEN r ELSE [op[p] EXCEPT !.cur = FALSE]]

\* o goes on, and writes the row or leaves it alone.
Goes(o, r) == op' = [op EXCEPT ![o] = r] /\ UNCHANGED <<comp, abandoned>>
Writes(o, r, c) == comp' = c /\ abandoned' = FALSE /\ op' = Stamped(o, r)

\* Where an operation goes that is refused, or fails: a run is put back in its queue.
GivenUp(o) == At(CASE Kind[o] = "run" -> "retry"
                   [] Kind[o] \in {"boot", "reset"} -> "free"
                   [] Kind[o] \in {"update", "recover"} -> "finish"
                   [] OTHER -> "done")

Fault == faults < MaxFault /\ faults' = faults + 1

-----------------------------------------------------------------------------
(* The execution lease.                                                    *)

\* A run is queued; a user asks; the queue of updates is refused while the
\* computer is in use, and reserves it otherwise (queueComputerUpdate).
Ask(o) ==
    /\ op[o].at = "none" /\ Kind[o] \in {"run", "boot", "reset"}
    /\ Kind[o] = "boot" => comp.state # "running"
    /\ Goes(o, At("start")) /\ UNCHANGED <<lease, box, deaths, faults>>

QueueUpdate(o) ==
    /\ op[o].at = "none" /\ o \in Updates
    /\ comp.maint = NoOp /\ comp.state \notin Unstable
    /\ \A b \in Bot : ~Live(b)
    /\ \A r \in Op : ~ActiveRun(r)
    /\ Writes(o, At("rlook"), [comp EXCEPT !.maint = o])
    /\ UNCHANGED <<lease, box, deaths, faults>>

\* acquireComputerExecutionLease: the row is read, the lease taken, the row
\* read again.  An operation that finds the computer busy stays where it is and
\* tries later.
Approach(o) ==
    /\ op[o].at = "start" /\ ~Reserved(o)
    /\ comp.team => ~liveSuspending
    /\ Goes(o, At(IF comp.team THEN "take" ELSE IF o \in Replaces THEN "rlook" ELSE "look"))
    /\ UNCHANGED <<lease, box, deaths, faults>>

TakeLease(o) ==
    /\ op[o].at = "take"
    /\ IF Live(BotOf[o])
       THEN Goes(o, GivenUp(o)) /\ UNCHANGED lease
       ELSE /\ lease' = [lease EXCEPT ![BotOf[o]] =
                [owner |-> o, live |-> TRUE,
                 fence |-> IF @.fence < MaxFence THEN @.fence + 1 ELSE MaxFence]]
            /\ Goes(o, At("check"))
    /\ UNCHANGED <<box, deaths, faults>>

CheckLease(o) ==
    /\ op[o].at = "check"
    /\ Goes(o, IF liveSuspending \/ Reserved(o) THEN GivenUp(o)
               ELSE At(IF o \in Replaces THEN "rlook" ELSE "look"))
    /\ UNCHANGED <<lease, box, deaths, faults>>

\* releaseComputerExecutionLease leaves an expired row; an update gives the
\* computer back instead (finishUpdate).
Expired(o) == [lease EXCEPT ![BotOf[o]].live = @ /\ lease[BotOf[o]].owner # o]

Release(o) ==
    /\ op[o].at \in {"retry", "free", "leave"}
    /\ lease' = Expired(o)
    /\ Goes(o, At(IF op[o].at = "retry" THEN "start" ELSE "done"))
    /\ UNCHANGED <<box, deaths, faults>>

FinishUpdate(o) ==
    /\ op[o].at = "finish"
    /\ IF comp.maint = o THEN Writes(o, At("done"), [comp EXCEPT !.maint = NoOp])
       ELSE Goes(o, At("done"))
    /\ UNCHANGED <<lease, box, deaths, faults>>

-----------------------------------------------------------------------------
(* provisionComputer.                                                      *)

HasLiveForeignRun(o) == \E r \in Op \ {o} : LeasedRun(r)

\* "Nobody but us holds this computer."
HeldByNobodyElse(o) == \A b \in Bot : Live(b) => lease[b].owner = o

\* Mutants of Provisionable: a suspension is taken over whatever its age; the boot of
\* a process that died is never taken over.
ProvisionableAnyAge(o, s0, old, s) ==
    CASE s = "booting"    -> s0 = "booting" /\ ~HasLiveForeignRun(o)
      [] s = "suspending" -> s0 = "suspending" /\ ~HasLiveForeignRun(o)
      [] s = "running"    -> s0 # "booting"
      [] OTHER            -> TRUE
ProvisionableNotBooting(o, s0, old, s) ==
    CASE s = "booting"    -> FALSE
      [] s = "suspending" -> s0 = "suspending" /\ old /\ ~HasLiveForeignRun(o)
      [] s = "running"    -> s0 # "booting"
      [] OTHER            -> TRUE

\* Whether o, having seen a row in state s0 first (abandoned then if old), goes
\* on with a row in state s.
Provisionable(o, s0, old, s) ==
    CASE s = "booting"    -> s0 = "booting" /\ ~HasLiveForeignRun(o)
      [] s = "suspending" -> s0 = "suspending" /\ old /\ ~HasLiveForeignRun(o)
      [] s = "running"    -> s0 # "booting"
      [] OTHER            -> TRUE

\* A booting row that is not abandoned, or whose holder is alive, is refused at
\* once; any other row in transition is waited for.
Look(o) ==
    LET s == comp.state IN
    /\ op[o].at = "look"
    /\ Goes(o, IF \/ Reserved(o)
                  \/ s = "booting" /\ (~abandoned \/ HasLiveForeignRun(o))
               THEN GivenUp(o)
               ELSE [At(IF s \in Unstable THEN "wait" ELSE "claim") EXCEPT
                        !.seen = s, !.st = s, !.ref = comp.ref,
                        !.cur = TRUE, !.old = abandoned])
    /\ UNCHANGED <<lease, box, deaths, faults>>

\* waitForComputerReady returns when the row settles, or after ten seconds.
Waited(o) ==
    /\ op[o].at = "wait"
    /\ Goes(o, IF Provisionable(o, op[o].seen, op[o].old, comp.state)
               THEN [op[o] EXCEPT !.at = "claim", !.st = comp.state, !.ref = comp.ref]
               ELSE GivenUp(o))
    /\ UNCHANGED <<lease, box, deaths, faults>>

ClaimWhere(o) ==
    /\ comp.state = op[o].st /\ ~Reserved(o)
    /\ op[o].st # "booting" => comp.ref = op[o].ref
    /\ op[o].st \in Unstable => op[o].cur /\ HeldByNobodyElse(o)

ClaimBoot(o) ==
    /\ op[o].at = "claim"
    /\ IF ClaimWhere(o)
       THEN Writes(o, [op[o] EXCEPT !.at = "provide", !.cur = TRUE, !.old = FALSE],
                   [comp EXCEPT !.state = "booting"])
       ELSE Goes(o, GivenUp(o))
    /\ UNCHANGED <<lease, box, deaths, faults>>

\* Mutant of Reconnecting: a row without a box counts as connected.
ReconnectingToAny(o) == op[o].st \in {"running", "suspending"}

Reconnecting(o) == op[o].ref # 0 /\ op[o].st \in {"running", "suspending"}
Fresh(o)        == op[o].got # op[o].ref

\* Box numbers nobody knows any more are used again.
Unused == {n \in Box : box[n] = "gone" /\ n # comp.ref
                       /\ \A p \in Op : n \notin {op[p].ref, op[p].got}}

\* The provider finds the box of the reference, or makes a new one.
Provide(o) ==
    /\ op[o].at = "provide"
    /\ \/ LET found == op[o].ref # 0 /\ box[op[o].ref] # "gone" IN
          \E n \in IF found THEN {op[o].ref} ELSE Unused :
             /\ ~found => \A m \in Unused : n <= m
             /\ box' = [box EXCEPT ![n] = "up"]
             /\ Goes(o, [op[o] EXCEPT !.at = "setup", !.got = n])
             /\ UNCHANGED faults
       \/ Fault /\ Goes(o, [op[o] EXCEPT !.at = "record"]) /\ UNCHANGED box
    /\ UNCHANGED <<lease, deaths>>

\* prepare, restore of the workspace, layout; then the activation.
SetUpFails(o) ==
    /\ op[o].at = "setup" /\ Fault
    /\ Goes(o, [op[o] EXCEPT !.at = "undo"]) /\ UNCHANGED <<lease, box, deaths>>

StillClaimed(o) == op[o].cur /\ ~Reserved(o) /\ comp.ref = op[o].ref

Activate(o) ==
    /\ op[o].at = "setup"
    /\ IF comp.state = "booting" /\ StillClaimed(o)
       THEN Writes(o, IF Kind[o] = "run" THEN [At("work") EXCEPT !.got = op[o].got]
                                         ELSE GivenUp(o),
                   [comp EXCEPT !.state = "running", !.ref = op[o].got])
       ELSE Goes(o, [op[o] EXCEPT !.at = "undo"])
    /\ UNCHANGED <<lease, box, deaths, faults>>

\* Mutant of Undoes: a box that was just made is kept.
UndoesOldBox(o) == ~Reconnecting(o) /\ ~Fresh(o)

\* The box is undone unless it is the one we reconnected to: a fresh one is
\* destroyed, another stopped.
Undoes(o) == ~Reconnecting(o) \/ Fresh(o)

RollBack(o) ==
    /\ op[o].at = "undo"
    /\ \/ /\ box' = IF Undoes(o) THEN [box EXCEPT ![op[o].got] =
                                          IF Fresh(o) THEN "gone" ELSE "down"] ELSE box
          /\ Goes(o, [op[o] EXCEPT !.at = "record", !.got = 0])
          /\ UNCHANGED faults
       \/ Undoes(o) /\ Fault /\ Goes(o, [op[o] EXCEPT !.at = "record"]) /\ UNCHANGED box
    /\ UNCHANGED <<lease, deaths>>

\* A box that could not be rolled back is recorded, so that it is not lost.
RecordFailure(o) ==
    /\ op[o].at = "record"
    /\ IF comp.state = "booting" /\ StillClaimed(o)
       THEN Writes(o, GivenUp(o),
                   IF Reconnecting(o) THEN [comp EXCEPT !.state = "running"]
                   ELSE [comp EXCEPT !.state = "error",
                                     !.ref = IF op[o].got # 0 THEN op[o].got ELSE @])
       ELSE Goes(o, GivenUp(o))
    /\ UNCHANGED <<lease, box, deaths, faults>>

-----------------------------------------------------------------------------
(* A run at work on the computer it was given.                             *)

\* checkpointRunComputerWorkspace: a team run saves the workspace when no other
\* bot is at work; whatever came of it, the row is running again afterwards.
SaveWorkspace(o) ==
    /\ op[o].at = "work" /\ comp.team
    /\ comp.state = "running" /\ comp.ref = op[o].got /\ HeldByNobodyElse(o)
    /\ Writes(o, [op[o] EXCEPT !.at = "saving", !.cur = TRUE], [comp EXCEPT !.state = "suspending"])
    /\ UNCHANGED <<lease, box, deaths, faults>>

WorkspaceSaved(o) ==
    /\ op[o].at = "saving"
    /\ IF comp.state = "suspending" /\ comp.ref = op[o].got
       THEN Writes(o, [op[o] EXCEPT !.at = "saved", !.cur = FALSE], [comp EXCEPT !.state = "running"])
       ELSE Goes(o, [op[o] EXCEPT !.at = "saved", !.cur = FALSE])
    /\ UNCHANGED <<lease, box, deaths, faults>>

Working(o) == op[o].at \in {"work", "saving", "saved"}

\* The run ends; or its heartbeat finds its lease gone, and it is put back.
EndRun(o) ==
    /\ op[o].at \in {"work", "saved"}
    /\ Goes(o, At("leave")) /\ UNCHANGED <<lease, box, deaths, faults>>

LoseLease(o) ==
    /\ op[o].at \in {"work", "saved"} /\ ~Holds(o)
    /\ Goes(o, At("retry")) /\ UNCHANGED <<lease, box, deaths, faults>>

-----------------------------------------------------------------------------
(* replaceComputer, for reset, update and recover.                         *)

ForeignLease(o) == \E b \in Bot \ {BotOf[o]} : Live(b)

RLook(o) ==
    LET s == comp.state IN
    /\ op[o].at = "rlook"
    /\ Goes(o, IF \/ Reserved(o)
                  \/ s = "suspending" /\ Kind[o] # "reset"
                  \/ s \in Unstable /\ (ForeignLease(o) \/ ~abandoned
                                        \/ \E r \in Op : ActiveRun(r))
               THEN GivenUp(o)
               ELSE [At("rclaim") EXCEPT !.st = s, !.ref = comp.ref, !.cur = TRUE])
    /\ UNCHANGED <<lease, box, deaths, faults>>

RClaim(o) ==
    /\ op[o].at = "rclaim"
    /\ IF /\ comp.state = op[o].st /\ ~Reserved(o) /\ ~ForeignLease(o)
          /\ op[o].st \in Unstable => op[o].cur
       THEN Writes(o, [op[o] EXCEPT !.at = "recheck", !.cur = TRUE],
                   [comp EXCEPT !.state = "suspending"])
       ELSE Goes(o, GivenUp(o))
    /\ UNCHANGED <<lease, box, deaths, faults>>

Recheck(o) ==
    /\ op[o].at = "recheck"
    /\ IF \E r \in Op : ActiveRun(r)
       THEN IF comp.state = "suspending" /\ op[o].cur
            THEN Writes(o, GivenUp(o), [comp EXCEPT !.state = op[o].st])
            ELSE Goes(o, GivenUp(o))
       ELSE Goes(o, [op[o] EXCEPT !.at = "destroy"])
    /\ UNCHANGED <<lease, box, deaths, faults>>

\* An update saves the workspace first, and fails when it cannot; then the old
\* box goes.  Recover goes on when destroying it fails.  (Recording the save
\* checks the claim, computer-lifecycle.ts:703-707; Vacate checks it again.)
Destroy(o) ==
    /\ op[o].at = "destroy"
    /\ \/ /\ box' = IF op[o].ref = 0 THEN box ELSE [box EXCEPT ![op[o].ref] = "gone"]
          /\ Goes(o, [op[o] EXCEPT !.at = "vacate"]) /\ UNCHANGED faults
       \/ /\ op[o].ref # 0 /\ Fault /\ UNCHANGED box
          /\ Goes(o, [op[o] EXCEPT !.at = IF Kind[o] = "recover" THEN "vacate" ELSE "spoil"])
    /\ UNCHANGED <<lease, deaths>>

\* The write keeps the stamp of the claim, so it makes nobody's stamp old.
Vacate(o) ==
    /\ op[o].at = "vacate"
    /\ IF comp.state = "suspending" /\ op[o].cur /\ ~Reserved(o)
       THEN /\ comp' = [comp EXCEPT !.state = "stopped", !.ref = 0]
            /\ op' = [op EXCEPT ![o] = At("look")]
            /\ UNCHANGED abandoned
       ELSE Goes(o, [op[o] EXCEPT !.at = "spoil"])
    /\ UNCHANGED <<lease, box, deaths, faults>>

Spoil(o) ==
    /\ op[o].at = "spoil"
    /\ IF op[o].cur /\ ~Reserved(o)
       THEN Writes(o, GivenUp(o), [comp EXCEPT !.state = "error"])
       ELSE Goes(o, GivenUp(o))
    /\ UNCHANGED <<lease, box, deaths, faults>>

-----------------------------------------------------------------------------
(* The idle stop (sleepComputerIfIdle).                                    *)

SLook(o) ==
    /\ op[o].at = "none" /\ Kind[o] = "sleep"
    /\ comp.ref # 0 /\ comp.state = "running" /\ \A r \in Op : ~ActiveRun(r)
    /\ Goes(o, [At("sclaim") EXCEPT !.ref = comp.ref, !.cur = TRUE])
    /\ UNCHANGED <<lease, box, deaths, faults>>

SClaim(o) ==
    /\ op[o].at = "sclaim"
    /\ IF /\ comp.state = "running" /\ comp.maint = NoOp /\ comp.ref = op[o].ref
          /\ op[o].cur /\ \A b \in Bot : ~Live(b)
       THEN Writes(o, [op[o] EXCEPT !.at = "ssave", !.cur = TRUE], [comp EXCEPT !.state = "suspending"])
       ELSE Goes(o, At("none"))
    /\ UNCHANGED <<lease, box, deaths, faults>>

SuspensionClaim(o) == comp.state = "suspending" /\ comp.ref = op[o].ref /\ op[o].cur

\* Gives the row back, if the claim is still there.
Resume(o) == IF SuspensionClaim(o)
             THEN Writes(o, At("none"), [comp EXCEPT !.state = "running"])
             ELSE Goes(o, At("none"))

\* The workspace is exported, then everything is looked at once more.
SSave(o) ==
    /\ op[o].at = "ssave"
    /\ \/ SuspensionClaim(o) /\ Goes(o, [op[o] EXCEPT !.at = "srecheck"]) /\ UNCHANGED faults
       \/ Resume(o) /\ IF SuspensionClaim(o) THEN Fault ELSE UNCHANGED faults
    /\ UNCHANGED <<lease, box, deaths>>

SRecheck(o) ==
    /\ op[o].at = "srecheck"
    /\ IF SuspensionClaim(o) /\ \A r \in Op : ~ActiveRun(r)
       THEN Goes(o, [op[o] EXCEPT !.at = "sstop"])
       ELSE Resume(o)
    /\ UNCHANGED <<lease, box, deaths, faults>>

SStop(o) ==
    /\ op[o].at = "sstop"
    /\ \/ /\ box' = [box EXCEPT ![op[o].ref] = IF @ = "up" THEN "down" ELSE @]
          /\ Goes(o, [op[o] EXCEPT !.at = "srecord"]) /\ UNCHANGED faults
       \/ Fault /\ Resume(o) /\ UNCHANGED box
    /\ UNCHANGED <<lease, deaths>>

SRecord(o) ==
    /\ op[o].at = "srecord"
    /\ IF SuspensionClaim(o)
       THEN Writes(o, At("none"), [comp EXCEPT !.state = "suspended"])
       ELSE Goes(o, At("none"))
    /\ UNCHANGED <<lease, box, deaths, faults>>

-----------------------------------------------------------------------------
(* computer.stop of the user, for a bot.                                   *)

TLook(o) ==
    /\ op[o].at = "none" /\ Kind[o] = "stop"
    /\ Goes(o, [At("tclaim") EXCEPT !.ref = comp.ref, !.st = comp.state])
    /\ UNCHANGED <<lease, box, deaths, faults>>

TClaim(o) ==
    /\ op[o].at = "tclaim"
    /\ IF comp.state # "suspending" /\ comp.maint = NoOp /\ ~ForeignLease(o)
       THEN Writes(o, [op[o] EXCEPT !.at = "tcheck", !.cur = TRUE], [comp EXCEPT !.state = "suspending"])
       ELSE Goes(o, At("done"))
    /\ UNCHANGED <<lease, box, deaths, faults>>

\* Another bot's run has become active: the row gets back the state that was
\* read.  Otherwise the bot's lease row is deleted.
TCheck(o) ==
    /\ op[o].at = "tcheck"
    /\ IF \E r \in Op : ActiveRun(r) /\ BotOf[r] # BotOf[o]
       THEN /\ IF comp.state = "suspending"
               THEN Writes(o, At("done"), [comp EXCEPT !.state = op[o].st])
               ELSE Goes(o, At("done"))
            /\ UNCHANGED lease
       ELSE /\ lease' = [lease EXCEPT ![BotOf[o]] = NoLease]
            /\ Goes(o, [op[o] EXCEPT !.at = "tstop"])
    /\ UNCHANGED <<box, deaths, faults>>

\* The box of the reference that was read first is stopped.
TStop(o) ==
    /\ op[o].at = "tstop"
    /\ \/ /\ op[o].ref # 0 => box[op[o].ref] # "gone"
          /\ box' = IF op[o].ref = 0 THEN box ELSE [box EXCEPT ![op[o].ref] = "down"]
          /\ Goes(o, [op[o] EXCEPT !.at = "trecord"]) /\ UNCHANGED faults
       \/ /\ op[o].ref # 0 /\ UNCHANGED box
          /\ IF box[op[o].ref] = "gone" THEN UNCHANGED faults ELSE Fault
          /\ IF comp.state = "suspending"
             THEN Writes(o, At("done"), [comp EXCEPT !.state = "error"])
             ELSE Goes(o, At("done"))
    /\ UNCHANGED <<lease, deaths>>

TRecord(o) ==
    /\ op[o].at = "trecord"
    /\ Writes(o, At("done"), [comp EXCEPT !.state = "stopped"])
    /\ UNCHANGED <<lease, box, deaths, faults>>

-----------------------------------------------------------------------------
(* Deaths, time, and the operator.                                         *)

Underway(o) == op[o].at \notin {"none", "start", "done", "dead", "lapsed"}

\* The worker or the server process dies.  An idle stop is a job: it comes again.
Die(o) ==
    /\ Underway(o) /\ deaths < MaxDeath /\ deaths' = deaths + 1
    /\ Goes(o, At(IF Kind[o] = "sleep" THEN "none" ELSE "dead"))
    /\ UNCHANGED <<lease, box, faults>>

\* The lease of a dead run runs out, and the run is delivered again.
RunLapses(o) ==
    /\ o \in Runs /\ op[o].at = "dead"
    /\ Goes(o, At("lapsed")) /\ UNCHANGED <<lease, box, deaths, faults>>

Redeliver(o) ==
    /\ op[o].at = "lapsed"
    /\ Goes(o, At("start")) /\ UNCHANGED <<lease, box, deaths, faults>>

\* Nobody renews the lease of a dead operation; a live run may miss its heartbeats.
LeaseLapses(b) ==
    /\ Live(b)
    /\ lease' = [lease EXCEPT ![b].live = FALSE]
    /\ IF Underway(lease[b].owner) THEN lease[b].owner \in Runs /\ Fault ELSE UNCHANGED faults
    /\ UNCHANGED <<comp, abandoned, op, box, deaths>>

\* A claim whose owner lives is finished within the five minutes after which it
\* counts as abandoned, except the boot of a run, which may be slow.
Looking == {"look", "wait", "claim", "rclaim", "sclaim"}
Claims(o) == op[o].cur /\ Underway(o) /\ op[o].at \notin Looking
SlowBoot(o) == o \in Runs /\ op[o].at \in {"provide", "setup"}

StampAges ==
    /\ comp.state \in Unstable /\ ~abandoned /\ abandoned' = TRUE
    /\ \A o \in Op : Claims(o) => SlowBoot(o)
    /\ UNCHANGED <<comp, lease, op, box, deaths, faults>>

\* releaseInterrupted: the operator has seen that the workers of the update are stopped.
ReleaseInterrupted(o) ==
    /\ o \in Updates /\ op[o].at = "dead" /\ comp.maint = o
    /\ Writes(o, At("done"), [comp EXCEPT !.maint = NoOp, !.state = "error"])
    /\ UNCHANGED <<lease, box, deaths, faults>>

-----------------------------------------------------------------------------

LeaseStep(o)     == Approach(o) \/ TakeLease(o) \/ CheckLease(o) \/ Release(o) \/ FinishUpdate(o)
ProvisionStep(o) == Look(o) \/ Waited(o) \/ ClaimBoot(o) \/ Provide(o) \/ SetUpFails(o)
                    \/ Activate(o) \/ RollBack(o) \/ RecordFailure(o)
WorkStep(o)      == SaveWorkspace(o) \/ WorkspaceSaved(o) \/ EndRun(o) \/ LoseLease(o)
ReplaceStep(o)   == RLook(o) \/ RClaim(o) \/ Recheck(o) \/ Destroy(o) \/ Vacate(o) \/ Spoil(o)
SleepStep(o)     == SClaim(o) \/ SSave(o) \/ SRecheck(o) \/ SStop(o) \/ SRecord(o)
StopStep(o)      == TClaim(o) \/ TCheck(o) \/ TStop(o) \/ TRecord(o)
Recovers(o)      == RunLapses(o) \/ Redeliver(o)

\* A step of an operation that has begun, and the beginning of one.
Step(o)  == LeaseStep(o) \/ ProvisionStep(o) \/ WorkStep(o) \/ ReplaceStep(o)
            \/ SleepStep(o) \/ StopStep(o) \/ Recovers(o)
Begin(o) == Ask(o) \/ QueueUpdate(o) \/ SLook(o) \/ TLook(o)

LifeNext ==
    \/ \E o \in Op : Step(o) \/ Begin(o) \/ Die(o) \/ ReleaseInterrupted(o)
    \/ \E b \in Bot : LeaseLapses(b)
    \/ StampAges

\* Jobs are retried and every call of the provider returns; a dead owner's lease
\* and claim grow old.  Nothing makes a user ask, a worker die, or the operator act.
ForsakenLapses(b) == Live(b) /\ ~Underway(lease[b].owner) /\ LeaseLapses(b)

LifeFairness ==
    /\ \A o \in Op : WF_lifeVars(Step(o))
    /\ \A b \in Bot : WF_lifeVars(ForsakenLapses(b))
    /\ WF_lifeVars(StampAges)

LifeSpec == LifeInit /\ [][LifeNext]_lifeVars /\ LifeFairness

-----------------------------------------------------------------------------
(* Properties.                                                             *)

Pcs == {"none", "start", "take", "check", "look", "wait", "claim", "provide", "setup",
        "undo", "record", "work", "saving", "saved", "leave", "retry", "free", "finish",
        "rlook", "rclaim", "recheck", "destroy", "vacate", "spoil", "sclaim", "ssave",
        "srecheck", "sstop", "srecord", "tclaim", "tcheck", "tstop", "trecord",
        "done", "dead", "lapsed"}

CompRow  == [team : BOOLEAN, state : States, ref : 0..MaxBox, maint : Updates \cup {NoOp}]
LeaseRow == [owner : Op \cup {NoOp}, live : BOOLEAN, fence : 0..MaxFence]
OpRec    == [at : Pcs, seen : States \cup {"none"}, st : States \cup {"none"},
             ref : 0..MaxBox, cur : BOOLEAN, old : BOOLEAN, got : 0..MaxBox]

\* No user stops the computer; none stops it for a bot while another bot has runs.
NoStop     == \A o \in Op : Kind[o] = "stop" => op[o].at = "none"
StopsAlone == \A o \in Op, r \in Runs :
                 Kind[o] = "stop" /\ op[o].at # "none" /\ BotOf[r] # BotOf[o]
                 => op[r].at = "none"

\* Every variable has its type; only an operation of an update reserves the
\* computer; a row that is running has a box, unless a stop has written back a
\* state it read before its claim (router.ts:1961).
LifeTypeOK ==
    /\ comp \in CompRow
    /\ StopsAlone => (comp.state \in {"running", "suspended"} => comp.ref # 0)
    /\ abandoned \in BOOLEAN
    /\ lease \in [Bot -> LeaseRow]
    /\ op \in [Op -> OpRec]
    /\ box \in [Box -> {"gone", "up", "down"}]
    /\ deaths \in 0..MaxDeath /\ faults \in 0..MaxFault

\* While a run works, with or without a live execution lease, the box it was given
\* runs, if no user stops the computer: no idle stop, reset, update or boot that is
\* rolled back takes it away (computer-idle.ts:233, computer-lifecycle.ts:640).  A
\* user's stop writes back a state it has read before its claim (router.ts:1961).
WorkKeepsBox == \A r \in Runs : Working(r) => box[op[r].got] = "up"
RunKeepsBox  == NoStop => WorkKeepsBox

\* A box the row no longer names, and no operation knows, is gone: each one that
\* is left behind is owed to a death or to a failed call of the provider.  An
\* activation that comes too late undoes its box (computer-lifecycle.ts:341-350).
Lost == {n \in Box : box[n] # "gone" /\ n # comp.ref
                     /\ \A o \in Op : n \notin {op[o].ref, op[o].got}}
LostIsOwed == Cardinality(Lost) <= deaths + faults

\* A fence of a bot's lease never falls ("Deleting it resets the fence to 1",
\* computer-lifecycle.ts:559).
FenceRises == [][\A b \in Bot : lease'[b].fence >= lease[b].fence]_lifeVars

\* A queued run gets its computer, whatever died or failed before: no claim of
\* the row is left behind for good.  A reservation that its update left behind
\* is released by hand (computer-update.ts:195-196).
Forsaken == \E o \in Updates : op[o].at = "dead" /\ comp.maint = o
RunGetsComputer ==
    \A r \in Runs : op[r].at = "start" ~> (op[r].at \in {"work", "leave", "done"} \/ Forsaken)
=============================================================================
