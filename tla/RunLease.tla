------------------------------ MODULE RunLease ------------------------------
(***************************************************************************)
(* One run row and the concurrent executions of its `run.continue` job.    *)
(*                                                                         *)
(* A run is a row of Postgres.  Workers (processes) execute `continueRun`  *)
(* for it: they read the row, claim it with a compare-and-set, start it,   *)
(* drive the model, and commit its outcome with another compare-and-set    *)
(* that names the lease owner and the lease fence.  Users answer, release  *)
(* the screen, stop or clear; leases time out; a reconciler re-enqueues.   *)
(* Every action is one database statement or one transaction.              *)
(***************************************************************************)
EXTENDS Naturals, FiniteSets

CONSTANTS
    Handler,      \* executions of continueRun that may overlap
    Worker,       \* processes; the lease owner column holds one of these
    WorkerOf,     \* the process each execution runs in: owner = its pid
    NoOwner,      \* the null lease owner, and "nobody claimed yet"
    MaxFence,     \* bound: a job is delivered only while leaseFence < MaxFence
    MaxCrash,     \* bound: number of process crashes
    CancelPaths   \* which cancellations occur: subset of {"stop","clear","archive"}

ASSUME WorkerAssumption == WorkerOf \in [Handler -> Worker]
ASSUME NoOwnerAssumption == NoOwner \notin Worker /\ NoOwner \notin Handler
ASSUME BoundAssumption == MaxFence \in Nat /\ MaxCrash \in Nat

VARIABLES
    status,       \* runs.status
    owner,        \* runs.leaseOwner
    fence,        \* runs.leaseFence
    expired,      \* runs.leaseExpiresAt <= now
    ckpt,         \* runs.checkpoint, by kind
    ctl,          \* the screen, as far as it concerns this run (see Screen)
    job,          \* a run.continue job waits in the queue
    pc,           \* per handler: where continueRun is
    seen,         \* per handler: the columns it read before its claim
    plan,         \* per handler: resumeCheckpoint and heldForTakeover
    token,        \* per handler: the fence it claimed with
    att,          \* per handler: its attempt row
    claimant,     \* history: the handler whose claim succeeded last
    archiving,    \* archiveBot has read the active runs, not yet written them
    crashes       \* number of crashes so far

row     == <<status, owner, fence, expired, ckpt>>
locals  == <<pc, seen, plan, token, att>>
world   == <<ctl, job, claimant, archiving, crashes>>
vars    == <<row, locals, world>>

Waiting  == {"waiting_input", "waiting_takeover"}
Leased   == {"leased", "running"}
Active   == {"queued"} \cup Leased \cup Waiting
Terminal == {"completed", "failed", "cancelled"}
Status   == Active \cup Terminal

\* TAKEOVER_RESUME_CHECKPOINTS; "choice" stands for a stored choice card.
Resume     == {"takeover", "takeover-skipped"}
Checkpoint == Resume \cup {"none", "choice"}

\* "asked": the run has asked for the user; "user": the user holds the screen for
\* this run; "left": the computer's row has dropped the run without a release;
\* "none": no request is open, each was answered by a release.
Screen == {"none", "asked", "user", "left"}

takeoverCheckpointOf(c) == IF c \in Resume THEN c ELSE "none"

PC == {"idle", "read", "claimed", "started", "setup", "ready", "open", "loop",
       "requeue", "planned", "retried", "finally"}

NothingSeen == [status |-> "queued", ckpt |-> "none", fence |-> 0]

takeoverContinuePlan(s, c) ==
    [resume |-> takeoverCheckpointOf(c),
     held   |-> s = "waiting_takeover" /\ takeoverCheckpointOf(c) = "none"]

NoPlan == takeoverContinuePlan("queued", "none")

Init ==
    /\ status = "queued" /\ owner = NoOwner /\ fence = 0
    /\ expired = FALSE /\ ckpt = "none"
    /\ ctl = "none" /\ job \in BOOLEAN
    /\ pc = [h \in Handler |-> "idle"]
    /\ seen = [h \in Handler |-> NothingSeen]
    /\ plan = [h \in Handler |-> NoPlan]
    /\ token = [h \in Handler |-> 0]
    /\ att = [h \in Handler |-> "none"]
    /\ claimant = NoOwner /\ archiving = FALSE /\ crashes = 0

-----------------------------------------------------------------------------
(* Helpers *)

\* Mutant: the fence alone, without the owner.
OwnsByFence(h) == fence = token[h]

Owns(h) == owner = WorkerOf[h] /\ fence = token[h]

\* The where clause of every fenced write: running, my process, my fence.
HoldsLease(h) == status = "running" /\ Owns(h)

Goto(h, label) == pc' = [pc EXCEPT ![h] = label]

\* The handler's variables die with its execution.
Forget(H) ==
    /\ pc'    = [h \in Handler |-> IF h \in H THEN "idle" ELSE pc[h]]
    /\ seen'  = [h \in Handler |-> IF h \in H THEN NothingSeen ELSE seen[h]]
    /\ plan'  = [h \in Handler |-> IF h \in H THEN NoPlan ELSE plan[h]]
    /\ token' = [h \in Handler |-> IF h \in H THEN 0 ELSE token[h]]
    /\ att'   = [h \in Handler |-> IF h \in H THEN "none" ELSE att[h]]

\* An enqueue after a commit may be lost (the queue refuses, the process dies).
Enqueue == \E sent \in BOOLEAN : job' = (job \/ sent)

\* Give the lease back together with a new status.
Unlease(s) == status' = s /\ owner' = NoOwner /\ expired' = FALSE /\ fence' = fence

-----------------------------------------------------------------------------
(* continueRun: read, claim, start *)

\* Mutant: the fence advances by two.
nextFenceTwice(current) == current + 2

nextFence(current) == current + 1

\* The queue hands the job to a handler, which reads the row.
Deliver(h) ==
    /\ pc[h] = "idle" /\ job /\ fence < MaxFence
    /\ job' = FALSE
    /\ IF status \in Terminal
       THEN UNCHANGED <<pc, seen, plan>>
       ELSE /\ Goto(h, "read")
            /\ seen' = [seen EXCEPT ![h] =
                          [status |-> status, ckpt |-> ckpt, fence |-> fence]]
            /\ plan' = [plan EXCEPT ![h] = takeoverContinuePlan(status, ckpt)]
    /\ UNCHANGED <<row, token, att, ctl, claimant, archiving, crashes>>

\* Mutant: the claim does not compare the checkpoint it has read.
ClaimableAnyCheckpoint(h) ==
    /\ status = seen[h].status
    /\ \/ status \in {"queued"} \cup Waiting
       \/ status \in Leased /\ expired

\* The row still has the status and checkpoint that were read, and is free or
\* its lease has run out.  The fence that was read is not compared.
Claimable(h) ==
    /\ status = seen[h].status /\ ckpt = seen[h].ckpt
    /\ \/ status \in {"queued"} \cup Waiting
       \/ status \in Leased /\ expired

Claim(h) ==
    /\ pc[h] = "read" /\ Claimable(h)
    /\ status' = "leased" /\ owner' = WorkerOf[h] /\ fence' = nextFence(seen[h].fence)
    /\ expired' = FALSE /\ ckpt' = "none"
    /\ token' = [token EXCEPT ![h] = nextFence(seen[h].fence)]
    /\ seen' = [seen EXCEPT ![h] = NothingSeen]
    /\ claimant' = h
    /\ Goto(h, "claimed")
    /\ UNCHANGED <<plan, att, ctl, job, archiving, crashes>>

ClaimLost(h) ==
    /\ pc[h] = "read" /\ ~Claimable(h)
    /\ Forget({h})
    /\ UNCHANGED <<row, world>>

\* Mutant: the start compares the status alone.
CanStartLeased(h) == status = "leased"

CanStart(h) == status = "leased" /\ Owns(h)

Start(h) ==
    /\ pc[h] = "claimed" /\ CanStart(h)
    /\ status' = "running"
    /\ Goto(h, "started")
    /\ UNCHANGED <<owner, fence, expired, ckpt, seen, plan, token, att, world>>

StartLost(h) ==
    /\ pc[h] = "claimed" /\ ~CanStart(h)
    /\ Forget({h})
    /\ UNCHANGED <<row, world>>

\* An exception before the attempt exists: the lease stays until it times out;
\* the queue may retry the job.
Abandon(h) ==
    /\ pc[h] \in {"claimed", "started"}
    /\ Forget({h})
    /\ Enqueue
    /\ UNCHANGED <<row, ctl, claimant, archiving, crashes>>

-----------------------------------------------------------------------------
(* continueRun: the computer, set-up, the model *)

\* computerSwitching, or ComputerBusyError from the computer's own lease.
Busy(h) ==
    /\ pc[h] = "started"
    /\ Goto(h, "requeue")
    /\ UNCHANGED <<row, seen, plan, token, att, world>>

\* The computer is free: create the attempt and start the heartbeat.
Acquire(h) ==
    /\ pc[h] = "started"
    /\ Goto(h, "setup")
    /\ att' = [att EXCEPT ![h] = "running"]
    /\ UNCHANGED <<row, seen, plan, token, world>>

\* The heartbeat renews the lease, also one that has run out unclaimed.
Renew(h) ==
    /\ pc[h] \in {"setup", "ready", "open", "loop"}
    /\ HoldsLease(h) /\ expired
    /\ expired' = FALSE
    /\ UNCHANGED <<status, owner, fence, ckpt, locals, world>>

\* Any exception of set-up ends in a requeue.
SetupFails(h) ==
    /\ pc[h] \in {"setup", "ready", "open"}
    /\ Goto(h, "requeue")
    /\ UNCHANGED <<row, seen, plan, token, att, world>>

\* provisionComputer and the rest of set-up are done; a held run looks whether
\* the user released the screen meanwhile.
FinishSetup(h) ==
    /\ pc[h] = "setup"
    /\ Goto(h, "ready")
    /\ plan' = [plan EXCEPT ![h] =
                  IF plan[h].held /\ ckpt \in Resume
                  THEN takeoverContinuePlan(status, ckpt) ELSE plan[h]]
    /\ UNCHANGED <<row, seen, token, att, world>>

\* A held run whose screen was released goes back to the queue with the
\* checkpoint it found; both the check before the model and the one inside
\* the event loop.
RequeueReleased(h) ==
    /\ Goto(h, "requeue")
    /\ plan' = [plan EXCEPT ![h] = [resume |-> ckpt, held |-> FALSE]]
    /\ UNCHANGED <<row, seen, token, att, world>>

HeldCheck(h) ==
    /\ pc[h] = "ready"
    /\ IF plan[h].held /\ ckpt \in Resume
       THEN RequeueReleased(h)
       ELSE /\ Goto(h, "open")
            /\ UNCHANGED <<row, seen, plan, token, att, world>>

\* mayOpenModelStream
OpenModel(h) ==
    /\ pc[h] = "open" /\ HoldsLease(h)
    /\ Goto(h, "loop")
    /\ UNCHANGED <<row, seen, plan, token, att, world>>

\* The handler finds that the lease is not its own: mayOpenModelStream, the
\* check of the event loop, a renewal or a commit that matches no row.
NoticeLoss(h) ==
    /\ pc[h] \in {"open", "loop"} /\ ~HoldsLease(h)
    /\ Goto(h, "finally")
    /\ UNCHANGED <<row, seen, plan, token, att, world>>

\* The heartbeat failed (the computer's lease, the database): the handler
\* leaves although the run's lease is still its own.
Abort(h) ==
    /\ pc[h] \in {"open", "loop"} /\ HoldsLease(h)
    /\ Goto(h, "finally")
    /\ UNCHANGED <<row, seen, plan, token, att, world>>

NoticeRelease(h) ==
    /\ pc[h] = "loop" /\ status # "cancelled" /\ Owns(h)
    /\ plan[h].held /\ ckpt \in Resume
    /\ RequeueReleased(h)

-----------------------------------------------------------------------------
(* Fenced commits of the handler: pauses and outcomes *)

\* Every commit matches the running row and the running attempt, closes the
\* attempt and gives the lease back.  A missing attempt would throw and roll
\* back: AttemptAvailable shows that it cannot be missing.
Commit(h, s) ==
    /\ HoldsLease(h) /\ att[h] = "running"
    /\ Unlease(s)
    /\ att' = [att EXCEPT ![h] = "closed"]
    /\ Goto(h, "finally")
    /\ UNCHANGED <<seen, plan, token, claimant, archiving, crashes>>

\* pauseRunForInput; offering choices stores them in the checkpoint.
AskPause(h) ==
    /\ pc[h] = "loop"
    /\ Commit(h, "waiting_input")
    /\ ckpt' \in {ckpt, "choice"}
    /\ UNCHANGED <<ctl, job>>

\* pauseRunForTakeover; a user who already controls the screen keeps it, and now
\* holds it for this run.
TakeoverPause(h) ==
    /\ pc[h] = "loop"
    /\ Commit(h, "waiting_takeover")
    /\ ckpt' = "none"
    /\ ctl' \in {"asked", "user"}
    /\ UNCHANGED job

\* finalizeRun with outcome completed
Complete(h) ==
    /\ pc[h] = "loop"
    /\ Commit(h, "completed")
    /\ UNCHANGED <<ckpt, ctl, job>>

\* finalizeRun with outcome failed: an exception of the model's turn, or a
\* configuration error found in set-up (failRunBeforeModel).
Fail(h) ==
    /\ pc[h] \in {"setup", "loop"}
    /\ Commit(h, "failed")
    /\ UNCHANGED <<ckpt, ctl, job>>

-----------------------------------------------------------------------------
(* writeComputerRunRequeue: three compare-and-sets, then the finally block *)

\* Keep a checkpoint that the release has stamped on the row.
PreserveCheckpoint(h, next) ==
    IF HoldsLease(h) /\ ckpt \in Resume
    THEN Unlease("queued") /\ ckpt' = ckpt /\ Goto(h, "finally") /\ Enqueue
    ELSE Goto(h, next) /\ UNCHANGED <<row, job>>

RequeuePreserve(h) ==
    /\ pc[h] = "requeue"
    /\ PreserveCheckpoint(h, "planned")
    /\ UNCHANGED <<seen, plan, token, att, ctl, claimant, archiving, crashes>>

\* Mutant: the planned requeue does not ask that the checkpoint is still empty.
RequeuePlannedBlind(h) ==
    /\ pc[h] = "planned"
    /\ IF HoldsLease(h)
       THEN /\ Unlease(IF plan[h].held /\ plan[h].resume = "none"
                       THEN "waiting_takeover" ELSE "queued")
            /\ ckpt' = plan[h].resume
            /\ Goto(h, "finally")
            /\ Enqueue
       ELSE Goto(h, "retried") /\ UNCHANGED <<row, job>>
    /\ UNCHANGED <<seen, plan, token, att, ctl, claimant, archiving, crashes>>

\* Nothing stamped: write what the plan says.
RequeuePlanned(h) ==
    /\ pc[h] = "planned"
    /\ IF HoldsLease(h) /\ ckpt = "none"
       THEN /\ Unlease(IF plan[h].held /\ plan[h].resume = "none"
                       THEN "waiting_takeover" ELSE "queued")
            /\ ckpt' = plan[h].resume
            /\ Goto(h, "finally")
            /\ Enqueue
       ELSE Goto(h, "retried") /\ UNCHANGED <<row, job>>
    /\ UNCHANGED <<seen, plan, token, att, ctl, claimant, archiving, crashes>>

RequeueRetried(h) ==
    /\ pc[h] = "retried"
    /\ PreserveCheckpoint(h, "finally")
    /\ UNCHANGED <<seen, plan, token, att, ctl, claimant, archiving, crashes>>

\* The finally block closes the attempt; the execution ends.
Finally(h) ==
    /\ pc[h] = "finally"
    /\ Forget({h})
    /\ UNCHANGED <<row, world>>

-----------------------------------------------------------------------------
(* Users, clocks, the reconciler, crashes *)

\* commitAnswerRunInput: a choice card clears its stored choices.
Answer ==
    /\ status = "waiting_input"
    /\ status' = "queued"
    /\ ckpt' = IF ckpt = "choice" THEN "none" ELSE ckpt
    /\ Enqueue
    /\ UNCHANGED <<owner, fence, expired, locals, ctl, claimant, archiving, crashes>>

\* computer.takeover: the user controls the screen, and the computer's execution
\* lease names this run: it waits, or its request is still on the computer's row.
TakeControl ==
    /\ ctl = "asked" \/ (ctl = "left" /\ status = "waiting_takeover")
    /\ ctl' = "user"
    /\ UNCHANGED <<row, locals, job, claimant, archiving, crashes>>

\* The computer's row drops this run, and the run is not told: a grant that finds no
\* execution lease (a dedicated computer has none) or finds it in another run's
\* hands, a grant to another bot, a stop, a reset or a suspension of the computer.
DropRequest ==
    /\ ctl \in {"asked", "user"}
    /\ ctl' = "left"
    /\ UNCHANGED <<row, locals, job, claimant, archiving, crashes>>

\* finalizeComputerControlRelease: done, skipped or expired.
ReleaseControl(c) ==
    /\ ctl = "user" /\ ctl' = "none"
    /\ status' = IF status = "waiting_takeover" THEN "queued" ELSE status
    /\ ckpt' = IF status \in {"waiting_takeover"} \cup Leased THEN c ELSE ckpt
    /\ IF status \in {"waiting_takeover"} \cup Leased THEN Enqueue ELSE UNCHANGED job
    /\ UNCHANGED <<owner, fence, expired, locals, claimant, archiving, crashes>>

\* A user message that steers the run also wakes it, whatever it waits for.
Nudge ==
    /\ status \in Active /\ ~job
    /\ job' = TRUE
    /\ UNCHANGED <<row, locals, ctl, claimant, archiving, crashes>>

\* Mutant: a reconciler that looks for queued runs only.
ReconcileQueuedOnly ==
    /\ status = "queued"
    /\ ~job /\ job' = TRUE
    /\ UNCHANGED <<row, locals, ctl, claimant, archiving, crashes>>

\* The periodic reconciler: queued runs, and leases that have run out.
Reconcile ==
    /\ status = "queued" \/ (status \in Leased /\ expired)
    /\ ~job /\ job' = TRUE
    /\ UNCHANGED <<row, locals, ctl, claimant, archiving, crashes>>

Expire ==
    /\ status \in Leased /\ ~expired
    /\ expired' = TRUE
    /\ UNCHANGED <<status, owner, fence, ckpt, locals, world>>

\* A worker process dies with all its handlers; the rows stay as they are.
Crash(w) ==
    /\ crashes < MaxCrash /\ crashes' = crashes + 1
    /\ \E h \in Handler : WorkerOf[h] = w /\ pc[h] # "idle"
    /\ Forget({h \in Handler : WorkerOf[h] = w})
    /\ UNCHANGED <<row, ctl, job, claimant, archiving>>

-----------------------------------------------------------------------------
(* Cancellation *)

\* stopThreadRuns and cancelActiveRuns: only the status of active runs.
Stop ==
    /\ "stop" \in CancelPaths /\ status \in Active
    /\ status' = "cancelled"
    /\ UNCHANGED <<owner, fence, expired, ckpt, locals, world>>

\* clearThread: cancelRunsInTransaction also ends leases and attempts.
Clear ==
    /\ "clear" \in CancelPaths /\ status \in Active
    /\ Unlease("cancelled")
    /\ att' = [h \in Handler |-> IF att[h] = "running" THEN "closed" ELSE att[h]]
    /\ UNCHANGED <<ckpt, pc, seen, plan, token, world>>

\* archiveBot reads the active runs, and cancels them by id in a later statement.
ArchiveRead ==
    /\ "archive" \in CancelPaths /\ status \in Active /\ ~archiving
    /\ archiving' = TRUE
    /\ UNCHANGED <<row, locals, ctl, job, claimant, crashes>>

ArchiveWrite ==
    /\ archiving /\ archiving' = FALSE
    /\ status' = "cancelled"
    /\ UNCHANGED <<owner, fence, expired, ckpt, locals, ctl, job, claimant, crashes>>

-----------------------------------------------------------------------------
HandlerStep(h) ==
    \/ Deliver(h) \/ Claim(h) \/ ClaimLost(h) \/ Start(h) \/ StartLost(h)
    \/ Abandon(h) \/ Busy(h) \/ Acquire(h) \/ Renew(h) \/ SetupFails(h)
    \/ FinishSetup(h) \/ HeldCheck(h) \/ OpenModel(h) \/ NoticeLoss(h)
    \/ Abort(h) \/ NoticeRelease(h)
    \/ AskPause(h) \/ TakeoverPause(h) \/ Complete(h) \/ Fail(h)
    \/ RequeuePreserve(h) \/ RequeuePlanned(h) \/ RequeueRetried(h) \/ Finally(h)

Environment ==
    \/ Answer \/ TakeControl \/ DropRequest \/ (\E c \in Resume : ReleaseControl(c))
    \/ Nudge \/ Reconcile \/ Expire \/ (\E w \in Worker : Crash(w))
    \/ Stop \/ Clear \/ ArchiveRead \/ ArchiveWrite

Next == (\E h \in Handler : HandlerStep(h)) \/ Environment

Spec == Init /\ [][Next]_vars

\* The reconciler's timer fires again and again; a delivered job runs; a handler
\* that took a step of bookkeeping takes the next one.  Nothing is assumed of
\* users, of the model, or of leases timing out.
Fairness ==
    /\ WF_vars(Reconcile)
    /\ \A h \in Handler :
         /\ WF_vars(Deliver(h)) /\ WF_vars(Claim(h)) /\ WF_vars(ClaimLost(h))
         /\ WF_vars(Start(h) \/ StartLost(h)) /\ WF_vars(Finally(h))
         /\ WF_vars(NoticeLoss(h))
         /\ WF_vars(Acquire(h) \/ Busy(h))
         /\ WF_vars(FinishSetup(h)) /\ WF_vars(HeldCheck(h))
         /\ WF_vars(RequeuePreserve(h)) /\ WF_vars(RequeuePlanned(h))
         /\ WF_vars(RequeueRetried(h))

FairSpec == Spec /\ Fairness

-----------------------------------------------------------------------------
(* Properties *)

\* The columns and the handlers' variables hold values of their types.
TypeOK ==
    /\ status \in Status /\ owner \in Worker \cup {NoOwner}
    /\ fence \in 0..MaxFence /\ expired \in BOOLEAN /\ ckpt \in Checkpoint
    /\ ctl \in Screen /\ job \in BOOLEAN
    /\ pc \in [Handler -> PC]
    /\ seen \in [Handler -> [status : Active, ckpt : Checkpoint, fence : 0..MaxFence]]
    /\ plan \in [Handler -> [resume : Resume \cup {"none"}, held : BOOLEAN]]
    /\ token \in [Handler -> 0..MaxFence]
    /\ att \in [Handler -> {"none", "running", "closed"}]
    /\ claimant \in Handler \cup {NoOwner}
    /\ archiving \in BOOLEAN /\ crashes \in 0..MaxCrash

\* A leased or running row always names a process, and a queued, waiting,
\* completed or failed row never does: whatever path put the run there gave
\* the lease back (only a stopped run keeps the name of its last owner).
LeaseOwnership ==
    /\ status \in Leased => owner \in Worker
    /\ status \in {"queued", "completed", "failed"} \cup Waiting => owner = NoOwner

\* At most one handler may write through the fence at any time: a second
\* execution of the job, delivered twice or left over from a lease that was
\* reclaimed, matches no row.
OneWriter ==
    \A g, h \in Handler :
       /\ pc[g] \in {"open", "loop"} /\ HoldsLease(g)
       /\ pc[h] \in {"open", "loop"} /\ HoldsLease(h)
       => g = h

\* A handler changes the status of the run only when it won the last claim (or
\* wins it with this step): a pause, an outcome or a requeue of a handler
\* that lost the run to another one never lands.
OnlyClaimantWrites ==
    [][\A h \in Handler :
         pc'[h] # pc[h] /\ status' # status => h \in {claimant, claimant'}]_vars

\* The assertion of pauseRunForInput, pauseRunForTakeover and finalizeRun
\* ("Active run attempt was not available") never fires: while a handler in set-up
\* or in the model's turn matches the run row, its attempt is still running.
AttemptAvailable ==
    \A h \in Handler :
       pc[h] \in {"setup", "ready", "open", "loop"} /\ HoldsLease(h)
         => att[h] = "running"

\* A release ends the wait for good: once the user has released the screen held for
\* this run, no requeue of a handler that held the run puts it back to waiting, where
\* the next release would have to come without a request.  (That a run waits does
\* not mean that a release will name it: see DropRequest.)
ReleaseEndsTheWait == status = "waiting_takeover" => ctl # "none"

TakesRelease(h) ==
    \/ pc[h] = "read" /\ pc'[h] = "claimed" /\ plan'[h].resume = ckpt
    \/ pc[h] = "loop" /\ status' \in Waiting

\* The outcome of a release (login done, or skipped) is not lost: a stamped
\* checkpoint goes away only into the plan of the handler that claims the run, by
\* another release, or because the running turn pauses again by itself.
ReleaseReachesPlan ==
    [][ckpt' # ckpt /\ ckpt \in Resume =>
         ctl' # ctl \/ (\E h \in Handler : TakesRelease(h))]_vars

\* A finished run stays finished ("rejects rewriting a completed run"): late
\* handlers, stale jobs, answers, releases, stops and clears leave it alone.
TerminalStable == [][(status \in Terminal) => status' = status]_vars

\* The transition table of run-state.ts.
allowed ==
    [queued           |-> {"leased", "cancelled"},
     leased           |-> {"running", "queued", "cancelled"},
     running          |-> Waiting \cup Terminal \cup {"leased"},
     waiting_input    |-> {"queued", "leased", "cancelled"},
     waiting_takeover |-> {"queued", "leased", "cancelled"},
     completed        |-> {},
     failed           |-> {"queued"},
     cancelled        |-> {}]

\* Every status change is in the table, or is the requeue of a running run (the
\* table does not list it; writeComputerRunRequeue does it).
TransitionsKept ==
    [][status' # status =>
         status' \in allowed[status] \/ (status = "running" /\ status' = "queued")]_vars

\* Where an execution stands with the run, for what the run promises it.
Stage(label) ==
    IF label \in {"idle", "read", "finally"} THEN "out"
    ELSE IF label = "claimed" THEN "taken" ELSE "working"

\* Without its fence, owner and clock, what the row does is what a run promises:
\* only the execution that took the run last begins it, only the one that began
\* it pauses, requeues or ends it, whatever duplicate, late or reclaimed execution
\* runs beside it, and answers, releases, stops and clears leave what is over alone.
Life == INSTANCE RunLife WITH
    Execution <- Handler,
    NoOne     <- NoOwner,
    holder    <- IF status \in Leased THEN claimant ELSE NoOwner,
    at        <- [h \in Handler |-> Stage(pc[h])]

KeepsLife == Life!LifeSpec

\* A run that is due - queued, or leased by a handler that is gone - is taken up,
\* though enqueues get lost, handlers throw and processes die: the reconciler
\* brings its job back until it is claimed (or the handler turns out to be alive,
\* or the run is cancelled).
Due == status = "queued" \/ (status \in Leased /\ expired)
DueIsTakenUp == Due /\ fence < MaxFence ~> ~Due

=============================================================================
