-------------------------- MODULE RunLease_proofs --------------------------
(***************************************************************************)
(* Theorems about RunLease, for any handlers, processes and bounds.        *)
(*                                                                         *)
(* LeaseInv is inductive without any assumption on how handlers are spread *)
(* over processes.  FenceInv adds what holds when no two overlapping       *)
(* executions share a process: in one process two of them may claim with   *)
(* the same fence, since a claim writes the fence it has read plus one.    *)
(***************************************************************************)
EXTENDS RunLease, TLAPS

USE WorkerAssumption, NoOwnerAssumption, BoundAssumption

\* The plan of a handler that has read the row is the plan of what it read.
ReadPlan ==
    \A h \in Handler :
       pc[h] = "read" => plan[h] = takeoverContinuePlan(seen[h].status, seen[h].ckpt)

\* A handler that has read the row but not claimed it leaves room for its fence.
ReadBelowBound == \A h \in Handler : pc[h] = "read" => seen[h].fence < MaxFence

\* An attempt is missing or closed under a handler only when the run is cancelled.
AttemptInv ==
    \A h \in Handler :
       pc[h] \in {"setup", "ready", "open", "loop"} /\ att[h] # "running"
         => status = "cancelled"

LeaseInv == TypeOK /\ LeaseOwnership /\ ReadPlan /\ ReadBelowBound /\ AttemptInv

DistinctProcesses == \A g, h \in Handler : WorkerOf[g] = WorkerOf[h] => g = h

\* The lease of a leased or running row is the one of the last claimant.
ClaimantOwns == status \in Leased => claimant \in Handler /\ owner = WorkerOf[claimant]

\* A handler that continues a held run under its own lease: unless the release has
\* stamped a checkpoint on the row, no release has answered its request.
HeldInv ==
    \A h \in Handler :
       /\ pc[h] \notin {"idle", "read", "finally"} /\ plan[h].held
       /\ status \in Leased /\ owner = WorkerOf[h] /\ ckpt = "none"
       => ctl # "none"

FenceInv == LeaseInv /\ ClaimantOwns /\ HeldInv /\ ReleaseEndsTheWait

-----------------------------------------------------------------------------
(* LeaseInv *)

\* Initially every handler is idle and nothing is leased.
LEMMA InitLeaseInv == Init => LeaseInv
<1> SUFFICES ASSUME Init PROVE LeaseInv
  OBVIOUS
<1>1. TypeOK
  <2> USE DEF Status, Active, Terminal, Leased, Waiting, Checkpoint, Resume
  <2>1. NothingSeen \in [status : Active, ckpt : Checkpoint, fence : 0..MaxFence]
    BY DEF NothingSeen
  <2>2. NoPlan \in [resume : Resume \cup {"none"}, held : BOOLEAN]
    BY DEF NoPlan, takeoverContinuePlan, takeoverCheckpointOf
  <2>3. /\ status \in Status /\ owner \in Worker \cup {NoOwner}
        /\ fence \in 0..MaxFence /\ ckpt \in Checkpoint
        /\ ctl \in Screen
        /\ claimant \in Handler \cup {NoOwner} /\ crashes \in 0..MaxCrash
    BY DEF Init, Screen
  <2>5. expired \in BOOLEAN /\ job \in BOOLEAN /\ archiving \in BOOLEAN
    BY Zenon DEF Init
  <2>4. /\ pc \in [Handler -> PC]
        /\ seen \in [Handler -> [status : Active, ckpt : Checkpoint, fence : 0..MaxFence]]
        /\ plan \in [Handler -> [resume : Resume \cup {"none"}, held : BOOLEAN]]
        /\ token \in [Handler -> 0..MaxFence]
        /\ att \in [Handler -> {"none", "running", "closed"}]
    BY <2>1, <2>2 DEF Init, PC
  <2> QED
    BY <2>3, <2>4, <2>5, Zenon DEF TypeOK
<1>2. LeaseOwnership
  BY DEF Init, LeaseOwnership, Leased, Waiting
<1>3. ReadPlan /\ ReadBelowBound /\ AttemptInv
  BY DEF Init, ReadPlan, ReadBelowBound, AttemptInv
<1> QED
  BY <1>1, <1>2, <1>3 DEF LeaseInv

\* Giving the lease back keeps the types of the row.
LEMMA UnleaseType ==
    ASSUME TypeOK, NEW s \in Status, Unlease(s)
    PROVE  /\ status' \in Status /\ owner' \in Worker \cup {NoOwner}
           /\ fence' \in 0..MaxFence /\ expired' \in BOOLEAN
<1>1. expired' \in BOOLEAN
  BY Zenon DEF Unlease
<1>2. status' = s /\ owner' = NoOwner /\ fence' = fence
  BY Zenon DEF Unlease
<1> QED
  BY <1>1, <1>2, SMTT(60) DEF TypeOK

\* A commit keeps the types of all it writes itself.
LEMMA CommitType ==
    ASSUME TypeOK, NEW h \in Handler, NEW s \in Status, Commit(h, s),
           ckpt' \in Checkpoint, ctl' \in Screen, job' = job
    PROVE  TypeOK'
<1>1. Unlease(s) /\ UNCHANGED <<seen, plan, token, claimant, archiving, crashes>>
  BY DEF Commit
<1>2. /\ status' \in Status /\ owner' \in Worker \cup {NoOwner}
      /\ fence' \in 0..MaxFence /\ expired' \in BOOLEAN
  BY <1>1, UnleaseType
<1>3. pc' \in [Handler -> PC]
  BY SMTT(60) DEF TypeOK, Commit, Goto, PC
<1>4. att' \in [Handler -> {"none", "running", "closed"}]
  BY SMTT(60) DEF TypeOK, Commit
<1> QED
  BY <1>1, <1>2, <1>3, <1>4, SMTT(60) DEF TypeOK

\* A requeue that keeps the stamped checkpoint keeps the types of what it writes.
LEMMA PreserveType ==
    ASSUME TypeOK, NEW h \in Handler, NEW next \in PC, PreserveCheckpoint(h, next)
    PROVE  /\ status' \in Status /\ owner' \in Worker \cup {NoOwner}
           /\ fence' \in 0..MaxFence /\ ckpt' \in Checkpoint
           /\ pc' \in [Handler -> PC] /\ expired' \in BOOLEAN /\ job' \in BOOLEAN
<1>1. CASE HoldsLease(h) /\ ckpt \in Resume
  <2>1. Unlease("queued") /\ ckpt' = ckpt /\ Goto(h, "finally") /\ Enqueue
    BY <1>1, Zenon DEF PreserveCheckpoint
  <2>2. pc' \in [Handler -> PC]
    BY <2>1, SMTT(60) DEF TypeOK, Goto, PC
  <2>3. "queued" \in Status
    BY DEF Status, Active
  <2>4. /\ status' \in Status /\ owner' \in Worker \cup {NoOwner}
        /\ fence' \in 0..MaxFence /\ expired' \in BOOLEAN
    BY <2>1, <2>3, UnleaseType
  <2>5. job' \in BOOLEAN
    BY <2>1, Zenon DEF TypeOK, Enqueue
  <2>6. ckpt' \in Checkpoint
    BY <2>1, Zenon DEF TypeOK
  <2> QED
    BY <2>2, <2>4, <2>5, <2>6
<1>2. CASE ~(HoldsLease(h) /\ ckpt \in Resume)
  <2>1. Goto(h, next) /\ UNCHANGED <<row, job>>
    BY <1>2, Zenon DEF PreserveCheckpoint
  <2>2. pc' \in [Handler -> PC]
    BY <2>1, SMTT(60) DEF TypeOK, Goto
  <2>3. UNCHANGED <<status, owner, fence, expired, ckpt, job>>
    BY <2>1, SMTT(60) DEF row
  <2> QED
    BY <2>2, <2>3, SMTT(60) DEF TypeOK
<1> QED
  BY <1>1, <1>2

\* A planned requeue keeps them too.
LEMMA PlannedType ==
    ASSUME TypeOK, NEW h \in Handler, RequeuePlanned(h)
    PROVE  TypeOK'
<1>1. UNCHANGED <<seen, plan, token, att, ctl, claimant, archiving, crashes>>
  BY DEF RequeuePlanned
<1>2. CASE HoldsLease(h) /\ ckpt = "none"
  <2>1. /\ Unlease(IF plan[h].held /\ plan[h].resume = "none"
                   THEN "waiting_takeover" ELSE "queued")
        /\ ckpt' = plan[h].resume /\ Goto(h, "finally") /\ Enqueue
    BY <1>2, Zenon DEF RequeuePlanned
  <2>2. pc' \in [Handler -> PC]
    BY <2>1, SMTT(60) DEF TypeOK, Goto, PC
  <2>3. status' \in {"waiting_takeover", "queued"} /\ owner' = NoOwner /\ fence' = fence
    BY <2>1, SMTT(60) DEF Unlease
  <2>4. expired' \in BOOLEAN
    BY <2>1, Zenon DEF Unlease
  <2>5. job' \in BOOLEAN
    BY <2>1, Zenon DEF TypeOK, Enqueue
  <2>6. ckpt' \in Resume \cup {"none"}
    BY <2>1, SMTT(60) DEF TypeOK
  <2> QED
    BY <1>1, <2>2, <2>3, <2>4, <2>5, <2>6, SMTT(60)
       DEF TypeOK, Status, Active, Waiting, Checkpoint
<1>3. CASE ~(HoldsLease(h) /\ ckpt = "none")
  <2>1. Goto(h, "retried") /\ UNCHANGED <<row, job>>
    BY <1>3, Zenon DEF RequeuePlanned
  <2>2. pc' \in [Handler -> PC]
    BY <2>1, SMTT(60) DEF TypeOK, Goto, PC
  <2> QED
    BY <1>1, <2>1, <2>2, SMTT(60) DEF TypeOK, row
<1> QED
  BY <1>2, <1>3

\* Every step keeps the types; only a claim advances the fence.
LEMMA TypeStep == TypeOK /\ ReadBelowBound /\ [Next]_vars => TypeOK'
<1> USE DEF TypeOK, PC, takeoverContinuePlan, takeoverCheckpointOf, Status, Active,
            Terminal, Leased, Waiting, Checkpoint, Resume
<1> SUFFICES ASSUME TypeOK, ReadBelowBound, [Next]_vars PROVE TypeOK'
  OBVIOUS
<1>1. ASSUME NEW h \in Handler, HandlerStep(h) PROVE TypeOK'
  <2>1. CASE Deliver(h)
    <3>1. CASE status \in Terminal
      BY <2>1, <3>1 DEF Deliver, row
    <3>2. CASE status \notin Terminal
      <4>1. [status |-> status, ckpt |-> ckpt, fence |-> fence]
              \in [status : Active, ckpt : Checkpoint, fence : 0..MaxFence]
        BY <3>2
      <4>2. takeoverContinuePlan(status, ckpt)
              \in [resume : Resume \cup {"none"}, held : BOOLEAN]
        OBVIOUS
      <4>3. pc' \in [Handler -> PC] /\ seen' = [seen EXCEPT ![h] =
              [status |-> status, ckpt |-> ckpt, fence |-> fence]]
        BY <2>1, <3>2 DEF Deliver, Goto
      <4>4. plan' = [plan EXCEPT ![h] = takeoverContinuePlan(status, ckpt)]
        BY <2>1, <3>2, Zenon DEF Deliver
      <4>5. plan' \in [Handler -> [resume : Resume \cup {"none"}, held : BOOLEAN]]
        BY <4>2, <4>4
      <4>6. seen' \in [Handler -> [status : Active, ckpt : Checkpoint, fence : 0..MaxFence]]
        BY <4>1, <4>3
      <4>7. job' \in BOOLEAN
        BY <2>1, Zenon DEF Deliver
      <4>8. UNCHANGED <<row, token, att, ctl, claimant, archiving, crashes>>
        BY <2>1 DEF Deliver
      <4> QED
        BY <4>3, <4>5, <4>6, <4>7, <4>8 DEF row
    <3> QED
      BY <3>1, <3>2
  <2>2. CASE Claim(h)
    <3>1. NothingSeen \in [status : Active, ckpt : Checkpoint, fence : 0..MaxFence]
      BY DEF NothingSeen
    <3>2. nextFence(seen[h].fence) \in 0..MaxFence
      BY <2>2 DEF Claim, nextFence, ReadBelowBound
    <3> QED
      BY <2>2, <3>1, <3>2 DEF Claim, Goto
  <2>3. CASE ClaimLost(h)
    BY <2>3 DEF ClaimLost, Forget, NothingSeen, NoPlan, row, world
  <2>4. CASE Start(h)
    BY <2>4 DEF Start, Goto, world
  <2>5. CASE StartLost(h)
    BY <2>5 DEF StartLost, Forget, NothingSeen, NoPlan, row, world
  <2>6. CASE Abandon(h)
    BY <2>6, SMTT(60) DEF Abandon, Forget, Enqueue, NothingSeen, NoPlan, row
  <2>7. CASE Busy(h)
    BY <2>7 DEF Busy, Goto, row, world
  <2>8. CASE Acquire(h)
    BY <2>8 DEF Acquire, Goto, row, world
  <2>9. CASE Renew(h)
    BY <2>9 DEF Renew, locals, world
  <2>10. CASE SetupFails(h)
    BY <2>10 DEF SetupFails, Goto, row, world
  <2>11. CASE FinishSetup(h)
    BY <2>11 DEF FinishSetup, Goto, row, world
  <2>12. CASE HeldCheck(h)
    <3>1. CASE plan[h].held /\ ckpt \in Resume
      <4>1. RequeueReleased(h)
        BY <2>12, <3>1 DEF HeldCheck
      <4> QED
        BY <3>1, <4>1 DEF RequeueReleased, Goto, row, world
    <3>2. CASE ~(plan[h].held /\ ckpt \in Resume)
      <4>1. Goto(h, "open") /\ UNCHANGED <<row, seen, plan, token, att, world>>
        BY <2>12, <3>2, Zenon DEF HeldCheck
      <4> QED
        BY <4>1, SMTT(60) DEF Goto, row, world
    <3> QED
      BY <3>1, <3>2
  <2>13. CASE OpenModel(h)
    BY <2>13 DEF OpenModel, Goto, row, world
  <2>14. CASE NoticeLoss(h)
    BY <2>14 DEF NoticeLoss, Goto, row, world
  <2>15. CASE Abort(h)
    BY <2>15 DEF Abort, Goto, row, world
  <2>16. CASE NoticeRelease(h)
    BY <2>16 DEF NoticeRelease, RequeueReleased, Goto, row, world
  <2>17. CASE AskPause(h)
    <3>1. /\ Commit(h, "waiting_input") /\ ckpt' \in Checkpoint
          /\ ctl' \in Screen /\ job' = job
      BY <2>17, SMTT(60) DEF AskPause
    <3> QED
      BY <3>1, CommitType
  <2>18. CASE TakeoverPause(h)
    <3>1. /\ Commit(h, "waiting_takeover") /\ ckpt' \in Checkpoint
          /\ ctl' \in Screen /\ job' = job
      BY <2>18, SMTT(60) DEF TakeoverPause, Screen
    <3> QED
      BY <3>1, CommitType
  <2>19. CASE Complete(h)
    <3>1. /\ Commit(h, "completed") /\ ckpt' \in Checkpoint
          /\ ctl' \in Screen /\ job' = job
      BY <2>19, SMTT(60) DEF Complete
    <3> QED
      BY <3>1, CommitType
  <2>20. CASE Fail(h)
    <3>1. /\ Commit(h, "failed") /\ ckpt' \in Checkpoint
          /\ ctl' \in Screen /\ job' = job
      BY <2>20, SMTT(60) DEF Fail
    <3> QED
      BY <3>1, CommitType
  <2>21. CASE RequeuePreserve(h)
    <3>1. /\ PreserveCheckpoint(h, "planned")
          /\ UNCHANGED <<seen, plan, token, att, ctl, claimant, archiving, crashes>>
      BY <2>21 DEF RequeuePreserve
    <3> HIDE DEF TypeOK, PC
    <3>2. "planned" \in PC
      BY DEF PC
    <3> QED
      BY <3>1, <3>2, PreserveType, SMTT(60) DEF TypeOK
  <2>22. CASE RequeuePlanned(h)
    BY <2>22, PlannedType
  <2>23. CASE RequeueRetried(h)
    <3>1. /\ PreserveCheckpoint(h, "finally")
          /\ UNCHANGED <<seen, plan, token, att, ctl, claimant, archiving, crashes>>
      BY <2>23 DEF RequeueRetried
    <3> HIDE DEF TypeOK, PC
    <3>2. "finally" \in PC
      BY DEF PC
    <3> QED
      BY <3>1, <3>2, PreserveType, SMTT(60) DEF TypeOK
  <2>24. CASE Finally(h)
    BY <2>24, SMTT(60) DEF Finally, Forget, NothingSeen, NoPlan, row, world
  <2> QED
    BY <1>1, <2>1, <2>2, <2>3, <2>4, <2>5, <2>6, <2>7, <2>8, <2>9, <2>10, <2>11, <2>12, <2>13, <2>14, <2>15, <2>16, <2>17, <2>18, <2>19, <2>20, <2>21, <2>22, <2>23, <2>24 DEF HandlerStep
<1>2. CASE Environment
  <2>1. CASE Answer
    BY <2>1 DEF Answer, Enqueue, locals
  <2>2. CASE TakeControl \/ DropRequest
    BY <2>2 DEF TakeControl, DropRequest, Screen, row, locals
  <2>3. CASE \E c \in Resume : ReleaseControl(c)
    BY <2>3 DEF ReleaseControl, Screen, Enqueue, locals
  <2>4. CASE Nudge
    BY <2>4 DEF Nudge, row, locals
  <2>5. CASE Reconcile
    BY <2>5 DEF Reconcile, row, locals
  <2>6. CASE Expire
    BY <2>6 DEF Expire, locals, world
  <2>7. CASE \E w \in Worker : Crash(w)
    BY <2>7, SMTT(60) DEF Crash, Forget, NothingSeen, NoPlan, row
  <2>8. CASE Stop
    BY <2>8 DEF Stop, locals, world
  <2>9. CASE Clear
    <3>1. Unlease("cancelled") /\ UNCHANGED <<ckpt, pc, seen, plan, token, world>>
      BY <2>9, Zenon DEF Clear
    <3>2. att' = [h \in Handler |-> IF att[h] = "running" THEN "closed" ELSE att[h]]
      BY <2>9, Zenon DEF Clear
    <3>3. att' \in [Handler -> {"none", "running", "closed"}]
      BY <3>2, SMTT(60)
    <3>4. /\ status' \in Status /\ owner' \in Worker \cup {NoOwner}
          /\ fence' \in 0..MaxFence /\ expired' \in BOOLEAN
      BY <3>1, UnleaseType
    <3> QED
      BY <3>1, <3>3, <3>4, SMTT(60) DEF world
  <2>10. CASE ArchiveRead
    BY <2>10 DEF ArchiveRead, row, locals
  <2>11. CASE ArchiveWrite
    BY <2>11 DEF ArchiveWrite, locals
  <2> QED
    BY <1>2, <2>1, <2>2, <2>3, <2>4, <2>5, <2>6, <2>7, <2>8, <2>9, <2>10, <2>11 DEF Environment
<1>3. CASE UNCHANGED vars
  BY <1>3 DEF vars, row, locals, world
<1> QED
  BY <1>1, <1>2, <1>3 DEF Next

\* A handler's step either leaves the run's status and owner alone, or is one of
\* the claim, the start, the four commits and the three requeues.
QuietStep(h) ==
    \/ Deliver(h) \/ ClaimLost(h) \/ StartLost(h) \/ Abandon(h) \/ Busy(h)
    \/ Acquire(h) \/ Renew(h) \/ SetupFails(h) \/ FinishSetup(h) \/ HeldCheck(h)
    \/ OpenModel(h) \/ NoticeLoss(h) \/ Abort(h) \/ NoticeRelease(h) \/ Finally(h)

CommitStep(h) == AskPause(h) \/ TakeoverPause(h) \/ Complete(h) \/ Fail(h)

RequeueStep(h) == RequeuePreserve(h) \/ RequeuePlanned(h) \/ RequeueRetried(h)

\* The steps of a handler: those that read or claim the row, and the three kinds of
\* steps whose effect on the row the next lemmas state.
LEMMA HandlerCases ==
    ASSUME NEW h \in Handler, HandlerStep(h)
    PROVE  QuietStep(h) \/ Claim(h) \/ Start(h) \/ CommitStep(h) \/ RequeueStep(h)
  BY Zenon DEF HandlerStep, QuietStep, CommitStep, RequeueStep

\* A quiet step touches of the row at most the expiry, and neither the user's
\* control nor the last claimant.
LEMMA QuietRow ==
    ASSUME NEW h \in Handler, QuietStep(h)
    PROVE  UNCHANGED <<status, owner, fence, ckpt, ctl, claimant, archiving>>
  BY DEF QuietStep, Deliver, ClaimLost, StartLost, Abandon, Busy, Acquire, Renew,
         SetupFails, FinishSetup, HeldCheck, OpenModel, NoticeLoss, Abort,
         NoticeRelease, RequeueReleased, Finally, row, world

\* A commit gives the lease of a running row back.
LEMMA CommitRow ==
    ASSUME NEW h \in Handler, CommitStep(h)
    PROVE  /\ HoldsLease(h) /\ owner' = NoOwner /\ claimant' = claimant
           /\ status' \in Waiting \cup {"completed", "failed"}
           /\ status' = "waiting_takeover" => ctl' # "none"
           /\ pc[h] \in {"setup", "loop"} /\ pc' = [pc EXCEPT ![h] = "finally"]
           /\ UNCHANGED <<seen, plan, fence, archiving>>
  BY DEF CommitStep, AskPause, TakeoverPause, Complete, Fail, Commit, Unlease,
         Goto, Waiting

\* A requeue gives the lease of a running row back, or leaves the row alone.
LEMMA RequeueRow ==
    ASSUME NEW h \in Handler, RequeueStep(h)
    PROVE  /\ UNCHANGED <<seen, plan, token, att, ctl, claimant, archiving>>
           /\ pc[h] \in {"requeue", "planned", "retried"}
           /\ \E label \in {"planned", "retried", "finally"} :
                 pc' = [pc EXCEPT ![h] = label]
           /\ \/ UNCHANGED <<status, owner, fence, ckpt>>
              \/ /\ HoldsLease(h) /\ owner' = NoOwner /\ fence' = fence
                 /\ status' \in {"queued", "waiting_takeover"}
                 /\ status' = "waiting_takeover" => plan[h].held /\ ckpt = "none"
                 /\ ckpt' = ckpt \/ ckpt = "none"
  BY DEF RequeueStep, RequeuePreserve, RequeuePlanned, RequeueRetried,
         PreserveCheckpoint, Unlease, Goto, row

\* An execution that ends leaves the variables of the others alone.
LEMMA ForgetOthers ==
    ASSUME NEW H, Forget(H)
    PROVE  \A g \in Handler :
              \/ pc'[g] = "idle" /\ plan'[g] = NoPlan
              \/ /\ pc'[g] = pc[g] /\ seen'[g] = seen[g] /\ plan'[g] = plan[g]
                 /\ att'[g] = att[g]
  BY DEF Forget

-----------------------------------------------------------------------------
\* Whatever gives a run a status outside {leased, running} gives the lease back.
LEMMA OwnershipStep == LeaseOwnership /\ TypeOK /\ [Next]_vars => LeaseOwnership'
<1> USE DEF LeaseOwnership, Leased, Waiting
<1> SUFFICES ASSUME LeaseOwnership, TypeOK, [Next]_vars PROVE LeaseOwnership'
  OBVIOUS
<1>1. ASSUME NEW h \in Handler, HandlerStep(h) PROVE LeaseOwnership'
  <2>1. CASE QuietStep(h)
    BY <2>1, QuietRow
  <2>2. CASE Claim(h)
    BY <2>2 DEF Claim
  <2>3. CASE Start(h)
    BY <2>3 DEF Start, CanStart
  <2>4. CASE CommitStep(h)
    BY <2>4, CommitRow
  <2>5. CASE RequeueStep(h)
    BY <2>5, RequeueRow
  <2> QED
    BY <1>1, HandlerCases, <2>1, <2>2, <2>3, <2>4, <2>5
<1>2. CASE Environment
  BY <1>2 DEF Environment, Answer, TakeControl, DropRequest, ReleaseControl, Nudge, Reconcile,
     Expire, Crash, Stop, Clear, ArchiveRead, ArchiveWrite, Unlease, row
<1>3. CASE UNCHANGED vars
  BY <1>3 DEF vars, row
<1> QED
  BY <1>1, <1>2, <1>3 DEF Next

\* A handler between its read and its claim: its plan and the room for its fence.
LEMMA ReadStep ==
    TypeOK /\ ReadPlan /\ ReadBelowBound /\ [Next]_vars
      => (ReadPlan /\ ReadBelowBound)'
<1> USE DEF ReadPlan, ReadBelowBound, TypeOK
<1> SUFFICES ASSUME TypeOK, ReadPlan, ReadBelowBound, [Next]_vars
             PROVE  (ReadPlan /\ ReadBelowBound)'
  OBVIOUS
<1>1. ASSUME NEW h \in Handler, HandlerStep(h) PROVE (ReadPlan /\ ReadBelowBound)'
  <2>1. CASE Deliver(h)
    <3>1. CASE status \in Terminal
      BY <2>1, <3>1 DEF Deliver
    <3>2. CASE status \notin Terminal
      <4>1. /\ fence < MaxFence
            /\ pc' = [pc EXCEPT ![h] = "read"]
            /\ seen' = [seen EXCEPT ![h] =
                          [status |-> status, ckpt |-> ckpt, fence |-> fence]]
            /\ plan' = [plan EXCEPT ![h] = takeoverContinuePlan(status, ckpt)]
        BY <2>1, <3>2, Zenon DEF Deliver, Goto
      <4> QED
        BY <4>1
    <3> QED
      BY <3>1, <3>2
  <2>2. CASE Claim(h) \/ Start(h) \/ Busy(h) \/ Acquire(h) \/ Renew(h)
             \/ SetupFails(h) \/ FinishSetup(h) \/ OpenModel(h)
             \/ NoticeLoss(h) \/ Abort(h)
    BY <2>2 DEF Claim, Start, Busy, Acquire, Renew, SetupFails, FinishSetup,
       OpenModel, NoticeLoss, Abort, Goto, locals
  <2>3. CASE ClaimLost(h) \/ StartLost(h) \/ Abandon(h) \/ Finally(h)
    <3>1. Forget({h})
      BY <2>3 DEF ClaimLost, StartLost, Abandon, Finally
    <3> QED
      BY <3>1, ForgetOthers
  <2>4. CASE HeldCheck(h) \/ NoticeRelease(h)
    BY <2>4 DEF HeldCheck, NoticeRelease, RequeueReleased, Goto
  <2>5. CASE CommitStep(h)
    BY <2>5, CommitRow
  <2>6. CASE RequeueStep(h)
    BY <2>6, RequeueRow
  <2> QED
    BY <1>1, <2>1, <2>2, <2>3, <2>4, <2>5, <2>6
       DEF HandlerStep, CommitStep, RequeueStep
<1>2. CASE Environment
  <2>1. CASE \E w \in Worker : Crash(w)
    BY <2>1, ForgetOthers DEF Crash
  <2>2. CASE ~ \E w \in Worker : Crash(w)
    BY <1>2, <2>2 DEF Environment, Answer, TakeControl, DropRequest, ReleaseControl, Nudge,
       Reconcile, Expire, Stop, Clear, ArchiveRead, ArchiveWrite, locals
  <2> QED
    BY <2>1, <2>2
<1>3. CASE UNCHANGED vars
  BY <1>3 DEF vars, locals
<1> QED
  BY <1>1, <1>2, <1>3 DEF Next

\* An attempt is closed under its handler only by clearing the thread, which
\* cancels the run in the same transaction, and cancelled runs stay cancelled.
LEMMA AttemptStep == TypeOK /\ AttemptInv /\ [Next]_vars => AttemptInv'
<1> USE DEF AttemptInv, TypeOK
<1> SUFFICES ASSUME TypeOK, AttemptInv, [Next]_vars PROVE AttemptInv'
  OBVIOUS
<1>1. ASSUME NEW h \in Handler, HandlerStep(h) PROVE AttemptInv'
  <2>1. CASE Claim(h) \/ Start(h)
    BY <2>1 DEF Claim, Claimable, Start, CanStart, Goto, Leased, Waiting
  <2>2. CASE Acquire(h)
    BY <2>2 DEF Acquire, Goto, row
  <2>3. CASE Deliver(h) \/ Busy(h) \/ Renew(h) \/ SetupFails(h) \/ FinishSetup(h)
             \/ OpenModel(h) \/ NoticeLoss(h) \/ Abort(h)
    BY <2>3 DEF Deliver, Busy, Renew, SetupFails, FinishSetup, OpenModel,
       NoticeLoss, Abort, Goto, row, locals
  <2>4. CASE HeldCheck(h) \/ NoticeRelease(h)
    BY <2>4 DEF HeldCheck, NoticeRelease, RequeueReleased, Goto, row
  <2>5. CASE ClaimLost(h) \/ StartLost(h) \/ Abandon(h) \/ Finally(h)
    <3>1. Forget({h}) /\ status' = status
      BY <2>5 DEF ClaimLost, StartLost, Abandon, Finally, row
    <3> QED
      BY <3>1, ForgetOthers
  <2>6. CASE CommitStep(h)
    <3>1. \A g \in Handler : g # h => att'[g] = att[g] /\ pc'[g] = pc[g]
      BY <2>6 DEF CommitStep, AskPause, TakeoverPause, Complete, Fail, Commit, Goto
    <3> QED
      BY <2>6, <3>1, CommitRow DEF HoldsLease
  <2>7. CASE RequeueStep(h)
    BY <2>7, RequeueRow DEF HoldsLease
  <2> QED
    BY <1>1, <2>1, <2>2, <2>3, <2>4, <2>5, <2>6, <2>7
       DEF HandlerStep, CommitStep, RequeueStep
<1>2. CASE Environment
  <2>1. CASE \E w \in Worker : Crash(w)
    BY <2>1, ForgetOthers DEF Crash, row
  <2>2. CASE Clear
    BY <2>2 DEF Clear, Unlease
  <2>3. CASE ~ ((\E w \in Worker : Crash(w)) \/ Clear)
    BY <1>2, <2>3 DEF Environment, Answer, TakeControl, DropRequest, ReleaseControl, Nudge,
       Reconcile, Expire, Stop, ArchiveRead, ArchiveWrite, locals, row
  <2> QED
    BY <2>1, <2>2, <2>3
<1>3. CASE UNCHANGED vars
  BY <1>3 DEF vars, row, locals
<1> QED
  BY <1>1, <1>2, <1>3 DEF Next

\* LeaseInv is inductive.
LEMMA LeaseInvStep == LeaseInv /\ [Next]_vars => LeaseInv'
  BY TypeStep, OwnershipStep, ReadStep, AttemptStep DEF LeaseInv

\* LeaseInv holds in every reachable state.
THEOREM LeaseInvariant == Spec => []LeaseInv
  BY InitLeaseInv, LeaseInvStep, PTL DEF Spec

\* The types of the columns and of the handlers' variables.
THEOREM TypeCorrect == Spec => []TypeOK
  BY LeaseInvariant, PTL DEF LeaseInv

\* Every path to a status outside {leased, running} gives the lease back.
THEOREM LeaseOwnershipHolds == Spec => []LeaseOwnership
  BY LeaseInvariant, PTL DEF LeaseInv

\* The assertion on the attempt in every fenced commit never fires.
THEOREM AttemptAvailableHolds == Spec => []AttemptAvailable
<1>1. LeaseInv => AttemptAvailable
  BY DEF LeaseInv, AttemptInv, AttemptAvailable, HoldsLease
<1> QED
  BY <1>1, LeaseInvariant, PTL

-----------------------------------------------------------------------------
(* Action properties that need no assumption on the processes *)

\* A stamped release is dropped only into the plan of the handler that claims.
THEOREM ReleaseReachesPlanHolds == Spec => ReleaseReachesPlan
<1> DEFINE Kept == ckpt' # ckpt /\ ckpt \in Resume =>
                     ctl' # ctl \/ (\E h \in Handler : TakesRelease(h))
<1>1. LeaseInv /\ [Next]_vars => [Kept]_vars
  <2> SUFFICES ASSUME LeaseInv, Next, ckpt' # ckpt, ckpt \in Resume
               PROVE  ctl' # ctl \/ (\E h \in Handler : TakesRelease(h))
    BY DEF vars
  <2>1. ASSUME NEW h \in Handler, HandlerStep(h) PROVE TakesRelease(h)
    <3>1. CASE QuietStep(h)
      BY <3>1, <2>1, QuietRow
    <3>2. CASE Claim(h)
      <4>1. plan'[h].resume = takeoverCheckpointOf(ckpt)
        <5>1. plan'[h] = takeoverContinuePlan(seen[h].status, seen[h].ckpt)
          BY <3>2 DEF Claim, LeaseInv, ReadPlan
        <5>2. seen[h].ckpt = ckpt
          BY <3>2 DEF Claim, Claimable
        <5> QED
          BY <5>1, <5>2 DEF takeoverContinuePlan
      <4>2. pc[h] = "read" /\ pc'[h] = "claimed"
        BY <3>2 DEF Claim, Goto, LeaseInv, TypeOK
      <4> QED
        BY <4>1, <4>2 DEF TakesRelease, takeoverCheckpointOf
    <3>3. CASE Start(h)
      BY <3>3 DEF Start
    <3>4. CASE CommitStep(h)
      BY <3>4 DEF CommitStep, AskPause, TakeoverPause, Complete, Fail, Commit,
         Unlease, Waiting, TakesRelease
    <3>5. CASE RequeueStep(h)
      BY <3>5, RequeueRow DEF Resume
    <3> QED
      BY <2>1, HandlerCases, <3>1, <3>2, <3>3, <3>4, <3>5
  <2>2. CASE Environment
    BY <2>2 DEF Environment, Answer, TakeControl, DropRequest, ReleaseControl, Nudge, Reconcile,
       Expire, Crash, Stop, Clear, ArchiveRead, ArchiveWrite, Resume, row
  <2> QED
    BY <2>1, <2>2 DEF Next
<1> QED
  BY <1>1, LeaseInvariant, PTL DEF Spec, ReleaseReachesPlan

\* Without the archive path no archive is ever between its two statements.
LEMMA NoArchive == "archive" \notin CancelPaths => (Spec => [](archiving = FALSE))
<1> SUFFICES ASSUME "archive" \notin CancelPaths
             PROVE  Spec => [](archiving = FALSE)
  OBVIOUS
<1> DEFINE Calm == archiving = FALSE
<1>1. Init => Calm
  BY DEF Init
<1>2. Calm /\ [Next]_vars => Calm'
  <2> SUFFICES ASSUME Calm, Next PROVE Calm'
    BY DEF vars, world
  <2>1. ASSUME NEW h \in Handler, HandlerStep(h) PROVE Calm'
    BY <2>1, HandlerCases, QuietRow, CommitRow, RequeueRow DEF Claim, Start, world
  <2>2. CASE Environment
    BY <2>2 DEF Environment, Answer, TakeControl, DropRequest, ReleaseControl, Nudge, Reconcile,
       Expire, Crash, Stop, Clear, ArchiveRead, ArchiveWrite, world
  <2> QED
    BY <2>1, <2>2 DEF Next
<1> QED
  BY <1>1, <1>2, PTL DEF Spec

\* Only the transitions of the table, and the requeue of a running run.
THEOREM TransitionsHold == "archive" \notin CancelPaths => (Spec => TransitionsKept)
<1> SUFFICES ASSUME "archive" \notin CancelPaths PROVE Spec => TransitionsKept
  OBVIOUS
<1> DEFINE Kept == status' # status =>
      status' \in allowed[status] \/ (status = "running" /\ status' = "queued")
           Calm == archiving = FALSE
<1>1. LeaseInv /\ Calm /\ [Next]_vars => [Kept]_vars
  <2> USE DEF allowed, Leased, Waiting, Terminal, Active, Status
  <2> SUFFICES ASSUME LeaseInv, Calm, Next, status' # status
               PROVE  status' \in allowed[status]
                        \/ (status = "running" /\ status' = "queued")
    BY DEF vars
  <2>1. ASSUME NEW h \in Handler, HandlerStep(h)
        PROVE  status' \in allowed[status]
                 \/ (status = "running" /\ status' = "queued")
    <3>1. CASE Claim(h)
      BY <3>1 DEF Claim, Claimable
    <3>2. CASE Start(h)
      BY <3>2 DEF Start, CanStart
    <3>3. CASE CommitStep(h) \/ RequeueStep(h)
      BY <3>3, CommitRow, RequeueRow DEF HoldsLease
    <3> QED
      BY <2>1, HandlerCases, QuietRow, <3>1, <3>2, <3>3
  <2>2. CASE Answer \/ (\E c \in Resume : ReleaseControl(c))
    BY <2>2 DEF Answer, ReleaseControl
  <2>3. CASE Stop \/ Clear
    BY <2>3 DEF Stop, Clear, Unlease
  <2>4. CASE ArchiveWrite
    BY <2>4 DEF ArchiveWrite
  <2>5. CASE Environment /\ ~(Answer \/ (\E c \in Resume : ReleaseControl(c))
                              \/ Stop \/ Clear \/ ArchiveWrite)
    BY <2>5 DEF Environment, TakeControl, DropRequest, Nudge, Reconcile, Expire, Crash,
       ArchiveRead, row
  <2> QED
    BY <2>1, <2>2, <2>3, <2>4, <2>5 DEF Next
<1> QED
  BY <1>1, LeaseInvariant, NoArchive, PTL DEF Spec, TransitionsKept

\* Without the two-step archive, a finished run stays finished.
THEOREM TerminalStableHolds == "archive" \notin CancelPaths => (Spec => TerminalStable)
<1> SUFFICES ASSUME "archive" \notin CancelPaths PROVE Spec => TerminalStable
  OBVIOUS
<1> DEFINE Legal == status' # status =>
      status' \in allowed[status] \/ (status = "running" /\ status' = "queued")
           FromFailed == ~(status = "failed" /\ status' = "queued")
           Stable == (status \in Terminal) => status' = status
<1>1. [Next]_vars => [FromFailed]_vars
  <2> SUFFICES ASSUME Next, status = "failed", status' = "queued" PROVE FALSE
    BY DEF vars
  <2>1. ASSUME NEW h \in Handler, HandlerStep(h) PROVE FALSE
    BY <2>1, HandlerCases, QuietRow, CommitRow, RequeueRow
       DEF Claim, Start, HoldsLease
  <2>2. CASE Environment
    BY <2>2 DEF Environment, Answer, TakeControl, DropRequest, ReleaseControl, Nudge, Reconcile,
       Expire, Crash, Stop, Clear, ArchiveRead, ArchiveWrite, Unlease, row
  <2> QED
    BY <2>1, <2>2 DEF Next
<1>2. [Legal]_vars /\ [FromFailed]_vars => [Stable]_vars
  BY DEF allowed, Terminal, Waiting, vars, row
<1>3. Spec => [][Legal]_vars
  BY TransitionsHold DEF TransitionsKept
<1> QED
  BY <1>1, <1>2, <1>3, PTL DEF Spec, TerminalStable

-----------------------------------------------------------------------------
(* FenceInv: no two overlapping executions of the job share a process *)

\* The handler that holds the lease, leased or running, is the last claimant.
LEMMA OwnerIsClaimant ==
    ASSUME DistinctProcesses, ClaimantOwns, status \in Leased,
           NEW h \in Handler, owner = WorkerOf[h]
    PROVE  h = claimant
  BY DEF DistinctProcesses, ClaimantOwns

\* Every claim makes its handler the claimant, and no other step leases the row.
LEMMA ClaimantStep == TypeOK /\ ClaimantOwns /\ [Next]_vars => ClaimantOwns'
<1> USE DEF ClaimantOwns, Leased, Waiting
<1> SUFFICES ASSUME TypeOK, ClaimantOwns, [Next]_vars PROVE ClaimantOwns'
  OBVIOUS
<1>1. ASSUME NEW h \in Handler, HandlerStep(h) PROVE ClaimantOwns'
  <2>1. CASE Claim(h)
    BY <2>1 DEF Claim
  <2>2. CASE Start(h)
    BY <2>2 DEF Start, CanStart, world
  <2> QED
    BY <1>1, HandlerCases, QuietRow, CommitRow, RequeueRow, <2>1, <2>2
<1>2. CASE Environment
  BY <1>2 DEF Environment, Answer, TakeControl, DropRequest, ReleaseControl, Nudge, Reconcile,
     Expire, Crash, Stop, Clear, ArchiveRead, ArchiveWrite, Unlease, row, world
<1>3. CASE UNCHANGED vars
  BY <1>3 DEF vars, row, world
<1> QED
  BY <1>1, <1>2, <1>3 DEF Next

\* A held handler under its own lease, and a waiting run, have an unanswered request:
\* a release either resumes the run or stamps a checkpoint, and a requeue writes
\* waiting_takeover only while no checkpoint is stamped.
LEMMA HeldStep ==
    ASSUME DistinctProcesses, LeaseInv, ClaimantOwns, HeldInv, ReleaseEndsTheWait,
           [Next]_vars
    PROVE  (HeldInv /\ ReleaseEndsTheWait)'
<1> USE DEF Leased, Waiting, ReleaseEndsTheWait
<1>0. TypeOK
  BY DEF LeaseInv
<1>1. ASSUME NEW h \in Handler, HandlerStep(h)
      PROVE  (HeldInv /\ ReleaseEndsTheWait)'
  <2>1. CASE Claim(h)
    <3>1. plan' = plan /\ plan[h] = takeoverContinuePlan(status, ckpt)
      BY <2>1 DEF Claim, Claimable, LeaseInv, ReadPlan
    <3>2. plan[h].held => status = "waiting_takeover"
      <4>1. ASSUME status # "waiting_takeover"
            PROVE  takeoverContinuePlan(status, ckpt).held = FALSE
        BY <4>1, Zenon DEF takeoverContinuePlan
      <4> QED
        BY <3>1, <4>1
    <3>3. ASSUME NEW g \in Handler, owner' = WorkerOf[g] PROVE g = h
      BY <2>1, <3>3 DEF Claim, DistinctProcesses
    <3> QED
      BY <2>1, <3>1, <3>2, <3>3 DEF Claim, HeldInv
  <2>2. CASE Start(h)
    BY <1>0, <2>2 DEF Start, CanStart, Goto, HeldInv, TypeOK, world
  <2>3. CASE Deliver(h)
    BY <1>0, <2>3 DEF Deliver, Goto, HeldInv, TypeOK, row
  <2>4. CASE Busy(h) \/ Acquire(h) \/ Renew(h) \/ SetupFails(h) \/ OpenModel(h)
             \/ NoticeLoss(h) \/ Abort(h)
    BY <1>0, <2>4 DEF Busy, Acquire, Renew, SetupFails, OpenModel, NoticeLoss,
       Abort, Goto, HeldInv, TypeOK, row, world, locals
  <2>5. CASE FinishSetup(h)
    <3>1. \A g \in Handler : plan'[g].held => plan[g].held
      BY <1>0, <2>5 DEF FinishSetup, takeoverContinuePlan, takeoverCheckpointOf,
         TypeOK, Resume
    <3> QED
      BY <1>0, <2>5, <3>1 DEF FinishSetup, Goto, HeldInv, TypeOK, row, world
  <2>6. CASE HeldCheck(h) \/ NoticeRelease(h)
    BY <1>0, <2>6 DEF HeldCheck, NoticeRelease, RequeueReleased, Goto, HeldInv,
       TypeOK, row, world
  <2>7. CASE ClaimLost(h) \/ StartLost(h) \/ Abandon(h) \/ Finally(h)
    <3>1. Forget({h}) /\ UNCHANGED <<row, ctl>>
      BY <2>7 DEF ClaimLost, StartLost, Abandon, Finally, world
    <3> QED
      BY <3>1, ForgetOthers DEF HeldInv, row
  <2>8. CASE CommitStep(h)
    <3>1. status' \notin Leased
      BY <2>8, CommitRow
    <3> QED
      BY <2>8, <3>1, CommitRow DEF HeldInv
  <2>9. CASE RequeueStep(h)
    <3>1. CASE UNCHANGED <<status, owner, fence, ckpt>>
      BY <1>0, <2>9, <3>1, RequeueRow DEF HeldInv, TypeOK
    <3>2. CASE ~ UNCHANGED <<status, owner, fence, ckpt>>
      BY <2>9, <3>2, RequeueRow DEF HeldInv, HoldsLease, Owns
    <3> QED
      BY <3>1, <3>2
  <2> QED
    BY <1>1, <2>1, <2>2, <2>3, <2>4, <2>5, <2>6, <2>7, <2>8, <2>9
       DEF HandlerStep, CommitStep, RequeueStep
<1>2. CASE Environment
  <2>1. CASE \E w \in Worker : Crash(w)
    BY <2>1, ForgetOthers DEF Crash, HeldInv, row
  <2>2. CASE \E c \in Resume : ReleaseControl(c)
    BY <2>2 DEF ReleaseControl, HeldInv, Resume, locals
  <2>3. CASE Answer \/ TakeControl \/ DropRequest \/ Nudge \/ Reconcile \/ Expire
    BY <2>3 DEF Answer, TakeControl, DropRequest, Nudge, Reconcile, Expire, HeldInv, row,
       locals, world
  <2>4. CASE Stop \/ Clear \/ ArchiveRead \/ ArchiveWrite
    BY <2>4 DEF Stop, Clear, ArchiveRead, ArchiveWrite, Unlease, HeldInv, row,
       locals, world
  <2> QED
    BY <1>2, <2>1, <2>2, <2>3, <2>4 DEF Environment
<1>3. CASE UNCHANGED vars
  BY <1>3 DEF vars, row, locals, world, HeldInv
<1> QED
  BY <1>1, <1>2, <1>3 DEF Next

\* FenceInv is inductive when overlapping executions are in different processes.
LEMMA FenceInvStep == DistinctProcesses => (FenceInv /\ [Next]_vars => FenceInv')
  BY LeaseInvStep, ClaimantStep, HeldStep DEF FenceInv, LeaseInv

\* FenceInv holds in every reachable state.
THEOREM FenceInvariant == DistinctProcesses => (Spec => []FenceInv)
<1> SUFFICES ASSUME DistinctProcesses PROVE Spec => []FenceInv
  OBVIOUS
<1>1. Init => FenceInv
  BY InitLeaseInv DEF Init, FenceInv, ClaimantOwns, HeldInv, ReleaseEndsTheWait, Leased
<1>2. FenceInv /\ [Next]_vars => FenceInv'
  BY FenceInvStep
<1> QED
  BY <1>1, <1>2, PTL DEF Spec

\* Once the user has released the screen held for the run, no execution of the job
\* makes the run wait for it again without a new request.
THEOREM ReleaseEndsTheWaitHolds ==
    DistinctProcesses => (Spec => []ReleaseEndsTheWait)
<1> SUFFICES ASSUME DistinctProcesses PROVE Spec => []ReleaseEndsTheWait
  OBVIOUS
<1>1. FenceInv => ReleaseEndsTheWait
  BY DEF FenceInv
<1> QED
  BY <1>1, FenceInvariant, PTL

\* No two executions of the job pass the fence at the same time.
THEOREM OneWriterHolds == DistinctProcesses => (Spec => []OneWriter)
<1> SUFFICES ASSUME DistinctProcesses PROVE Spec => []OneWriter
  OBVIOUS
<1>1. FenceInv => OneWriter
  BY OwnerIsClaimant DEF FenceInv, OneWriter, HoldsLease, Owns, Leased
<1> QED
  BY <1>1, FenceInvariant, PTL

\* Only the last claimant changes the status of the run.
THEOREM OnlyClaimantWritesHolds == DistinctProcesses => (Spec => OnlyClaimantWrites)
<1> SUFFICES ASSUME DistinctProcesses PROVE Spec => OnlyClaimantWrites
  OBVIOUS
<1> DEFINE Claimants == \A h \in Handler :
      pc'[h] # pc[h] /\ status' # status => h \in {claimant, claimant'}
<1>1. FenceInv /\ [Next]_vars => [Claimants]_vars
  <2> SUFFICES ASSUME FenceInv, Next, status' # status,
                      NEW g \in Handler, pc'[g] # pc[g]
               PROVE  g \in {claimant, claimant'}
    BY DEF vars
  <2>0. TypeOK /\ ClaimantOwns
    BY DEF FenceInv, LeaseInv
  <2>1. ASSUME NEW h \in Handler, HandlerStep(h) PROVE g \in {claimant, claimant'}
    <3>1. CASE Claim(h)
      BY <2>0, <3>1 DEF Claim, Goto, TypeOK
    <3>2. CASE Start(h)
      <4>1. g = h
        BY <2>0, <3>2 DEF Start, Goto, TypeOK
      <4> QED
        BY <2>0, <3>2, <4>1, OwnerIsClaimant DEF Start, CanStart, Owns, Leased
    <3>3. CASE CommitStep(h) \/ RequeueStep(h)
      <4>1. g = h
        BY <2>0, <3>3, CommitRow, RequeueRow DEF TypeOK
      <4>2. HoldsLease(h)
        BY <3>3, CommitRow, RequeueRow
      <4> QED
        BY <2>0, <4>1, <4>2, OwnerIsClaimant DEF HoldsLease, Owns, Leased
    <3> QED
      BY <2>1, HandlerCases, QuietRow, <3>1, <3>2, <3>3
  <2>2. CASE Environment
    BY <2>2 DEF Environment, Answer, TakeControl, DropRequest, ReleaseControl, Nudge, Reconcile,
       Expire, Crash, Stop, Clear, ArchiveRead, ArchiveWrite, row, locals
  <2> QED
    BY <2>1, <2>2 DEF Next
<1> QED
  BY <1>1, FenceInvariant, PTL DEF Spec, OnlyClaimantWrites

-----------------------------------------------------------------------------
(* The row keeps what a run promises to the executions of its job *)

\* A step that leaves the status and the last claimant alone, and after which no
\* execution is further than before, is executions leaving (or nothing at all).
LEMMA OnlyLeaving ==
    ASSUME UNCHANGED <<status, claimant>>,
           \A g \in Handler : Stage(pc'[g]) \in {"out", Stage(pc[g])}
    PROVE  Life!Leave
<1> DEFINE E == {g \in Handler : Stage(pc'[g]) = "out"}
<1>1. [g \in Handler |-> Stage(pc'[g])]
        = [g \in Handler |-> IF g \in E THEN "out"
                             ELSE [k \in Handler |-> Stage(pc[k])][g]]
  OBVIOUS
<1>2. E \in SUBSET Handler
  OBVIOUS
<1> HIDE DEF E
<1> QED
  BY <1>1, <1>2 DEF Life!Leave

\* One execution moves: so does its stage, and no other.
LEMMA StageMoves ==
    ASSUME TypeOK, NEW h \in Handler, NEW label, pc' = [pc EXCEPT ![h] = label]
    PROVE  [g \in Handler |-> Stage(pc'[g])]
             = [[g \in Handler |-> Stage(pc[g])] EXCEPT ![h] = Stage(label)]
<1>1. pc \in [Handler -> PC]
  BY DEF TypeOK
<1> QED
  BY <1>1

\* No quiet step brings its execution, or any other, further.
LEMMA QuietStage ==
    ASSUME TypeOK, NEW h \in Handler, QuietStep(h)
    PROVE  \A g \in Handler : Stage(pc'[g]) \in {"out", Stage(pc[g])}
<1>0. pc \in [Handler -> PC]
  BY DEF TypeOK
<1>1. CASE ClaimLost(h) \/ StartLost(h) \/ Abandon(h) \/ Finally(h)
  <2>1. Forget({h})
    BY <1>1 DEF ClaimLost, StartLost, Abandon, Finally
  <2> QED
    BY <2>1, ForgetOthers DEF Stage
<1>2. CASE Deliver(h) \/ Renew(h)
  BY <1>0, <1>2 DEF Deliver, Renew, Goto, Stage, locals
<1>3. CASE NoticeLoss(h) \/ Abort(h)
  BY <1>0, <1>3 DEF NoticeLoss, Abort, Goto, Stage
<1>4. CASE Busy(h) \/ Acquire(h) \/ SetupFails(h) \/ FinishSetup(h) \/ HeldCheck(h)
           \/ OpenModel(h) \/ NoticeRelease(h)
  <2>1. PICK label \in {"requeue", "setup", "ready", "open", "loop"} :
          pc' = [pc EXCEPT ![h] = label]
    BY <1>4 DEF Busy, Acquire, SetupFails, FinishSetup, HeldCheck, OpenModel,
       NoticeRelease, RequeueReleased, Goto
  <2>2. pc[h] \in {"started", "setup", "ready", "open", "loop"}
    BY <1>4 DEF Busy, Acquire, SetupFails, FinishSetup, HeldCheck, OpenModel,
       NoticeRelease
  <2> QED
    BY <1>0, <2>1, <2>2 DEF Stage
<1> QED
  BY <1>1, <1>2, <1>3, <1>4 DEF QuietStep

\* A handler that matches a running row under its own process began the run and has
\* it in its hands: giving the lease back settles the run.
LEMMA SettleStep ==
    ASSUME DistinctProcesses, FenceInv, NEW h \in Handler, HoldsLease(h),
           pc[h] \in {"setup", "loop", "requeue", "planned", "retried"},
           pc' = [pc EXCEPT ![h] = "finally"],
           status' \in Waiting \cup {"queued", "completed", "failed"}
    PROVE  Life!Settle(h)
<1>1. status = "running" /\ owner = WorkerOf[h]
  BY DEF HoldsLease, Owns
<1>2. h = claimant
  BY <1>1, OwnerIsClaimant DEF FenceInv, Leased
<1>3. [g \in Handler |-> Stage(pc'[g])]
        = [[g \in Handler |-> Stage(pc[g])] EXCEPT ![h] = "out"]
  <2>1. Stage("finally") = "out"
    BY DEF Stage
  <2> QED
    BY <2>1, StageMoves DEF FenceInv, LeaseInv
<1>4. Stage(pc[h]) = "working"
  BY DEF Stage
<1> QED
  BY <1>1, <1>2, <1>3, <1>4 DEF Life!Settle, Life!Outcome, Life!Waits, Leased, Waiting

\* Every step of the executions, users and clocks is one the run allows, or none.
LEMMA StepKeepsLife ==
    ASSUME DistinctProcesses, FenceInv, archiving = FALSE, [Next]_vars,
           "archive" \notin CancelPaths
    PROVE  [Life!LifeNext]_(Life!lifeVars)
<1> USE DEF Leased, Waiting
<1>0. TypeOK /\ pc \in [Handler -> PC]
  BY DEF FenceInv, LeaseInv, TypeOK
<1>1. ASSUME NEW h \in Handler, HandlerStep(h) PROVE Life!LifeNext
  <2>1. CASE QuietStep(h)
    BY <1>0, <2>1, QuietRow, QuietStage, OnlyLeaving DEF Life!LifeNext
  <2>2. CASE Claim(h)
    <3>1. [g \in Handler |-> Stage(pc'[g])]
            = [[g \in Handler |-> Stage(pc[g])] EXCEPT ![h] = "taken"]
      <4>1. Stage("claimed") = "taken"
        BY DEF Stage
      <4> QED
        BY <1>0, <2>2, <4>1, StageMoves DEF Claim, Goto
    <3>2. Stage(pc[h]) = "out"
      BY <2>2 DEF Claim, Stage
    <3>3. status \in Life!Open
      BY <2>2 DEF Claim, Claimable, Life!Open, Life!Waits
    <3>4. Life!Take(h)
      BY <2>2, <3>1, <3>2, <3>3 DEF Claim, Life!Take
    <3> QED
      BY <3>4 DEF Life!LifeNext
  <2>3. CASE Start(h)
    <3>1. [g \in Handler |-> Stage(pc'[g])]
            = [[g \in Handler |-> Stage(pc[g])] EXCEPT ![h] = "working"]
      <4>1. Stage("started") = "working"
        BY DEF Stage
      <4> QED
        BY <1>0, <2>3, <4>1, StageMoves DEF Start, Goto
    <3>2. Stage(pc[h]) = "taken"
      BY <2>3 DEF Start, Stage
    <3>3. h = claimant
      BY <2>3, OwnerIsClaimant DEF FenceInv, Start, CanStart, Owns
    <3>4. Life!Begin(h)
      BY <2>3, <3>1, <3>2, <3>3 DEF Start, CanStart, Life!Begin, world
    <3> QED
      BY <3>4 DEF Life!LifeNext
  <2>4. CASE CommitStep(h)
    <3>1. Life!Settle(h)
      BY <2>4, CommitRow, SettleStep
    <3> QED
      BY <3>1 DEF Life!LifeNext
  <2>5. CASE RequeueStep(h)
    <3>1. CASE UNCHANGED <<status, owner, fence, ckpt>>
      <4>1. \A g \in Handler : Stage(pc'[g]) \in {"out", Stage(pc[g])}
        BY <1>0, <2>5, RequeueRow DEF Stage
      <4> QED
        BY <2>5, <3>1, <4>1, RequeueRow, OnlyLeaving DEF Life!LifeNext
    <3>2. CASE ~ UNCHANGED <<status, owner, fence, ckpt>>
      <4>1. HoldsLease(h) /\ status' \in {"queued", "waiting_takeover"}
        BY <2>5, <3>2, RequeueRow
      <4>2. pc' = [pc EXCEPT ![h] = "finally"]
        BY <2>5, <3>2 DEF RequeueStep, RequeuePreserve, RequeuePlanned,
           RequeueRetried, PreserveCheckpoint, Goto, row
      <4>3. pc[h] \in {"requeue", "planned", "retried"}
        BY <2>5, RequeueRow
      <4>4. Life!Settle(h)
        BY <4>1, <4>2, <4>3, SettleStep
      <4> QED
        BY <4>4 DEF Life!LifeNext
    <3> QED
      BY <3>1, <3>2
  <2> QED
    BY <1>1, HandlerCases, <2>1, <2>2, <2>3, <2>4, <2>5
<1>2. CASE Environment
  <2>1. CASE Answer \/ (\E c \in Resume : ReleaseControl(c))
    <3>1. pc' = pc /\ claimant' = claimant
      BY <2>1 DEF Answer, ReleaseControl, locals
    <3>2. CASE status \in Waiting /\ status' = "queued"
      BY <3>1, <3>2 DEF Life!LifeNext, Life!Resume, Life!Waits
    <3>3. CASE status' = status
      BY <3>1, <3>3, OnlyLeaving DEF Life!LifeNext
    <3> QED
      BY <2>1, <3>2, <3>3 DEF Answer, ReleaseControl
  <2>2. CASE Stop \/ Clear
    <3>1. pc' = pc /\ status' = "cancelled" /\ status \in Active
      BY <2>2 DEF Stop, Clear, Unlease, locals
    <3>2. Life!Cancel
      BY <3>1 DEF Life!Cancel, Life!Open, Life!Waits, Active
    <3> QED
      BY <3>2 DEF Life!LifeNext
  <2>3. CASE \E w \in Worker : Crash(w)
    <3>1. \A g \in Handler : Stage(pc'[g]) \in {"out", Stage(pc[g])}
      BY <2>3, ForgetOthers DEF Crash, Stage
    <3> QED
      BY <2>3, <3>1, OnlyLeaving DEF Crash, row, Life!LifeNext
  <2>4. CASE TakeControl \/ DropRequest \/ Nudge \/ Reconcile \/ Expire
    <3>1. UNCHANGED <<status, claimant, pc>>
      BY <2>4 DEF TakeControl, DropRequest, Nudge, Reconcile, Expire, row, locals, world
    <3> QED
      BY <3>1, OnlyLeaving DEF Life!LifeNext
  <2> QED
    BY <1>2, <2>1, <2>2, <2>3, <2>4 DEF Environment, ArchiveRead, ArchiveWrite
<1>3. CASE UNCHANGED vars
  BY <1>3 DEF vars, row, locals, world, Life!lifeVars
<1> QED
  BY <1>1, <1>2, <1>3 DEF Next

\* The fence keeps the promise: with its executions in different processes, and
\* without the two-step archive, the row implements a run that is in one pair of
\* hands at a time and over when it is over.
THEOREM ImplementsLife ==
    DistinctProcesses /\ "archive" \notin CancelPaths => (Spec => KeepsLife)
<1> SUFFICES ASSUME DistinctProcesses, "archive" \notin CancelPaths
             PROVE  Spec => KeepsLife
  OBVIOUS
<1>1. Init => Life!LifeInit
  BY DEF Init, Life!LifeInit, Stage, Leased
<1>2. FenceInv /\ archiving = FALSE /\ [Next]_vars => [Life!LifeNext]_(Life!lifeVars)
  BY StepKeepsLife
<1> QED
  BY <1>1, <1>2, FenceInvariant, NoArchive, PTL DEF Spec, KeepsLife, Life!LifeSpec

=============================================================================
