------------------------------- MODULE Takeover -------------------------------
(***************************************************************************)
(* Who has a bot's screen: the control columns of a computer's row, the    *)
(* requests that give, take and give back control, the job that expires    *)
(* it, and the runs that wait for the user.                                *)
(*                                                                         *)
(* A request reads the row, calls the provider to revoke the screen, and   *)
(* writes under the lease id it has read; a run pauses, and another        *)
(* request comes, between any two of its steps.                            *)
(*                                                                         *)
(* The computer is running all along: its boots and stops are              *)
(* ComputerLifecycle's.                                                    *)
(***************************************************************************)
EXTENDS Naturals, FiniteSets

CONSTANTS
    Waiter,       \* runs that may ask for a takeover
    RunBot,       \* the bot of each
    NoRun, NoBot, \* null
    Dedicated,    \* the computer is one bot's own, and has no execution leases
    Req,          \* requests and expiry jobs in flight at a time
    MaxLease,     \* bound: control leases somebody knows at a time
    MaxRefusal    \* bound: calls of the provider and of the queue that fail

Bots == {RunBot[r] : r \in Waiter}

ASSUME TakeoverAssumption ==
    /\ NoRun \notin Waiter /\ NoBot \notin Bots
    /\ Dedicated \in BOOLEAN /\ Dedicated => Cardinality(Bots) = 1
    /\ MaxLease \in Nat \ {0} /\ MaxRefusal \in Nat

VARIABLES
    ctl,          \* the control columns of the row; due: the lease is past its time
    run,          \* the status of each run
    execLease,    \* the execution lease row of each bot: its run, and whether it is live
    req,          \* per request: where it is, for which bot, and the columns it has read
    refusals      \* number of failed calls so far

takeVars == <<ctl, run, execLease, req, refusals>>

Lease == 1..MaxLease
Cleared(h, x) == [holder |-> h, lease |-> 0, due |-> FALSE, bot |-> NoBot, run |-> x]

\* A request keeps of the columns it has read what it will use.
Nothing   == Cleared("none", NoRun)
Knows(n)  == [Nothing EXCEPT !.lease = n]
Bound(x)  == [Nothing EXCEPT !.run = x]
Idle      == [at |-> "idle", kind |-> "none", bot |-> NoBot, saw |-> Nothing]

TakeInit ==
    /\ ctl = Nothing
    /\ run = [r \in Waiter |-> "none"]
    /\ execLease = [b \in Bots |-> [run |-> NoRun, live |-> FALSE]]
    /\ req = [q \in Req |-> Idle] /\ refusals = 0

\* hasActiveComputerControl
Active(c) == c.holder = "user" /\ c.lease # 0 /\ ~c.due

Becomes(q, at, saw) == req' = [req EXCEPT ![q].at = at, ![q].saw = saw]
Ends(q)      == req' = [req EXCEPT ![q] = Idle]
Stays(q, at) == Becomes(q, at, req[q].saw)
Starts(q, kind, b, at, saw) ==
    /\ req[q] = Idle
    /\ req' = [req EXCEPT ![q] = [at |-> at, kind |-> kind, bot |-> b, saw |-> saw]]

\* The next lease id is one that nobody knows.
Known(n)   == n = ctl.lease \/ \E q \in Req : n = req[q].saw.lease
NewLease   == CHOOSE n \in Lease : ~Known(n)
LeaseIsLeft == \E n \in Lease : ~Known(n)

Refusal == refusals < MaxRefusal /\ refusals' = refusals + 1

-----------------------------------------------------------------------------
(* The runs.                                                               *)

\* acquireComputerExecutionLease: the bot's row is free, or it is the run's own and
\* the run goes on from a pause.  A dedicated computer has no rows.
HasOwn(r)  == execLease[RunBot[r]].run = r
MayTake(r) == Dedicated \/ ~execLease[RunBot[r]].live \/ (run[r] \in {"waiting", "resumed"} /\ HasOwn(r))
Takes(r)   == execLease' = IF Dedicated THEN execLease
                           ELSE [execLease EXCEPT ![RunBot[r]] = [run |-> r, live |-> TRUE]]
Drops(r)   == execLease' = [execLease EXCEPT ![RunBot[r]].live = @ /\ ~HasOwn(r)]

\* A run starts, or goes on once it has been resumed; nothing but the execution
\* lease keeps it from starting beside another run of its bot.
RunStarts(r) ==
    /\ run[r] \in {"none", "resumed"} /\ MayTake(r) /\ Takes(r)
    /\ run' = [run EXCEPT ![r] = "running"]
    /\ UNCHANGED <<ctl, req, refusals>>

\* pauseRunForTakeover: an active control of the same bot is kept and bound, that
\* of another bot preserved, anything else cleared.  A held run may ask again.  The
\* execution lease, still the run's, has been held for it just before.
Pause(r) ==
    /\ run[r] \in {"running", "held"} /\ (Dedicated \/ (HasOwn(r) /\ execLease[RunBot[r]].live))
    /\ run' = [run EXCEPT ![r] = "waiting"]
    /\ ctl' = IF ~Active(ctl) THEN Cleared("none", r)
              ELSE IF ctl.bot = RunBot[r] THEN [ctl EXCEPT !.run = r] ELSE ctl
    /\ UNCHANGED <<execLease, req, refusals>>

\* The run ends, or the user stops it.
RunEnds(r) ==
    /\ run[r] \notin {"none", "done"}
    /\ run' = [run EXCEPT ![r] = "done"]
    /\ Drops(r)
    /\ UNCHANGED <<ctl, req, refusals>>

\* A message of the user lets a waiting run go on without the screen.
Steer(r) ==
    /\ run[r] = "waiting" /\ MayTake(r) /\ Takes(r)
    /\ run' = [run EXCEPT ![r] = "held"]
    /\ UNCHANGED <<ctl, req, refusals>>

\* A requeue puts it back to waiting; the execution ends and gives its lease back.
Requeue(r) ==
    /\ run[r] = "held" /\ Drops(r)
    /\ run' = [run EXCEPT ![r] = "waiting"]
    /\ UNCHANGED <<ctl, req, refusals>>

-----------------------------------------------------------------------------
(* computer.takeover                                                       *)

TakeControl(q, b) ==
    /\ \/ /\ Active(ctl) /\ ctl.bot = b
          /\ Starts(q, "takeover", b, "bind", [Knows(ctl.lease) EXCEPT !.run = ctl.run])
       \/ Active(ctl) /\ ctl.bot # b /\ Starts(q, "takeover", b, "oust", Knows(ctl.lease))
       \/ ~Active(ctl) /\ ctl.lease # 0 /\ Starts(q, "takeover", b, "expire", Knows(ctl.lease))
       \/ ctl.lease = 0 /\ Starts(q, "takeover", b, "ask", Bound(ctl.run))
    /\ UNCHANGED <<ctl, run, execLease, refusals>>

\* bindWaitingTakeoverToControl, one transaction.
Bind(q) ==
    LET x == execLease[req[q].bot].run IN
    /\ req[q].at = "bind"
    /\ ctl' = IF /\ x # NoRun /\ run[x] = "waiting" /\ req[q].saw.run # x
                 /\ ctl.lease = req[q].saw.lease /\ ctl.bot = req[q].bot
              THEN [ctl EXCEPT !.run = x] ELSE ctl
    /\ Ends(q) /\ UNCHANGED <<run, execLease, refusals>>

\* The screen of another bot is revoked, its control cleared, and the row read again.
Oust(q) ==
    /\ req[q].at = "oust"
    /\ \/ Stays(q, "preempt") /\ UNCHANGED refusals
       \/ Refusal /\ Ends(q)
    /\ UNCHANGED <<ctl, run, execLease>>

\* Mutant of Preempt: the bot is left in the row.
PreemptLeavesBot(q) ==
    /\ req[q].at = "preempt"
    /\ ctl' = IF ctl.lease = req[q].saw.lease
              THEN [ctl EXCEPT !.holder = "none", !.lease = 0, !.due = FALSE, !.run = NoRun] ELSE ctl
    /\ Becomes(q, "reread", Nothing) /\ UNCHANGED <<run, execLease, refusals>>

Preempt(q) ==
    /\ req[q].at = "preempt"
    /\ ctl' = IF ctl.lease = req[q].saw.lease THEN Nothing ELSE ctl
    /\ Becomes(q, "reread", Nothing) /\ UNCHANGED <<run, execLease, refusals>>

Reread(q) ==
    /\ req[q].at \in {"reread", "expired"}
    /\ IF req[q].at = "reread" /\ ctl.lease # 0
       THEN Becomes(q, "expire", Knows(ctl.lease)) ELSE Becomes(q, "ask", Bound(ctl.run))
    /\ UNCHANGED <<ctl, run, execLease, refusals>>

\* The execution lease and its run are read: is the run waiting for this?
WaitingForTakeover(q) ==
    LET x == execLease[req[q].bot].run
    IN  x # NoRun /\ (run[x] = "waiting" \/ req[q].saw.run = x)

\* executionBlocksUserTakeover
Blocked(q) ==
    LET x == execLease[req[q].bot] IN
    /\ x.run # NoRun /\ ~WaitingForTakeover(q)
    /\ x.live \/ run[x.run] \in {"running", "waiting", "held", "resumed"}

AskLease(q) ==
    /\ req[q].at = "ask"
    /\ IF Blocked(q) THEN Ends(q)
       ELSE Becomes(q, "grant", Bound(IF WaitingForTakeover(q) THEN execLease[req[q].bot].run
                                                               ELSE NoRun))
    /\ UNCHANGED <<ctl, run, execLease, refusals>>

GrantWhere == ctl.holder # "user" /\ ctl.lease = 0

Grant(q) ==
    /\ req[q].at = "grant"
    /\ \/ /\ GrantWhere /\ LeaseIsLeft
          /\ ctl' = [holder |-> "user", lease |-> NewLease, due |-> FALSE,
                     bot |-> req[q].bot, run |-> req[q].saw.run]
          /\ Becomes(q, "schedule", Knows(ctl'.lease))
       \/ /\ ~GrantWhere /\ UNCHANGED ctl
          /\ IF Active(ctl) /\ ctl.bot = req[q].bot
             THEN Becomes(q, "bind", [Knows(ctl.lease) EXCEPT !.run = ctl.run]) ELSE Ends(q)
    /\ UNCHANGED <<run, execLease, refusals>>

\* The grant is taken back when its expiry cannot be scheduled.
Schedule(q) ==
    /\ req[q].at = "schedule" /\ Ends(q)
    /\ \/ UNCHANGED <<ctl, refusals>>
       \/ Refusal /\ ctl' = IF ctl.lease = req[q].saw.lease THEN Nothing ELSE ctl
    /\ UNCHANGED <<run, execLease>>

-----------------------------------------------------------------------------
(* computer.release, and expireComputerControl: of the job, of the         *)
(* reconciler, and of the requests that find a stale control.              *)

GiveBack(q, b) ==
    /\ ctl.holder = "user" /\ ctl.bot = b
    /\ IF Active(ctl) THEN Starts(q, "release", b, "revoke", ctl)
                      ELSE Starts(q, "release", b, "expire", Knows(ctl.lease))
    /\ UNCHANGED <<ctl, run, execLease, refusals>>

\* A job for a lease that is gone does nothing, and is left out.
ExpiryJob(q) ==
    /\ ctl.lease # 0 /\ Starts(q, "expiry", NoBot, "expire", Knows(ctl.lease))
    /\ UNCHANGED <<ctl, run, execLease, refusals>>

\* Back from expireComputerControl: a takeover goes on.
Returns(q) == IF req[q].kind = "takeover" THEN Becomes(q, "expired", Nothing) ELSE Ends(q)

\* Mutants of NotDue: the time is not looked at; a control that is denied already is skipped.
OtherLease(q)     == ctl.lease # req[q].saw.lease
NotDueOrDenied(q) == ctl.lease # req[q].saw.lease \/ ~ctl.due \/ ctl.holder # "user"

\* The row is read again: another lease, or one whose time has not come.
NotDue(q) == ctl.lease # req[q].saw.lease \/ ~ctl.due

LookDue(q) ==
    /\ req[q].at = "expire"
    /\ IF NotDue(q) THEN Returns(q)
       ELSE Becomes(q, "deny", [ctl EXCEPT !.holder = "none"])
    /\ UNCHANGED <<ctl, run, execLease, refusals>>

\* The user's input is denied before the provider is called; the lease id stays.
Deny(q) ==
    /\ req[q].at = "deny"
    /\ IF ctl.lease = req[q].saw.lease
       THEN ctl' = [ctl EXCEPT !.holder = "none"] /\ Stays(q, "revoke")
       ELSE UNCHANGED ctl /\ Returns(q)
    /\ UNCHANGED <<run, execLease, refusals>>

\* setScreenControl(false); when it fails, so does the request or the job.
Revoke(q) ==
    /\ req[q].at = "revoke"
    /\ \/ Stays(q, "finalize") /\ UNCHANGED refusals
       \/ Refusal /\ Ends(q)
    /\ UNCHANGED <<ctl, run, execLease>>

\* finalizeComputerControlRelease: nothing, unless bot, lease and bound run are
\* still those that were read; else the run goes on, if it is this bot's.
FinalizeWhere(q) ==
    LET s == req[q].saw IN ctl.bot = s.bot /\ ctl.lease = s.lease /\ ctl.run = s.run

Finalize(q) ==
    LET x == req[q].saw.run IN
    /\ req[q].at = "finalize"
    /\ IF FinalizeWhere(q)
       THEN /\ ctl' = Cleared(IF req[q].saw.holder = "user" THEN "bot" ELSE "none", NoRun)
            /\ run' = IF x # NoRun /\ RunBot[x] = ctl.bot /\ run[x] \in {"waiting", "held"}
                      THEN [run EXCEPT ![x] = "resumed"] ELSE run
       ELSE UNCHANGED <<ctl, run>>
    /\ Returns(q) /\ UNCHANGED <<execLease, refusals>>

-----------------------------------------------------------------------------
(* Teaching takes the screen for itself, and gives it back.                *)

Teach(q, b) ==
    /\ Starts(q, "teach", b, "cancel", [ctl EXCEPT !.run = NoRun])
    /\ UNCHANGED <<ctl, run, execLease, refusals>>

\* cancelActiveRuns; then: is the control that was read still to be extended?
CancelRuns(q) ==
    LET s == req[q].saw IN
    /\ req[q].at = "cancel"
    /\ run' = [r \in Waiter |-> IF RunBot[r] = req[q].bot /\ run[r] # "none" THEN "done" ELSE run[r]]
    /\ execLease' = [execLease EXCEPT ![req[q].bot].live = FALSE]
    /\ IF Active(s) /\ s.bot = req[q].bot /\ ~(ctl.lease = s.lease /\ ctl.due)
       THEN Becomes(q, "extend", Knows(s.lease)) ELSE Becomes(q, "seize", Nothing)
    /\ UNCHANGED <<ctl, refusals>>

\* extendActiveComputerControl
Extend(q) ==
    /\ req[q].at = "extend"
    /\ IF ctl.holder = "user" /\ ctl.bot = req[q].bot /\ ctl.lease = req[q].saw.lease
       THEN ctl' = [ctl EXCEPT !.due = FALSE] /\ Ends(q)
       ELSE UNCHANGED ctl /\ Becomes(q, "seize", Nothing)
    /\ UNCHANGED <<run, execLease, refusals>>

\* grantTakeover: a control of the same bot is replaced, the bound run kept.
Seize(q) ==
    /\ req[q].at = "seize" /\ Ends(q)
    /\ \/ /\ ctl.holder # "user" \/ ctl.bot = req[q].bot
          /\ LeaseIsLeft
          /\ ctl' = [holder |-> "user", lease |-> NewLease, due |-> FALSE,
                     bot |-> req[q].bot, run |-> ctl.run]
       \/ ctl.holder = "user" /\ ctl.bot # req[q].bot /\ UNCHANGED ctl
    /\ UNCHANGED <<run, execLease, refusals>>

\* releaseTeachingComputerControl: the lesson ends, whether its control is due or not.
EndLesson(q, b) ==
    /\ ctl.holder = "user" /\ ctl.bot = b /\ Starts(q, "release", b, "revoke", ctl)
    /\ UNCHANGED <<ctl, run, execLease, refusals>>

-----------------------------------------------------------------------------
(* Time, and processes that die.                                           *)

FallsDue ==
    /\ ctl.lease # 0 /\ ~ctl.due /\ ctl' = [ctl EXCEPT !.due = TRUE]
    /\ UNCHANGED <<run, execLease, req, refusals>>

\* An execution lease runs out: 24 hours after the pause, or under a dead process.
Lapses(b) ==
    /\ execLease[b].live /\ execLease' = [execLease EXCEPT ![b].live = FALSE]
    /\ UNCHANGED <<ctl, run, req, refusals>>

\* The process dies between two steps, and the request with it.
Dies(q) ==
    /\ req[q] # Idle /\ Refusal /\ Ends(q)
    /\ UNCHANGED <<ctl, run, execLease>>

-----------------------------------------------------------------------------

ReqStep(q) == Bind(q) \/ Oust(q) \/ Preempt(q) \/ Reread(q) \/ AskLease(q) \/ Grant(q)
              \/ Schedule(q) \/ LookDue(q) \/ Deny(q) \/ Revoke(q) \/ Finalize(q)
              \/ CancelRuns(q) \/ Extend(q) \/ Seize(q)
RunStep(r) == RunStarts(r) \/ Pause(r) \/ RunEnds(r) \/ Steer(r) \/ Requeue(r)
Asks(q)    == \/ \E b \in Bots : TakeControl(q, b) \/ GiveBack(q, b) \/ Teach(q, b) \/ EndLesson(q, b)
              \/ ExpiryJob(q)

TakeNext ==
    \/ \E q \in Req : ReqStep(q) \/ Asks(q) \/ Dies(q)
    \/ \E r \in Waiter : RunStep(r)
    \/ FallsDue \/ (\E b \in Bots : Lapses(b))

\* Requests go on; time passes; the reconciler enqueues the expiry of every
\* lease that is due, until it is gone (job-reconciler.ts:202).
DueJob(q) == ctl.due /\ ExpiryJob(q)
TakeFairness == /\ \A q \in Req : WF_takeVars(ReqStep(q))
                /\ SF_takeVars(\E q \in Req : DueJob(q))
                /\ WF_takeVars(FallsDue)

TakeSpec == TakeInit /\ [][TakeNext]_takeVars /\ TakeFairness

-----------------------------------------------------------------------------
(* Properties.                                                             *)

Columns == [holder : {"none", "bot", "user"}, lease : 0..MaxLease, due : BOOLEAN,
            bot : Bots \cup {NoBot}, run : Waiter \cup {NoRun}]

\* Every variable has its type; a lease has a bot, and a user in control a lease.
TakeTypeOK ==
    /\ refusals \in 0..MaxRefusal
    /\ ctl \in Columns
    /\ (ctl.lease # 0) <=> (ctl.bot # NoBot)
    /\ ctl.holder = "user" => ctl.lease # 0
    /\ run \in [Waiter -> {"none", "running", "waiting", "held", "resumed", "done"}]
    /\ execLease \in [Bots -> [run : Waiter \cup {NoRun}, live : BOOLEAN]]
    /\ req \in [Req -> [at : {"idle", "bind", "oust", "preempt", "reread", "expired", "ask", "grant",
                              "schedule", "expire", "deny", "revoke", "finalize",
                              "cancel", "extend", "seize"},
                        kind : {"none", "takeover", "release", "expiry", "teach"},
                        bot : Bots \cup {NoBot}, saw : Columns]]

\* A control whose time has not come is taken from the user by its own release, a
\* takeover for another bot or a failed grant; by an expiry only if that has found
\* it past its time, and an extension came after (computer-control.ts:193-207).
ActiveControlKept ==
    [][Active(ctl) /\ ~ctl'.due /\ ~Active(ctl') =>
         \E q \in Req : \/ Finalize(q) /\ req[q].kind = "release" /\ req[q].bot = ctl.bot
                        \/ Preempt(q) /\ req[q].bot # ctl.bot
                        \/ Schedule(q)
                        \/ Deny(q) /\ req[q].saw.due]_takeVars

\* No control lasts past its time for ever: whatever is refused or dies, its lease
\* id is cleared in the end (a new lease is not due), or a lesson has extended it.
ControlEnds == ctl.due ~> ~ctl.due

\* When the control of a bot's screen ends by release or expiry and its run waits
\* for the user, the run goes on ("so takeoverRequested becomes true and release
\* can resume the waiting run", router.ts:5350).
ReleaseResumes ==
    [][\A q \in Req : Finalize(q) /\ FinalizeWhere(q) =>
         \A r \in Waiter : RunBot[r] = ctl.bot /\ run[r] = "waiting" => run'[r] = "resumed"]_takeVars

\* The execution lease of a run that waits, or has been steered, has not lapsed.
HoldsLast == \A r \in Waiter : run[r] \in {"waiting", "held"} => execLease[RunBot[r]].live

\* A takeover that looks at the execution lease while a run of its bot waits is not
\* refused, and goes on to a grant for that run.  So it is on a team computer for as
\* long as HoldsLast: another run of the bot is then kept from the lease's row.  Once
\* the hold has lapsed another run may have the row, and the takeover is refused or
\* goes on to a grant without the run that waits (router.ts:2150-2190).
TakeoverFindsRun ==
    [][\A q \in Req : AskLease(q) =>
         \A r \in Waiter : RunBot[r] = req[q].bot /\ run[r] = "waiting" =>
            req'[q].at = "grant" /\ req'[q].saw.run = r]_takeVars
=============================================================================
