--------------------------- MODULE Takeover_proofs ---------------------------
(***************************************************************************)
(* Theorems about Takeover, for any runs, bots, requests in flight and     *)
(* bounds: its types, that a control whose time has not come is taken from *)
(* the user only by who may take it, and that on a team computer a         *)
(* takeover finds the run that waits for it while its hold lasts.          *)
(***************************************************************************)
EXTENDS Takeover, TLAPS

\* A request that is about the screen of one bot names it.
Aimed(q) ==
    req[q].kind = "takeover" \/ req[q].at \in {"cancel", "extend", "seize"} =>
       req[q].bot \in Bots

\* A takeover that revokes another bot's screen holds a lease of another bot.
Ousts(q) ==
    req[q].at \in {"oust", "preempt"} =>
       req[q].saw.lease # 0 /\ (ctl.lease = req[q].saw.lease => ctl.bot # req[q].bot)

\* Who denies has found the control past its time; who finalizes is the user's
\* release, or comes after the denial of the lease it has read.
Denies(q) ==
    /\ req[q].at = "deny" => req[q].saw.due
    /\ req[q].at \in {"revoke", "finalize"} =>
          \/ req[q].kind = "release" /\ req[q].saw.bot = req[q].bot
          \/ ctl.lease = req[q].saw.lease => ctl.holder # "user"

\* Requests for the screen are takeovers.
KindFits(q) ==
    req[q].at \in {"bind", "oust", "preempt", "reread", "expired", "ask", "grant", "schedule"} =>
       req[q].kind = "takeover"

Sound(q) == Aimed(q) /\ Ousts(q) /\ Denies(q) /\ KindFits(q)

TakeInv == TakeTypeOK /\ \A q \in Req : Sound(q)

-----------------------------------------------------------------------------
(* Types.                                                                  *)

Ats == {"idle", "bind", "oust", "preempt", "reread", "expired", "ask", "grant",
        "schedule", "expire", "deny", "revoke", "finalize", "cancel", "extend", "seize"}

ReqRec == [at : Ats, kind : {"none", "takeover", "release", "expiry", "teach"},
           bot : Bots \cup {NoBot}, saw : Columns]

\* The columns a request knows, and those of a control that was cleared.
LEMMA KnownColumns ==
    /\ \A h \in {"none", "bot", "user"}, x \in Waiter \cup {NoRun} : Cleared(h, x) \in Columns
    /\ Nothing \in Columns
    /\ \A n \in 0 .. MaxLease : Knows(n) \in Columns
    /\ \A n \in 0 .. MaxLease, x \in Waiter \cup {NoRun} : [Knows(n) EXCEPT !.run = x] \in Columns
    /\ \A x \in Waiter \cup {NoRun} : Bound(x) \in Columns
<1> USE TakeoverAssumption
<1>0. 0 \in 0 .. MaxLease
  OBVIOUS
<1>1. \A h \in {"none", "bot", "user"}, x \in Waiter \cup {NoRun} : Cleared(h, x) \in Columns
  BY <1>0 DEF Cleared, Columns
<1>2. Nothing \in Columns
  BY <1>1 DEF Nothing
<1>3. \A n \in 0 .. MaxLease : Knows(n) \in Columns
  BY <1>2 DEF Knows, Columns
<1>4. \A n \in 0 .. MaxLease, x \in Waiter \cup {NoRun} : [Knows(n) EXCEPT !.run = x] \in Columns
  BY <1>3 DEF Columns
<1>5. \A x \in Waiter \cup {NoRun} : Bound(x) \in Columns
  BY <1>2 DEF Bound, Columns
<1> QED
  BY <1>1, <1>2, <1>3, <1>4, <1>5

\* Changing one column gives columns.
LEMMA ChangedColumns ==
    ASSUME NEW c \in Columns
    PROVE  /\ \A x \in Waiter \cup {NoRun} : [c EXCEPT !.run = x] \in Columns
           /\ [c EXCEPT !.holder = "none"] \in Columns
           /\ [c EXCEPT !.due = TRUE] \in Columns
           /\ [c EXCEPT !.due = FALSE] \in Columns
<1>1. \A x \in Waiter \cup {NoRun} : [c EXCEPT !.run = x] \in Columns
  BY ZenonT(60) DEF Columns
<1>2. [c EXCEPT !.holder = "none"] \in Columns
  BY ZenonT(60) DEF Columns
<1>3. [c EXCEPT !.due = TRUE] \in Columns
  BY ZenonT(60) DEF Columns
<1>4. [c EXCEPT !.due = FALSE] \in Columns
  BY ZenonT(60) DEF Columns
<1> QED
  BY <1>1, <1>2, <1>3, <1>4

LEMMA IdleIsRequest == Idle \in ReqRec
BY KnownColumns DEF Idle, ReqRec, Ats

\* A request that goes on, starts or ends is one afterwards; the others are as
\* they were.
LEMMA RequestMoves ==
    ASSUME req \in [Req -> ReqRec], NEW q \in Req, NEW at \in Ats, NEW s \in Columns,
           NEW kind \in {"none", "takeover", "release", "expiry", "teach"},
           NEW b \in Bots \cup {NoBot}
    PROVE  /\ Becomes(q, at, s) => req' \in [Req -> ReqRec]
           /\ Stays(q, at) => req' \in [Req -> ReqRec]
           /\ Starts(q, kind, b, at, s) => req' \in [Req -> ReqRec]
           /\ Ends(q) => req' \in [Req -> ReqRec]
<1>1. [req[q] EXCEPT !.at = at, !.saw = s] \in ReqRec
  <2>1. req[q] \in ReqRec
    OBVIOUS
  <2> QED
    BY <2>1, ZenonT(60) DEF ReqRec
<1>2. [req[q] EXCEPT !.at = at, !.saw = req[q].saw] \in ReqRec
  <2>1. req[q] \in ReqRec /\ req[q].saw \in Columns
    BY DEF ReqRec
  <2> QED
    BY <2>1, ZenonT(60) DEF ReqRec
<1>3. [at |-> at, kind |-> kind, bot |-> b, saw |-> s] \in ReqRec
  BY DEF ReqRec
<1> QED
  BY <1>1, <1>2, <1>3, IdleIsRequest DEF Becomes, Stays, Starts, Ends

\* The control columns have their types, a lease has a bot, and a user in
\* control a lease.
CtlOK == /\ ctl \in Columns
         /\ (ctl.lease # 0) <=> (ctl.bot # NoBot)
         /\ ctl.holder = "user" => ctl.lease # 0

\* Two abbreviations for the types of the runs and of the execution leases.
Runs   == [Waiter -> {"none", "running", "waiting", "held", "resumed", "done"}]
Leases == [Bots -> [run : Waiter \cup {NoRun}, live : BOOLEAN]]

LEMMA TypesInParts ==
    ASSUME TakeTypeOK
    PROVE  /\ refusals \in 0 .. MaxRefusal /\ CtlOK /\ run \in Runs
           /\ execLease \in Leases /\ req \in [Req -> ReqRec]
BY DEF TakeTypeOK, CtlOK, ReqRec, Ats, Runs, Leases

LEMMA TypesTogether ==
    ASSUME refusals' \in 0 .. MaxRefusal, CtlOK', run' \in Runs, execLease' \in Leases,
           req' \in [Req -> ReqRec]
    PROVE  TakeTypeOK'
BY DEF TakeTypeOK, CtlOK, ReqRec, Ats, Runs, Leases

\* A new lease is one nobody knows.
LEMMA NewLeaseIsNew ==
    ASSUME LeaseIsLeft
    PROVE  NewLease \in Lease /\ ~Known(NewLease)
BY DEF LeaseIsLeft, NewLease

\* What a step may do to the control columns without surprising a request that
\* is under way: keep lease and bot, clear them, or set a lease nobody knows.
Moves ==
    \/ /\ ctl'.lease = ctl.lease /\ ctl'.bot = ctl.bot
       /\ ctl'.holder = ctl.holder \/ ctl'.holder # "user"
    \/ ctl'.lease = 0 /\ ctl'.holder # "user"
    \/ ~Known(ctl'.lease)

LEMMA OthersSound ==
    ASSUME NEW q \in Req, Sound(q), req'[q] = req[q], Moves
    PROVE  Sound(q)'
<1>1. Aimed(q)' /\ KindFits(q)'
  BY DEF Sound, Aimed, KindFits
<1>2. Ousts(q)'
  BY DEF Sound, Ousts, Moves, Known
<1>3. Denies(q)'
  BY DEF Sound, Denies, Moves, Known
<1> QED
  BY <1>1, <1>2, <1>3 DEF Sound

LEMMA Refuses == refusals \in 0 .. MaxRefusal /\ Refusal => refusals' \in 0 .. MaxRefusal
BY TakeoverAssumption DEF Refusal

-----------------------------------------------------------------------------
(* The invariant is inductive: the runs.                                   *)

\* The control a paused run leaves behind.
LEMMA PauseControl ==
    ASSUME CtlOK, NEW r \in Waiter, Pause(r)
    PROVE  CtlOK' /\ Moves
<1>1. CASE ~Active(ctl)
  <2>1. ctl' = Cleared("none", r)
    BY <1>1 DEF Pause
  <2> QED
    BY <2>1, KnownColumns DEF CtlOK, Cleared, Moves
<1>2. CASE Active(ctl) /\ ctl.bot = RunBot[r]
  <2>1. ctl' = [ctl EXCEPT !.run = r]
    BY <1>2 DEF Pause
  <2>2. ctl' \in Columns
    BY <2>1, ChangedColumns DEF CtlOK
  <2>3. ctl'.lease = ctl.lease /\ ctl'.bot = ctl.bot /\ ctl'.holder = ctl.holder
    BY <2>1 DEF CtlOK, Columns
  <2> QED
    BY <2>2, <2>3 DEF CtlOK, Moves
<1>3. CASE Active(ctl) /\ ctl.bot # RunBot[r]
  BY <1>3 DEF Pause, CtlOK, Moves
<1> QED
  BY <1>1, <1>2, <1>3

LEMMA RunsKeep ==
    ASSUME TakeTypeOK, NEW r \in Waiter, RunStep(r)
    PROVE  TakeTypeOK' /\ req' = req /\ Moves
<1> USE TakeoverAssumption
<1>0. /\ refusals \in 0 .. MaxRefusal /\ CtlOK /\ run \in Runs /\ execLease \in Leases
      /\ req \in [Req -> ReqRec] /\ RunBot[r] \in Bots
  BY TypesInParts DEF Bots
<1>1. /\ req' = req /\ refusals' = refusals /\ CtlOK' /\ Moves
  <2>1. CASE Pause(r)
    BY <1>0, <2>1, PauseControl DEF Pause
  <2>2. CASE RunStarts(r) \/ RunEnds(r) \/ Steer(r) \/ Requeue(r)
    BY <1>0, <2>2 DEF RunStarts, RunEnds, Steer, Requeue, CtlOK, Moves
  <2> QED
    BY <2>1, <2>2 DEF RunStep
<1>2. run' \in Runs
  BY <1>0 DEF RunStep, RunStarts, RunEnds, Steer, Requeue, Pause, Runs
<1>3. execLease' \in Leases
  <2>1. [run |-> r, live |-> TRUE] \in [run : Waiter \cup {NoRun}, live : BOOLEAN]
    OBVIOUS
  <2>2. Takes(r) => execLease' \in Leases
    BY <1>0, <2>1 DEF Takes, Leases
  <2>3. Drops(r) => execLease' \in Leases
    <3>1. execLease[RunBot[r]] \in [run : Waiter \cup {NoRun}, live : BOOLEAN]
      BY <1>0 DEF Leases
    <3>2. (execLease[RunBot[r]].live /\ ~HasOwn(r)) \in BOOLEAN
      BY DEF HasOwn
    <3>3. [execLease[RunBot[r]] EXCEPT !.live = execLease[RunBot[r]].live /\ ~HasOwn(r)]
            \in [run : Waiter \cup {NoRun}, live : BOOLEAN]
      BY <3>1, <3>2, ZenonT(30)
    <3> QED
      BY <1>0, <3>3 DEF Drops, Leases
  <2> QED
    BY <1>0, <2>2, <2>3 DEF RunStep, RunStarts, RunEnds, Steer, Requeue, Pause
<1> QED
  BY <1>0, <1>1, <1>2, <1>3, TypesTogether

-----------------------------------------------------------------------------
(* The requests.                                                           *)

OthersStay(q) == \A p \in Req \ {q} : req'[p] = req[p]

\* What a request is after a step, and that the others are what they were.
LEMMA RequestAfter ==
    ASSUME req \in [Req -> ReqRec], NEW q \in Req, NEW at, NEW s, NEW kind, NEW b
    PROVE  /\ Becomes(q, at, s) =>
                 /\ OthersStay(q) /\ req'[q].at = at /\ req'[q].saw = s
                 /\ req'[q].kind = req[q].kind /\ req'[q].bot = req[q].bot
           /\ Stays(q, at) =>
                 /\ OthersStay(q) /\ req'[q].at = at /\ req'[q].saw = req[q].saw
                 /\ req'[q].kind = req[q].kind /\ req'[q].bot = req[q].bot
           /\ Starts(q, kind, b, at, s) =>
                 /\ OthersStay(q) /\ req'[q].at = at /\ req'[q].saw = s
                 /\ req'[q].kind = kind /\ req'[q].bot = b
           /\ Ends(q) => OthersStay(q) /\ req'[q].at = "idle" /\ req'[q].kind = "none"
BY DEF Becomes, Stays, Starts, Ends, OthersStay, ReqRec, Idle

\* A request that ends is sound.
LEMMA EndedSound ==
    ASSUME NEW q \in Req, req'[q].at = "idle", req'[q].kind = "none"
    PROVE  Sound(q)'
BY DEF Sound, Aimed, Ousts, Denies, KindFits

LEMMA AsksKeep ==
    ASSUME TakeTypeOK, NEW q \in Req, Asks(q)
    PROVE  TakeTypeOK' /\ OthersStay(q) /\ Moves /\ Sound(q)'
<1> USE TakeoverAssumption
<1>0. /\ refusals \in 0 .. MaxRefusal /\ CtlOK /\ run \in Runs /\ execLease \in Leases
      /\ req \in [Req -> ReqRec]
      /\ ctl.lease \in 0 .. MaxLease /\ ctl.run \in Waiter \cup {NoRun}
  BY TypesInParts DEF CtlOK, Columns
<1>1. /\ UNCHANGED <<ctl, run, execLease, refusals>>
  BY DEF Asks, TakeControl, GiveBack, Teach, EndLesson, ExpiryJob
<1>2. CtlOK' /\ Moves
  BY <1>0, <1>1 DEF CtlOK, Moves
<1>3. /\ ctl \in Columns /\ Knows(ctl.lease) \in Columns /\ Bound(ctl.run) \in Columns
      /\ [Knows(ctl.lease) EXCEPT !.run = ctl.run] \in Columns
      /\ [ctl EXCEPT !.run = NoRun] \in Columns
  BY <1>0, KnownColumns, ChangedColumns DEF CtlOK
<1>4. Knows(ctl.lease).lease = ctl.lease
  BY DEF Knows, Nothing, Cleared
<1>5. SUFFICES req' \in [Req -> ReqRec] /\ OthersStay(q) /\ Sound(q)'
  <2> HIDE DEF Moves
  <2> QED
    BY <1>0, <1>1, <1>2, TypesTogether
<1> HIDE DEF Starts
<1>6. ASSUME NEW b \in Bots, TakeControl(q, b)
      PROVE  req' \in [Req -> ReqRec] /\ OthersStay(q) /\ Sound(q)'
  <2>1. CASE Active(ctl) /\ ctl.bot # b /\ Starts(q, "takeover", b, "oust", Knows(ctl.lease))
    <3>1. req' \in [Req -> ReqRec]
      BY <1>0, <1>3, <2>1, RequestMoves DEF Ats
    <3>2. /\ OthersStay(q) /\ req'[q].at = "oust" /\ req'[q].saw = Knows(ctl.lease)
          /\ req'[q].kind = "takeover" /\ req'[q].bot = b
      BY <1>0, <2>1, RequestAfter
    <3>3. Sound(q)'
      BY <1>1, <1>4, <1>6, <2>1, <3>2 DEF Sound, Aimed, Ousts, Denies, KindFits, Active
    <3> QED
      BY <3>1, <3>2, <3>3
  <2>2. ASSUME NEW at \in {"bind", "expire", "ask"}, NEW s \in Columns,
               Starts(q, "takeover", b, at, s)
        PROVE  req' \in [Req -> ReqRec] /\ OthersStay(q) /\ Sound(q)'
    <3>1. req' \in [Req -> ReqRec]
      BY <1>0, <2>2, RequestMoves DEF Ats
    <3>2. OthersStay(q) /\ req'[q].at = at /\ req'[q].kind = "takeover" /\ req'[q].bot = b
      BY <1>0, <2>2, RequestAfter
    <3>3. Sound(q)'
      BY <1>6, <3>2 DEF Sound, Aimed, Ousts, Denies, KindFits
    <3> QED
      BY <3>1, <3>2, <3>3
  <2> QED
    BY <1>3, <1>6, <2>1, <2>2 DEF TakeControl
<1>7. ASSUME NEW b \in Bots, GiveBack(q, b) \/ EndLesson(q, b)
      PROVE  req' \in [Req -> ReqRec] /\ OthersStay(q) /\ Sound(q)'
  <2>1. CASE ctl.bot = b /\ Starts(q, "release", b, "revoke", ctl)
    <3>1. req' \in [Req -> ReqRec]
      BY <1>0, <1>3, <2>1, RequestMoves DEF Ats
    <3>2. /\ OthersStay(q) /\ req'[q].at = "revoke" /\ req'[q].saw = ctl
          /\ req'[q].kind = "release" /\ req'[q].bot = b
      BY <1>0, <2>1, RequestAfter
    <3>3. Sound(q)'
      BY <2>1, <3>2 DEF Sound, Aimed, Ousts, Denies, KindFits
    <3> QED
      BY <3>1, <3>2, <3>3
  <2>2. CASE Starts(q, "release", b, "expire", Knows(ctl.lease))
    <3>1. req' \in [Req -> ReqRec]
      BY <1>0, <1>3, <2>2, RequestMoves DEF Ats
    <3>2. OthersStay(q) /\ req'[q].at = "expire" /\ req'[q].kind = "release"
      BY <1>0, <2>2, RequestAfter
    <3>3. Sound(q)'
      BY <3>2 DEF Sound, Aimed, Ousts, Denies, KindFits
    <3> QED
      BY <3>1, <3>2, <3>3
  <2> QED
    BY <1>7, <2>1, <2>2 DEF GiveBack, EndLesson
<1>8. ASSUME NEW b \in Bots, Teach(q, b)
      PROVE  req' \in [Req -> ReqRec] /\ OthersStay(q) /\ Sound(q)'
  <2>1. Starts(q, "teach", b, "cancel", [ctl EXCEPT !.run = NoRun])
    BY <1>8 DEF Teach
  <2>2. req' \in [Req -> ReqRec]
    BY <1>0, <1>3, <2>1, RequestMoves DEF Ats
  <2>3. OthersStay(q) /\ req'[q].at = "cancel" /\ req'[q].kind = "teach" /\ req'[q].bot = b
    BY <1>0, <2>1, RequestAfter
  <2>4. Sound(q)'
    BY <1>8, <2>3 DEF Sound, Aimed, Ousts, Denies, KindFits
  <2> QED
    BY <2>2, <2>3, <2>4
<1>9. ASSUME ExpiryJob(q)
      PROVE  req' \in [Req -> ReqRec] /\ OthersStay(q) /\ Sound(q)'
  <2>1. Starts(q, "expiry", NoBot, "expire", Knows(ctl.lease))
    BY <1>9 DEF ExpiryJob
  <2>2. req' \in [Req -> ReqRec]
    BY <1>0, <1>3, <2>1, RequestMoves DEF Ats
  <2>3. OthersStay(q) /\ req'[q].at = "expire" /\ req'[q].kind = "expiry"
    BY <1>0, <2>1, RequestAfter
  <2>4. Sound(q)'
    BY <2>3 DEF Sound, Aimed, Ousts, Denies, KindFits
  <2> QED
    BY <2>2, <2>3, <2>4
<1> QED
  BY <1>6, <1>7, <1>8, <1>9 DEF Asks

\* The control columns after a step of a request.
LEMMA ReqControl ==
    ASSUME TakeInv, NEW q \in Req, ReqStep(q)
    PROVE  CtlOK' /\ Moves
<1> USE TakeoverAssumption
<1>0. /\ CtlOK /\ ctl \in Columns /\ run \in Runs /\ execLease \in Leases
      /\ req[q] \in ReqRec /\ Sound(q)
      /\ ctl.lease \in 0 .. MaxLease /\ ctl.bot \in Bots \cup {NoBot}
      /\ ctl.run \in Waiter \cup {NoRun} /\ req[q].saw.run \in Waiter \cup {NoRun}
  BY TypesInParts DEF TakeInv, CtlOK, Columns, ReqRec
<1>1. CASE UNCHANGED ctl
  BY <1>0, <1>1 DEF CtlOK, Moves
<1>2. ASSUME NEW x \in Waiter, ctl' = [ctl EXCEPT !.run = x]
      PROVE  CtlOK' /\ Moves
  <2>1. ctl' \in Columns
    BY <1>0, <1>2, ChangedColumns
  <2>2. ctl'.lease = ctl.lease /\ ctl'.bot = ctl.bot /\ ctl'.holder = ctl.holder
    BY <1>0, <1>2 DEF Columns
  <2> QED
    BY <1>0, <2>1, <2>2 DEF CtlOK, Moves
<1>3. CASE ctl' = [ctl EXCEPT !.holder = "none"]
  <2>1. ctl' \in Columns
    BY <1>0, <1>3, ChangedColumns
  <2>2. ctl'.lease = ctl.lease /\ ctl'.bot = ctl.bot /\ ctl'.holder = "none"
    BY <1>0, <1>3 DEF Columns
  <2> QED
    BY <1>0, <2>1, <2>2 DEF CtlOK, Moves
<1>4. CASE ctl' = [ctl EXCEPT !.due = FALSE]
  <2>1. ctl' \in Columns
    BY <1>0, <1>4, ChangedColumns
  <2>2. ctl'.lease = ctl.lease /\ ctl'.bot = ctl.bot /\ ctl'.holder = ctl.holder
    BY <1>0, <1>4 DEF Columns
  <2> QED
    BY <1>0, <2>1, <2>2 DEF CtlOK, Moves
<1>5. ASSUME NEW h \in {"none", "bot"}, ctl' = Cleared(h, NoRun)
      PROVE  CtlOK' /\ Moves
  BY <1>5, KnownColumns DEF CtlOK, Moves, Cleared
<1>6. ASSUME LeaseIsLeft, req[q].bot \in Bots, NEW x \in Waiter \cup {NoRun},
             ctl' = [holder |-> "user", lease |-> NewLease, due |-> FALSE,
                     bot |-> req[q].bot, run |-> x]
      PROVE  CtlOK' /\ Moves
  <2>1. NewLease \in 0 .. MaxLease /\ NewLease # 0 /\ ~Known(NewLease)
    BY <1>6, NewLeaseIsNew DEF Lease
  <2>2. /\ ctl'.holder = "user" /\ ctl'.lease = NewLease /\ ctl'.due = FALSE
        /\ ctl'.bot = req[q].bot /\ ctl'.run = x
    BY <1>6
  <2>3. ctl' \in Columns
    BY <1>6, <2>1 DEF Columns
  <2> QED
    BY <1>6, <2>1, <2>2, <2>3 DEF CtlOK, Moves
<1>7. CASE Bind(q)
  <2>1. req[q].bot \in Bots
    BY <1>0, <1>7 DEF Bind, Sound, KindFits, Aimed
  <2>2. execLease[req[q].bot].run \in Waiter \cup {NoRun}
    BY <1>0, <2>1 DEF Leases
  <2> QED
    BY <1>1, <1>2, <1>7, <2>2 DEF Bind
<1>8. CASE Preempt(q) \/ Schedule(q)
  <2>1. UNCHANGED ctl \/ ctl' = Cleared("none", NoRun)
    BY <1>8 DEF Preempt, Schedule, Nothing
  <2> QED
    BY <1>1, <1>5, <2>1
<1>9. CASE Grant(q)
  <2>1. req[q].bot \in Bots
    BY <1>0, <1>9 DEF Grant, Sound, KindFits, Aimed
  <2> QED
    BY <1>0, <1>1, <1>6, <1>9, <2>1 DEF Grant
<1>10. CASE Deny(q)
  BY <1>1, <1>3, <1>10 DEF Deny
<1>11. CASE Finalize(q)
  BY <1>1, <1>5, <1>11 DEF Finalize
<1>12. CASE Extend(q)
  BY <1>1, <1>4, <1>12 DEF Extend
<1>13. CASE Seize(q)
  <2>1. req[q].bot \in Bots
    BY <1>0, <1>13 DEF Seize, Sound, Aimed
  <2> QED
    BY <1>0, <1>1, <1>6, <1>13, <2>1 DEF Seize
<1>14. CASE Oust(q) \/ Reread(q) \/ AskLease(q) \/ LookDue(q) \/ Revoke(q) \/ CancelRuns(q)
  BY <1>1, <1>14 DEF Oust, Reread, AskLease, LookDue, Revoke, CancelRuns
<1> QED
  BY <1>7, <1>8, <1>9, <1>10, <1>11, <1>12, <1>13, <1>14 DEF ReqStep

\* Runs, execution leases and refusals after a step of a request.
LEMMA ReqRest ==
    ASSUME TakeInv, NEW q \in Req, ReqStep(q)
    PROVE  run' \in Runs /\ execLease' \in Leases /\ refusals' \in 0 .. MaxRefusal
<1>0. /\ run \in Runs /\ execLease \in Leases /\ req[q] \in ReqRec /\ Sound(q)
      /\ refusals \in 0 .. MaxRefusal
  BY TypesInParts DEF TakeInv
<1>1. refusals' \in 0 .. MaxRefusal
  BY <1>0, Refuses
     DEF ReqStep, Bind, Oust, Preempt, Reread, AskLease, Grant, Schedule, LookDue, Deny, Revoke,
         Finalize, CancelRuns, Extend, Seize
<1>2. CASE Finalize(q)
  BY <1>0, <1>1, <1>2 DEF Finalize, Runs
<1>3. CASE CancelRuns(q)
  <2>1. req[q].bot \in Bots
    BY <1>0, <1>3 DEF CancelRuns, Sound, Aimed
  <2>2. run' \in Runs
    BY <1>0, <1>3 DEF CancelRuns, Runs
  <2>3. execLease' \in Leases
    <3>1. [execLease[req[q].bot] EXCEPT !.live = FALSE] \in [run : Waiter \cup {NoRun}, live : BOOLEAN]
      <4>1. execLease[req[q].bot] \in [run : Waiter \cup {NoRun}, live : BOOLEAN]
        BY <1>0, <2>1 DEF Leases
      <4> QED
        BY <4>1, ZenonT(30)
    <3> QED
      BY <1>0, <1>3, <3>1 DEF CancelRuns, Leases
  <2> QED
    BY <1>1, <2>2, <2>3
<1>4. CASE ~Finalize(q) /\ ~CancelRuns(q)
  BY <1>0, <1>1, <1>4
     DEF ReqStep, Bind, Oust, Preempt, Reread, AskLease, Grant, Schedule, LookDue, Deny, Revoke,
         Extend, Seize
<1> QED
  BY <1>2, <1>3, <1>4

\* A request that ends, or that goes on to where nothing is asked of it.
LEMMA EndsKeeps ==
    ASSUME req \in [Req -> ReqRec], NEW q \in Req, Ends(q)
    PROVE  req' \in [Req -> ReqRec] /\ OthersStay(q) /\ Sound(q)'
<1>1. req' \in [Req -> ReqRec]
  BY IdleIsRequest DEF Ends
<1>2. OthersStay(q) /\ req'[q].at = "idle" /\ req'[q].kind = "none"
  BY DEF Ends, OthersStay, Idle
<1> QED
  BY <1>1, <1>2, EndedSound

LEMMA GoesOnKeeps ==
    ASSUME req \in [Req -> ReqRec], NEW q \in Req, Sound(q), NEW s \in Columns,
           NEW at \in Ats \ {"oust", "preempt", "deny", "revoke", "finalize"},
           at \in {"bind", "reread", "expired", "ask", "grant", "schedule"} =>
               req[q].kind = "takeover",
           at \in {"cancel", "extend", "seize"} => req[q].bot \in Bots,
           Becomes(q, at, s)
    PROVE  req' \in [Req -> ReqRec] /\ OthersStay(q) /\ Sound(q)'
<1>1. req' \in [Req -> ReqRec]
  <2>1. at \in Ats
    OBVIOUS
  <2> QED
    BY <2>1, RequestMoves
<1>2. /\ OthersStay(q) /\ req'[q].at = at
      /\ req'[q].kind = req[q].kind /\ req'[q].bot = req[q].bot
  BY RequestAfter
<1>3. Sound(q)'
  BY <1>2 DEF Sound, Aimed, Ousts, Denies, KindFits
<1> QED
  BY <1>1, <1>2, <1>3

LEMMA ReqItself ==
    ASSUME TakeInv, NEW q \in Req, ReqStep(q)
    PROVE  req' \in [Req -> ReqRec] /\ OthersStay(q) /\ Sound(q)'
<1> USE TakeoverAssumption
<1>0. /\ CtlOK /\ run \in Runs /\ execLease \in Leases
      /\ req \in [Req -> ReqRec] /\ req[q] \in ReqRec /\ Sound(q)
      /\ ctl \in Columns /\ ctl.lease \in 0 .. MaxLease /\ ctl.run \in Waiter \cup {NoRun}
      /\ req[q].saw \in Columns /\ req[q].saw.lease \in 0 .. MaxLease
      /\ NoRun \in Waiter \cup {NoRun}
  BY TypesInParts DEF TakeInv, CtlOK, Columns, ReqRec
<1> DEFINE Goal == req' \in [Req -> ReqRec] /\ OthersStay(q) /\ Sound(q)'
<1> SUFFICES Goal
  OBVIOUS
<1> HIDE DEF Goal
<1>1. CASE Ends(q)
  BY <1>0, <1>1, EndsKeeps DEF Goal
<1>2. ASSUME NEW s \in Columns, NEW at \in {"bind", "reread", "expired", "ask", "grant", "schedule"},
             req[q].kind = "takeover", Becomes(q, at, s)
      PROVE  Goal
  <2>1. at \in Ats \ {"oust", "preempt", "deny", "revoke", "finalize"}
    BY DEF Ats
  <2> QED
    BY <1>0, <1>2, <2>1, GoesOnKeeps DEF Goal
<1>3. CASE Returns(q)
  BY <1>1, <1>2, <1>3, KnownColumns DEF Returns
<1>4. CASE Bind(q) \/ Schedule(q) \/ Seize(q)
  BY <1>1, <1>4 DEF Bind, Schedule, Seize
<1>5. CASE Oust(q)
  <2>1. CASE Stays(q, "preempt") /\ UNCHANGED ctl
    <3>1. req' \in [Req -> ReqRec]
      BY <1>0, <2>1, RequestMoves DEF Ats
    <3>2. /\ OthersStay(q) /\ req'[q].at = "preempt" /\ req'[q].saw = req[q].saw
          /\ req'[q].kind = req[q].kind /\ req'[q].bot = req[q].bot
      BY <1>0, <2>1, RequestAfter
    <3>3. Sound(q)'
      BY <1>0, <1>5, <2>1, <3>2 DEF Oust, Sound, Aimed, Ousts, Denies, KindFits
    <3> QED
      BY <3>1, <3>2, <3>3 DEF Goal
  <2> QED
    BY <1>1, <1>5, <2>1 DEF Oust
<1>6. CASE Preempt(q)
  <2>1. req[q].kind = "takeover"
    BY <1>0, <1>6 DEF Preempt, Sound, KindFits
  <2> QED
    BY <1>2, <1>6, <2>1, KnownColumns DEF Preempt
<1>7. CASE Reread(q)
  <2>1. req[q].kind = "takeover"
    BY <1>0, <1>7 DEF Reread, Sound, KindFits
  <2>2. CASE Becomes(q, "expire", Knows(ctl.lease))
    <3>1. "expire" \in Ats \ {"oust", "preempt", "deny", "revoke", "finalize"}
      BY DEF Ats
    <3>2. Knows(ctl.lease) \in Columns
      BY <1>0, KnownColumns
    <3> QED
      BY <1>0, <2>2, <3>1, <3>2, GoesOnKeeps DEF Goal
  <2>3. CASE Becomes(q, "ask", Bound(ctl.run))
    BY <1>0, <1>2, <2>1, <2>3, KnownColumns
  <2> QED
    BY <1>7, <2>2, <2>3 DEF Reread
<1>8. CASE AskLease(q)
  <2>1. req[q].kind = "takeover" /\ req[q].bot \in Bots
    BY <1>0, <1>8 DEF AskLease, Sound, KindFits, Aimed
  <2>2. execLease[req[q].bot].run \in Waiter \cup {NoRun}
    BY <1>0, <2>1 DEF Leases
  <2>3. Bound(IF WaitingForTakeover(q) THEN execLease[req[q].bot].run ELSE NoRun) \in Columns
    BY <1>0, <2>2, KnownColumns
  <2> QED
    BY <1>1, <1>2, <1>8, <2>1, <2>3 DEF AskLease
<1>9. CASE Grant(q)
  <2>1. req[q].kind = "takeover"
    BY <1>0, <1>9 DEF Grant, Sound, KindFits
  <2>2. CtlOK'
    BY <1>9, ReqControl DEF ReqStep
  <2>3. Knows(ctl'.lease) \in Columns
    BY <2>2, KnownColumns DEF CtlOK, Columns
  <2>4. [Knows(ctl.lease) EXCEPT !.run = ctl.run] \in Columns
    BY <1>0, KnownColumns
  <2> QED
    BY <1>1, <1>2, <1>9, <2>1, <2>3, <2>4 DEF Grant
<1>10. CASE LookDue(q)
  <2>1. CASE Becomes(q, "deny", [ctl EXCEPT !.holder = "none"]) /\ ctl.due
    <3>1. [ctl EXCEPT !.holder = "none"] \in Columns /\ [ctl EXCEPT !.holder = "none"].due
      BY <1>0, <2>1, ChangedColumns DEF Columns
    <3>2. req' \in [Req -> ReqRec]
      BY <1>0, <2>1, <3>1, RequestMoves DEF Ats
    <3>3. /\ OthersStay(q) /\ req'[q].at = "deny" /\ req'[q].saw = [ctl EXCEPT !.holder = "none"]
          /\ req'[q].kind = req[q].kind /\ req'[q].bot = req[q].bot
      BY <1>0, <2>1, RequestAfter
    <3>4. Sound(q)'
      BY <1>0, <3>1, <3>3 DEF Sound, Aimed, Ousts, Denies, KindFits
    <3> QED
      BY <3>2, <3>3, <3>4 DEF Goal
  <2> QED
    BY <1>3, <1>10, <2>1 DEF LookDue, NotDue
<1>11. CASE Deny(q)
  <2>1. CASE Stays(q, "revoke") /\ ctl' = [ctl EXCEPT !.holder = "none"]
    <3>1. req' \in [Req -> ReqRec]
      BY <1>0, <2>1, RequestMoves DEF Ats
    <3>2. /\ OthersStay(q) /\ req'[q].at = "revoke"
          /\ req'[q].kind = req[q].kind /\ req'[q].bot = req[q].bot
      BY <1>0, <2>1, RequestAfter
    <3>3. ctl'.holder = "none"
      BY <1>0, <2>1 DEF Columns
    <3>4. Sound(q)'
      BY <1>0, <3>2, <3>3 DEF Sound, Aimed, Ousts, Denies, KindFits
    <3> QED
      BY <3>1, <3>2, <3>4 DEF Goal
  <2> QED
    BY <1>3, <1>11, <2>1 DEF Deny
<1>12. CASE Revoke(q)
  <2>1. CASE Stays(q, "finalize") /\ UNCHANGED ctl
    <3>1. req' \in [Req -> ReqRec]
      BY <1>0, <2>1, RequestMoves DEF Ats
    <3>2. /\ OthersStay(q) /\ req'[q].at = "finalize" /\ req'[q].saw = req[q].saw
          /\ req'[q].kind = req[q].kind /\ req'[q].bot = req[q].bot
      BY <1>0, <2>1, RequestAfter
    <3>3. Sound(q)'
      BY <1>0, <1>12, <2>1, <3>2 DEF Revoke, Sound, Aimed, Ousts, Denies, KindFits
    <3> QED
      BY <3>1, <3>2, <3>3 DEF Goal
  <2> QED
    BY <1>1, <1>12, <2>1 DEF Revoke
<1>13. CASE Finalize(q)
  BY <1>3, <1>13 DEF Finalize
<1>14. ASSUME CancelRuns(q) \/ Extend(q) PROVE Goal
  <2>1. req[q].bot \in Bots
    BY <1>0, <1>14 DEF CancelRuns, Extend, Sound, Aimed
  <2>2. ASSUME NEW s \in Columns, NEW at \in {"extend", "seize"}, Becomes(q, at, s) PROVE Goal
    <3>1. at \in Ats \ {"oust", "preempt", "deny", "revoke", "finalize"}
      BY DEF Ats
    <3> QED
      BY <1>0, <2>1, <2>2, <3>1, GoesOnKeeps DEF Goal
  <2>3. Knows(req[q].saw.lease) \in Columns /\ Nothing \in Columns
    BY <1>0, KnownColumns
  <2> QED
    BY <1>1, <1>14, <2>2, <2>3 DEF CancelRuns, Extend
<1> QED
  BY <1>4, <1>5, <1>6, <1>7, <1>8, <1>9, <1>10, <1>11, <1>12, <1>13, <1>14 DEF ReqStep, Goal

LEMMA FallsDueKeeps ==
    ASSUME CtlOK, FallsDue
    PROVE  CtlOK' /\ Moves
<1>1. ctl' \in Columns
  BY ChangedColumns DEF FallsDue, CtlOK
<1>2. ctl'.lease = ctl.lease /\ ctl'.bot = ctl.bot /\ ctl'.holder = ctl.holder
  BY DEF FallsDue, CtlOK, Columns
<1> QED
  BY <1>1, <1>2 DEF CtlOK, Moves

LEMMA TakeInvStep == TakeInv /\ [TakeNext]_takeVars => TakeInv'
<1> SUFFICES ASSUME TakeInv, [TakeNext]_takeVars PROVE TakeInv'
  OBVIOUS
<1>0. /\ TakeTypeOK /\ refusals \in 0 .. MaxRefusal /\ CtlOK /\ run \in Runs
      /\ execLease \in Leases /\ req \in [Req -> ReqRec] /\ \A q \in Req : Sound(q)
  BY TypesInParts DEF TakeInv
<1>1. ASSUME NEW q \in Req, OthersStay(q), Sound(q)', Moves
      PROVE  \A p \in Req : Sound(p)'
  <2>1. \A p \in Req \ {q} : Sound(p)'
    BY <1>0, <1>1, OthersSound DEF OthersStay
  <2> QED
    BY <1>1, <2>1
<1>2. ASSUME req' = req, Moves
      PROVE  \A p \in Req : Sound(p)'
  BY <1>0, <1>2, OthersSound
<1>3. ASSUME NEW q \in Req, ReqStep(q) PROVE TakeInv'
  <2>1. TakeTypeOK'
    BY <1>3, ReqControl, ReqRest, ReqItself, TypesTogether
  <2>2. Moves /\ OthersStay(q) /\ Sound(q)'
    BY <1>3, ReqControl, ReqItself
  <2> QED
    BY <1>1, <2>1, <2>2 DEF TakeInv
<1>4. ASSUME NEW q \in Req, Asks(q) PROVE TakeInv'
  BY <1>0, <1>1, <1>4, AsksKeep DEF TakeInv
<1>5. ASSUME NEW q \in Req, Dies(q) PROVE TakeInv'
  <2>1. /\ Ends(q) /\ UNCHANGED <<ctl, run, execLease>> /\ refusals' \in 0 .. MaxRefusal
    BY <1>0, <1>5, Refuses DEF Dies
  <2>2. CtlOK' /\ Moves
    BY <1>0, <2>1 DEF CtlOK, Moves
  <2>3. req' \in [Req -> ReqRec] /\ OthersStay(q) /\ Sound(q)'
    BY <1>0, <2>1, EndsKeeps
  <2>4. TakeTypeOK'
    BY <1>0, <2>1, <2>2, <2>3, TypesTogether
  <2> QED
    BY <1>1, <2>2, <2>3, <2>4 DEF TakeInv
<1>6. ASSUME NEW r \in Waiter, RunStep(r) PROVE TakeInv'
  BY <1>0, <1>2, <1>6, RunsKeep DEF TakeInv
<1>7. CASE FallsDue
  <2>1. CtlOK' /\ Moves /\ UNCHANGED <<run, execLease, req, refusals>>
    BY <1>0, <1>7, FallsDueKeeps DEF FallsDue
  <2>2. TakeTypeOK'
    BY <1>0, <2>1, TypesTogether
  <2> QED
    BY <1>2, <2>1, <2>2 DEF TakeInv
<1>9. ASSUME NEW b \in Bots, Lapses(b) PROVE TakeInv'
  <2>1. UNCHANGED <<ctl, run, req, refusals>> /\ execLease' = [execLease EXCEPT ![b].live = FALSE]
    BY <1>9 DEF Lapses
  <2>2. CtlOK' /\ Moves
    BY <1>0, <2>1 DEF CtlOK, Moves
  <2>3. execLease' \in Leases
    BY <1>0, <2>1 DEF Leases
  <2>4. TakeTypeOK'
    BY <1>0, <2>1, <2>2, <2>3, TypesTogether
  <2> QED
    BY <1>2, <2>1, <2>2, <2>4 DEF TakeInv
<1>8. CASE UNCHANGED takeVars
  <2>1. UNCHANGED <<ctl, run, execLease, req, refusals>>
    BY <1>8 DEF takeVars
  <2>2. CtlOK' /\ Moves
    BY <1>0, <2>1 DEF CtlOK, Moves
  <2>3. TakeTypeOK'
    BY <1>0, <2>1, <2>2, TypesTogether
  <2> QED
    BY <1>2, <2>1, <2>2, <2>3 DEF TakeInv
<1> QED
  BY <1>3, <1>4, <1>5, <1>6, <1>7, <1>8, <1>9 DEF TakeNext

LEMMA TakeInvHolds == TakeSpec => []TakeInv
<1>1. TakeInit => TakeInv
  <2> SUFFICES ASSUME TakeInit PROVE TakeInv
    OBVIOUS
  <2>1. /\ refusals \in 0 .. MaxRefusal /\ run \in Runs
    BY TakeoverAssumption DEF TakeInit, Runs
  <2>2. CtlOK
    BY KnownColumns DEF TakeInit, CtlOK, Nothing, Cleared
  <2>3. execLease \in Leases
    BY DEF TakeInit, Leases
  <2>4. req \in [Req -> ReqRec]
    BY IdleIsRequest DEF TakeInit
  <2>5. TakeTypeOK
    BY <2>1, <2>2, <2>3, <2>4 DEF TakeTypeOK, CtlOK, ReqRec, Ats, Runs, Leases
  <2>6. \A q \in Req : Sound(q)
    BY DEF TakeInit, Idle, Sound, Aimed, Ousts, Denies, KindFits
  <2> QED
    BY <2>5, <2>6 DEF TakeInv
<1> QED
  BY <1>1, TakeInvStep, PTL DEF TakeSpec

-----------------------------------------------------------------------------

\* Every variable has its type; a lease has a bot, and a user in control a lease.
THEOREM TakeoverTypes == TakeSpec => []TakeTypeOK
<1>1. TakeInv => TakeTypeOK
  BY DEF TakeInv
<1> QED
  BY <1>1, TakeInvHolds, PTL

\* A control whose time has not come is taken from the user only by the release
\* of its own bot, by a takeover for another bot, by a grant whose expiry could
\* not be scheduled, or by an expiry that has found it past its time.
THEOREM ControlIsKept == TakeSpec => ActiveControlKept
<1> DEFINE Taken == Active(ctl) /\ ~ctl'.due /\ ~Active(ctl')
           TakenBy(q) == \/ Finalize(q) /\ req[q].kind = "release" /\ req[q].bot = ctl.bot
                         \/ Preempt(q) /\ req[q].bot # ctl.bot
                         \/ Schedule(q)
                         \/ Deny(q) /\ req[q].saw.due
<1>1. TakeInv /\ [TakeNext]_takeVars => [Taken => \E q \in Req : TakenBy(q)]_takeVars
  <2> SUFFICES ASSUME TakeInv, [TakeNext]_takeVars, Taken PROVE \E q \in Req : TakenBy(q)
    OBVIOUS
  <2>0. /\ ctl \in Columns /\ CtlOK /\ \A q \in Req : Sound(q)
        /\ ctl.holder = "user" /\ ctl.lease # 0 /\ ctl' # ctl
    BY TypesInParts DEF TakeInv, CtlOK, Active
  <2>1. ASSUME NEW x, ctl' = [ctl EXCEPT !.run = x] PROVE FALSE
    BY <2>0, <2>1 DEF Active, Columns
  <2>2. CASE ctl' = [ctl EXCEPT !.due = FALSE]
    BY <2>0, <2>2 DEF Active, Columns
  <2>3. ASSUME NEW b, NEW x, LeaseIsLeft,
               ctl' = [holder |-> "user", lease |-> NewLease, due |-> FALSE, bot |-> b, run |-> x]
        PROVE  FALSE
    <3>1. NewLease # 0
      BY <2>3, NewLeaseIsNew DEF Lease
    <3> QED
      BY <2>3, <3>1 DEF Active
  <2>4. ASSUME NEW q \in Req, ReqStep(q) PROVE \E p \in Req : TakenBy(p)
    <3>1. CASE Finalize(q)
      <4>1. FinalizeWhere(q)
        BY <2>0, <3>1 DEF Finalize
      <4>2. req[q].kind = "release" /\ req[q].saw.bot = req[q].bot
        BY <2>0, <3>1, <4>1 DEF Finalize, FinalizeWhere, Sound, Denies
      <4> QED
        BY <3>1, <4>1, <4>2 DEF FinalizeWhere
    <3>2. CASE Preempt(q)
      BY <2>0, <3>2 DEF Preempt, Sound, Ousts
    <3>3. CASE Schedule(q)
      BY <3>3
    <3>4. CASE Deny(q)
      BY <2>0, <3>4 DEF Deny, Sound, Denies
    <3>5. CASE Bind(q) \/ Grant(q) \/ Extend(q) \/ Seize(q)
      BY <2>0, <2>1, <2>2, <2>3, <3>5 DEF Bind, Grant, Extend, Seize
    <3>6. CASE Oust(q) \/ Reread(q) \/ AskLease(q) \/ LookDue(q) \/ Revoke(q) \/ CancelRuns(q)
      BY <2>0, <3>6 DEF Oust, Reread, AskLease, LookDue, Revoke, CancelRuns
    <3> QED
      BY <2>4, <3>1, <3>2, <3>3, <3>4, <3>5, <3>6 DEF ReqStep
  <2>5. ASSUME NEW q \in Req, Asks(q) \/ Dies(q) PROVE FALSE
    BY <2>0, <2>5 DEF Asks, Dies, TakeControl, GiveBack, Teach, EndLesson, ExpiryJob
  <2>6. ASSUME NEW r \in Waiter, RunStep(r) PROVE FALSE
    BY <2>0, <2>1, <2>6 DEF RunStep, RunStarts, RunEnds, Steer, Requeue, Pause
  <2>7. CASE FallsDue \/ (\E b \in Bots : Lapses(b))
    BY <2>0, <2>7 DEF FallsDue, Lapses, Columns
  <2>8. CASE UNCHANGED takeVars
    BY <2>0, <2>8 DEF takeVars
  <2> QED
    BY <2>4, <2>5, <2>6, <2>7, <2>8 DEF TakeNext
<1> QED
  BY <1>1, TakeInvHolds, PTL DEF TakeSpec, ActiveControlKept

-----------------------------------------------------------------------------
(* The run that a takeover finds.                                          *)

\* On a team computer the lease row of a bot names the run that waits or has been
\* steered; there is at most one then.
Named == \A r \in Waiter : run[r] \in {"waiting", "held"} => HasOwn(r)

\* A run that pauses has the row, and while the hold lasts no other run takes it.
LEMMA NamedStep ==
    ~Dedicated /\ TakeTypeOK /\ HoldsLast /\ Named /\ [TakeNext]_takeVars /\ HoldsLast' => Named'
<1> SUFFICES ASSUME ~Dedicated, TakeTypeOK, HoldsLast, Named, [TakeNext]_takeVars, HoldsLast'
             PROVE  Named'
  OBVIOUS
<1> USE DEF HasOwn
<1>0. /\ run \in Runs /\ execLease \in Leases
      /\ \A r \in Waiter : RunBot[r] \in Bots
  BY TypesInParts DEF Bots
<1>1. ASSUME run' = run, \A b \in Bots : execLease'[b].run = execLease[b].run PROVE Named'
  BY <1>0, <1>1 DEF Named
<1>2. ASSUME NEW r \in Waiter, NEW st, st \in {"waiting", "held"} => HasOwn(r),
             run' = [run EXCEPT ![r] = st], \A b \in Bots : execLease'[b].run = execLease[b].run
      PROVE  Named'
  BY <1>0, <1>2 DEF Named, Runs
<1>3. ASSUME NEW q \in Req, ReqStep(q) PROVE Named'
  <2>1. CASE Finalize(q)
    <3>1. CASE UNCHANGED run
      BY <1>1, <2>1, <3>1 DEF Finalize
    <3>2. CASE ~ UNCHANGED run
      <4> DEFINE x == req[q].saw.run
      <4>1. x # NoRun /\ run' = [run EXCEPT ![x] = "resumed"] /\ execLease' = execLease
        BY <2>1, <3>2 DEF Finalize
      <4>2. x \in Waiter
        <5>1. x \in Waiter \cup {NoRun}
          BY TypesInParts DEF ReqRec, Columns
        <5> QED
          BY <4>1, <5>1
      <4> QED
        BY <1>2, <4>1, <4>2
    <3> QED
      BY <3>1, <3>2
  <2>2. CASE CancelRuns(q)
    BY <1>0, <2>2 DEF CancelRuns, Named, Runs, Leases
  <2> QED
    BY <1>1, <1>3, <2>1, <2>2 DEF ReqStep, Bind, Oust, Preempt, Reread, AskLease, Grant,
       Schedule, LookDue, Deny, Revoke, Extend, Seize
<1>4. ASSUME NEW q \in Req, Asks(q) \/ Dies(q) PROVE Named'
  BY <1>1, <1>4 DEF Asks, Dies, TakeControl, GiveBack, Teach, EndLesson, ExpiryJob
<1>5. ASSUME NEW r \in Waiter, RunStep(r) PROVE Named'
  <2>1. CASE RunStarts(r) \/ Steer(r)
    <3>1. /\ execLease' = [execLease EXCEPT ![RunBot[r]] = [run |-> r, live |-> TRUE]]
          /\ MayTake(r) /\ \A p \in Waiter \ {r} : run'[p] = run[p]
      BY <1>0, <2>1 DEF RunStarts, Steer, Takes, Runs
    <3>2. ASSUME NEW p \in Waiter \ {r}, run[p] \in {"waiting", "held"}
          PROVE  RunBot[p] # RunBot[r]
      BY <3>1, <3>2 DEF MayTake, HoldsLast, Named
    <3>3. ASSUME NEW p \in Waiter, run'[p] \in {"waiting", "held"}
          PROVE  execLease'[RunBot[p]].run = p
      BY <1>0, <3>1, <3>2, <3>3 DEF Named, Leases
    <3> QED
      BY <3>3 DEF Named
  <2>2. CASE Pause(r)
    BY <1>2, <2>2 DEF Pause
  <2>3. CASE RunEnds(r) \/ Requeue(r)
    <3>1. \A b \in Bots : execLease'[b].run = execLease[b].run
      BY <1>0, <2>3 DEF RunEnds, Requeue, Drops, Leases
    <3> QED
      BY <1>2, <2>3, <3>1 DEF RunEnds, Requeue, Named
  <2> QED
    BY <1>5, <2>1, <2>2, <2>3 DEF RunStep
<1>6. CASE FallsDue \/ UNCHANGED takeVars
  BY <1>1, <1>6 DEF FallsDue, takeVars
<1>7. ASSUME NEW b \in Bots, Lapses(b) PROVE Named'
  <2>1. \A c \in Bots : execLease'[c].run = execLease[c].run
    BY <1>0, <1>7 DEF Lapses, Leases
  <2> QED
    BY <1>1, <1>7, <2>1 DEF Lapses
<1> QED
  BY <1>3, <1>4, <1>5, <1>6, <1>7 DEF TakeNext

\* On a team computer, while the execution lease of no run that waits or has been
\* steered lapses, a takeover that looks at it for a bot whose run waits goes on to
\* a grant that is bound to this run.
THEOREM ATakeoverFindsItsRun == ~Dedicated => (TakeSpec /\ []HoldsLast => TakeoverFindsRun)
<1> SUFFICES ASSUME ~Dedicated PROVE TakeSpec /\ []HoldsLast => TakeoverFindsRun
  OBVIOUS
<1> DEFINE Finds == \A q \in Req : AskLease(q) =>
      \A r \in Waiter : RunBot[r] = req[q].bot /\ run[r] = "waiting" =>
         req'[q].at = "grant" /\ req'[q].saw.run = r
<1>1. TakeInit => Named
  BY DEF TakeInit, Named
<1>2. TakeTypeOK /\ HoldsLast /\ Named /\ [TakeNext]_takeVars /\ HoldsLast' => Named'
  BY NamedStep
<1>3. TakeTypeOK /\ Named => Finds
  <2> SUFFICES ASSUME TakeTypeOK, Named, NEW q \in Req, AskLease(q), NEW r \in Waiter,
                      RunBot[r] = req[q].bot, run[r] = "waiting"
               PROVE  req'[q].at = "grant" /\ req'[q].saw.run = r
    OBVIOUS
  <2>1. execLease[req[q].bot].run = r /\ r # NoRun
    BY TakeoverAssumption DEF Named, HasOwn
  <2>2. WaitingForTakeover(q) /\ ~Blocked(q)
    BY <2>1 DEF WaitingForTakeover, Blocked
  <2>3. Becomes(q, "grant", Bound(r))
    BY <2>1, <2>2 DEF AskLease
  <2>4. req \in [Req -> ReqRec]
    BY TypesInParts
  <2> QED
    BY <2>3, <2>4 DEF Becomes, Bound, Nothing, Cleared, ReqRec
<1> QED
  BY <1>1, <1>2, <1>3, TakeoverTypes, PTL DEF TakeSpec, TakeoverFindsRun
=============================================================================
