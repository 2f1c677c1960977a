---------------------- MODULE ComputerLifecycle_proofs ----------------------
(***************************************************************************)
(* Theorems about ComputerLifecycle, for any bots, operations and bounds:  *)
(* a row that is running has a box, and a run at work keeps its box, for   *)
(* at most one live operation holds the claim of the row, and none takes   *)
(* it over while a run is at work.  A box that nobody names any more is    *)
(* owed to a death or a failure, and only a user's stop lowers a fence.    *)
(***************************************************************************)
EXTENDS ComputerLifecycle, FiniteSetTheorems, TLAPS

-----------------------------------------------------------------------------
(* Types.                                                                  *)

Booting   == {"provide", "setup", "undo", "record"}
Replacing == {"recheck", "destroy", "vacate", "spoil"}
Sleeping  == {"ssave", "srecheck", "sstop", "srecord"}
Stopping  == {"tcheck", "tstop", "trecord"}
AtWork    == {"work", "saving", "saved"}

\* After its claim, and before the write that ends it.
Claimed == Booting \cup Replacing \cup Sleeping \cup {"saving", "tcheck"}

\* An operation that holds the claim of the row: nobody has written it since.
Holds1(w) == w.cur /\ w.at \in Claimed
Holder(o) == Holds1(op[o])

OneHolder == \A o, p \in Op : Holder(o) /\ Holder(p) => o = p

\* What an operation of kind k has read and made, at each place.
Fit(k, w) ==
    /\ w.at \in {"setup"} \cup AtWork => w.got # 0
    /\ w.at \in {"sclaim"} \cup Sleeping => w.ref # 0 /\ k = "sleep"
    /\ w.at \in {"claim", "rclaim", "recheck", "tclaim", "tcheck"} \cup Booting
          => w.st \in States
    /\ w.at \in {"tclaim"} \cup Stopping => k = "stop"
    /\ w.at \in {"work", "saving"} => k = "run"

Boxed(c) == c.state \in {"running", "suspended"} => c.ref # 0

\* The state a replacement gives back does not need a box that the row has not.
GivesBack(w, c) ==
    Holds1(w) /\ w.at = "recheck" /\ w.st \in {"running", "suspended"} => c.ref # 0

LifeTypes ==
    /\ LifeTypeOK
    /\ OneHolder
    /\ \A o \in Op : Fit(Kind[o], op[o])
    /\ StopsAlone => \A o \in Op : GivesBack(op[o], comp)

-----------------------------------------------------------------------------
(* The claim of the row, while no user stops the computer.                 *)

SomeoneWorks == \E r \in Runs : op[r].at \in AtWork

\* A claim is its operation's alone, and one that has grown old is a boot's.  While
\* a run works it is a boot that reconnects, the run's own save, or a replacement
\* that gives the row back.
HolderOK(o) ==
    /\ comp.maint \in {NoOp, o}
    /\ abandoned => o \in Runs /\ op[o].at \in Booting
    /\ op[o].at \in Booting =>
          /\ comp.state = "booting" /\ comp.ref = op[o].ref
          /\ op[o].at = "setup" => box[op[o].got] = "up"
          /\ SomeoneWorks => /\ op[o].st = "running"
                             /\ op[o].at \in {"setup", "undo"} => op[o].got = op[o].ref
    /\ op[o].at \notin Booting => comp.state = "suspending"
    /\ op[o].at = "saving" => comp.ref = op[o].got
    /\ op[o].at = "recheck" /\ SomeoneWorks => op[o].st = "running"
    /\ op[o].at \in {"destroy", "vacate", "spoil"} \cup Sleeping => ~SomeoneWorks

\* A claim may be taken over from a row that nobody alive holds, and on which
\* nobody works.
Adopts(w) == w.cur /\ w.at \in {"claim", "rclaim"} /\ w.st \in Unstable
Awaits(w) == w.cur /\ w.at = "wait" /\ (w.seen = "booting" \/ w.old)

LookerOK(o) ==
    /\ Adopts(op[o]) \/ Awaits(op[o]) => \A p \in Op : ~Holder(p)
    /\ Adopts(op[o]) \/ (op[o].cur /\ op[o].at = "sclaim") => ~SomeoneWorks
    /\ Adopts(op[o]) /\ op[o].at = "claim" => comp.ref = op[o].ref

\* A run at work has the box of the row, and it runs.
WorkerOK(r) ==
    op[r].at \in AtWork => /\ comp.state \in {"running"} \cup Unstable
                           /\ comp.ref = op[r].got
                           /\ box[op[r].got] = "up"

\* No run is on the computer while it is reserved for an update.
Aside == {"none", "start", "leave", "done", "dead", "lapsed"}

KeptInv ==
    /\ \A o \in Op : op[o].at \in Claimed => op[o].cur
    /\ \A o \in Op : op[o].at \in Claimed => HolderOK(o)
    /\ \A o \in Op : LookerOK(o)
    /\ \A r \in Runs : WorkerOK(r)
    /\ comp.maint # NoOp => \A r \in Runs : op[r].at \in Aside

-----------------------------------------------------------------------------
(* Records.                                                                *)

LEMMA AtIs ==
    ASSUME NEW pc \in Pcs
    PROVE  /\ At(pc) \in OpRec
           /\ At(pc).at = pc /\ At(pc).cur = FALSE /\ At(pc).got = 0 /\ At(pc).ref = 0
BY LifecycleAssumption DEF At, OpRec

LEMMA AtSet ==
    ASSUME NEW w \in OpRec, NEW pc \in Pcs
    PROVE  LET x == [w EXCEPT !.at = pc]
           IN  /\ x \in OpRec /\ x.at = pc
               /\ x.seen = w.seen /\ x.st = w.st /\ x.ref = w.ref
               /\ x.cur = w.cur /\ x.old = w.old /\ x.got = w.got
BY DEF OpRec

LEMMA CurSet ==
    ASSUME NEW w \in OpRec, NEW b \in BOOLEAN
    PROVE  LET x == [w EXCEPT !.cur = b]
           IN  /\ x \in OpRec /\ x.cur = b
               /\ x.at = w.at /\ x.seen = w.seen /\ x.st = w.st /\ x.ref = w.ref
               /\ x.old = w.old /\ x.got = w.got
BY DEF OpRec

LEMMA AtCurSet ==
    ASSUME NEW w \in OpRec, NEW pc \in Pcs, NEW b \in BOOLEAN
    PROVE  LET x == [w EXCEPT !.at = pc, !.cur = b]
           IN  /\ x \in OpRec /\ x.at = pc /\ x.cur = b
               /\ x.seen = w.seen /\ x.st = w.st /\ x.ref = w.ref
               /\ x.old = w.old /\ x.got = w.got
BY DEF OpRec

LEMMA ProvideSet ==
    ASSUME NEW w \in OpRec
    PROVE  LET x == [w EXCEPT !.at = "provide", !.cur = TRUE, !.old = FALSE]
           IN  /\ x \in OpRec /\ x.at = "provide" /\ x.cur /\ ~x.old
               /\ x.seen = w.seen /\ x.st = w.st /\ x.ref = w.ref /\ x.got = w.got
BY DEF OpRec, Pcs

\* Records with several fields set at once.
Made(w, n)          == [w EXCEPT !.at = "setup", !.got = n]
Unmade(w)           == [w EXCEPT !.at = "record", !.got = 0]
ClaimFrom(w, s, n)  == [w EXCEPT !.at = "claim", !.st = s, !.ref = n]
SeenAs(w, s, n, b)  == [w EXCEPT !.seen = s, !.st = s, !.ref = n, !.cur = TRUE, !.old = b]
ReadCur(w, s, n)    == [w EXCEPT !.st = s, !.ref = n, !.cur = TRUE]
RefCur(w, n)        == [w EXCEPT !.ref = n, !.cur = TRUE]
RefState(w, n, s)   == [w EXCEPT !.ref = n, !.st = s]
RowAs(c, s, n)      == [c EXCEPT !.state = s, !.ref = n]
RowFreed(c, m, s)   == [c EXCEPT !.maint = m, !.state = s]

LEMMA MadeSet ==
    ASSUME NEW w \in OpRec, NEW n \in 0..MaxBox
    PROVE  /\ Made(w, n) \in OpRec /\ Made(w, n).at = "setup" /\ Made(w, n).got = n
           /\ Made(w, n).st = w.st /\ Made(w, n).ref = w.ref /\ Made(w, n).cur = w.cur
BY DEF OpRec, Pcs, Made

LEMMA UnmadeSet ==
    ASSUME NEW w \in OpRec
    PROVE  /\ Unmade(w) \in OpRec /\ Unmade(w).at = "record" /\ Unmade(w).got = 0
           /\ Unmade(w).st = w.st /\ Unmade(w).ref = w.ref /\ Unmade(w).cur = w.cur
<1>1. PICK z \in 0..MaxBox : z = 0
  BY LifecycleAssumption
<1>2. "record" \in Pcs
  BY DEF Pcs
<1> QED
  BY <1>1, <1>2 DEF OpRec, Unmade

LEMMA ClaimSet ==
    ASSUME NEW w \in OpRec, NEW s \in States, NEW n \in 0..MaxBox
    PROVE  /\ ClaimFrom(w, s, n) \in OpRec
           /\ ClaimFrom(w, s, n).at = "claim" /\ ClaimFrom(w, s, n).st = s
           /\ ClaimFrom(w, s, n).ref = n /\ ClaimFrom(w, s, n).cur = w.cur
BY DEF OpRec, Pcs, ClaimFrom

LEMMA SeenSet ==
    ASSUME NEW w \in OpRec, NEW s \in States, NEW n \in 0..MaxBox, NEW b \in BOOLEAN
    PROVE  /\ SeenAs(w, s, n, b) \in OpRec /\ SeenAs(w, s, n, b).at = w.at
           /\ SeenAs(w, s, n, b).seen = s /\ SeenAs(w, s, n, b).st = s
           /\ SeenAs(w, s, n, b).ref = n /\ SeenAs(w, s, n, b).cur
           /\ SeenAs(w, s, n, b).old = b
BY DEF OpRec, SeenAs

LEMMA ReadSet ==
    ASSUME NEW w \in OpRec, NEW s \in States, NEW n \in 0..MaxBox
    PROVE  /\ ReadCur(w, s, n) \in OpRec /\ ReadCur(w, s, n).at = w.at
           /\ ReadCur(w, s, n).st = s /\ ReadCur(w, s, n).ref = n /\ ReadCur(w, s, n).cur
BY DEF OpRec, ReadCur

LEMMA RefSet ==
    ASSUME NEW w \in OpRec, NEW n \in 0..MaxBox
    PROVE  /\ RefCur(w, n) \in OpRec /\ RefCur(w, n).at = w.at
           /\ RefCur(w, n).ref = n /\ RefCur(w, n).cur
BY DEF OpRec, RefCur

LEMMA RefStateSet ==
    ASSUME NEW w \in OpRec, NEW n \in 0..MaxBox, NEW s \in States
    PROVE  /\ RefState(w, n, s) \in OpRec /\ RefState(w, n, s).at = w.at
           /\ RefState(w, n, s).ref = n /\ RefState(w, n, s).st = s
BY DEF OpRec, RefState

LEMMA WorkSet ==
    ASSUME NEW w \in OpRec, NEW n \in 0..MaxBox
    PROVE  /\ [w EXCEPT !.got = n] \in OpRec /\ [w EXCEPT !.got = n].at = w.at
           /\ [w EXCEPT !.got = n].got = n /\ [w EXCEPT !.got = n].cur = w.cur
BY DEF OpRec

LEMMA StateSet ==
    ASSUME NEW c \in CompRow, NEW s \in States
    PROVE  /\ [c EXCEPT !.state = s] \in CompRow
           /\ [c EXCEPT !.state = s].state = s
           /\ [c EXCEPT !.state = s].ref = c.ref
           /\ [c EXCEPT !.state = s].maint = c.maint
BY DEF CompRow

LEMMA StateRefSet ==
    ASSUME NEW c \in CompRow, NEW s \in States, NEW n \in 0..MaxBox
    PROVE  /\ RowAs(c, s, n) \in CompRow /\ RowAs(c, s, n).state = s
           /\ RowAs(c, s, n).ref = n /\ RowAs(c, s, n).maint = c.maint
BY DEF CompRow, RowAs

LEMMA MaintSet ==
    ASSUME NEW c \in CompRow, NEW m \in Updates \cup {NoOp}
    PROVE  /\ [c EXCEPT !.maint = m] \in CompRow
           /\ [c EXCEPT !.maint = m].state = c.state
           /\ [c EXCEPT !.maint = m].ref = c.ref
           /\ [c EXCEPT !.maint = m].maint = m
BY DEF CompRow

LEMMA MaintStateSet ==
    ASSUME NEW c \in CompRow, NEW m \in Updates \cup {NoOp}, NEW s \in States
    PROVE  /\ RowFreed(c, m, s) \in CompRow
           /\ RowFreed(c, m, s).state = s /\ RowFreed(c, m, s).maint = m
BY DEF CompRow, RowFreed

-----------------------------------------------------------------------------
(* How the rows of the operations move.                                    *)

\* Places at which an operation has nothing in hand.
Plain == Pcs \ (Claimed \cup AtWork \cup Stopping \cup {"sclaim", "claim", "rclaim", "tclaim"})

LEMMA AtPlain ==
    ASSUME NEW k, NEW pc \in Plain
    PROVE  At(pc) \in OpRec /\ At(pc).at = pc /\ ~At(pc).cur /\ Fit(k, At(pc))
<1>1. At(pc) \in OpRec /\ At(pc).at = pc /\ At(pc).cur = FALSE
  BY AtIs DEF Plain
<1>2. Fit(k, At(pc))
  BY <1>1 DEF Fit, Plain, Claimed, AtWork, Stopping, Booting, Replacing, Sleeping
<1> QED
  BY <1>1, <1>2

LEMMA GivenUpPlain ==
    ASSUME NEW o \in Op
    PROVE  \E pc \in {"retry", "free", "finish", "done"} : GivenUp(o) = At(pc)
<1>1. Kind[o] \in Kinds
  BY LifecycleAssumption
<1> QED
  BY <1>1 DEF GivenUp, Kinds

\* The operation o moves to w, and the others stay.
Moved(o, w) == op' \in [Op -> OpRec] /\ op'[o] = w /\ \A p \in Op \ {o} : op'[p] = op[p]

\* It moves to w, and the others see that the row has been written.
Wrote(o, w) == /\ op' \in [Op -> OpRec] /\ op'[o] = w
               /\ \A p \in Op \ {o} : /\ op'[p].cur = FALSE /\ op'[p].at = op[p].at
                                      /\ op'[p].ref = op[p].ref /\ op'[p].got = op[p].got
                                      /\ op'[p].st = op[p].st

LEMMA GoesMoves ==
    ASSUME LifeTypeOK, NEW o \in Op, NEW w \in OpRec, Goes(o, w)
    PROVE  Moved(o, w) /\ UNCHANGED <<comp, abandoned>>
BY DEF LifeTypeOK, Goes, Moved

LEMMA StampedWrites ==
    ASSUME LifeTypeOK, NEW o \in Op, NEW w \in OpRec, op' = Stamped(o, w)
    PROVE  Wrote(o, w)
<1> DEFINE other(p) == [op[p] EXCEPT !.cur = FALSE]
<1>1. \A p \in Op : op[p] \in OpRec
  BY DEF LifeTypeOK
<1>2. \A p \in Op : /\ other(p) \in OpRec /\ other(p).cur = FALSE
                    /\ other(p).at = op[p].at /\ other(p).ref = op[p].ref
                    /\ other(p).got = op[p].got /\ other(p).st = op[p].st
  BY <1>1, CurSet
<1>3. op' = [p \in Op |-> IF p = o THEN w ELSE other(p)]
  BY DEF Stamped
<1> HIDE DEF other
<1> QED
  BY <1>2, <1>3 DEF Wrote

LEMMA WritesWrote ==
    ASSUME LifeTypeOK, NEW o \in Op, NEW w \in OpRec, NEW c, Writes(o, w, c)
    PROVE  Wrote(o, w) /\ comp' = c /\ abandoned' = FALSE
BY StampedWrites DEF Writes

\* Everything but the row and the operations.
Others == /\ lease \in [Bot -> LeaseRow]
          /\ box \in [Box -> {"gone", "up", "down"}]
          /\ deaths \in 0..MaxDeath /\ faults \in 0..MaxFault

LEMMA SameOthers ==
    ASSUME LifeTypeOK, UNCHANGED <<lease, box, deaths>>, faults' = faults \/ Fault
    PROVE  Others'
<1>1. faults' \in 0..MaxFault
  BY LifecycleAssumption DEF LifeTypeOK, Fault
<1> QED
  BY <1>1 DEF LifeTypeOK, Others

\* w is where o may come: it fits o, and only an idle stop is as good as new.
Comes(o, w) == w \in OpRec /\ Fit(Kind[o], w) /\ (w.at = "none" => Kind[o] = "sleep")

LEMMA AloneBefore ==
    ASSUME NEW o \in Op, NEW w, w.at = "none" => Kind[o] = "sleep",
           op'[o] = w, \A p \in Op \ {o} : op'[p].at = op[p].at, StopsAlone'
    PROVE  StopsAlone
<1> SUFFICES ASSUME NEW s \in Op, NEW r \in Runs,
                    Kind[s] = "stop", op[s].at # "none", BotOf[r] # BotOf[s]
             PROVE  op[r].at = "none"
  BY DEF StopsAlone
<1>1. r \in Op /\ Kind[r] = "run"
  BY DEF Runs
<1>2. op'[s].at # "none"
  BY DEF StopsAlone
<1>3. op'[r].at = "none"
  BY <1>2 DEF StopsAlone
<1> QED
  BY <1>1, <1>3

LEMMA NoneBefore ==
    ASSUME NEW o \in Op, NEW w, w.at = "none" => Kind[o] = "sleep",
           op'[o] = w, \A p \in Op \ {o} : op'[p].at = op[p].at, NoStop'
    PROVE  NoStop
BY DEF NoStop

\* The types are kept, and a stop that has begun is not undone.
TypedStep == LifeTypes' /\ (NoStop' => NoStop)

LEMMA GoesTypes ==
    ASSUME LifeTypes, NEW o \in Op, NEW w, Comes(o, w), Goes(o, w), Others',
           Holds1(w) => Holder(o) /\ w.at # "recheck"
    PROVE  TypedStep
<1>1. Moved(o, w) /\ UNCHANGED <<comp, abandoned>>
  BY GoesMoves DEF LifeTypes, Comes
<1>2. StopsAlone' => StopsAlone
  BY <1>1, AloneBefore DEF Comes, Moved
<1>3. LifeTypeOK'
  BY <1>1, <1>2 DEF LifeTypes, LifeTypeOK, Others, Moved
<1>4. \A p \in Op : Holder(p)' => Holder(p)
  BY <1>1 DEF Moved, Holder
<1>5. OneHolder'
  BY <1>4 DEF OneHolder, LifeTypes
<1>6. \A p \in Op : Fit(Kind[p], op'[p])
  BY <1>1 DEF LifeTypes, Moved, Comes
<1>7. \A p \in Op : StopsAlone' => GivesBack(op'[p], comp')
  BY <1>1, <1>2 DEF LifeTypes, Moved, GivesBack
<1>8. NoStop' => NoStop
  BY <1>1, NoneBefore DEF Comes, Moved
<1> QED
  BY <1>3, <1>5, <1>6, <1>7, <1>8 DEF LifeTypes, TypedStep

LEMMA WritesTypes ==
    ASSUME LifeTypes, NEW o \in Op, NEW w, NEW c \in CompRow, Comes(o, w), Writes(o, w, c),
           Others', StopsAlone => Boxed(c) /\ GivesBack(w, c)
    PROVE  TypedStep
<1>1. Wrote(o, w) /\ comp' = c /\ abandoned' = FALSE
  BY WritesWrote DEF LifeTypes, Comes
<1>2. StopsAlone' => StopsAlone
  BY <1>1, AloneBefore DEF Comes, Wrote
<1>3. LifeTypeOK'
  BY <1>1, <1>2 DEF LifeTypes, LifeTypeOK, Others, Wrote, Boxed
<1>4. \A p \in Op \ {o} : ~Holder(p)'
  BY <1>1 DEF Wrote, Holder, Holds1
<1>5. OneHolder'
  BY <1>4 DEF OneHolder
<1>6. \A p \in Op : Fit(Kind[p], op'[p])
  BY <1>1 DEF LifeTypes, Wrote, Comes, Fit
<1>7. \A p \in Op : StopsAlone' => GivesBack(op'[p], comp')
  BY <1>1, <1>2 DEF Wrote, GivesBack, Holds1
<1>8. NoStop' => NoStop
  BY <1>1, NoneBefore DEF Comes, Wrote
<1> QED
  BY <1>3, <1>5, <1>6, <1>7, <1>8 DEF LifeTypes, TypedStep

LEMMA GoesPlain ==
    ASSUME LifeTypes, NEW o \in Op, NEW pc \in Plain, Goes(o, At(pc)), Others',
           pc = "none" => Kind[o] = "sleep"
    PROVE  TypedStep
<1>1. Comes(o, At(pc)) /\ ~Holds1(At(pc))
  BY AtPlain DEF Comes, Holds1
<1> QED
  BY <1>1, GoesTypes

LEMMA GivesUp ==
    ASSUME LifeTypes, NEW o \in Op, Goes(o, GivenUp(o)), Others'
    PROVE  TypedStep
BY GivenUpPlain, GoesPlain
   DEF Plain, Pcs, Claimed, AtWork, Stopping, Booting, Replacing, Sleeping

LEMMA WritesPlain ==
    ASSUME LifeTypes, NEW o \in Op, NEW pc \in Plain, NEW c \in CompRow,
           Writes(o, At(pc), c), Others', StopsAlone => Boxed(c),
           pc = "none" => Kind[o] = "sleep"
    PROVE  TypedStep
<1>1. Comes(o, At(pc)) /\ GivesBack(At(pc), c)
  BY AtPlain DEF Comes, Holds1, GivesBack
<1> QED
  BY <1>1, WritesTypes

LEMMA GivesUpWriting ==
    ASSUME LifeTypes, NEW o \in Op, NEW c \in CompRow,
           Writes(o, GivenUp(o), c), Others', StopsAlone => Boxed(c)
    PROVE  TypedStep
BY GivenUpPlain, WritesPlain
   DEF Plain, Pcs, Claimed, AtWork, Stopping, Booting, Replacing, Sleeping

-----------------------------------------------------------------------------
(* The types are kept.                                                     *)

Places == Plain \subseteq Pcs
          /\ {"none", "start", "take", "check", "look", "wait", "leave", "retry", "free",
              "finish", "rlook", "done", "dead", "lapsed"} \subseteq Plain

LEMMA PlacesArePlain == Places
BY DEF Places, Plain, Pcs, Claimed, AtWork, Stopping, Booting, Replacing, Sleeping

LEMMA RecordsAre ==
    ASSUME LifeTypes
    PROVE  /\ \A o \in Op : op[o] \in OpRec /\ op[o].ref \in 0..MaxBox /\ op[o].got \in 0..MaxBox
                            /\ Fit(Kind[o], op[o])
           /\ comp \in CompRow /\ comp.state \in States /\ comp.ref \in 0..MaxBox
           /\ comp.maint \in Updates \cup {NoOp}
           /\ abandoned \in BOOLEAN /\ Others
BY DEF LifeTypes, LifeTypeOK, Others, OpRec, CompRow

LEMMA LeaseTypes ==
    ASSUME LifeTypes, NEW o \in Op, LeaseStep(o) \/ Ask(o) \/ QueueUpdate(o)
    PROVE  TypedStep
<1> USE RecordsAre, PlacesArePlain DEF Places
<1>1. \/ Ask(o) \/ QueueUpdate(o) \/ Approach(o) \/ TakeLease(o) \/ CheckLease(o)
      \/ Release(o) \/ FinishUpdate(o)
  BY DEF LeaseStep
<1>2. UNCHANGED <<lease, box, deaths, faults>> => Others'
  BY SameOthers DEF LifeTypes
<1>3. CASE Ask(o)
  BY <1>2, <1>3, GoesPlain DEF Ask
<1>4. CASE QueueUpdate(o)
  <2> DEFINE c == [comp EXCEPT !.maint = o]
  <2>1. o \in Updates
    BY <1>4 DEF QueueUpdate
  <2>2. c \in CompRow /\ (StopsAlone => Boxed(c))
    BY <2>1, MaintSet DEF Boxed, LifeTypes, LifeTypeOK
  <2>3. Writes(o, At("rlook"), c)
    BY <1>4 DEF QueueUpdate
  <2> HIDE DEF c
  <2> QED
    BY <1>2, <1>4, <2>1, <2>2, <2>3, WritesPlain DEF QueueUpdate
<1>5. CASE Approach(o)
  BY <1>2, <1>5, GoesPlain DEF Approach
<1>6. CASE TakeLease(o)
  <2>1. lease' \in [Bot -> LeaseRow]
    <3> DEFINE l == [owner |-> o, live |-> TRUE,
                     fence |-> IF lease[BotOf[o]].fence < MaxFence
                               THEN lease[BotOf[o]].fence + 1 ELSE MaxFence]
    <3>1. BotOf[o] \in Bot /\ MaxFence \in Nat
      BY LifecycleAssumption
    <3>2. lease \in [Bot -> LeaseRow] /\ lease[BotOf[o]].fence \in 0..MaxFence
      BY <3>1 DEF LifeTypes, LifeTypeOK, LeaseRow
    <3>3. l \in LeaseRow
      BY <3>1, <3>2 DEF LeaseRow
    <3>4. lease' = lease \/ lease' = [lease EXCEPT ![BotOf[o]] = l]
      BY <1>6 DEF TakeLease
    <3> HIDE DEF l
    <3> QED
      BY <3>2, <3>3, <3>4
  <2>2. Others'
    BY <1>6, <2>1 DEF TakeLease, Others
  <2> QED
    BY <1>6, <2>2, GoesPlain, GivesUp DEF TakeLease
<1>7. CASE CheckLease(o)
  BY <1>2, <1>7, GoesPlain, GivesUp DEF CheckLease
<1>8. CASE Release(o)
  <2>1. lease' \in [Bot -> LeaseRow]
    <3> DEFINE b == BotOf[o]
               l == [lease[b] EXCEPT !.live = @ /\ lease[b].owner # o]
    <3>1. lease \in [Bot -> LeaseRow] /\ b \in Bot
      BY LifecycleAssumption DEF LifeTypes, LifeTypeOK
    <3>2. l \in LeaseRow
      BY <3>1 DEF LeaseRow
    <3>3. lease' = [lease EXCEPT ![b] = l]
      BY <1>8, <3>1 DEF Release, Expired
    <3> HIDE DEF b, l
    <3> QED
      BY <3>1, <3>2, <3>3
  <2>2. Others'
    BY <1>8, <2>1 DEF Release, Others
  <2> QED
    BY <1>8, <2>2, GoesPlain DEF Release
<1>9. CASE FinishUpdate(o)
  <2> DEFINE c == [comp EXCEPT !.maint = NoOp]
  <2>1. c \in CompRow /\ (StopsAlone => Boxed(c))
    BY MaintSet DEF Boxed, LifeTypes, LifeTypeOK
  <2>2. Writes(o, At("done"), c) \/ Goes(o, At("done"))
    BY <1>9 DEF FinishUpdate
  <2> HIDE DEF c
  <2> QED
    BY <1>2, <1>9, <2>1, <2>2, WritesPlain, GoesPlain DEF FinishUpdate
<1> QED
  BY <1>1, <1>3, <1>4, <1>5, <1>6, <1>7, <1>8, <1>9

\* A row that stays what it is, or takes a state that needs no box, is boxed.
LEMMA Boxes ==
    ASSUME LifeTypes
    PROVE  /\ StopsAlone => Boxed(comp)
           /\ \A s \in {"booting", "suspending", "stopped", "error"} :
                 [comp EXCEPT !.state = s] \in CompRow /\ Boxed([comp EXCEPT !.state = s])
           /\ \A s \in States : comp.ref # 0 =>
                 [comp EXCEPT !.state = s] \in CompRow /\ Boxed([comp EXCEPT !.state = s])
           /\ \A n \in 0..MaxBox :
                 /\ n # 0 => RowAs(comp, "running", n) \in CompRow
                             /\ Boxed(RowAs(comp, "running", n))
                 /\ \A s \in {"error", "stopped"} :
                       RowAs(comp, s, n) \in CompRow
                       /\ Boxed(RowAs(comp, s, n))
<1>1. StopsAlone => Boxed(comp)
  BY DEF LifeTypes, LifeTypeOK, Boxed
<1>2. comp \in CompRow /\ comp.ref \in 0..MaxBox
      /\ {"booting", "suspending", "stopped", "error", "running"} \subseteq States
  BY RecordsAre DEF States, Unstable, Resting
<1>3. \A s \in States : /\ [comp EXCEPT !.state = s] \in CompRow
                        /\ [comp EXCEPT !.state = s].state = s
                        /\ [comp EXCEPT !.state = s].ref = comp.ref
  BY <1>2, StateSet
<1>4. ASSUME NEW s \in States, NEW n \in 0..MaxBox
      PROVE  /\ RowAs(comp, s, n) \in CompRow
             /\ RowAs(comp, s, n).state = s
             /\ RowAs(comp, s, n).ref = n
  BY <1>2, StateRefSet
<1>5. \A s \in {"booting", "suspending", "stopped", "error"} :
         [comp EXCEPT !.state = s] \in CompRow /\ Boxed([comp EXCEPT !.state = s])
  BY <1>2, <1>3 DEF Boxed
<1>6. \A s \in States : comp.ref # 0 =>
         [comp EXCEPT !.state = s] \in CompRow /\ Boxed([comp EXCEPT !.state = s])
  BY <1>3 DEF Boxed
<1>7. ASSUME NEW n \in 0..MaxBox
      PROVE  /\ n # 0 => RowAs(comp, "running", n) \in CompRow
                         /\ Boxed(RowAs(comp, "running", n))
             /\ \A s \in {"error", "stopped"} :
                   RowAs(comp, s, n) \in CompRow
                   /\ Boxed(RowAs(comp, s, n))
  BY <1>2, <1>4 DEF Boxed
<1> QED
  BY <1>1, <1>5, <1>6, <1>7

\* o changes places with what it has read and made, and does not come to hold the row.
LEMMA StaysAt ==
    ASSUME LifeTypes, NEW o \in Op, NEW pc \in Pcs \ {"none", "recheck"},
           Goes(o, [op[o] EXCEPT !.at = pc]), Others',
           Fit(Kind[o], [op[o] EXCEPT !.at = pc]), op[o].at \in Claimed \/ pc \notin Claimed
    PROVE  TypedStep
<1> DEFINE w == [op[o] EXCEPT !.at = pc]
<1>1. w \in OpRec /\ w.at = pc /\ w.cur = op[o].cur
  BY RecordsAre, AtSet
<1>2. Comes(o, w) /\ (Holds1(w) => Holder(o) /\ w.at # "recheck")
  BY <1>1 DEF Comes, Holds1, Holder
<1> HIDE DEF w
<1> QED
  BY <1>2, GoesTypes DEF w

LEMMA ProvisionTypes ==
    ASSUME LifeTypes, NEW o \in Op, ProvisionStep(o)
    PROVE  TypedStep
<1> USE RecordsAre, PlacesArePlain DEF Places
<1>0. /\ op[o] \in OpRec /\ op[o].ref \in 0..MaxBox /\ op[o].got \in 0..MaxBox
      /\ Fit(Kind[o], op[o]) /\ MaxBox \in Nat
  BY LifecycleAssumption
<1>1. \/ Look(o) \/ Waited(o) \/ ClaimBoot(o) \/ Provide(o) \/ SetUpFails(o)
      \/ Activate(o) \/ RollBack(o) \/ RecordFailure(o)
  BY DEF ProvisionStep
<1>2. UNCHANGED <<lease, box, deaths>> /\ (UNCHANGED faults \/ Fault) => Others'
  BY SameOthers DEF LifeTypes
<1>3. CASE Look(o)
  <2> DEFINE pc == IF comp.state \in Unstable THEN "wait" ELSE "claim"
             w == SeenAs(At(pc), comp.state, comp.ref, abandoned)
  <2>1. Goes(o, GivenUp(o)) \/ Goes(o, w)
    BY <1>3 DEF Look, SeenAs
  <2>2. pc \in {"wait", "claim"} /\ pc \in Pcs
    BY DEF Pcs
  <2>3. At(pc) \in OpRec /\ At(pc).at = pc
    BY <2>2, AtIs
  <2>4. w \in OpRec /\ w.at = pc /\ w.st = comp.state
    BY <2>3, SeenSet
  <2> HIDE DEF w
  <2>5. Fit(Kind[o], w) /\ w.at \notin Claimed
    BY <2>2, <2>4 DEF Fit, Claimed, Booting, Replacing, Sleeping, AtWork, Stopping
  <2>6. Comes(o, w) /\ ~Holds1(w)
    BY <2>2, <2>4, <2>5 DEF Comes, Holds1
  <2> QED
    BY <1>2, <1>3, <2>1, <2>6, GivesUp, GoesTypes DEF Look
<1>4. CASE Waited(o)
  <2> DEFINE w == ClaimFrom(op[o], comp.state, comp.ref)
  <2>1. Goes(o, GivenUp(o)) \/ Goes(o, w)
    BY <1>4 DEF Waited, ClaimFrom
  <2>2. w \in OpRec /\ w.at = "claim" /\ w.st = comp.state
    BY ClaimSet
  <2> HIDE DEF w
  <2>3. Comes(o, w) /\ ~Holds1(w)
    BY <2>2 DEF Comes, Holds1, Fit, Claimed, Booting, Replacing, Sleeping, AtWork, Stopping
  <2> QED
    BY <1>2, <1>4, <2>1, <2>3, GivesUp, GoesTypes DEF Waited
<1>5. CASE ClaimBoot(o)
  <2> DEFINE w == [op[o] EXCEPT !.at = "provide", !.cur = TRUE, !.old = FALSE]
             c == [comp EXCEPT !.state = "booting"]
  <2>1. Goes(o, GivenUp(o)) \/ Writes(o, w, c)
    BY <1>5 DEF ClaimBoot
  <2>2. w \in OpRec /\ w.at = "provide" /\ w.st = op[o].st
    BY ProvideSet
  <2>3. c \in CompRow /\ Boxed(c)
    BY Boxes
  <2>4. op[o].st \in States
    BY <1>0, <1>5 DEF ClaimBoot, Fit
  <2> HIDE DEF w, c
  <2>5. Comes(o, w) /\ GivesBack(w, c)
    BY <2>2, <2>4 DEF Comes, GivesBack, Fit, Claimed, Booting, Replacing, Sleeping, AtWork, Stopping
  <2> QED
    BY <1>2, <1>5, <2>1, <2>3, <2>5, GivesUp, WritesTypes DEF ClaimBoot
<1>6. CASE Provide(o)
  <2>1. op[o].at = "provide" /\ op[o].st \in States
    BY <1>0, <1>6 DEF Provide, Fit, Booting
  <2>2. CASE Fault /\ Goes(o, [op[o] EXCEPT !.at = "record"]) /\ UNCHANGED box
    <3>1. Fit(Kind[o], [op[o] EXCEPT !.at = "record"])
      BY <1>0, <2>1, AtSet DEF Fit, Booting, Sleeping, AtWork, Stopping, Pcs
    <3> QED
      BY <1>2, <1>6, <2>1, <2>2, <3>1, StaysAt DEF Provide, Claimed, Booting, Pcs
  <2>3. CASE ~(Fault /\ Goes(o, [op[o] EXCEPT !.at = "record"]) /\ UNCHANGED box)
    <3>1. PICK n \in {op[o].ref} \cup Unused :
             /\ n = op[o].ref => op[o].ref # 0
             /\ box' = [box EXCEPT ![n] = "up"]
             /\ Goes(o, Made(op[o], n))
             /\ UNCHANGED faults
      BY <1>6, <2>3, LifecycleAssumption DEF Provide, Unused, Box, Made
    <3>2. n \in 0..MaxBox /\ n # 0
      BY <1>0, <3>1 DEF Unused, Box
    <3> DEFINE w == Made(op[o], n)
    <3>3. w \in OpRec /\ w.at = "setup" /\ w.got = n /\ w.cur = op[o].cur /\ w.st = op[o].st
      BY <1>0, <3>2, MadeSet
    <3> HIDE DEF w
    <3>4. Comes(o, w) /\ (Holds1(w) => Holder(o) /\ w.at # "recheck")
      BY <2>1, <3>2, <3>3
         DEF Comes, Holder, Holds1, Fit, Claimed, Booting, Replacing, Sleeping, AtWork, Stopping
    <3>5. Others'
      BY <1>6, <3>1, RecordsAre DEF Provide, Others
    <3> QED
      BY <3>1, <3>4, <3>5, GoesTypes DEF w
  <2> QED
    BY <2>2, <2>3
<1>7. CASE SetUpFails(o)
  <2>1. Fit(Kind[o], [op[o] EXCEPT !.at = "undo"])
    BY <1>0, <1>7, AtSet DEF SetUpFails, Fit, Booting, Sleeping, AtWork, Stopping, Pcs
  <2> QED
    BY <1>2, <1>7, <2>1, StaysAt DEF SetUpFails, Claimed, Booting, Pcs
<1>8. CASE Activate(o)
  <2>0. op[o].got # 0
    BY <1>0, <1>8 DEF Activate, Fit
  <2>1. Fit(Kind[o], [op[o] EXCEPT !.at = "undo"])
    BY <1>0, <1>8, AtSet DEF Activate, Fit, Booting, Sleeping, AtWork, Stopping, Pcs
  <2>2. CASE Goes(o, [op[o] EXCEPT !.at = "undo"])
    BY <1>2, <1>8, <2>1, <2>2, StaysAt DEF Activate, Claimed, Booting, Pcs
  <2> DEFINE c == RowAs(comp, "running", op[o].got)
             w == [At("work") EXCEPT !.got = op[o].got]
  <2>3. c \in CompRow /\ Boxed(c)
    BY <1>0, <2>0, Boxes
  <2>4. CASE Kind[o] = "run" /\ Writes(o, w, c)
    <3>2. w \in OpRec /\ w.at = "work" /\ w.got = op[o].got /\ ~w.cur
      <4>1. At("work") \in OpRec /\ At("work").at = "work" /\ ~At("work").cur
        BY AtIs DEF Pcs
      <4>2. op[o].got \in 0..MaxBox
        BY <1>0
      <4> QED
        BY ONLY <4>1, <4>2, WorkSet
    <3> HIDE DEF w, c
    <3>3. Comes(o, w) /\ GivesBack(w, c)
      BY <2>0, <2>4, <3>2
         DEF Comes, GivesBack, Holds1, Fit, Booting, Sleeping, AtWork, Stopping
    <3> QED
      BY <1>2, <1>8, <2>3, <2>4, <3>3, WritesTypes DEF Activate
  <2>5. CASE Writes(o, GivenUp(o), c)
    <3> HIDE DEF c
    <3> QED
      BY <1>2, <1>8, <2>3, <2>5, GivesUpWriting DEF Activate
  <2> QED
    BY <1>8, <2>2, <2>4, <2>5 DEF Activate, RowAs
<1>9. CASE RollBack(o)
  <2>1. op[o].st \in States
    BY <1>0, <1>9 DEF RollBack, Fit, Booting
  <2>2. CASE Fault /\ Goes(o, [op[o] EXCEPT !.at = "record"]) /\ UNCHANGED box
    <3>1. Fit(Kind[o], [op[o] EXCEPT !.at = "record"])
      BY <1>0, <2>1, AtSet DEF Fit, Booting, Sleeping, AtWork, Stopping, Pcs
    <3> QED
      BY <1>2, <1>9, <2>2, <3>1, StaysAt DEF RollBack, Claimed, Booting, Pcs
  <2>3. CASE ~(Fault /\ Goes(o, [op[o] EXCEPT !.at = "record"]) /\ UNCHANGED box)
    <3> DEFINE w == Unmade(op[o])
    <3>1. Goes(o, w) /\ UNCHANGED faults
      BY <1>9, <2>3 DEF RollBack, Unmade
    <3>2. w \in OpRec /\ w.at = "record" /\ w.cur = op[o].cur /\ w.st = op[o].st
      BY <1>0, UnmadeSet
    <3> HIDE DEF w
    <3>3. Comes(o, w) /\ (Holds1(w) => Holder(o) /\ w.at # "recheck")
      BY <1>9, <2>1, <3>2
         DEF RollBack, Comes, Holder, Holds1, Fit, Claimed, Booting, Replacing, Sleeping, AtWork, Stopping
    <3>4. box' \in [Box -> {"gone", "up", "down"}]
      BY <1>9, RecordsAre DEF RollBack, Others
    <3>5. Others'
      BY <1>9, <3>1, <3>4, RecordsAre DEF RollBack, Others
    <3> QED
      BY <3>1, <3>3, <3>5, GoesTypes
  <2> QED
    BY <2>2, <2>3
<1>10. CASE RecordFailure(o)
  <2>1. CASE Goes(o, GivenUp(o))
    BY <1>2, <1>10, <2>1, GivesUp DEF RecordFailure
  <2>2. CASE /\ StillClaimed(o) /\ Reconnecting(o)
             /\ Writes(o, GivenUp(o), [comp EXCEPT !.state = "running"])
    <3>1. comp.ref # 0 /\ "running" \in States
      BY <2>2 DEF StillClaimed, Reconnecting, States
    <3>2. [comp EXCEPT !.state = "running"] \in CompRow /\ Boxed([comp EXCEPT !.state = "running"])
      BY <3>1, Boxes
    <3> QED
      BY <1>2, <1>10, <2>2, <3>2, GivesUpWriting DEF RecordFailure
  <2>3. CASE Writes(o, GivenUp(o), [comp EXCEPT !.state = "error",
                                       !.ref = IF op[o].got # 0 THEN op[o].got ELSE @])
    <3> DEFINE n == IF op[o].got # 0 THEN op[o].got ELSE comp.ref
               c == RowAs(comp, "error", n)
    <3>1. n \in 0..MaxBox
      BY <1>0
    <3>2. c \in CompRow /\ Boxed(c)
      <4> HIDE DEF n
      <4> QED
        BY <3>1, Boxes
    <3>3. Writes(o, GivenUp(o), c)
      BY <2>3 DEF RowAs
    <3> HIDE DEF c
    <3> QED
      BY <1>2, <1>10, <3>2, <3>3, GivesUpWriting DEF RecordFailure
  <2> QED
    BY <1>10, <2>1, <2>2, <2>3 DEF RecordFailure
<1> QED
  BY <1>1, <1>3, <1>4, <1>5, <1>6, <1>7, <1>8, <1>9, <1>10

LEMMA WorkTypes ==
    ASSUME LifeTypes, NEW o \in Op, WorkStep(o)
    PROVE  TypedStep
<1> USE RecordsAre, PlacesArePlain DEF Places
<1>0. /\ op[o] \in OpRec /\ Fit(Kind[o], op[o])
      /\ {"saving", "saved"} \subseteq Pcs /\ {"suspending", "running"} \subseteq States
  BY DEF Pcs, States, Unstable
<1>1. SaveWorkspace(o) \/ WorkspaceSaved(o) \/ EndRun(o) \/ LoseLease(o)
  BY DEF WorkStep
<1>2. UNCHANGED <<lease, box, deaths, faults>> => Others'
  BY SameOthers DEF LifeTypes
<1>3. CASE SaveWorkspace(o)
  <2> DEFINE w == [op[o] EXCEPT !.at = "saving", !.cur = TRUE]
             c == [comp EXCEPT !.state = "suspending"]
  <2>1. Writes(o, w, c)
    BY <1>3 DEF SaveWorkspace
  <2>2. w \in OpRec /\ w.at = "saving" /\ w.got = op[o].got
    BY <1>0, AtCurSet
  <2>3. c \in CompRow /\ Boxed(c)
    BY Boxes
  <2>4. op[o].got # 0 /\ Kind[o] = "run"
    BY <1>0, <1>3 DEF SaveWorkspace, Fit, AtWork
  <2> HIDE DEF w, c
  <2>5. Comes(o, w) /\ GivesBack(w, c)
    BY <2>2, <2>4 DEF Comes, GivesBack, Fit, Booting, Sleeping, Stopping
  <2> QED
    BY <1>2, <1>3, <2>1, <2>3, <2>5, WritesTypes DEF SaveWorkspace
<1>4. CASE WorkspaceSaved(o)
  <2> DEFINE w == [op[o] EXCEPT !.at = "saved", !.cur = FALSE]
             c == [comp EXCEPT !.state = "running"]
  <2>1. Goes(o, w) \/ (comp.ref = op[o].got /\ Writes(o, w, c))
    BY <1>4 DEF WorkspaceSaved
  <2>2. w \in OpRec /\ w.at = "saved" /\ w.got = op[o].got /\ ~w.cur
    BY <1>0, AtCurSet
  <2>3. op[o].got # 0
    BY <1>0, <1>4 DEF WorkspaceSaved, Fit, AtWork
  <2>4. comp.ref = op[o].got => c \in CompRow /\ Boxed(c)
    BY <1>0, <2>3, Boxes
  <2> HIDE DEF w, c
  <2>5. Comes(o, w) /\ GivesBack(w, c) /\ ~Holds1(w)
    BY <2>2, <2>3 DEF Comes, GivesBack, Holds1, Fit, Booting, Sleeping, Stopping
  <2> QED
    BY <1>2, <1>4, <2>1, <2>4, <2>5, WritesTypes, GoesTypes DEF WorkspaceSaved
<1>5. CASE EndRun(o)
  BY <1>2, <1>5, GoesPlain DEF EndRun
<1>6. CASE LoseLease(o)
  BY <1>2, <1>6, GoesPlain DEF LoseLease
<1> QED
  BY <1>1, <1>3, <1>4, <1>5, <1>6

\* Vacate writes the row under its own stamp.
LEMMA VacateTypes ==
    ASSUME LifeTypes, NEW o \in Op, op[o].at = "vacate", op[o].cur,
           comp' = RowAs(comp, "stopped", 0), op' = [op EXCEPT ![o] = At("look")],
           UNCHANGED <<abandoned, lease, box, deaths, faults>>
    PROVE  TypedStep
<1>1. At("look") \in OpRec /\ ~Holds1(At("look")) /\ Fit(Kind[o], At("look")) /\ At("look").at = "look"
  BY PlacesArePlain, AtPlain DEF Places, Holds1
<1>2. Moved(o, At("look"))
  BY <1>1 DEF Moved, LifeTypes, LifeTypeOK
<1>3. comp' \in CompRow /\ comp'.state = "stopped"
  <2>1. comp \in CompRow /\ "stopped" \in States /\ 0 \in 0..MaxBox
    BY RecordsAre, LifecycleAssumption DEF States, Resting
  <2> QED
    BY <2>1, StateRefSet
<1>4. Others'
  BY SameOthers DEF LifeTypes
<1>5. \A p \in Op : ~Holder(p)'
  <2>1. Holder(o)
    BY DEF Holder, Holds1, Claimed, Replacing
  <2> QED
    BY <1>1, <1>2, <2>1 DEF Moved, Holder, LifeTypes, OneHolder
<1>6. LifeTypeOK'
  BY <1>2, <1>3, <1>4 DEF LifeTypes, LifeTypeOK, Others, Moved
<1>7. \A p \in Op : Fit(Kind[p], op'[p])
  BY <1>1, <1>2 DEF LifeTypes, Moved
<1>8. NoStop' => NoStop
  BY <1>1, <1>2, NoneBefore DEF Moved
<1> QED
  BY <1>5, <1>6, <1>7, <1>8 DEF LifeTypes, OneHolder, GivesBack, Holder, TypedStep

LEMMA ReplaceTypes ==
    ASSUME LifeTypes, NEW o \in Op, ReplaceStep(o)
    PROVE  TypedStep
<1> USE RecordsAre, PlacesArePlain DEF Places
<1>0. /\ op[o] \in OpRec /\ Fit(Kind[o], op[o])
      /\ {"recheck", "destroy", "vacate", "spoil", "rclaim"} \subseteq Pcs
      /\ {"suspending", "error", "stopped"} \subseteq States /\ 0 \in 0..MaxBox
  BY LifecycleAssumption DEF Pcs, States, Unstable, Resting
<1>1. RLook(o) \/ RClaim(o) \/ Recheck(o) \/ Destroy(o) \/ Vacate(o) \/ Spoil(o)
  BY DEF ReplaceStep
<1>2. UNCHANGED <<lease, box, deaths, faults>> => Others'
  BY SameOthers DEF LifeTypes
\* The places after the recheck need nothing that was read.
<1>3. ASSUME NEW pc \in {"destroy", "vacate", "spoil"}
      PROVE  Fit(Kind[o], [op[o] EXCEPT !.at = pc])
  <2>1. [op[o] EXCEPT !.at = pc].at = pc
    BY <1>0, AtSet
  <2> QED
    BY <2>1 DEF Fit, Booting, Sleeping, AtWork, Stopping
<1>4. CASE RLook(o)
  <2> DEFINE w == ReadCur(At("rclaim"), comp.state, comp.ref)
  <2>1. Goes(o, GivenUp(o)) \/ Goes(o, w)
    BY <1>4 DEF RLook, ReadCur
  <2>2. At("rclaim") \in OpRec /\ At("rclaim").at = "rclaim"
    BY <1>0, AtIs
  <2>3. w \in OpRec /\ w.at = "rclaim" /\ w.st = comp.state
    BY <2>2, ReadSet
  <2> HIDE DEF w
  <2>4. Comes(o, w) /\ ~Holds1(w)
    BY <2>3 DEF Comes, Holds1, Fit, Claimed, Booting, Replacing, Sleeping, AtWork, Stopping
  <2> QED
    BY <1>2, <1>4, <2>1, <2>4, GivesUp, GoesTypes DEF RLook
<1>5. CASE RClaim(o)
  <2> DEFINE w == [op[o] EXCEPT !.at = "recheck", !.cur = TRUE]
             c == [comp EXCEPT !.state = "suspending"]
  <2>1. Goes(o, GivenUp(o)) \/ (comp.state = op[o].st /\ Writes(o, w, c))
    BY <1>5 DEF RClaim
  <2>2. w \in OpRec /\ w.at = "recheck" /\ w.st = op[o].st
    BY <1>0, AtCurSet
  <2>3. c \in CompRow /\ Boxed(c) /\ c.ref = comp.ref
    BY <1>0, Boxes, StateSet
  <2>4. op[o].st \in States
    BY <1>0, <1>5 DEF RClaim, Fit
  <2> HIDE DEF w, c
  <2>5. Comes(o, w)
    BY <2>2, <2>4 DEF Comes, Fit, Booting, Sleeping, AtWork, Stopping
  <2>6. StopsAlone /\ comp.state = op[o].st => GivesBack(w, c)
    BY <2>2, <2>3, Boxes DEF GivesBack, Boxed
  <2> QED
    BY <1>2, <1>5, <2>1, <2>3, <2>5, <2>6, GivesUp, WritesTypes DEF RClaim
<1>6. CASE Recheck(o)
  <2>1. CASE Goes(o, GivenUp(o))
    BY <1>2, <1>6, <2>1, GivesUp DEF Recheck
  <2>2. CASE Goes(o, [op[o] EXCEPT !.at = "destroy"])
    BY <1>0, <1>2, <1>3, <1>6, <2>2, StaysAt DEF Recheck, Claimed, Replacing
  <2>3. CASE op[o].cur /\ Writes(o, GivenUp(o), [comp EXCEPT !.state = op[o].st])
    <3> DEFINE c == [comp EXCEPT !.state = op[o].st]
    <3>1. op[o].st \in States /\ op[o].at = "recheck"
      BY <1>0, <1>6 DEF Recheck, Fit
    <3>2. c \in CompRow /\ c.state = op[o].st /\ c.ref = comp.ref
      BY <3>1, StateSet
    <3>3. StopsAlone => Boxed(c)
      <4>1. StopsAlone => GivesBack(op[o], comp)
        BY DEF LifeTypes
      <4>2. Holds1(op[o])
        BY <2>3, <3>1 DEF Holds1, Claimed, Replacing
      <4> QED
        BY <3>1, <3>2, <4>1, <4>2 DEF GivesBack, Boxed
    <3> HIDE DEF c
    <3> QED
      BY <1>2, <1>6, <2>3, <3>2, <3>3, GivesUpWriting DEF Recheck, c
  <2> QED
    BY <1>6, <2>1, <2>2, <2>3 DEF Recheck
<1>7. CASE Destroy(o)
  <2>1. PICK pc \in {"vacate", "spoil"} : Goes(o, [op[o] EXCEPT !.at = pc])
    BY <1>7 DEF Destroy
  <2>2. box' \in [Box -> {"gone", "up", "down"}]
    BY <1>7 DEF Destroy, Others
  <2>3. faults' \in 0..MaxFault
    BY <1>7, LifecycleAssumption DEF Destroy, Fault, Others
  <2>4. Others'
    BY <1>7, <2>2, <2>3 DEF Destroy, Others
  <2> QED
    BY <1>0, <1>3, <1>7, <2>1, <2>4, StaysAt DEF Destroy, Claimed, Replacing
<1>8. CASE Vacate(o)
  <2>1. CASE Goes(o, [op[o] EXCEPT !.at = "spoil"])
    BY <1>0, <1>2, <1>3, <1>8, <2>1, StaysAt DEF Vacate, Claimed, Replacing
  <2>2. CASE ~Goes(o, [op[o] EXCEPT !.at = "spoil"])
    BY <1>8, <2>2, VacateTypes DEF Vacate, RowAs
  <2> QED
    BY <2>1, <2>2
<1>9. CASE Spoil(o)
  <2>1. [comp EXCEPT !.state = "error"] \in CompRow /\ Boxed([comp EXCEPT !.state = "error"])
    BY Boxes
  <2> QED
    BY <1>2, <1>9, <2>1, GivesUp, GivesUpWriting DEF Spoil
<1> QED
  BY <1>1, <1>4, <1>5, <1>6, <1>7, <1>8, <1>9

LEMMA SleepTypes ==
    ASSUME LifeTypes, NEW o \in Op, SleepStep(o) \/ SLook(o)
    PROVE  TypedStep
<1> USE RecordsAre, PlacesArePlain DEF Places
<1>0. /\ op[o] \in OpRec /\ Fit(Kind[o], op[o])
      /\ {"sclaim", "ssave", "srecheck", "sstop", "srecord"} \subseteq Pcs
      /\ {"suspending", "running", "suspended"} \subseteq States
  BY DEF Pcs, States, Unstable, Resting
<1>1. SLook(o) \/ SClaim(o) \/ SSave(o) \/ SRecheck(o) \/ SStop(o) \/ SRecord(o)
  BY DEF SleepStep
<1>2. UNCHANGED <<lease, box, deaths>> /\ (UNCHANGED faults \/ Fault) => Others'
  BY SameOthers DEF LifeTypes
<1>3. op[o].at \in {"sclaim"} \cup Sleeping => op[o].ref # 0 /\ Kind[o] = "sleep"
  BY <1>0 DEF Fit
<1>4. ASSUME op[o].at \in Sleeping, Resume(o), Others'
      PROVE  TypedStep
  <2>1. CASE Goes(o, At("none"))
    BY <1>3, <1>4, <2>1, GoesPlain
  <2>2. CASE SuspensionClaim(o) /\ Writes(o, At("none"), [comp EXCEPT !.state = "running"])
    <3>1. comp.ref # 0
      BY <1>3, <1>4, <2>2 DEF SuspensionClaim
    <3>2. [comp EXCEPT !.state = "running"] \in CompRow /\ Boxed([comp EXCEPT !.state = "running"])
      BY <1>0, <3>1, Boxes
    <3> QED
      BY <1>3, <1>4, <2>2, <3>2, WritesPlain
  <2> QED
    BY <1>4, <2>1, <2>2 DEF Resume
<1>5. ASSUME op[o].at \in Sleeping, NEW pc \in Sleeping, Goes(o, [op[o] EXCEPT !.at = pc]), Others'
      PROVE  TypedStep
  <2>1. [op[o] EXCEPT !.at = pc].at = pc /\ [op[o] EXCEPT !.at = pc].ref = op[o].ref
    BY <1>0, AtSet DEF Sleeping
  <2>2. Fit(Kind[o], [op[o] EXCEPT !.at = pc])
    BY <1>3, <1>5, <2>1 DEF Fit, Booting, Sleeping, AtWork, Stopping
  <2> QED
    BY <1>0, <1>5, <2>2, StaysAt DEF Claimed, Sleeping
<1>6. CASE SLook(o)
  <2> DEFINE w == RefCur(At("sclaim"), comp.ref)
  <2>1. Goes(o, w)
    BY <1>6 DEF SLook, RefCur
  <2>2. At("sclaim") \in OpRec /\ At("sclaim").at = "sclaim"
    BY <1>0, AtIs
  <2>3. w \in OpRec /\ w.at = "sclaim" /\ w.ref = comp.ref
    BY <1>0, <2>2, RefSet
  <2> HIDE DEF w
  <2>4. Comes(o, w) /\ ~Holds1(w)
    BY <1>6, <2>3 DEF SLook, Comes, Holds1, Fit, Claimed, Booting, Replacing, Sleeping, AtWork, Stopping
  <2> QED
    BY <1>2, <1>6, <2>1, <2>4, GoesTypes DEF SLook
<1>7. CASE SClaim(o)
  <2> DEFINE w == [op[o] EXCEPT !.at = "ssave", !.cur = TRUE]
             c == [comp EXCEPT !.state = "suspending"]
  <2>1. Goes(o, At("none")) \/ Writes(o, w, c)
    BY <1>7 DEF SClaim
  <2>2. w \in OpRec /\ w.at = "ssave" /\ w.ref = op[o].ref
    BY <1>0, AtCurSet
  <2>3. c \in CompRow /\ Boxed(c)
    BY Boxes
  <2>4. op[o].ref # 0 /\ Kind[o] = "sleep"
    BY <1>3, <1>7 DEF SClaim
  <2> HIDE DEF w, c
  <2>5. Comes(o, w) /\ GivesBack(w, c)
    BY <2>2, <2>4 DEF Comes, GivesBack, Fit, Booting, Sleeping, AtWork, Stopping
  <2> QED
    BY <1>2, <1>7, <2>1, <2>3, <2>4, <2>5, GoesPlain, WritesTypes DEF SClaim
<1>8. CASE SSave(o)
  <2>1. op[o].at \in Sleeping /\ "srecheck" \in Sleeping
    BY <1>8 DEF SSave, Sleeping
  <2>2. Others'
    BY <1>2, <1>8 DEF SSave
  <2> QED
    BY <1>4, <1>5, <1>8, <2>1, <2>2 DEF SSave
<1>9. CASE SRecheck(o)
  <2>1. op[o].at \in Sleeping /\ "sstop" \in Sleeping
    BY <1>9 DEF SRecheck, Sleeping
  <2> QED
    BY <1>2, <1>4, <1>5, <1>9, <2>1 DEF SRecheck
<1>10. CASE SStop(o)
  <2>1. op[o].at \in Sleeping /\ "srecord" \in Sleeping
    BY <1>10 DEF SStop, Sleeping
  <2>2. box' \in [Box -> {"gone", "up", "down"}] /\ faults' \in 0..MaxFault
    <3>1. box \in [Box -> {"gone", "up", "down"}] /\ faults \in 0..MaxFault /\ MaxFault \in Nat
      BY LifecycleAssumption DEF Others
    <3>2. box' = box \/ \E v \in {"gone", "up", "down"} : box' = [box EXCEPT ![op[o].ref] = v]
      <4>1. op[o].ref \in Box
        BY <1>3, <2>1 DEF Box
      <4> QED
        BY <1>10, <3>1, <4>1 DEF SStop
    <3>3. box' \in [Box -> {"gone", "up", "down"}]
      BY <3>1, <3>2
    <3> QED
      BY <1>10, <3>1, <3>3 DEF SStop, Fault
  <2>3. Others'
    BY <1>10, <2>2 DEF SStop, Others
  <2> QED
    BY <1>4, <1>5, <1>10, <2>1, <2>3 DEF SStop
<1>11. CASE SRecord(o)
  <2>1. op[o].at \in Sleeping
    BY <1>11 DEF SRecord, Sleeping
  <2>2. SuspensionClaim(o) => comp.ref # 0
    BY <1>3, <2>1 DEF SuspensionClaim
  <2>3. comp.ref # 0 => /\ [comp EXCEPT !.state = "suspended"] \in CompRow
                        /\ Boxed([comp EXCEPT !.state = "suspended"])
    BY <1>0, Boxes
  <2> QED
    BY <1>2, <1>3, <1>11, <2>1, <2>2, <2>3, GoesPlain, WritesPlain DEF SRecord
<1> QED
  BY <1>1, <1>6, <1>7, <1>8, <1>9, <1>10, <1>11

LEMMA StopTypes ==
    ASSUME LifeTypes, NEW o \in Op, StopStep(o) \/ TLook(o)
    PROVE  TypedStep
<1> USE RecordsAre, PlacesArePlain DEF Places
<1>0. /\ op[o] \in OpRec /\ Fit(Kind[o], op[o])
      /\ {"tclaim", "tcheck", "tstop", "trecord"} \subseteq Pcs
      /\ {"suspending", "error", "stopped"} \subseteq States
  BY DEF Pcs, States, Unstable, Resting
<1>1. TLook(o) \/ TClaim(o) \/ TCheck(o) \/ TStop(o) \/ TRecord(o)
  BY DEF StopStep
<1>2. UNCHANGED <<lease, box, deaths>> /\ (UNCHANGED faults \/ Fault) => Others'
  BY SameOthers DEF LifeTypes
<1>3. op[o].at \in {"tclaim"} \cup Stopping => Kind[o] = "stop"
  BY <1>0 DEF Fit
<1>4. ASSUME Kind[o] = "stop", NEW pc \in {"tstop", "trecord"}, Goes(o, [op[o] EXCEPT !.at = pc]), Others'
      PROVE  TypedStep
  <2>1. [op[o] EXCEPT !.at = pc].at = pc /\ pc \in Pcs
    BY <1>0, <1>4, AtSet
  <2>2. Fit(Kind[o], [op[o] EXCEPT !.at = pc])
    BY <1>4, <2>1 DEF Fit, Booting, Sleeping, AtWork, Stopping
  <2>3. pc \notin Claimed
    BY DEF Claimed, Booting, Replacing, Sleeping
  <2> QED
    BY <1>4, <2>1, <2>2, <2>3, StaysAt
<1>5. CASE TLook(o)
  <2> DEFINE w == RefState(At("tclaim"), comp.ref, comp.state)
  <2>1. Goes(o, w)
    BY <1>5 DEF TLook, RefState
  <2>2. At("tclaim") \in OpRec /\ At("tclaim").at = "tclaim"
    BY <1>0, AtIs
  <2>3. w \in OpRec /\ w.at = "tclaim" /\ w.st = comp.state
    BY <1>0, <2>2, RefStateSet
  <2> HIDE DEF w
  <2>4. Comes(o, w) /\ ~Holds1(w)
    BY <1>5, <2>3 DEF TLook, Comes, Holds1, Fit, Claimed, Booting, Replacing, Sleeping, AtWork, Stopping
  <2> QED
    BY <1>2, <1>5, <2>1, <2>4, GoesTypes DEF TLook
<1>6. CASE TClaim(o)
  <2> DEFINE w == [op[o] EXCEPT !.at = "tcheck", !.cur = TRUE]
             c == [comp EXCEPT !.state = "suspending"]
  <2>1. Goes(o, At("done")) \/ Writes(o, w, c)
    BY <1>6 DEF TClaim
  <2>2. w \in OpRec /\ w.at = "tcheck" /\ w.st = op[o].st
    BY <1>0, AtCurSet
  <2>3. c \in CompRow /\ Boxed(c)
    BY Boxes
  <2>4. Kind[o] = "stop" /\ op[o].st \in States
    BY <1>0, <1>6 DEF TClaim, Fit
  <2> HIDE DEF w, c
  <2>5. Comes(o, w) /\ GivesBack(w, c)
    BY <2>2, <2>4 DEF Comes, GivesBack, Fit, Booting, Sleeping, AtWork, Stopping
  <2> QED
    BY <1>2, <1>6, <2>1, <2>3, <2>5, GoesPlain, WritesTypes DEF TClaim
<1>7. CASE TCheck(o)
  <2>1. Kind[o] = "stop" /\ op[o].at # "none"
    BY <1>3, <1>7 DEF TCheck, Stopping
  <2>2. CASE \E r \in Op : ActiveRun(r) /\ BotOf[r] # BotOf[o]
    <3>1. ~StopsAlone
      BY <2>1, <2>2 DEF StopsAlone, ActiveRun
    <3>2. CASE Goes(o, At("done"))
      BY <1>2, <1>7, <2>2, <3>2, GoesPlain DEF TCheck
    <3>3. CASE Writes(o, At("done"), [comp EXCEPT !.state = op[o].st])
      <4>1. op[o].st \in States
        BY <1>0, <1>7 DEF TCheck, Fit
      <4>2. [comp EXCEPT !.state = op[o].st] \in CompRow
        BY <4>1, StateSet
      <4> QED
        BY <1>2, <1>7, <2>2, <3>1, <3>3, <4>2, WritesPlain DEF TCheck
    <3> QED
      BY <1>7, <2>2, <3>2, <3>3 DEF TCheck
  <2>3. CASE ~ \E r \in Op : ActiveRun(r) /\ BotOf[r] # BotOf[o]
    <3>1. Goes(o, [op[o] EXCEPT !.at = "tstop"]) /\ lease' = [lease EXCEPT ![BotOf[o]] = NoLease]
      BY <1>7, <2>3 DEF TCheck
    <3>2. NoLease \in LeaseRow
      BY LifecycleAssumption DEF NoLease, LeaseRow
    <3>3. Others'
      BY <1>7, <3>1, <3>2 DEF TCheck, Others
    <3> QED
      BY <1>4, <2>1, <3>1, <3>3
  <2> QED
    BY <2>2, <2>3
<1>8. CASE TStop(o)
  <2>1. Kind[o] = "stop"
    BY <1>3, <1>8 DEF TStop, Stopping
  <2>2. faults' \in 0..MaxFault
    BY <1>8, LifecycleAssumption DEF TStop, Fault, Others
  <2>3. box' \in [Box -> {"gone", "up", "down"}]
    BY <1>8 DEF TStop, Others
  <2>4. Others'
    BY <1>8, <2>2, <2>3 DEF TStop, Others
  <2>5. [comp EXCEPT !.state = "error"] \in CompRow /\ Boxed([comp EXCEPT !.state = "error"])
    BY Boxes
  <2> QED
    BY <1>4, <1>8, <2>1, <2>4, <2>5, GoesPlain, WritesPlain DEF TStop
<1>9. CASE TRecord(o)
  <2>1. [comp EXCEPT !.state = "stopped"] \in CompRow /\ Boxed([comp EXCEPT !.state = "stopped"])
    BY Boxes
  <2> QED
    BY <1>2, <1>9, <2>1, WritesPlain DEF TRecord
<1> QED
  BY <1>1, <1>5, <1>6, <1>7, <1>8, <1>9

LEMMA EndTypes ==
    ASSUME LifeTypes, NEW o \in Op, Die(o) \/ ReleaseInterrupted(o) \/ Recovers(o)
    PROVE  TypedStep
<1> USE RecordsAre, PlacesArePlain DEF Places
<1>1. CASE Die(o)
  <2>1. deaths' \in 0..MaxDeath
    BY <1>1, LifecycleAssumption DEF Die, Others
  <2>2. Others'
    BY <1>1, <2>1 DEF Die, Others
  <2> QED
    BY <1>1, <2>2, GoesPlain DEF Die
<1>2. UNCHANGED <<lease, box, deaths, faults>> => Others'
  BY SameOthers DEF LifeTypes
<1>3. CASE ReleaseInterrupted(o)
  <2> DEFINE c == RowFreed(comp, NoOp, "error")
  <2>1. Writes(o, At("done"), c)
    BY <1>3 DEF ReleaseInterrupted, RowFreed
  <2>2. "error" \in States /\ NoOp \in Updates \cup {NoOp} /\ comp \in CompRow
    BY DEF States, Resting
  <2>3. c \in CompRow /\ c.state = "error"
    BY <2>2, MaintStateSet
  <2> HIDE DEF c
  <2> QED
    BY <1>2, <1>3, <2>1, <2>3, WritesPlain DEF ReleaseInterrupted, Boxed
<1>4. CASE Recovers(o)
  BY <1>2, <1>4, GoesPlain DEF Recovers, RunLapses, Redeliver
<1> QED
  BY <1>1, <1>3, <1>4

LEMMA TimeTypes ==
    ASSUME LifeTypes, StampAges \/ \E b \in Bot : LeaseLapses(b)
    PROVE  TypedStep
<1> USE RecordsAre
<1>1. UNCHANGED <<comp, op>> /\ abandoned' \in BOOLEAN
  BY DEF StampAges, LeaseLapses
<1>2. Others'
  <2>1. CASE StampAges
    BY <2>1, SameOthers DEF StampAges, LifeTypes
  <2>2. ASSUME NEW b \in Bot, LeaseLapses(b) PROVE Others'
    <3> DEFINE l == [lease[b] EXCEPT !.live = FALSE]
    <3>1. lease \in [Bot -> LeaseRow] /\ lease' = [lease EXCEPT ![b] = l]
      BY <2>2 DEF LeaseLapses, Others
    <3>2. l \in LeaseRow
      BY <3>1 DEF LeaseRow
    <3> HIDE DEF l
    <3>3. lease' \in [Bot -> LeaseRow]
      BY <3>1, <3>2
    <3>4. faults' \in 0..MaxFault
      BY <2>2, LifecycleAssumption DEF LeaseLapses, Fault, Others
    <3> QED
      BY <2>2, <3>3, <3>4 DEF LeaseLapses, Others
  <2> QED
    BY <2>1, <2>2
<1>3. LifeTypeOK'
  BY <1>1, <1>2 DEF LifeTypes, LifeTypeOK, Others, StopsAlone
<1>4. OneHolder' /\ \A o \in Op : Fit(Kind[o], op'[o])
  BY <1>1 DEF LifeTypes, OneHolder, Holder
<1>5. StopsAlone' => \A o \in Op : GivesBack(op'[o], comp')
  BY <1>1 DEF LifeTypes, StopsAlone
<1> QED
  BY <1>1, <1>3, <1>4, <1>5 DEF LifeTypes, TypedStep, NoStop

LEMMA LifeTypesStep == LifeTypes /\ [LifeNext]_lifeVars => TypedStep
<1> SUFFICES ASSUME LifeTypes, [LifeNext]_lifeVars
             PROVE  TypedStep
  OBVIOUS
<1>1. CASE UNCHANGED lifeVars
  BY <1>1 DEF lifeVars, LifeTypes, LifeTypeOK, OneHolder, Holder, StopsAlone, NoStop, TypedStep
<1>2. ASSUME NEW o \in Op, Step(o) \/ Begin(o) \/ Die(o) \/ ReleaseInterrupted(o)
      PROVE  TypedStep
  BY <1>2, LeaseTypes, ProvisionTypes, WorkTypes, ReplaceTypes, SleepTypes, StopTypes, EndTypes
     DEF Step, Begin
<1>3. CASE StampAges \/ \E b \in Bot : LeaseLapses(b)
  BY <1>3, TimeTypes
<1> QED
  BY <1>1, <1>2, <1>3 DEF LifeNext

LEMMA LifeInitTypes == LifeInit => LifeTypes
<1> SUFFICES ASSUME LifeInit
             PROVE  LifeTypes
  OBVIOUS
<1>1. At("none") \in OpRec /\ At("none").at = "none" /\ ~At("none").cur
      /\ \A k : Fit(k, At("none"))
  BY PlacesArePlain, AtPlain DEF Places
<1>2. op \in [Op -> OpRec] /\ \A o \in Op : op[o] = At("none")
  BY <1>1 DEF LifeInit
<1>3. comp \in CompRow /\ (comp.state \in {"running", "suspended"} => comp.ref # 0)
  BY LifecycleAssumption DEF LifeInit, CompRow, States, Resting
<1>4. lease \in [Bot -> LeaseRow]
  BY LifecycleAssumption DEF LifeInit, NoLease, LeaseRow
<1>5. box \in [Box -> {"gone", "up", "down"}]
  BY DEF LifeInit
<1>6. LifeTypeOK
  <2>1. abandoned \in BOOLEAN /\ deaths \in 0..MaxDeath /\ faults \in 0..MaxFault
    <3>1. MaxDeath \in Nat /\ MaxFault \in Nat
      BY LifecycleAssumption
    <3>2. abandoned = FALSE /\ deaths = 0 /\ faults = 0
      BY DEF LifeInit
    <3>3. abandoned \in BOOLEAN
      BY <3>2, Zenon
    <3>4. deaths \in 0..MaxDeath /\ faults \in 0..MaxFault
      BY <3>1, <3>2
    <3> QED
      BY <3>3, <3>4
  <2> QED
    BY <1>2, <1>3, <1>4, <1>5, <2>1 DEF LifeTypeOK
<1>7. \A o \in Op : Fit(Kind[o], op[o]) /\ ~Holds1(op[o])
  BY <1>1, <1>2 DEF Holds1
<1> QED
  BY <1>6, <1>7 DEF LifeTypes, OneHolder, Holder, GivesBack

\* Every variable has its type, and a row that is running has a box, unless a user's
\* stop wrote back what it had read (LifeTypeOK): a replacement that gives the row
\* back knows it still has the box it claimed with, for one operation holds the claim.
THEOREM LifeTypesAreRight == LifeSpec => []LifeTypeOK
<1>1. LifeTypes => LifeTypeOK
  BY DEF LifeTypes
<1>2. LifeTypes /\ [LifeNext]_lifeVars => LifeTypes'
  BY LifeTypesStep DEF TypedStep
<1> QED
  BY <1>1, <1>2, LifeInitTypes, PTL DEF LifeSpec

-----------------------------------------------------------------------------
(* What the claim of the row gives.                                        *)

LEMMA HolderFacts ==
    ASSUME LifeTypes, KeptInv
    PROVE  /\ \A p \in Op : op[p].at \in Claimed =>
                 /\ Holder(p) /\ HolderOK(p)
                 /\ comp.state \in Unstable /\ comp.maint \in {NoOp, p}
           /\ \A p, q \in Op : op[p].at \in Claimed /\ op[q].at \in Claimed => p = q
           /\ abandoned => \A p \in Op : op[p].at \in Claimed =>
                 p \in Runs /\ LeasedRun(p) /\ ActiveRun(p) /\ comp.state = "booting"
<1>1. \A p \in Op : op[p].at \in Claimed => Holder(p) /\ HolderOK(p)
  BY DEF KeptInv, Holder, Holds1
<1>2. \A p \in Op : HolderOK(p) => comp.state \in Unstable /\ comp.maint \in {NoOp, p}
  BY DEF HolderOK, Unstable
<1>3. \A p, q \in Op : op[p].at \in Claimed /\ op[q].at \in Claimed => p = q
  BY <1>1 DEF LifeTypes, OneHolder
<1>4. ASSUME abandoned, NEW p \in Op, op[p].at \in Claimed
      PROVE  p \in Runs /\ LeasedRun(p) /\ ActiveRun(p) /\ comp.state = "booting"
  <2>1. p \in Runs /\ op[p].at \in Booting /\ comp.state = "booting"
    BY <1>1, <1>4 DEF HolderOK
  <2> QED
    BY <2>1 DEF LeasedRun, ActiveRun, Booting
<1> QED
  BY <1>1, <1>2, <1>3, <1>4

LEMMA WorkerFacts ==
    ASSUME LifeTypes, KeptInv, NEW r \in Runs, op[r].at \in AtWork
    PROVE  /\ r \in Op /\ ActiveRun(r) /\ LeasedRun(r) /\ comp.maint = NoOp
           /\ comp.state \in {"running"} \cup Unstable /\ comp.ref = op[r].got
           /\ op[r].got \in Box /\ box[op[r].got] = "up"
<1>1. r \in Op /\ op[r].got \in 0..MaxBox /\ op[r].got # 0
  BY RecordsAre DEF Runs, Fit
<1>2. ActiveRun(r) /\ LeasedRun(r) /\ op[r].at \notin Aside
  BY DEF ActiveRun, LeasedRun, AtWork, Aside
<1>3. WorkerOK(r) /\ comp.maint = NoOp
  BY <1>2 DEF KeptInv
<1>4. op[r].got \in Box
  BY <1>1, LifecycleAssumption DEF Box
<1> QED
  BY <1>1, <1>2, <1>3, <1>4 DEF WorkerOK

\* o moves, and the row stays.
LEMMA GoesKept ==
    ASSUME LifeTypes, KeptInv, NEW o \in Op, NEW w, Moved(o, w), UNCHANGED <<comp, abandoned>>,
           box' = box \/ op[o].at \in Claimed,
           w.at \in AtWork => op[o].at \in AtWork,
           w.at \in Claimed => op[o].at \in Claimed /\ w.cur /\ HolderOK(o)',
           LookerOK(o)',
           \A r \in Runs : WorkerOK(r)',
           o \in Runs /\ comp.maint # NoOp => w.at \in Aside
    PROVE  KeptInv'
<1>1. SomeoneWorks' => SomeoneWorks
  BY DEF SomeoneWorks, Moved, Runs
<1>2. \A p \in Op : op'[p].at \in Claimed => op'[p].cur
  BY DEF KeptInv, Moved
<1>3. ASSUME NEW p \in Op, op'[p].at \in Claimed PROVE HolderOK(p)'
  <2>1. CASE p = o
    BY <1>3, <2>1 DEF Moved
  <2>2. CASE p # o
    <3>1. op'[p] = op[p] /\ op[p].at \in Claimed
      BY <1>3, <2>2 DEF Moved
    <3>2. HolderOK(p) /\ box' = box
      BY <2>2, <3>1, HolderFacts
    <3> QED
      BY <1>1, <3>1, <3>2 DEF HolderOK
  <2> QED
    BY <2>1, <2>2
<1>4. ASSUME NEW p \in Op PROVE LookerOK(p)'
  <2>1. CASE p = o
    BY <2>1
  <2>2. CASE p # o
    <3>1. op'[p] = op[p] /\ LookerOK(p)
      BY <2>2 DEF Moved, KeptInv
    <3>2. \A q \in Op : Holder(q)' => Holder(q)
      BY HolderFacts DEF Moved, Holder, Holds1
    <3> QED
      BY <1>1, <3>1, <3>2 DEF LookerOK
  <2> QED
    BY <2>1, <2>2
<1>5. comp'.maint # NoOp => \A r \in Runs : op'[r].at \in Aside
  BY DEF KeptInv, Moved, Runs
<1> QED
  BY <1>2, <1>3, <1>4, <1>5 DEF KeptInv

\* o moves and writes the row, which no other operation holds.
LEMMA WritesKept ==
    ASSUME LifeTypes, KeptInv, NEW o \in Op, NEW w, Wrote(o, w), abandoned' = FALSE,
           \A p \in Op \ {o} : op[p].at \notin Claimed,
           w.at \in Claimed => w.cur /\ HolderOK(o)',
           w.at \notin Looking,
           \A r \in Runs : WorkerOK(r)',
           comp'.maint # NoOp => \A r \in Runs : op'[r].at \in Aside
    PROVE  KeptInv'
<1>1. \A p \in Op \ {o} : op'[p].at \notin Claimed /\ ~op'[p].cur
  BY DEF Wrote
<1>2. op'[o] = w
  BY DEF Wrote
<1>3. \A p \in Op : op'[p].at \in Claimed => op'[p].cur /\ HolderOK(p)'
  BY <1>1, <1>2
<1>4. \A p \in Op : ~Adopts(op'[p]) /\ ~Awaits(op'[p])
                    /\ ~(op'[p].cur /\ op'[p].at = "sclaim")
  BY <1>1, <1>2 DEF Adopts, Awaits, Looking
<1>5. \A p \in Op : LookerOK(p)'
  BY <1>4 DEF LookerOK
<1> QED
  BY <1>3, <1>5 DEF KeptInv

\* Runs at work that stay what they are have their box.
LEMMA WorkersStay ==
    ASSUME LifeTypes, KeptInv, NEW o \in Op,
           \A p \in Op \ {o} : op'[p].at = op[p].at /\ op'[p].got = op[p].got,
           op'[o].at \in AtWork => op[o].at \in AtWork /\ op'[o].got = op[o].got,
           SomeoneWorks => /\ comp'.state \in {"running"} \cup Unstable
                           /\ comp'.ref = comp.ref
                           /\ \A n \in Box : box[n] = "up" => box'[n] = "up"
    PROVE  \A r \in Runs : WorkerOK(r)'
<1> SUFFICES ASSUME NEW r \in Runs, op'[r].at \in AtWork
             PROVE  /\ comp'.state \in {"running"} \cup Unstable
                    /\ comp'.ref = op'[r].got
                    /\ box'[op'[r].got] = "up"
  BY DEF WorkerOK
<1>1. r \in Op /\ op[r].at \in AtWork /\ op'[r].got = op[r].got
  BY DEF Runs
<1>2. SomeoneWorks
  BY <1>1 DEF SomeoneWorks
<1> QED
  BY <1>1, <1>2, WorkerFacts

\* o goes where it has nothing in hand.
LEMMA PlainKept ==
    ASSUME LifeTypes, KeptInv, NEW o \in Op, NEW pc \in Plain, Goes(o, At(pc)), box' = box,
           o \in Runs /\ comp.maint # NoOp /\ op[o].at \in Aside => pc \in Aside
    PROVE  KeptInv'
<1> DEFINE w == At(pc)
<1>1. w \in OpRec /\ w.at = pc /\ ~w.cur
  BY AtPlain
<1> HIDE DEF w
<1>2. Moved(o, w) /\ UNCHANGED <<comp, abandoned>>
  BY <1>1, GoesMoves DEF LifeTypes, w
<1>3. w.at \notin AtWork /\ w.at \notin Claimed
  BY <1>1 DEF Plain
<1>4. op'[o] = w
  BY <1>2 DEF Moved
<1>5. LookerOK(o)'
  BY <1>1, <1>4 DEF LookerOK, Adopts, Awaits
<1>6. \A r \in Runs : WorkerOK(r)'
  <2>1. \A p \in Op \ {o} : op'[p].at = op[p].at /\ op'[p].got = op[p].got
    BY <1>2 DEF Moved
  <2>2. SomeoneWorks => comp.state \in {"running"} \cup Unstable
    BY WorkerFacts DEF SomeoneWorks
  <2> QED
    BY <1>2, <1>3, <1>4, <2>1, <2>2, WorkersStay
<1>7. o \in Runs /\ comp.maint # NoOp => op[o].at \in Aside
  BY DEF KeptInv
<1> QED
  BY <1>1, <1>2, <1>3, <1>5, <1>6, <1>7, GoesKept

LEMMA GivenUpKept ==
    ASSUME LifeTypes, KeptInv, NEW o \in Op, Goes(o, GivenUp(o)), box' = box, op[o].at \notin Aside
    PROVE  KeptInv'
BY GivenUpPlain, PlainKept
   DEF Plain, Pcs, Claimed, AtWork, Stopping, Booting, Replacing, Sleeping

\* o looks at the row, and has nothing in hand yet.
LEMMA LookKept ==
    ASSUME LifeTypes, KeptInv, NEW o \in Op, NEW w \in OpRec, Goes(o, w), box' = box,
           w.at \in Looking, op[o].at \notin Aside \/ o \notin Runs,
           Adopts(w) \/ Awaits(w) => \A p \in Op : op[p].at \notin Claimed,
           Adopts(w) \/ (w.cur /\ w.at = "sclaim") => ~SomeoneWorks,
           Adopts(w) /\ w.at = "claim" => comp.ref = w.ref
    PROVE  KeptInv'
<1>1. Moved(o, w) /\ UNCHANGED <<comp, abandoned>>
  BY GoesMoves DEF LifeTypes
<1>2. w.at \notin Claimed /\ w.at \notin AtWork
  BY DEF Looking, Claimed, AtWork, Booting, Replacing, Sleeping
<1>3. op'[o] = w
  BY <1>1 DEF Moved
<1>4. SomeoneWorks' => SomeoneWorks
  BY <1>1, <1>2 DEF SomeoneWorks, Moved, Runs
<1>5. (\A p \in Op : op[p].at \notin Claimed) => \A p \in Op : ~Holder(p)'
  BY <1>1, <1>2 DEF Moved, Holder, Holds1
<1>6. LookerOK(o)'
  BY <1>1, <1>3, <1>4, <1>5 DEF LookerOK
<1>7. \A r \in Runs : WorkerOK(r)'
  <2>1. \A p \in Op \ {o} : op'[p].at = op[p].at /\ op'[p].got = op[p].got
    BY <1>1 DEF Moved
  <2>2. SomeoneWorks => comp.state \in {"running"} \cup Unstable
    BY WorkerFacts DEF SomeoneWorks
  <2> QED
    BY <1>1, <1>2, <1>3, <2>1, <2>2, WorkersStay
<1>8. ~(o \in Runs /\ comp.maint # NoOp)
  BY DEF KeptInv
<1> QED
  BY <1>1, <1>2, <1>6, <1>7, <1>8, GoesKept

\* The operation that holds the row goes on.
LEMMA GoesOnKept ==
    ASSUME LifeTypes, KeptInv, NEW o \in Op, NEW w \in OpRec, Goes(o, w),
           op[o].at \in Claimed, w.at \in Claimed \ AtWork, w.cur = op[o].cur,
           HolderOK(o)',
           SomeoneWorks => \A n \in Box : box[n] = "up" => box'[n] = "up"
    PROVE  KeptInv'
<1>1. Moved(o, w) /\ UNCHANGED <<comp, abandoned>>
  BY GoesMoves DEF LifeTypes
<1>2. op'[o] = w
  BY <1>1 DEF Moved
<1>3. w.at \notin Looking
  BY DEF Looking, Claimed, Booting, Replacing, Sleeping
<1>4. LookerOK(o)'
  BY <1>2, <1>3 DEF LookerOK, Adopts, Awaits, Looking
<1>5. \A r \in Runs : WorkerOK(r)'
  <2>1. \A p \in Op \ {o} : op'[p].at = op[p].at /\ op'[p].got = op[p].got
    BY <1>1 DEF Moved
  <2>2. SomeoneWorks => comp.state \in {"running"} \cup Unstable
    BY WorkerFacts DEF SomeoneWorks
  <2> QED
    BY <1>1, <1>2, <2>1, <2>2, WorkersStay
<1>6. op[o].cur /\ op[o].at \notin Aside
  BY DEF KeptInv, Claimed, Aside, Booting, Replacing, Sleeping
<1>7. ~(o \in Runs /\ comp.maint # NoOp)
  BY <1>6 DEF KeptInv
<1> QED
  BY <1>1, <1>4, <1>5, <1>6, <1>7, GoesKept

LEMMA OnlyMine ==
    ASSUME LifeTypes, KeptInv, NEW o \in Op,
           op[o].at \in Claimed \/ comp.state \notin Unstable \/ comp.maint = o
    PROVE  \A p \in Op \ {o} : op[p].at \notin Claimed
BY HolderFacts, LifecycleAssumption

\* o writes the row, and keeps it up for the runs at work.
LEMMA WriterKept ==
    ASSUME LifeTypes, KeptInv, NEW o \in Op, NEW w \in OpRec, NEW c, Writes(o, w, c), box' = box,
           \A p \in Op \ {o} : op[p].at \notin Claimed,
           w.at \in Claimed => w.cur /\ HolderOK(o)',
           w.at \notin Looking,
           w.at \in AtWork => op[o].at \in AtWork /\ w.got = op[o].got,
           SomeoneWorks => c.state \in {"running"} \cup Unstable /\ c.ref = comp.ref,
           c.maint = NoOp \/ (c.maint = comp.maint /\ op[o].at \notin Aside)
    PROVE  KeptInv'
<1>1. Wrote(o, w) /\ comp' = c /\ abandoned' = FALSE
  BY WritesWrote DEF LifeTypes
<1>2. \A r \in Runs : WorkerOK(r)'
  BY <1>1, WorkersStay DEF Wrote
<1>3. comp'.maint # NoOp => \A r \in Runs : op'[r].at \in Aside
  <2> SUFFICES ASSUME c.maint # NoOp, NEW r \in Runs
               PROVE  op'[r].at \in Aside
    BY <1>1
  <2>1. comp.maint # NoOp /\ op[o].at \notin Aside
    OBVIOUS
  <2>2. op[r].at \in Aside /\ r \in Op
    BY <2>1 DEF KeptInv, Runs
  <2> QED
    BY <1>1, <2>1, <2>2 DEF Wrote
<1> QED
  BY <1>1, <1>2, <1>3, WritesKept

\* o gives the row back.
LEMMA LeavesKept ==
    ASSUME LifeTypes, KeptInv, NEW o \in Op, NEW pc \in Plain, NEW c, Writes(o, At(pc), c),
           box' = box, pc \notin Looking, \A p \in Op \ {o} : op[p].at \notin Claimed,
           SomeoneWorks => c.state \in {"running"} \cup Unstable /\ c.ref = comp.ref,
           c.maint = NoOp \/ (c.maint = comp.maint /\ op[o].at \notin Aside)
    PROVE  KeptInv'
<1>1. At(pc) \in OpRec /\ At(pc).at = pc /\ pc \notin Claimed /\ pc \notin AtWork
  BY AtPlain DEF Plain
<1> QED
  BY <1>1, WriterKept

LEMMA GivesUpRowKept ==
    ASSUME LifeTypes, KeptInv, NEW o \in Op, NEW c, Writes(o, GivenUp(o), c),
           box' = box, op[o].at \in Claimed, c.maint = comp.maint,
           SomeoneWorks => c.state \in {"running"} \cup Unstable /\ c.ref = comp.ref
    PROVE  KeptInv'
<1>1. op[o].at \notin Aside
  BY DEF Claimed, Aside, Booting, Replacing, Sleeping
<1>2. \A p \in Op \ {o} : op[p].at \notin Claimed
  BY OnlyMine
<1>3. PICK pc \in {"retry", "free", "finish", "done"} : GivenUp(o) = At(pc)
  BY GivenUpPlain
<1>4. pc \in Plain /\ pc \notin Looking
  BY DEF Looking, Plain, Pcs, Claimed, AtWork, Stopping, Booting, Replacing, Sleeping
<1> QED
  BY <1>1, <1>2, <1>3, <1>4, LeavesKept

LEMMA LeaseKept ==
    ASSUME LifeTypes, KeptInv, NEW o \in Op, LeaseStep(o) \/ Ask(o) \/ QueueUpdate(o)
    PROVE  KeptInv'
<1> USE PlacesArePlain DEF Places
<1>0. box' = box
  BY DEF LeaseStep, Ask, QueueUpdate, Approach, TakeLease, CheckLease, Release, FinishUpdate
<1>1. \/ Ask(o) \/ QueueUpdate(o) \/ Approach(o) \/ TakeLease(o) \/ CheckLease(o)
      \/ Release(o) \/ FinishUpdate(o)
  BY DEF LeaseStep
<1>2. CASE Ask(o)
  BY <1>0, <1>2, PlainKept DEF Ask, Aside
<1>3. CASE QueueUpdate(o)
  <2> DEFINE c == [comp EXCEPT !.maint = o]
             w == At("rlook")
  <2>1. o \in Updates /\ o \notin Runs /\ comp.state \notin Unstable
        /\ (\A r \in Op : ~ActiveRun(r)) /\ Writes(o, w, c)
    BY <1>3 DEF QueueUpdate, Updates, Runs
  <2>2. w \in OpRec /\ w.at = "rlook" /\ w.at \notin Claimed /\ w.at \notin Looking
    BY AtPlain DEF Looking, Plain
  <2> HIDE DEF w, c
  <2>3. Wrote(o, w) /\ abandoned' = FALSE
    BY <2>1, <2>2, WritesWrote DEF LifeTypes
  <2>4. \A r \in Runs : r \in Op \ {o} /\ op[r].at \in {"none", "leave", "done"}
    BY <2>1 DEF Runs, ActiveRun
  <2>5. \A r \in Runs : op'[r].at \in {"none", "leave", "done"}
    BY <2>3, <2>4 DEF Wrote
  <2>6. \A r \in Runs : WorkerOK(r)' /\ op'[r].at \in Aside
    BY <2>5 DEF WorkerOK, AtWork, Aside
  <2>7. \A p \in Op \ {o} : op[p].at \notin Claimed
    BY <2>1, OnlyMine
  <2> QED
    BY <2>2, <2>3, <2>6, <2>7, WritesKept
<1>4. CASE Approach(o)
  <2>1. o \in Runs => comp.maint = NoOp
    BY <1>4, RecordsAre DEF Approach, Reserved, Runs, Updates
  <2> QED
    BY <1>0, <1>4, <2>1, PlainKept DEF Approach
<1>5. CASE TakeLease(o)
  BY <1>0, <1>5, PlainKept, GivenUpKept DEF TakeLease, Aside
<1>6. CASE CheckLease(o)
  BY <1>0, <1>6, PlainKept, GivenUpKept DEF CheckLease, Aside
<1>7. CASE Release(o)
  BY <1>0, <1>7, PlainKept DEF Release, Aside
<1>8. CASE FinishUpdate(o)
  <2>1. CASE comp.maint = o
    <3> DEFINE c == [comp EXCEPT !.maint = NoOp]
    <3>1. c.state = comp.state /\ c.ref = comp.ref /\ c.maint = NoOp
      BY RecordsAre, MaintSet
    <3>2. Writes(o, At("done"), c)
      BY <1>8, <2>1 DEF FinishUpdate
    <3> HIDE DEF c
    <3>3. \A p \in Op \ {o} : op[p].at \notin Claimed
      BY <2>1, OnlyMine
    <3>4. SomeoneWorks => comp.state \in {"running"} \cup Unstable
      BY WorkerFacts DEF SomeoneWorks
    <3>5. "done" \in Plain /\ "done" \notin Looking
      BY DEF Looking
    <3> QED
      BY <1>0, <3>1, <3>2, <3>3, <3>4, <3>5, LeavesKept
  <2>2. CASE comp.maint # o
    BY <1>0, <1>8, <2>2, PlainKept DEF FinishUpdate, Aside
  <2> QED
    BY <2>1, <2>2
<1> QED
  BY <1>1, <1>2, <1>3, <1>4, <1>5, <1>6, <1>7, <1>8

LEMMA WorksBefore ==
    ASSUME NEW o \in Op, NEW w, Moved(o, w) \/ Wrote(o, w),
           w.at \in AtWork => op[o].at \in AtWork
    PROVE  SomeoneWorks' => SomeoneWorks
BY DEF Moved, Wrote, SomeoneWorks, Runs

\* The boot of the row whose run another works on finds the box of that run.
LEMMA BootFacts ==
    ASSUME LifeTypes, KeptInv, NEW o \in Op, op[o].at \in Booting
    PROVE  /\ op[o].at \in Claimed /\ op[o].cur /\ HolderOK(o) /\ op[o] \in OpRec
           /\ comp.state = "booting" /\ comp.ref = op[o].ref
           /\ SomeoneWorks => /\ op[o].st = "running"
                              /\ op[o].ref \in Box /\ box[op[o].ref] = "up"
                              /\ op[o].at \in {"setup", "undo"} => op[o].got = op[o].ref
<1>1. op[o].at \in Claimed /\ op[o].cur /\ HolderOK(o) /\ op[o] \in OpRec
  BY RecordsAre DEF KeptInv, Claimed
<1>2. comp.state = "booting" /\ comp.ref = op[o].ref
  BY <1>1 DEF HolderOK
<1>3. ASSUME SomeoneWorks
      PROVE  /\ op[o].st = "running"
             /\ op[o].ref \in Box /\ box[op[o].ref] = "up"
             /\ op[o].at \in {"setup", "undo"} => op[o].got = op[o].ref
  <2>1. op[o].ref \in Box /\ box[op[o].ref] = "up"
    BY <1>2, <1>3, WorkerFacts DEF SomeoneWorks
  <2> QED
    BY <1>1, <1>3, <2>1 DEF HolderOK
<1> QED
  BY <1>1, <1>2, <1>3

\* A boot goes on.
LEMMA BootGoesOn ==
    ASSUME LifeTypes, KeptInv, NEW o \in Op, NEW w \in OpRec, Goes(o, w),
           op[o].at \in Booting, w.at \in Booting, w.cur = op[o].cur, w.st = op[o].st, w.ref = op[o].ref,
           w.at = "setup" => box'[w.got] = "up",
           SomeoneWorks /\ w.at \in {"setup", "undo"} => w.got = w.ref,
           SomeoneWorks => \A n \in Box : box[n] = "up" => box'[n] = "up"
    PROVE  KeptInv'
<1>1. Moved(o, w) /\ UNCHANGED <<comp, abandoned>>
  BY GoesMoves DEF LifeTypes
<1>2. op'[o] = w
  BY <1>1 DEF Moved
<1>3. w.at \in Claimed \ AtWork
  BY DEF Claimed, Booting, AtWork
<1>4. SomeoneWorks' => SomeoneWorks
  BY <1>1, <1>3, WorksBefore
<1>5. HolderOK(o) /\ comp.state = "booting" /\ comp.ref = op[o].ref /\ op[o].at \in Claimed
      /\ (SomeoneWorks => op[o].st = "running")
  BY BootFacts
<1>6. w.at \notin Replacing \cup Sleeping \cup {"saving"}
  BY DEF Booting, Replacing, Sleeping
<1>7. HolderOK(o)'
  <2>1. comp'.maint \in {NoOp, o} /\ (abandoned' => o \in Runs /\ op'[o].at \in Booting)
    BY <1>1, <1>2, <1>5 DEF HolderOK
  <2>2. SomeoneWorks' => op'[o].st = "running"
                         /\ (op'[o].at \in {"setup", "undo"} => op'[o].got = op'[o].ref)
    BY <1>2, <1>4, <1>5
  <2>3. comp'.state = "booting" /\ comp'.ref = op'[o].ref
        /\ (op'[o].at = "setup" => box'[op'[o].got] = "up")
    BY <1>1, <1>2, <1>5
  <2> QED
    BY <1>2, <1>6, <2>1, <2>2, <2>3 DEF HolderOK, Replacing
<1> QED
  BY <1>3, <1>5, <1>7, GoesOnKept

LEMMA ProvisionKept ==
    ASSUME LifeTypes, KeptInv, NEW o \in Op, ProvisionStep(o)
    PROVE  KeptInv'
<1>0. op[o] \in OpRec /\ comp \in CompRow /\ comp.state \in States /\ comp.ref \in 0..MaxBox
      /\ abandoned \in BOOLEAN /\ Fit(Kind[o], op[o])
      /\ op[o].got \in 0..MaxBox /\ op[o].ref \in 0..MaxBox
  BY RecordsAre
<1>1. \/ Look(o) \/ Waited(o) \/ ClaimBoot(o) \/ Provide(o) \/ SetUpFails(o)
      \/ Activate(o) \/ RollBack(o) \/ RecordFailure(o)
  BY DEF ProvisionStep
<1>2. ~SomeoneWorks \/ comp.state \in {"running"} \cup Unstable
  BY WorkerFacts DEF SomeoneWorks
<1>3. CASE Look(o)
  <2> DEFINE pc == IF comp.state \in Unstable THEN "wait" ELSE "claim"
             w == SeenAs(At(pc), comp.state, comp.ref, abandoned)
  <2>1. CASE Goes(o, GivenUp(o))
    BY <1>3, <2>1, GivenUpKept DEF Look, Aside
  <2>2. CASE ~Goes(o, GivenUp(o))
    <3>1. Goes(o, w) /\ box' = box /\ op[o].at = "look"
          /\ (comp.state = "booting" => abandoned /\ ~HasLiveForeignRun(o))
      BY <1>3, <2>2 DEF Look, SeenAs
    <3>2. pc \in {"wait", "claim"} /\ pc \in Pcs /\ (pc = "claim" => comp.state \notin Unstable)
      BY DEF Pcs
    <3>3. At(pc) \in OpRec /\ At(pc).at = pc
      BY <3>2, AtIs
    <3>4. w \in OpRec /\ w.at = pc /\ w.st = comp.state /\ w.seen = comp.state /\ w.old = abandoned
      BY <1>0, <3>3, SeenSet
    <3> HIDE DEF w
    <3>5. ~Adopts(w) /\ w.at \in Looking /\ w.at # "sclaim" /\ op[o].at \notin Aside
      BY <3>1, <3>2, <3>4 DEF Adopts, Looking, Aside
    <3>6. ASSUME Awaits(w), NEW p \in Op, op[p].at \in Claimed PROVE FALSE
      <4>1. abandoned
        BY <3>1, <3>4, <3>6 DEF Awaits
      <4>2. p \in Runs /\ LeasedRun(p) /\ comp.state = "booting"
        BY <3>6, <4>1, HolderFacts
      <4>3. p # o
        BY <3>1, <3>6 DEF Claimed, Booting, Replacing, Sleeping
      <4> QED
        BY <3>1, <4>2, <4>3 DEF HasLiveForeignRun
    <3> QED
      BY <3>1, <3>4, <3>5, <3>6, LookKept
  <2> QED
    BY <2>1, <2>2
<1>4. CASE Waited(o)
  <2> DEFINE w == ClaimFrom(op[o], comp.state, comp.ref)
  <2>1. CASE Goes(o, GivenUp(o))
    BY <1>4, <2>1, GivenUpKept DEF Waited, Aside
  <2>2. CASE ~Goes(o, GivenUp(o))
    <3>1. Goes(o, w) /\ box' = box /\ op[o].at = "wait"
          /\ Provisionable(o, op[o].seen, op[o].old, comp.state)
      BY <1>4, <2>2 DEF Waited, ClaimFrom
    <3>2. w \in OpRec /\ w.at = "claim" /\ w.st = comp.state /\ w.ref = comp.ref /\ w.cur = op[o].cur
      BY <1>0, ClaimSet
    <3> HIDE DEF w
    <3>3. w.at \in Looking /\ w.at # "sclaim" /\ op[o].at \notin Aside
      BY <3>1, <3>2 DEF Looking, Aside
    <3>4. ASSUME Adopts(w)
          PROVE  (\A p \in Op : op[p].at \notin Claimed) /\ ~SomeoneWorks
      <4>1. op[o].cur /\ comp.state \in Unstable
        BY <3>2, <3>4 DEF Adopts
      <4>2. ~HasLiveForeignRun(o) /\ (op[o].seen = "booting" \/ op[o].old)
        BY <3>1, <4>1 DEF Provisionable, Unstable
      <4>3. \A p \in Op : ~Holder(p)
        BY <3>1, <4>1, <4>2 DEF KeptInv, LookerOK, Awaits
      <4>4. \A r \in Runs : op[r].at \in AtWork => r \in Op \ {o} /\ LeasedRun(r)
        BY <3>1, WorkerFacts DEF AtWork
      <4> QED
        BY <4>2, <4>3, <4>4, HolderFacts DEF SomeoneWorks, HasLiveForeignRun
    <3>5. ~Awaits(w)
      BY <3>2 DEF Awaits
    <3> QED
      BY <3>1, <3>2, <3>3, <3>4, <3>5, LookKept
  <2> QED
    BY <2>1, <2>2
<1>5. CASE ClaimBoot(o)
  <2> DEFINE w == [op[o] EXCEPT !.at = "provide", !.cur = TRUE, !.old = FALSE]
             c == [comp EXCEPT !.state = "booting"]
  <2>1. CASE ~ClaimWhere(o)
    BY <1>5, <2>1, GivenUpKept DEF ClaimBoot, Aside
  <2>2. CASE ClaimWhere(o)
    <3>1. Writes(o, w, c) /\ box' = box /\ op[o].at = "claim"
      BY <1>5, <2>2 DEF ClaimBoot
    <3>2. w \in OpRec /\ w.at = "provide" /\ w.st = op[o].st /\ w.ref = op[o].ref /\ w.cur
      BY <1>0, ProvideSet
    <3>3. c.state = "booting" /\ c.ref = comp.ref /\ c.maint = comp.maint
      <4>1. "booting" \in States
        BY DEF States, Unstable
      <4> QED
        BY <1>0, <4>1, StateSet
    <3> HIDE DEF w, c
    <3>4. Wrote(o, w) /\ comp' = c /\ abandoned' = FALSE /\ op'[o] = w
      BY <3>1, <3>2, WritesWrote DEF LifeTypes, Wrote
    <3>5. comp.state = op[o].st /\ comp.maint \in {NoOp, o}
      BY <2>2 DEF ClaimWhere, Reserved
    <3>6. comp.state \in Unstable => Adopts(op[o])
      BY <2>2, <3>1, <3>5 DEF ClaimWhere, Adopts
    <3>7. LookerOK(o)
      BY DEF KeptInv
    <3>8. comp.ref = op[o].ref
      BY <2>2, <3>1, <3>5, <3>6, <3>7 DEF ClaimWhere, LookerOK, Unstable
    <3>9. SomeoneWorks => op[o].st = "running"
      BY <1>2, <3>5, <3>6, <3>7 DEF LookerOK
    <3>10. \A p \in Op \ {o} : op[p].at \notin Claimed
      BY <3>6, <3>7, OnlyMine, HolderFacts DEF LookerOK
    <3>11. SomeoneWorks' => SomeoneWorks
      BY <3>2, <3>4, WorksBefore DEF AtWork
    <3>12. HolderOK(o)'
      BY <3>2, <3>3, <3>4, <3>5, <3>8, <3>9, <3>11 DEF HolderOK, Booting, Sleeping
    <3>13. w.at \notin Looking /\ w.at \notin AtWork /\ op[o].at \notin Aside
      BY <3>1, <3>2 DEF Looking, AtWork, Aside
    <3>14. c.state \in {"running"} \cup Unstable
      BY <3>3 DEF Unstable
    <3> QED
      BY <3>1, <3>2, <3>3, <3>10, <3>12, <3>13, <3>14, WriterKept
  <2> QED
    BY <2>1, <2>2
<1>6. ASSUME op[o].at \in Booting, NEW pc \in {"undo", "record"}, Goes(o, [op[o] EXCEPT !.at = pc]),
             box' = box, pc = "undo" => op[o].at = "setup"
      PROVE  KeptInv'
  <2> DEFINE w == [op[o] EXCEPT !.at = pc]
  <2>1. pc \in Pcs
    BY DEF Pcs
  <2>2. w \in OpRec /\ w.at = pc /\ w.st = op[o].st /\ w.ref = op[o].ref /\ w.cur = op[o].cur
        /\ w.got = op[o].got
    BY <1>0, <2>1, AtSet
  <2> HIDE DEF w
  <2>3. w.at \in Booting /\ w.at # "setup"
    BY <2>2 DEF Booting
  <2>4. SomeoneWorks /\ w.at \in {"setup", "undo"} => w.got = w.ref
    BY <1>6, <2>2, BootFacts
  <2>5. Goes(o, w)
    BY <1>6 DEF w
  <2> QED
    BY <1>6, <2>2, <2>3, <2>4, <2>5, BootGoesOn
<1>7. CASE Provide(o)
  <2>1. op[o].at \in Booting /\ op[o].at = "provide"
    BY <1>7 DEF Provide, Booting
  <2>2. CASE Fault /\ Goes(o, [op[o] EXCEPT !.at = "record"]) /\ UNCHANGED box
    BY <1>6, <2>1, <2>2
  <2>3. CASE ~(Fault /\ Goes(o, [op[o] EXCEPT !.at = "record"]) /\ UNCHANGED box)
    <3> DEFINE found == op[o].ref # 0 /\ box[op[o].ref] # "gone"
    <3>1. PICK n \in IF found THEN {op[o].ref} ELSE Unused :
             box' = [box EXCEPT ![n] = "up"] /\ Goes(o, Made(op[o], n))
      BY <1>7, <2>3 DEF Provide, Made
    <3>2. n \in 0..MaxBox /\ n \in Box
      BY <1>0, <3>1, LifecycleAssumption DEF Unused, Box
    <3>3. SomeoneWorks => n = op[o].ref
      <4>1. SomeoneWorks => found
        BY <2>1, BootFacts, LifecycleAssumption DEF Box
      <4> QED
        BY <3>1, <4>1
    <3>4. box \in [Box -> {"gone", "up", "down"}]
      BY RecordsAre DEF Others
    <3>5. box'[n] = "up" /\ \A m \in Box : box[m] = "up" => box'[m] = "up"
      BY <3>1, <3>2, <3>4
    <3> DEFINE w == Made(op[o], n)
    <3>6. w \in OpRec /\ w.at = "setup" /\ w.got = n /\ w.cur = op[o].cur /\ w.st = op[o].st
          /\ w.ref = op[o].ref
      BY <1>0, <3>2, MadeSet
    <3>7. Goes(o, w)
      BY <3>1
    <3> HIDE DEF w
    <3>8. w.at \in Booting
      BY <3>6 DEF Booting
    <3> QED
      BY <2>1, <3>3, <3>5, <3>6, <3>7, <3>8, BootGoesOn
  <2> QED
    BY <2>2, <2>3
<1>8. CASE SetUpFails(o)
  BY <1>6, <1>8 DEF SetUpFails, Booting
<1>9. CASE Activate(o)
  <2>1. op[o].at \in Booting /\ op[o].at = "setup" /\ box' = box /\ op[o].got # 0
    BY <1>0, <1>9 DEF Activate, Booting, Fit
  <2>2. CASE Goes(o, [op[o] EXCEPT !.at = "undo"])
    BY <1>6, <2>1, <2>2
  <2>3. CASE ~Goes(o, [op[o] EXCEPT !.at = "undo"])
    <3> DEFINE c == RowAs(comp, "running", op[o].got)
               w == [At("work") EXCEPT !.got = op[o].got]
    <3>1. Writes(o, IF Kind[o] = "run" THEN w ELSE GivenUp(o), c)
      BY <1>9, <2>3 DEF Activate, RowAs
    <3>2. "running" \in States /\ "work" \in Pcs
      BY DEF States, Pcs
    <3>3. c.state = "running" /\ c.ref = op[o].got /\ c.maint = comp.maint
      <4>1. comp \in CompRow /\ op[o].got \in 0..MaxBox /\ "running" \in States
        BY <1>0, <3>2
      <4> QED
        BY ONLY <4>1, StateRefSet
    <3>4. w \in OpRec /\ w.at = "work" /\ w.got = op[o].got /\ ~w.cur
      <4>1. At("work") \in OpRec /\ At("work").at = "work" /\ ~At("work").cur
        BY <3>2, AtIs
      <4>2. op[o].got \in 0..MaxBox
        BY <1>0
      <4> QED
        BY ONLY <4>1, <4>2, WorkSet
    <3> HIDE DEF c, w
    <3>5. SomeoneWorks => c.ref = comp.ref
      BY <2>1, <3>3, BootFacts
    <3>6. op[o].at \in Claimed /\ box[op[o].got] = "up" /\ comp.maint \in {NoOp, o}
      BY <2>1, BootFacts DEF HolderOK
    <3>7. CASE Kind[o] # "run"
      BY <2>1, <3>1, <3>3, <3>5, <3>6, <3>7, GivesUpRowKept
    <3>8. CASE Kind[o] = "run"
      <4>1. Wrote(o, w) /\ comp' = c /\ abandoned' = FALSE
        BY <3>1, <3>4, <3>8, WritesWrote DEF LifeTypes
      <4>2. comp.maint = NoOp
        BY <3>6, <3>8, RecordsAre DEF Updates
      <4>3. ASSUME NEW r \in Runs, op'[r].at \in AtWork
            PROVE  op'[r].got = op[o].got
        <5>1. CASE r = o
          BY <3>4, <4>1, <5>1 DEF Wrote
        <5>2. CASE r # o
          <6>1. r \in Op /\ op[r].at \in AtWork /\ op'[r].got = op[r].got
            BY <4>1, <4>3, <5>2 DEF Wrote, Runs
          <6>2. comp.ref = op[r].got /\ SomeoneWorks
            BY <6>1, WorkerFacts DEF SomeoneWorks
          <6> QED
            BY <3>3, <3>5, <6>1, <6>2
        <5> QED
          BY <5>1, <5>2
      <4>4. \A r \in Runs : WorkerOK(r)'
        BY <2>1, <3>3, <3>6, <4>1, <4>3 DEF WorkerOK
      <4>5. w.at \notin Claimed /\ w.at \notin Looking
        BY <3>4 DEF Claimed, Looking, Booting, Replacing, Sleeping
      <4>6. \A p \in Op \ {o} : op[p].at \notin Claimed
        BY <3>6, OnlyMine
      <4>7. comp'.maint = NoOp
        BY <3>3, <4>1, <4>2
      <4> QED
        BY <4>1, <4>4, <4>5, <4>6, <4>7, WritesKept
    <3> QED
      BY <3>7, <3>8
  <2> QED
    BY <2>2, <2>3
<1>10. CASE RollBack(o)
  <2>1. op[o].at \in Booting /\ op[o].at = "undo"
    BY <1>10 DEF RollBack, Booting
  <2>2. CASE Fault /\ Goes(o, [op[o] EXCEPT !.at = "record"]) /\ UNCHANGED box
    BY <1>6, <2>1, <2>2
  <2>3. CASE ~(Fault /\ Goes(o, [op[o] EXCEPT !.at = "record"]) /\ UNCHANGED box)
    <3> DEFINE w == Unmade(op[o])
    <3>1. Goes(o, w) /\ (~Undoes(o) => box' = box)
      BY <1>10, <2>1, <2>3 DEF RollBack, Unmade
    <3>2. w \in OpRec /\ w.at = "record" /\ w.cur = op[o].cur /\ w.st = op[o].st /\ w.ref = op[o].ref
      BY <1>0, UnmadeSet
    <3> HIDE DEF w
    <3>3. SomeoneWorks => ~Undoes(o)
      BY <2>1, BootFacts, LifecycleAssumption DEF Undoes, Reconnecting, Fresh, Box
    <3>4. w.at \in Booting
      BY <3>2 DEF Booting
    <3> QED
      BY <2>1, <3>1, <3>2, <3>3, <3>4, BootGoesOn
  <2> QED
    BY <2>2, <2>3
<1>11. CASE RecordFailure(o)
  <2>1. op[o].at \in Booting /\ op[o].at \notin Aside /\ op[o].at \in Claimed /\ box' = box
    BY <1>11 DEF RecordFailure, Booting, Aside, Claimed
  <2>2. CASE Goes(o, GivenUp(o))
    BY <2>1, <2>2, GivenUpKept
  <2>3. CASE Reconnecting(o) /\ Writes(o, GivenUp(o), [comp EXCEPT !.state = "running"])
    <3> DEFINE c == [comp EXCEPT !.state = "running"]
    <3>1. "running" \in States
      BY DEF States
    <3>2. c.state = "running" /\ c.ref = comp.ref /\ c.maint = comp.maint
      BY <1>0, <3>1, StateSet
    <3> HIDE DEF c
    <3> QED
      BY <2>1, <2>3, <3>2, GivesUpRowKept DEF c
  <2>4. CASE ~Reconnecting(o) /\ ~Goes(o, GivenUp(o))
    <3> DEFINE n == IF op[o].got # 0 THEN op[o].got ELSE comp.ref
               c == RowAs(comp, "error", n)
    <3>1. Writes(o, GivenUp(o), c)
      BY <1>11, <2>4 DEF RecordFailure, RowAs
    <3>2. "error" \in States /\ n \in 0..MaxBox
      BY <1>0 DEF States, Resting
    <3> HIDE DEF n
    <3>3. c.maint = comp.maint
      BY <1>0, <3>2, StateRefSet
    <3> HIDE DEF c
    <3>4. ~SomeoneWorks
      BY <2>1, <2>4, BootFacts, LifecycleAssumption DEF Reconnecting, Box
    <3> QED
      BY <2>1, <3>1, <3>3, <3>4, GivesUpRowKept
  <2> QED
    BY <1>11, <2>2, <2>3, <2>4 DEF RecordFailure
<1> QED
  BY <1>1, <1>3, <1>4, <1>5, <1>7, <1>8, <1>9, <1>10, <1>11

LEMMA WorkKept ==
    ASSUME LifeTypes, KeptInv, NEW o \in Op, WorkStep(o)
    PROVE  KeptInv'
<1> USE PlacesArePlain DEF Places
<1>0. op[o] \in OpRec /\ comp \in CompRow /\ Fit(Kind[o], op[o]) /\ box' = box
  BY RecordsAre DEF WorkStep, SaveWorkspace, WorkspaceSaved, EndRun, LoseLease
<1>1. SaveWorkspace(o) \/ WorkspaceSaved(o) \/ EndRun(o) \/ LoseLease(o)
  BY DEF WorkStep
<1>2. SomeoneWorks => comp.state \in {"running"} \cup Unstable
  BY WorkerFacts DEF SomeoneWorks
<1>3. CASE SaveWorkspace(o)
  <2> DEFINE w == [op[o] EXCEPT !.at = "saving", !.cur = TRUE]
             c == [comp EXCEPT !.state = "suspending"]
  <2>1. Writes(o, w, c) /\ op[o].at = "work" /\ comp.state = "running" /\ comp.ref = op[o].got
    BY <1>3 DEF SaveWorkspace
  <2>2. o \in Runs /\ op[o].at \in AtWork /\ op[o].at \notin Aside
    BY <1>0, <2>1 DEF Fit, Runs, AtWork, Aside
  <2>3. comp.maint = NoOp
    BY <2>2, WorkerFacts
  <2>4. w \in OpRec /\ w.at = "saving" /\ w.cur /\ w.got = op[o].got
    <3>1. "saving" \in Pcs
      BY DEF Pcs
    <3> QED
      BY <1>0, <3>1, AtCurSet
  <2>5. c.state = "suspending" /\ c.ref = comp.ref /\ c.maint = NoOp
    <3>1. "suspending" \in States
      BY DEF States, Unstable
    <3> QED
      BY <1>0, <2>3, <3>1, StateSet
  <2> HIDE DEF w, c
  <2>6. Wrote(o, w) /\ comp' = c /\ abandoned' = FALSE /\ op'[o] = w
    BY <2>1, <2>4, WritesWrote DEF LifeTypes, Wrote
  <2>7. \A p \in Op \ {o} : op[p].at \notin Claimed
    BY <2>1, OnlyMine DEF Unstable
  <2>8. HolderOK(o)'
    BY <2>1, <2>4, <2>5, <2>6 DEF HolderOK, Booting, Sleeping
  <2>9. w.at \notin Looking
    BY <2>4 DEF Looking
  <2>10. c.state \in {"running"} \cup Unstable
    BY <2>5 DEF Unstable
  <2> QED
    BY <1>0, <2>1, <2>2, <2>4, <2>5, <2>7, <2>8, <2>9, <2>10, WriterKept
<1>4. CASE WorkspaceSaved(o)
  <2> DEFINE w == [op[o] EXCEPT !.at = "saved", !.cur = FALSE]
             c == [comp EXCEPT !.state = "running"]
  <2>1. op[o].at = "saving" /\ (Goes(o, w) \/ Writes(o, w, c))
    BY <1>4 DEF WorkspaceSaved
  <2>2. op[o].at \in Claimed /\ o \in Runs /\ op[o].at \in AtWork /\ op[o].at \notin Aside
    BY <1>0, <2>1 DEF Fit, Runs, AtWork, Aside, Claimed
  <2>3. comp.maint = NoOp
    BY <2>2, WorkerFacts
  <2>4. w \in OpRec /\ w.at = "saved" /\ ~w.cur /\ w.got = op[o].got
    <3>1. "saved" \in Pcs
      BY DEF Pcs
    <3> QED
      BY <1>0, <3>1, AtCurSet
  <2>5. c.state = "running" /\ c.ref = comp.ref /\ c.maint = NoOp
    <3>1. "running" \in States
      BY DEF States
    <3> QED
      BY <1>0, <2>3, <3>1, StateSet
  <2> HIDE DEF w, c
  <2>6. \A p \in Op \ {o} : op[p].at \notin Claimed
    BY <2>2, OnlyMine
  <2>7. w.at \notin Looking /\ w.at \notin Claimed
    BY <2>4 DEF Looking, Claimed, Booting, Replacing, Sleeping
  <2>8. CASE Writes(o, w, c)
    BY <1>0, <2>2, <2>4, <2>5, <2>6, <2>7, <2>8, WriterKept
  <2>9. CASE Goes(o, w)
    <3>1. Moved(o, w) /\ UNCHANGED <<comp, abandoned>> /\ op'[o] = w
      BY <2>4, <2>9, GoesMoves DEF LifeTypes, Moved
    <3>2. LookerOK(o)'
      BY <2>4, <3>1 DEF LookerOK, Adopts, Awaits
    <3>3. \A p \in Op \ {o} : op'[p].at = op[p].at /\ op'[p].got = op[p].got
      BY <3>1 DEF Moved
    <3>4. \A r \in Runs : WorkerOK(r)'
      BY <1>0, <1>2, <2>2, <2>4, <3>1, <3>3, WorkersStay
    <3> QED
      BY <1>0, <2>2, <2>3, <2>7, <3>1, <3>2, <3>4, GoesKept
  <2> QED
    BY <2>1, <2>8, <2>9
<1>5. CASE EndRun(o) \/ LoseLease(o)
  <2>1. op[o].at \notin Aside
    BY <1>5 DEF EndRun, LoseLease, Aside
  <2> QED
    BY <1>0, <1>5, <2>1, PlainKept DEF EndRun, LoseLease
<1> QED
  BY <1>1, <1>3, <1>4, <1>5

LEMMA NobodyWorks ==
    ASSUME LifeTypes, KeptInv, \A r \in Op : ~ActiveRun(r)
    PROVE  ~SomeoneWorks
BY WorkerFacts DEF SomeoneWorks

\* An operation that suspends the row goes on while nobody works.
LEMMA SuspendsOn ==
    ASSUME LifeTypes, KeptInv, NEW o \in Op, ~SomeoneWorks,
           op[o].at \in Replacing \cup Sleeping,
           NEW pc \in {"destroy", "vacate", "spoil"} \cup Sleeping,
           Goes(o, [op[o] EXCEPT !.at = pc])
    PROVE  KeptInv'
<1> DEFINE w == [op[o] EXCEPT !.at = pc]
<1>1. pc \in Pcs /\ op[o] \in OpRec
  BY RecordsAre DEF Pcs, Sleeping
<1>2. w \in OpRec /\ w.at = pc /\ w.cur = op[o].cur
  BY <1>1, AtSet
<1> HIDE DEF w
<1>3. Moved(o, w) /\ UNCHANGED <<comp, abandoned>> /\ op'[o] = w
  BY <1>2, GoesMoves DEF LifeTypes, w, Moved
<1>4. op[o].at \in Claimed /\ op[o].at \notin Booting
  BY DEF Claimed, Booting, Replacing, Sleeping
<1>5. pc \in Claimed \ AtWork /\ pc \notin Booting /\ pc \notin {"saving", "recheck"}
  BY DEF Claimed, AtWork, Booting, Replacing, Sleeping
<1>6. comp.maint \in {NoOp, o} /\ ~abandoned /\ comp.state = "suspending"
  BY <1>4, HolderFacts DEF HolderOK
<1>7. ~SomeoneWorks'
  BY <1>2, <1>3, <1>5, WorksBefore
<1>8. HolderOK(o)'
  BY <1>2, <1>3, <1>5, <1>6, <1>7 DEF HolderOK
<1>9. Goes(o, w)
  BY DEF w
<1> QED
  BY <1>2, <1>4, <1>5, <1>8, <1>9, GoesOnKept

\* The claim of a replacement or an idle stop: the row is suspending.
LEMMA SuspendsKept ==
    ASSUME LifeTypes, KeptInv, NEW o \in Op, NEW pc \in {"recheck", "ssave"},
           Writes(o, [op[o] EXCEPT !.at = pc, !.cur = TRUE], [comp EXCEPT !.state = "suspending"]),
           box' = box, op[o].at \notin Aside, comp.maint \in {NoOp, o},
           \A p \in Op \ {o} : op[p].at \notin Claimed,
           SomeoneWorks => pc = "recheck" /\ op[o].st = "running"
    PROVE  KeptInv'
<1> DEFINE w == [op[o] EXCEPT !.at = pc, !.cur = TRUE]
           c == [comp EXCEPT !.state = "suspending"]
<1>1. pc \in Pcs /\ op[o] \in OpRec /\ comp \in CompRow
  BY RecordsAre DEF Pcs
<1>2. w \in OpRec /\ w.at = pc /\ w.cur /\ w.st = op[o].st
  BY <1>1, AtCurSet
<1>3. c.state = "suspending" /\ c.ref = comp.ref /\ c.maint = comp.maint
  <2>1. "suspending" \in States
    BY DEF States, Unstable
  <2> QED
    BY <1>1, <2>1, StateSet
<1>4. Writes(o, w, c)
  OBVIOUS
<1> HIDE DEF w, c
<1>5. Wrote(o, w) /\ comp' = c /\ abandoned' = FALSE /\ op'[o] = w
  BY <1>2, <1>4, WritesWrote DEF LifeTypes, Wrote
<1>6. pc \notin Looking /\ pc \notin AtWork /\ pc \notin Booting /\ pc # "saving"
  BY DEF Looking, AtWork, Booting
<1>7. SomeoneWorks' => SomeoneWorks
  BY <1>2, <1>5, <1>6, WorksBefore
<1>8. HolderOK(o)'
  <2>1. pc \notin {"destroy", "vacate", "spoil"} /\ (pc \in Sleeping => ~SomeoneWorks)
    BY DEF Sleeping
  <2> QED
    BY <1>2, <1>3, <1>5, <1>6, <1>7, <2>1 DEF HolderOK
<1>9. c.state \in Unstable
  BY <1>3 DEF Unstable
<1> QED
  BY <1>2, <1>3, <1>4, <1>6, <1>8, <1>9, WriterKept

\* The old box is gone, and the operation that replaces it looks at the row again.
LEMMA VacateKept ==
    ASSUME LifeTypes, KeptInv, NEW o \in Op, op[o].at = "vacate",
           comp' = [comp EXCEPT !.state = "stopped", !.ref = 0],
           op' = [op EXCEPT ![o] = At("look")], UNCHANGED <<abandoned, box>>
    PROVE  KeptInv'
<1> DEFINE w == At("look")
           c == RowAs(comp, "stopped", 0)
<1>1. w \in OpRec /\ w.at = "look" /\ ~w.cur
  BY AtIs DEF Pcs
<1>2. comp' = c /\ c.maint = comp.maint
  <2>1. comp \in CompRow /\ "stopped" \in States /\ 0 \in 0..MaxBox
    BY RecordsAre, LifecycleAssumption DEF States, Resting
  <2>2. c.maint = comp.maint
    BY ONLY <2>1, StateRefSet
  <2>3. comp' = c
    BY DEF RowAs
  <2> QED
    BY <2>2, <2>3
<1>3. Moved(o, w)
  BY <1>1 DEF LifeTypes, LifeTypeOK, Moved
<1> HIDE DEF w, c
<1>4. op[o].at \in Claimed /\ op[o].at \notin Aside
  BY DEF Claimed, Replacing, Aside
<1>5. Holder(o) /\ ~SomeoneWorks
  BY <1>4, HolderFacts DEF HolderOK
<1>6. \A p \in Op \ {o} : op[p].at \notin Claimed
  BY <1>4, OnlyMine
<1>7. w.at \notin Claimed /\ w.at \notin AtWork /\ w.at \notin Looking \ {"look"}
  BY <1>1 DEF Claimed, AtWork, Looking, Booting, Replacing, Sleeping
<1>8. ~SomeoneWorks'
  BY <1>3, <1>5, <1>7, WorksBefore
<1>9. \A p \in Op : op'[p].at \notin Claimed
  BY <1>3, <1>6, <1>7 DEF Moved
<1>10. ASSUME NEW p \in Op PROVE LookerOK(p)'
  <2>1. ~Adopts(op'[p]) /\ ~Awaits(op'[p])
    <3>1. CASE p = o
      BY <1>1, <1>3, <3>1 DEF Moved, Adopts, Awaits
    <3>2. CASE p # o
      <4>1. op'[p] = op[p] /\ LookerOK(p)
        BY <1>3, <3>2 DEF Moved, KeptInv
      <4> QED
        BY <1>5, <4>1 DEF LookerOK
    <3> QED
      BY <3>1, <3>2
  <2> QED
    BY <1>8, <2>1 DEF LookerOK
<1>11. \A r \in Runs : WorkerOK(r)'
  BY <1>8 DEF WorkerOK, SomeoneWorks
<1>12. comp'.maint # NoOp => \A r \in Runs : op'[r].at \in Aside
  BY <1>2, <1>3, <1>4 DEF KeptInv, Moved, Runs
<1> QED
  BY <1>9, <1>10, <1>11, <1>12 DEF KeptInv

LEMMA ReplaceKept ==
    ASSUME LifeTypes, KeptInv, NEW o \in Op, ReplaceStep(o)
    PROVE  KeptInv'
<1>0. op[o] \in OpRec /\ comp \in CompRow /\ comp.state \in States /\ comp.ref \in 0..MaxBox
      /\ Fit(Kind[o], op[o])
  BY RecordsAre
<1>1. RLook(o) \/ RClaim(o) \/ Recheck(o) \/ Destroy(o) \/ Vacate(o) \/ Spoil(o)
  BY DEF ReplaceStep
<1>2. SomeoneWorks => comp.state \in {"running"} \cup Unstable
  BY WorkerFacts DEF SomeoneWorks
<1>3. CASE RLook(o)
  <2> DEFINE w == ReadCur(At("rclaim"), comp.state, comp.ref)
  <2>1. op[o].at = "rlook" /\ op[o].at \notin Aside /\ box' = box
    BY <1>3 DEF RLook, Aside
  <2>2. CASE Goes(o, GivenUp(o))
    BY <2>1, <2>2, GivenUpKept
  <2>3. CASE ~Goes(o, GivenUp(o))
    <3>1. Goes(o, w) /\ (comp.state \in Unstable => abandoned /\ \A r \in Op : ~ActiveRun(r))
      BY <1>3, <2>3 DEF RLook, ReadCur
    <3>2. w \in OpRec /\ w.at = "rclaim" /\ w.st = comp.state
      <4>1. At("rclaim") \in OpRec /\ At("rclaim").at = "rclaim"
        BY AtIs DEF Pcs
      <4> QED
        BY <1>0, <4>1, ReadSet
    <3> HIDE DEF w
    <3>3. w.at \in Looking /\ w.at \notin {"sclaim", "claim", "wait"}
      BY <3>2 DEF Looking
    <3>4. Adopts(w) => (\A p \in Op : op[p].at \notin Claimed) /\ ~SomeoneWorks
      BY <3>1, <3>2, HolderFacts, NobodyWorks DEF Adopts
    <3>5. ~Awaits(w)
      BY <3>2 DEF Awaits
    <3> QED
      BY <2>1, <3>1, <3>2, <3>3, <3>4, <3>5, LookKept
  <2> QED
    BY <2>2, <2>3
<1>4. CASE RClaim(o)
  <2>1. op[o].at = "rclaim" /\ op[o].at \notin Aside /\ box' = box
    BY <1>4 DEF RClaim, Aside
  <2>2. CASE Goes(o, GivenUp(o))
    BY <2>1, <2>2, GivenUpKept
  <2>3. CASE ~Goes(o, GivenUp(o))
    <3>1. /\ Writes(o, [op[o] EXCEPT !.at = "recheck", !.cur = TRUE], [comp EXCEPT !.state = "suspending"])
          /\ comp.state = op[o].st /\ comp.maint \in {NoOp, o}
          /\ op[o].st \in Unstable => op[o].cur
      BY <1>4, <2>3 DEF RClaim, Reserved
    <3>2. comp.state \in Unstable => Adopts(op[o])
      BY <2>1, <3>1 DEF Adopts
    <3>3. LookerOK(o)
      BY DEF KeptInv
    <3>4. \A p \in Op \ {o} : op[p].at \notin Claimed
      BY <3>2, <3>3, OnlyMine, HolderFacts DEF LookerOK
    <3>5. SomeoneWorks => op[o].st = "running"
      BY <1>2, <3>1, <3>2, <3>3 DEF LookerOK
    <3> QED
      BY <2>1, <3>1, <3>4, <3>5, SuspendsKept
  <2> QED
    BY <2>2, <2>3
<1>5. CASE Recheck(o)
  <2>1. op[o].at = "recheck" /\ op[o].at \in Claimed /\ op[o].at \notin Aside /\ box' = box
        /\ op[o].st \in States /\ op[o].at \in Replacing
    BY <1>0, <1>5 DEF Recheck, Aside, Claimed, Replacing, Fit
  <2>2. CASE Goes(o, GivenUp(o))
    BY <2>1, <2>2, GivenUpKept
  <2>3. CASE Writes(o, GivenUp(o), [comp EXCEPT !.state = op[o].st])
    <3> DEFINE c == [comp EXCEPT !.state = op[o].st]
    <3>1. c.state = op[o].st /\ c.ref = comp.ref /\ c.maint = comp.maint
      BY <1>0, <2>1, StateSet
    <3> HIDE DEF c
    <3>2. SomeoneWorks => op[o].st = "running"
      BY <2>1, HolderFacts DEF HolderOK
    <3> QED
      BY <2>1, <2>3, <3>1, <3>2, GivesUpRowKept DEF c
  <2>4. CASE Goes(o, [op[o] EXCEPT !.at = "destroy"]) /\ \A r \in Op : ~ActiveRun(r)
    BY <2>1, <2>4, NobodyWorks, SuspendsOn
  <2> QED
    BY <1>5, <2>2, <2>3, <2>4 DEF Recheck
<1>6. ASSUME op[o].at \in {"destroy", "vacate", "spoil"}
      PROVE  op[o].at \in Claimed /\ op[o].at \in Replacing /\ op[o].at \notin Aside /\ ~SomeoneWorks
  <2>1. op[o].at \in Claimed /\ op[o].at \in Replacing /\ op[o].at \notin Aside
    BY <1>6 DEF Claimed, Replacing, Aside
  <2> QED
    BY <1>6, <2>1, HolderFacts DEF HolderOK
<1>7. CASE Destroy(o)
  BY <1>6, <1>7, SuspendsOn DEF Destroy
<1>8. CASE Vacate(o)
  BY <1>6, <1>8, SuspendsOn, VacateKept DEF Vacate
<1>9. CASE Spoil(o)
  <2>1. op[o].at \in {"destroy", "vacate", "spoil"} /\ box' = box
    BY <1>9 DEF Spoil
  <2>2. CASE Goes(o, GivenUp(o))
    BY <1>6, <2>1, <2>2, GivenUpKept
  <2>3. CASE Writes(o, GivenUp(o), [comp EXCEPT !.state = "error"])
    <3>1. [comp EXCEPT !.state = "error"].maint = comp.maint
      BY <1>0, StateSet DEF States, Resting
    <3> QED
      BY <1>6, <2>1, <2>3, <3>1, GivesUpRowKept
  <2> QED
    BY <1>9, <2>2, <2>3 DEF Spoil
<1> QED
  BY <1>1, <1>3, <1>4, <1>5, <1>7, <1>8, <1>9

LEMMA SleepKept ==
    ASSUME LifeTypes, KeptInv, NEW o \in Op, SleepStep(o) \/ SLook(o)
    PROVE  KeptInv'
<1> USE PlacesArePlain DEF Places
<1>0. op[o] \in OpRec /\ comp \in CompRow /\ comp.state \in States /\ comp.ref \in 0..MaxBox
  BY RecordsAre
<1>1. SLook(o) \/ SClaim(o) \/ SSave(o) \/ SRecheck(o) \/ SStop(o) \/ SRecord(o)
  BY DEF SleepStep
<1>2. ASSUME op[o].at \in Sleeping
      PROVE  op[o].at \in Claimed /\ op[o].at \in Replacing \cup Sleeping /\ op[o].at \notin Aside
             /\ ~SomeoneWorks /\ \A p \in Op \ {o} : op[p].at \notin Claimed
  <2>1. op[o].at \in Claimed /\ op[o].at \in Replacing \cup Sleeping /\ op[o].at \notin Aside
    BY <1>2 DEF Claimed, Sleeping, Aside
  <2> QED
    BY <1>2, <2>1, HolderFacts, OnlyMine DEF HolderOK
<1>3. ASSUME box' = box, Goes(o, At("none"))
      PROVE  KeptInv'
  BY <1>3, PlainKept DEF Aside
<1>4. ASSUME op[o].at \in Sleeping, box' = box, NEW s \in {"running", "suspended"},
             Writes(o, At("none"), [comp EXCEPT !.state = s])
      PROVE  KeptInv'
  <2>1. [comp EXCEPT !.state = s].maint = comp.maint
    BY <1>0, StateSet DEF States, Resting
  <2>2. "none" \in Plain /\ "none" \notin Looking
    BY DEF Looking
  <2> QED
    BY <1>2, <1>4, <2>1, <2>2, LeavesKept
<1>5. ASSUME op[o].at \in Sleeping, box' = box, Resume(o)
      PROVE  KeptInv'
  BY <1>3, <1>4, <1>5 DEF Resume
<1>6. CASE SLook(o)
  <2> DEFINE w == RefCur(At("sclaim"), comp.ref)
  <2>1. Goes(o, w) /\ Kind[o] = "sleep" /\ box' = box /\ \A r \in Op : ~ActiveRun(r)
    BY <1>6 DEF SLook, RefCur
  <2>2. w \in OpRec /\ w.at = "sclaim"
    <3>1. At("sclaim") \in OpRec /\ At("sclaim").at = "sclaim"
      BY AtIs DEF Pcs
    <3> QED
      BY <1>0, <3>1, RefSet
  <2> HIDE DEF w
  <2>3. w.at \in Looking /\ ~Adopts(w) /\ ~Awaits(w) /\ o \notin Runs
    BY <2>1, <2>2 DEF Looking, Adopts, Awaits, Runs
  <2> QED
    BY <2>1, <2>2, <2>3, NobodyWorks, LookKept
<1>7. CASE SClaim(o)
  <2>1. op[o].at = "sclaim" /\ op[o].at \notin Aside /\ box' = box
    BY <1>7 DEF SClaim, Aside
  <2>2. CASE Goes(o, At("none"))
    BY <1>3, <2>1, <2>2
  <2>3. CASE ~Goes(o, At("none"))
    <3>1. /\ Writes(o, [op[o] EXCEPT !.at = "ssave", !.cur = TRUE], [comp EXCEPT !.state = "suspending"])
          /\ comp.state = "running" /\ comp.maint = NoOp /\ op[o].cur
      BY <1>7, <2>3 DEF SClaim
    <3>2. ~SomeoneWorks
      BY <2>1, <3>1 DEF KeptInv, LookerOK
    <3>3. \A p \in Op \ {o} : op[p].at \notin Claimed
      BY <3>1, OnlyMine DEF Unstable
    <3> QED
      BY <2>1, <3>1, <3>2, <3>3, SuspendsKept
  <2> QED
    BY <2>2, <2>3
<1>8. CASE SSave(o)
  <2>1. op[o].at \in Sleeping /\ box' = box /\ "srecheck" \in Sleeping
    BY <1>8 DEF SSave, Sleeping
  <2> QED
    BY <1>2, <1>5, <1>8, <2>1, SuspendsOn DEF SSave
<1>9. CASE SRecheck(o)
  <2>1. op[o].at \in Sleeping /\ box' = box /\ "sstop" \in Sleeping
    BY <1>9 DEF SRecheck, Sleeping
  <2> QED
    BY <1>2, <1>5, <1>9, <2>1, SuspendsOn DEF SRecheck
<1>10. CASE SStop(o)
  <2>1. op[o].at \in Sleeping /\ "srecord" \in Sleeping
    BY <1>10 DEF SStop, Sleeping
  <2> QED
    BY <1>2, <1>5, <1>10, <2>1, SuspendsOn DEF SStop
<1>11. CASE SRecord(o)
  <2>1. op[o].at \in Sleeping /\ box' = box
    BY <1>11 DEF SRecord, Sleeping
  <2> QED
    BY <1>3, <1>4, <1>11, <2>1 DEF SRecord
<1> QED
  BY <1>1, <1>6, <1>7, <1>8, <1>9, <1>10, <1>11

LEMMA EndKept ==
    ASSUME LifeTypes, KeptInv, NEW o \in Op, Die(o) \/ ReleaseInterrupted(o) \/ Recovers(o)
    PROVE  KeptInv'
<1> USE PlacesArePlain DEF Places
<1>0. box' = box
  BY DEF Die, ReleaseInterrupted, Recovers, RunLapses, Redeliver
<1>1. CASE Die(o) \/ Recovers(o)
  BY <1>0, <1>1, PlainKept DEF Die, Recovers, RunLapses, Redeliver, Aside
<1>2. CASE ReleaseInterrupted(o)
  <2> DEFINE c == RowFreed(comp, NoOp, "error")
  <2>1. Writes(o, At("done"), c) /\ comp.maint = o /\ op[o].at = "dead"
    BY <1>2 DEF ReleaseInterrupted, RowFreed
  <2>2. c.maint = NoOp
    <3>1. comp \in CompRow /\ NoOp \in Updates \cup {NoOp} /\ "error" \in States
      BY RecordsAre DEF States, Resting
    <3> QED
      BY ONLY <3>1, MaintStateSet
  <2> HIDE DEF c
  <2>3. \A p \in Op \ {o} : op[p].at \notin Claimed
    BY <2>1, OnlyMine
  <2>4. ~SomeoneWorks
    BY <2>1, WorkerFacts, LifecycleAssumption DEF SomeoneWorks
  <2>5. "done" \in Plain /\ "done" \notin Looking
    BY DEF Looking
  <2> QED
    BY <1>0, <2>1, <2>2, <2>3, <2>4, <2>5, LeavesKept
<1> QED
  BY <1>1, <1>2

LEMMA TimeKept ==
    ASSUME LifeTypes, KeptInv, StampAges \/ \E b \in Bot : LeaseLapses(b)
    PROVE  KeptInv'
<1>1. UNCHANGED <<comp, op, box>>
  BY DEF StampAges, LeaseLapses
<1>2. ASSUME NEW o \in Op, op[o].at \in Claimed PROVE HolderOK(o)'
  <2>1. HolderOK(o) /\ op[o].cur
    BY <1>2 DEF KeptInv
  <2>2. abandoned' => o \in Runs /\ op[o].at \in Booting
    <3>1. CASE StampAges
      <4>1. Claims(o)
        BY <1>2, <2>1 DEF Claims, Underway, Looking, Claimed, Booting, Replacing, Sleeping
      <4> QED
        BY <3>1, <4>1 DEF StampAges, SlowBoot, Booting
    <3>2. CASE \E b \in Bot : LeaseLapses(b)
      BY <2>1, <3>2 DEF LeaseLapses, HolderOK
    <3> QED
      BY <3>1, <3>2
  <2> QED
    BY <1>1, <2>1, <2>2 DEF HolderOK, SomeoneWorks
<1>3. \A o \in Op : LookerOK(o)'
  BY <1>1 DEF KeptInv, LookerOK, SomeoneWorks, Holder
<1>4. \A r \in Runs : WorkerOK(r)'
  BY <1>1 DEF KeptInv, WorkerOK
<1> QED
  BY <1>1, <1>2, <1>3, <1>4 DEF KeptInv

\* A stop that has begun is past its place "none".
LEMMA NoStopSteps ==
    ASSUME LifeTypes, NoStop, NoStop', NEW o \in Op
    PROVE  ~StopStep(o) /\ ~TLook(o)
<1>1. StopStep(o) => Kind[o] = "stop" /\ op[o].at # "none"
  BY DEF StopStep, TClaim, TCheck, TStop, TRecord, LifeTypes, Fit, Stopping
<1>2. TLook(o) => Kind[o] = "stop" /\ op'[o].at # "none"
  <2> SUFFICES ASSUME TLook(o) PROVE Kind[o] = "stop" /\ op'[o].at # "none"
    OBVIOUS
  <2> DEFINE w == RefState(At("tclaim"), comp.ref, comp.state)
  <2>1. Goes(o, w) /\ Kind[o] = "stop"
    BY DEF TLook, RefState
  <2>2. w \in OpRec /\ w.at = "tclaim"
    <3>1. At("tclaim") \in OpRec /\ At("tclaim").at = "tclaim"
      BY AtIs DEF Pcs
    <3> QED
      BY <3>1, RecordsAre, RefStateSet
  <2> HIDE DEF w
  <2>3. op'[o] = w
    BY <2>1, <2>2, GoesMoves DEF LifeTypes, Moved
  <2> QED
    BY <2>1, <2>2, <2>3
<1> QED
  BY <1>1, <1>2 DEF NoStop

LEMMA KeptStep ==
    LifeTypes /\ (NoStop => KeptInv) /\ [LifeNext]_lifeVars => (NoStop' => KeptInv')
<1> SUFFICES ASSUME LifeTypes, NoStop => KeptInv, [LifeNext]_lifeVars, NoStop'
             PROVE  KeptInv'
  OBVIOUS
<1>1. NoStop /\ KeptInv
  BY LifeTypesStep DEF TypedStep
<1>2. CASE UNCHANGED lifeVars
  BY <1>1, <1>2 DEF lifeVars, KeptInv, HolderOK, LookerOK, WorkerOK, SomeoneWorks, Holder
<1>3. ASSUME NEW o \in Op, Step(o) \/ Begin(o) \/ Die(o) \/ ReleaseInterrupted(o)
      PROVE  KeptInv'
  BY <1>1, <1>3, NoStopSteps, LeaseKept, ProvisionKept, WorkKept, ReplaceKept, SleepKept, EndKept
     DEF Step, Begin
<1>4. CASE StampAges \/ \E b \in Bot : LeaseLapses(b)
  BY <1>1, <1>4, TimeKept
<1> QED
  BY <1>2, <1>3, <1>4 DEF LifeNext

LEMMA KeptInit == LifeInit => KeptInv
<1> SUFFICES ASSUME LifeInit
             PROVE  KeptInv
  OBVIOUS
<1>1. \A o \in Op : op[o].at = "none" /\ ~op[o].cur
  <2>1. \A o \in Op : op[o] = At("none")
    BY DEF LifeInit
  <2>2. At("none").at = "none" /\ ~At("none").cur
    BY AtIs DEF Pcs
  <2> QED
    BY <2>1, <2>2
<1>2. \A o \in Op : op[o].at \notin Claimed /\ op[o].at \notin AtWork /\ op[o].at \in Aside
  BY <1>1 DEF Claimed, AtWork, Aside, Booting, Replacing, Sleeping
<1>3. \A o \in Op : LookerOK(o)
  BY <1>1 DEF LookerOK, Adopts, Awaits
<1>4. \A r \in Runs : WorkerOK(r) /\ op[r].at \in Aside
  BY <1>2 DEF WorkerOK, Runs
<1> QED
  BY <1>2, <1>3, <1>4 DEF KeptInv

\* Between its claim of the row and the write that ends it, an operation is alone, if
\* no user stops the computer: whoever else lost the row has been told, or is dead.
THEOREM OneOwnerOfTheRow ==
    LifeSpec => [](NoStop => \A o, p \in Op :
                      op[o].at \in Claimed /\ op[p].at \in Claimed => o = p)
<1> DEFINE Inv == LifeTypes /\ (NoStop => KeptInv)
           Owned == NoStop => \A o, p \in Op :
                      op[o].at \in Claimed /\ op[p].at \in Claimed => o = p
<1>1. LifeInit => Inv
  BY LifeInitTypes, KeptInit
<1>2. Inv /\ [LifeNext]_lifeVars => Inv'
  BY LifeTypesStep, KeptStep DEF TypedStep
<1>3. Inv => Owned
  BY HolderFacts
<1> HIDE DEF Inv, Owned
<1>4. LifeSpec => []Owned
  BY <1>1, <1>2, <1>3, PTL DEF LifeSpec
<1> QED
  BY <1>4 DEF Owned

\* While a run works, its box runs, if no user stops the computer (RunKeepsBox): the
\* claim of the row is one operation's alone, it is taken over only from an operation
\* that is dead, and whoever suspends the row looks for runs at work after its claim.
THEOREM WorkingRunsKeepTheirBox == LifeSpec => []RunKeepsBox
<1> DEFINE Inv == LifeTypes /\ (NoStop => KeptInv)
<1>1. LifeInit => Inv
  BY LifeInitTypes, KeptInit
<1>2. Inv /\ [LifeNext]_lifeVars => Inv'
  BY LifeTypesStep, KeptStep DEF TypedStep
<1>3. Inv => RunKeepsBox
  BY WorkerFacts DEF RunKeepsBox, WorkKeepsBox, Working, AtWork
<1> HIDE DEF Inv
<1> QED
  BY <1>1, <1>2, <1>3, PTL DEF LifeSpec

-----------------------------------------------------------------------------
(* The boxes that are left behind, while no user stops the computer.       *)

\* A replacement has claimed the row with the box that it read.  Its claim compares
\* the state of the row and not its reference (computer-lifecycle.ts:653).
ClaimsKnowTheBox == \A o \in Op : op[o].at = "recheck" => op[o].ref = comp.ref

\* A box that somebody will see to: the row names it, and no replacement is about to
\* vacate the row; or a boot has it in hand.  The others are loose.
Making   == {"setup", "undo"}
Vacating == \E o \in Op : op[o].at = "vacate"
Kept(n)  == \/ n = comp.ref /\ ~Vacating
            \/ \E o \in Op : op[o].at \in Making /\ op[o].got = n
Loose    == {n \in Box : box[n] # "gone" /\ ~Kept(n)}

\* A boot that makes a new box has lost the old one; a replacement that destroys a
\* box destroys the row's.
OwedOK(o) ==
    /\ op[o].at \in {"wait", "claim", "provide"} => op[o].got = 0
    /\ op[o].at \in {"setup", "undo", "record"} /\ op[o].got \notin {0, op[o].ref}
          => op[o].ref = 0 \/ box[op[o].ref] = "gone"
    /\ op[o].at \in {"destroy", "vacate"} => op[o].ref = comp.ref

Owed == Cardinality(Loose) <= deaths + faults

OwedInv == Owed /\ \A o \in Op : OwedOK(o)

LEMMA LooseIsFinite ==
    /\ IsFiniteSet(Loose)
    /\ \A S \in SUBSET Box : IsFiniteSet(S) /\ Cardinality(S) \in Nat
<1>1. IsFiniteSet(Box)
  BY FS_Interval, LifecycleAssumption DEF Box
<1>2. Loose \in SUBSET Box
  BY DEF Loose
<1> QED
  BY <1>1, <1>2, FS_Subset, FS_CardinalityType

LEMMA LessThanOwed ==
    ASSUME NEW c \in Nat, NEW k \in Nat, NEW d \in Nat, NEW f \in Nat,
           NEW e \in Nat, NEW g \in Nat,
           k <= c, c <= d + f, d + f <= e + g
    PROVE  k <= e + g
OBVIOUS

LEMMA OneMoreOwed ==
    ASSUME NEW c \in Nat, NEW k \in Nat, NEW d \in Nat, NEW f \in Nat,
           NEW e \in Nat, NEW g \in Nat,
           k <= c \/ k <= c + 1, c <= d + f, e + g = d + f + 1
    PROVE  k <= e + g
OBVIOUS

\* No box becomes loose; or one does, and a death or a fault is counted for it.
LEMMA NoneLooser ==
    ASSUME LifeTypes, LifeTypes', Owed, Loose' \subseteq Loose,
           deaths + faults <= deaths' + faults'
    PROVE  Owed'
<1>1. deaths \in Nat /\ faults \in Nat /\ deaths' \in Nat /\ faults' \in Nat
  BY LifecycleAssumption DEF LifeTypes, LifeTypeOK
<1>2. Loose \in SUBSET Box /\ Loose' \in SUBSET Box
  BY DEF Loose, Box
<1>3. Cardinality(Loose') <= Cardinality(Loose)
  BY LooseIsFinite, FS_Subset
<1>4. Cardinality(Loose') \in Nat /\ Cardinality(Loose) \in Nat
  BY <1>2, LooseIsFinite
<1>5. Cardinality(Loose) <= deaths + faults
  BY DEF Owed
<1>6. Cardinality(Loose') <= deaths' + faults'
  BY <1>1, <1>3, <1>4, <1>5, LessThanOwed
<1> QED
  BY <1>6 DEF Owed

LEMMA OneLooser ==
    ASSUME LifeTypes, LifeTypes', Owed, NEW x, Loose' \subseteq Loose \cup {x},
           deaths' + faults' = deaths + faults + 1
    PROVE  Owed'
<1>1. deaths \in Nat /\ faults \in Nat /\ deaths' \in Nat /\ faults' \in Nat
  BY LifecycleAssumption DEF LifeTypes, LifeTypeOK
<1>2. Loose \in SUBSET Box /\ Loose' \in SUBSET Box
  BY DEF Loose, Box
<1>3. /\ IsFiniteSet(Loose \cup {x})
      /\ \/ Cardinality(Loose \cup {x}) = Cardinality(Loose)
         \/ Cardinality(Loose \cup {x}) = Cardinality(Loose) + 1
  BY <1>2, LooseIsFinite, FS_AddElement
<1>4. Cardinality(Loose') <= Cardinality(Loose \cup {x})
  BY <1>3, FS_Subset
<1>5. Cardinality(Loose') \in Nat /\ Cardinality(Loose) \in Nat
  BY <1>2, LooseIsFinite
<1>6. \/ Cardinality(Loose') <= Cardinality(Loose)
      \/ Cardinality(Loose') <= Cardinality(Loose) + 1
  BY <1>3, <1>4
<1>7. Cardinality(Loose) <= deaths + faults
  BY DEF Owed
<1>8. Cardinality(Loose') <= deaths' + faults'
  BY <1>1, <1>5, <1>6, <1>7, OneMoreOwed
<1> QED
  BY <1>8 DEF Owed

\* o moves to w, whether it writes the row or not: the others keep their places and boxes.
Goer(o, w) == /\ op'[o] = w
              /\ \A p \in Op \ {o} : /\ op'[p].at = op[p].at /\ op'[p].got = op[p].got
                                     /\ op'[p].ref = op[p].ref

\* A box that is gone stays gone, and one that is not gone stays.
SameBoxes == \A n \in Box : (box'[n] = "gone") <=> (box[n] = "gone")

LEMMA IsGoer ==
    ASSUME NEW o \in Op, NEW w, Moved(o, w) \/ Wrote(o, w)
    PROVE  Goer(o, w)
BY DEF Moved, Wrote, Goer

\* o goes where it has no box in hand, from where it had none, and the row keeps its box.
Handless(w) == /\ w.at \notin Making \cup {"record", "destroy", "vacate"}
               /\ w.at \in {"wait", "claim", "provide"} => w.got = 0

LEMMA HandlessOwed ==
    ASSUME LifeTypes, LifeTypes', OwedInv, NEW o \in Op, NEW w, Goer(o, w), Handless(w),
           comp'.ref = comp.ref, SameBoxes, op[o].at \notin Making,
           deaths + faults <= deaths' + faults'
    PROVE  OwedInv'
<1>1. Loose' \subseteq Loose
  <2> SUFFICES ASSUME NEW n \in Box, Kept(n), box[n] # "gone"
               PROVE  Kept(n)'
    BY DEF Loose, SameBoxes
  <2>1. CASE n = comp.ref /\ ~Vacating
    <3>1. ~Vacating'
      BY <2>1 DEF Vacating, Goer, Handless
    <3> QED
      BY <2>1, <3>1 DEF Kept
  <2>2. CASE \E p \in Op : op[p].at \in Making /\ op[p].got = n
    BY <2>2 DEF Kept, Goer
  <2> QED
    BY <2>1, <2>2 DEF Kept
<1>2. ASSUME NEW p \in Op PROVE OwedOK(p)'
  <2>1. CASE p = o
    BY <2>1 DEF Goer, Handless, Making, OwedOK
  <2>2. CASE p # o
    <3>1. OwedOK(p) /\ (op[p].ref = 0 \/ op[p].ref \in Box)
      BY RecordsAre, LifecycleAssumption DEF OwedInv, Box
    <3> QED
      BY <2>2, <3>1 DEF Goer, OwedOK, SameBoxes
  <2> QED
    BY <2>1, <2>2
<1> QED
  BY <1>1, <1>2, NoneLooser DEF OwedInv

\* While o holds the row, the row and o's own box are all that is kept.
Mine(w, n, m) == (m = n /\ w.at # "vacate") \/ (w.at \in Making /\ w.got = m)

\* No box but those of X becomes loose.
OnlyLoosens(o, w, X) ==
    \A m \in Box \ X : box'[m] # "gone" /\ ~Mine(w, comp'.ref, m)
                       => box[m] # "gone" /\ ~Mine(op[o], comp.ref, m)

LEMMA HolderOwed ==
    ASSUME LifeTypes, LifeTypes', OwedInv, NEW o \in Op, NEW w, Goer(o, w),
           \A p \in Op \ {o} : op[p].at \notin Claimed, OwedOK(o)',
           \/ deaths + faults <= deaths' + faults' /\ OnlyLoosens(o, w, {})
           \/ deaths' + faults' = deaths + faults + 1 /\ \E x : OnlyLoosens(o, w, {x})
    PROVE  OwedInv'
<1>1. \A p \in Op \ {o} : op[p].at \notin Making \cup {"record", "destroy", "vacate"}
  BY DEF Making, Claimed, Booting, Replacing
<1>2. \A p \in Op : OwedOK(p)'
  BY <1>1 DEF Goer, OwedInv, OwedOK, Making
<1>3. \A m : Kept(m) <=> Mine(op[o], comp.ref, m)
  BY <1>1 DEF Kept, Mine, Vacating
<1>4. \A m : Kept(m)' <=> Mine(w, comp'.ref, m)
  BY <1>1 DEF Kept, Mine, Vacating, Goer
<1>5. ASSUME NEW X, OnlyLoosens(o, w, X) PROVE Loose' \subseteq Loose \cup X
  BY <1>3, <1>4, <1>5 DEF OnlyLoosens, Loose, Box
<1>6. Owed'
  <2>1. CASE deaths + faults <= deaths' + faults' /\ OnlyLoosens(o, w, {})
    <3>1. Loose' \subseteq Loose
      BY <1>5, <2>1
    <3> QED
      BY <2>1, <3>1, NoneLooser DEF OwedInv
  <2>2. CASE deaths' + faults' = deaths + faults + 1 /\ \E x : OnlyLoosens(o, w, {x})
    <3>1. PICK x : Loose' \subseteq Loose \cup {x}
      BY <1>5, <2>2
    <3> QED
      BY <2>2, <3>1, OneLooser DEF OwedInv
  <2> QED
    BY <2>1, <2>2
<1> QED
  BY <1>2, <1>6 DEF OwedInv

\* One call of the provider fails, and nobody dies.
LEMMA Counts ==
    ASSUME LifeTypes, deaths' = deaths, faults' = faults \/ Fault
    PROVE  /\ deaths + faults <= deaths' + faults'
           /\ Fault => deaths' + faults' = deaths + faults + 1
BY LifecycleAssumption DEF LifeTypes, LifeTypeOK, Fault

LEMMA GoesGoer ==
    ASSUME LifeTypes, NEW o \in Op, NEW w \in OpRec, Goes(o, w)
    PROVE  Goer(o, w) /\ comp' = comp
BY GoesMoves, IsGoer DEF LifeTypes

LEMMA WritesGoer ==
    ASSUME LifeTypes, NEW o \in Op, NEW w \in OpRec, NEW c, Writes(o, w, c)
    PROVE  Goer(o, w) /\ comp' = c
BY WritesWrote, IsGoer DEF LifeTypes

LEMMA PlainHandless ==
    ASSUME NEW pc \in Plain
    PROVE  At(pc) \in OpRec /\ At(pc).at = pc /\ Handless(At(pc))
<1>1. pc \in Pcs /\ pc \notin Making \cup {"record", "destroy", "vacate"}
  BY DEF Plain, Making, Claimed, Booting, Replacing
<1> QED
  BY <1>1, AtIs DEF Handless

LEMMA GivenUpHandless ==
    ASSUME NEW o \in Op
    PROVE  GivenUp(o) \in OpRec /\ Handless(GivenUp(o))
<1>1. PICK pc \in {"retry", "free", "finish", "done"} : GivenUp(o) = At(pc)
  BY GivenUpPlain
<1>2. pc \in Plain
  BY DEF Plain, Pcs, Claimed, AtWork, Stopping, Booting, Replacing, Sleeping
<1> QED
  BY <1>1, <1>2, PlainHandless

\* The steps of a boot that holds the row.
LEMMA BootOwed ==
    ASSUME LifeTypes, LifeTypes', KeptInv, OwedInv, NEW o \in Op,
           \/ Provide(o) \/ SetUpFails(o) \/ Activate(o) \/ RollBack(o) \/ RecordFailure(o)
    PROVE  OwedInv'
<1>0. op[o].at \in Booting /\ deaths' = deaths /\ (faults' = faults \/ Fault)
  BY DEF Provide, SetUpFails, Activate, RollBack, RecordFailure, Booting
<1>1. /\ op[o] \in OpRec /\ comp \in CompRow /\ OwedOK(o) /\ comp.ref = op[o].ref
      /\ op[o].got \in 0..MaxBox /\ op[o].ref \in 0..MaxBox
      /\ box \in [Box -> {"gone", "up", "down"}] /\ op[o].at \in Claimed
  BY <1>0, RecordsAre, BootFacts DEF Others, OwedInv
<1>2. \A p \in Op \ {o} : op[p].at \notin Claimed
  BY <1>1, OnlyMine
<1>3. /\ deaths + faults <= deaths' + faults'
      /\ Fault => deaths' + faults' = deaths + faults + 1
  BY <1>0, Counts
\* It gives up, or goes from place to place.
<1>4. ASSUME NEW pc \in {"undo", "record"}, Goes(o, [op[o] EXCEPT !.at = pc]), box' = box,
             pc = "undo" => op[o].at = "setup",
             pc = "record" => op[o].at \in {"provide", "undo"} /\ Fault
      PROVE  OwedInv'
  <2> DEFINE w == [op[o] EXCEPT !.at = pc]
  <2>1. w \in OpRec /\ w.at = pc /\ w.got = op[o].got /\ w.ref = op[o].ref
    <3>1. pc \in Pcs
      BY DEF Pcs
    <3> QED
      BY <1>1, <3>1, AtSet
  <2>2. Goes(o, w)
    BY <1>4
  <2> HIDE DEF w
  <2>3. Goer(o, w) /\ comp' = comp
    BY <2>1, <2>2, GoesGoer
  <2>4. OwedOK(o)'
    BY <1>1, <1>4, <2>1, <2>3 DEF OwedOK, Goer
  <2>5. OnlyLoosens(o, w, {op[o].got})
    BY <1>4, <2>1, <2>3 DEF OnlyLoosens, Mine, Making
  <2>6. pc = "undo" => OnlyLoosens(o, w, {})
    BY <1>4, <2>1, <2>3 DEF OnlyLoosens, Mine, Making
  <2> QED
    BY <1>2, <1>3, <1>4, <2>3, <2>4, <2>5, <2>6, HolderOwed
<1>5. CASE Provide(o)
  <2>0. op[o].at = "provide" /\ op[o].got = 0
    BY <1>1, <1>5 DEF Provide, OwedOK
  <2>1. CASE Fault /\ Goes(o, [op[o] EXCEPT !.at = "record"]) /\ UNCHANGED box
    BY <1>4, <2>0, <2>1
  <2>2. CASE ~(Fault /\ Goes(o, [op[o] EXCEPT !.at = "record"]) /\ UNCHANGED box)
    <3> DEFINE found == op[o].ref # 0 /\ box[op[o].ref] # "gone"
    <3>1. PICK n \in IF found THEN {op[o].ref} ELSE Unused :
             box' = [box EXCEPT ![n] = "up"] /\ Goes(o, Made(op[o], n))
      BY <1>5, <2>2 DEF Provide, Made
    <3>2. n \in 0..MaxBox /\ n \in Box
      BY <1>1, <3>1, LifecycleAssumption DEF Unused, Box
    <3> DEFINE w == Made(op[o], n)
    <3>3. w \in OpRec /\ w.at = "setup" /\ w.got = n /\ w.ref = op[o].ref
      BY <1>1, <3>2, MadeSet
    <3>4. Goer(o, w) /\ comp' = comp
      BY <3>1, <3>3, GoesGoer
    <3> HIDE DEF w
    <3>5. OwedOK(o)'
      <4>1. n # op[o].ref => op[o].ref = 0 \/ box'[op[o].ref] = "gone"
        BY <1>1, <3>1, <3>2, LifecycleAssumption DEF Box
      <4> QED
        BY <3>3, <3>4, <4>1 DEF OwedOK, Goer
    <3>6. OnlyLoosens(o, w, {})
      BY <1>1, <2>0, <3>1, <3>2, <3>3, <3>4 DEF OnlyLoosens, Mine, Making
    <3> QED
      BY <1>2, <1>3, <3>4, <3>5, <3>6, HolderOwed
  <2> QED
    BY <2>1, <2>2
<1>6. CASE SetUpFails(o)
  BY <1>4, <1>6 DEF SetUpFails
<1>7. CASE Activate(o)
  <2>1. op[o].at = "setup" /\ box' = box
    BY <1>7 DEF Activate
  <2>2. CASE Goes(o, [op[o] EXCEPT !.at = "undo"])
    BY <1>4, <2>1, <2>2
  <2>3. CASE ~Goes(o, [op[o] EXCEPT !.at = "undo"])
    <3> DEFINE c == RowAs(comp, "running", op[o].got)
               v == [At("work") EXCEPT !.got = op[o].got]
               w == IF Kind[o] = "run" THEN v ELSE GivenUp(o)
    <3>1. Writes(o, w, c)
      BY <1>7, <2>3 DEF Activate, RowAs
    <3>2. c.ref = op[o].got
      BY <1>1, StateRefSet DEF States
    <3>3. v \in OpRec /\ v.at = "work"
      <4>1. At("work") \in OpRec /\ At("work").at = "work"
        BY AtIs DEF Pcs
      <4> QED
        BY <1>1, <4>1, WorkSet
    <3>4. w \in OpRec /\ w.at \notin Making \cup {"vacate", "record", "destroy"}
          /\ (w.at \in {"wait", "claim", "provide"} => w.got = 0)
      <4>1. GivenUp(o) \in OpRec /\ Handless(GivenUp(o))
        BY GivenUpHandless
      <4>2. "work" \notin Making \cup {"vacate", "record", "destroy", "wait", "claim", "provide"}
        BY DEF Making
      <4> HIDE DEF v
      <4> QED
        BY <3>3, <4>1, <4>2 DEF Handless
    <3> HIDE DEF w, c
    <3>5. Goer(o, w) /\ comp' = c
      BY <3>1, <3>4, WritesGoer
    <3>6. OwedOK(o)'
      BY <3>4, <3>5 DEF OwedOK, Goer, Making
    <3>7. OnlyLoosens(o, w, {})
      <4> SUFFICES ASSUME NEW m \in Box, box[m] # "gone", m # op[o].got
                   PROVE  m # comp.ref
        BY <2>1, <3>2, <3>4, <3>5 DEF OnlyLoosens, Mine, Making
      <4>1. op[o].got # 0
        BY <2>1, RecordsAre DEF Fit
      <4> QED
        BY <1>1, <2>1, <4>1, LifecycleAssumption DEF OwedOK, Box
    <3> QED
      BY <1>2, <1>3, <3>5, <3>6, <3>7, HolderOwed
  <2> QED
    BY <2>2, <2>3
<1>8. CASE RollBack(o)
  <2>1. op[o].at = "undo"
    BY <1>8 DEF RollBack
  <2>2. CASE Fault /\ Goes(o, [op[o] EXCEPT !.at = "record"]) /\ UNCHANGED box
    BY <1>4, <2>1, <2>2
  <2>3. CASE ~(Fault /\ Goes(o, [op[o] EXCEPT !.at = "record"]) /\ UNCHANGED box)
    <3> DEFINE w == Unmade(op[o])
    <3>1. /\ Goes(o, w)
          /\ box' = IF Undoes(o) THEN [box EXCEPT ![op[o].got] =
                                          IF Fresh(o) THEN "gone" ELSE "down"] ELSE box
      BY <1>8, <2>3 DEF RollBack, Unmade
    <3>2. w \in OpRec /\ w.at = "record" /\ w.got = 0
      BY <1>1, UnmadeSet
    <3> HIDE DEF w
    <3>3. Goer(o, w) /\ comp' = comp
      BY <3>1, <3>2, GoesGoer
    <3>4. OwedOK(o)'
      BY <3>2, <3>3 DEF OwedOK, Goer
    <3>5. OnlyLoosens(o, w, {})
      <4> SUFFICES ASSUME NEW m \in Box, box'[m] # "gone", m # comp.ref
                   PROVE  box[m] # "gone" /\ m # op[o].got
        BY <2>1, <3>2, <3>3 DEF OnlyLoosens, Mine, Making
      <4>1. CASE Fresh(o)
        BY <1>1, <3>1, <4>1 DEF Undoes
      <4>2. CASE ~Fresh(o)
        BY <1>1, <3>1, <4>2 DEF Undoes, Fresh
      <4> QED
        BY <4>1, <4>2
    <3> QED
      BY <1>2, <1>3, <3>3, <3>4, <3>5, HolderOwed
  <2> QED
    BY <2>2, <2>3
<1>9. CASE RecordFailure(o)
  <2>1. op[o].at = "record" /\ box' = box
    BY <1>9 DEF RecordFailure
  <2>2. GivenUp(o) \in OpRec /\ Handless(GivenUp(o))
    BY GivenUpHandless
  <2> DEFINE w == GivenUp(o)
             n == IF op[o].got # 0 THEN op[o].got ELSE comp.ref
  <2>3. Goer(o, w) /\ (comp'.ref = comp.ref \/ comp'.ref = n)
    <3>1. CASE Goes(o, w)
      BY <2>2, <3>1, GoesGoer
    <3>2. CASE Writes(o, w, [comp EXCEPT !.state = "running"])
      <4>1. "running" \in States
        BY DEF States
      <4>2. [comp EXCEPT !.state = "running"].ref = comp.ref
        BY <1>1, <4>1, StateSet
      <4> QED
        BY <2>2, <3>2, <4>2, WritesGoer
    <3>3. CASE Writes(o, w, RowAs(comp, "error", n))
      <4>1. n \in 0..MaxBox /\ "error" \in States
        BY <1>1 DEF States, Resting
      <4> HIDE DEF n
      <4>2. RowAs(comp, "error", n).ref = n
        BY <1>1, <4>1, StateRefSet
      <4> QED
        BY <2>2, <3>3, <4>2, WritesGoer
    <3> QED
      BY <1>9, <3>1, <3>2, <3>3 DEF RecordFailure, RowAs
  <2> HIDE DEF w
  <2>4. w.at \notin Making \cup {"vacate", "record", "destroy"}
        /\ (w.at \in {"wait", "claim", "provide"} => w.got = 0)
    BY <2>2 DEF Handless, w
  <2>5. OwedOK(o)'
    BY <2>3, <2>4 DEF OwedOK, Goer, Making
  <2>6. OnlyLoosens(o, w, {})
    <3> SUFFICES ASSUME NEW m \in Box, box[m] # "gone", m # comp'.ref
                 PROVE  m # comp.ref
      BY <2>1, <2>4 DEF OnlyLoosens, Mine, Making
    <3> QED
      BY <1>1, <2>1, <2>3, LifecycleAssumption DEF OwedOK, Box
  <2> QED
    BY <1>2, <1>3, <2>3, <2>5, <2>6, HolderOwed
<1> QED
  BY <1>5, <1>6, <1>7, <1>8, <1>9

\* o gives up or goes back to its queue.
LEMMA PlainOwed ==
    ASSUME LifeTypes, LifeTypes', OwedInv, NEW o \in Op, NEW w \in OpRec, Handless(w),
           Goes(o, w) \/ \E c : Writes(o, w, c) /\ c.ref = comp.ref, SameBoxes,
           op[o].at \notin Making, deaths' = deaths, faults' = faults \/ Fault
    PROVE  OwedInv'
<1>1. Goer(o, w) /\ comp'.ref = comp.ref
  BY GoesGoer, WritesGoer
<1> QED
  BY <1>1, Counts, HandlessOwed

\* Another place with the same record: nothing is in hand there.
LEMMA ElsewhereOwed ==
    ASSUME LifeTypes, LifeTypes', OwedInv, NEW o \in Op,
           NEW pc \in Pcs \ (Making \cup {"record", "destroy", "vacate", "wait", "claim", "provide"}),
           \/ Goes(o, [op[o] EXCEPT !.at = pc])
           \/ \E b \in BOOLEAN : \/ Goes(o, [op[o] EXCEPT !.at = pc, !.cur = b])
                                 \/ \E c : /\ Writes(o, [op[o] EXCEPT !.at = pc, !.cur = b], c)
                                           /\ c.ref = comp.ref,
           SameBoxes, op[o].at \notin Making, deaths' = deaths, faults' = faults \/ Fault
    PROVE  OwedInv'
<1>1. op[o] \in OpRec
  BY RecordsAre
<1>2. CASE Goes(o, [op[o] EXCEPT !.at = pc])
  <2> DEFINE w == [op[o] EXCEPT !.at = pc]
  <2>1. w \in OpRec /\ w.at = pc
    BY <1>1, AtSet
  <2>2. Goes(o, w)
    BY <1>2
  <2> HIDE DEF w
  <2> QED
    BY <2>1, <2>2, PlainOwed DEF Handless
<1>3. ASSUME NEW b \in BOOLEAN,
             \/ Goes(o, [op[o] EXCEPT !.at = pc, !.cur = b])
             \/ \E c : Writes(o, [op[o] EXCEPT !.at = pc, !.cur = b], c) /\ c.ref = comp.ref
      PROVE  OwedInv'
  <2> DEFINE w == [op[o] EXCEPT !.at = pc, !.cur = b]
  <2>1. w \in OpRec /\ w.at = pc
    <3>1. pc \in Pcs
      OBVIOUS
    <3> QED
      BY <1>1, <3>1 DEF OpRec
  <2>2. Goes(o, w) \/ \E c : Writes(o, w, c) /\ c.ref = comp.ref
    BY <1>3
  <2> HIDE DEF w
  <2> QED
    BY <2>1, <2>2, PlainOwed DEF Handless
<1> QED
  BY <1>2, <1>3

\* What these steps write of the row is not its reference.
LEMMA RowsRef ==
    ASSUME LifeTypes
    PROVE  /\ \A s \in States : [comp EXCEPT !.state = s].ref = comp.ref
           /\ \A m \in Updates \cup {NoOp} :
                 /\ [comp EXCEPT !.maint = m].ref = comp.ref
                 /\ [comp EXCEPT !.maint = m, !.state = "error"].ref = comp.ref
BY RecordsAre DEF CompRow, States, Resting

LEMMA SameBoxesAre == box' = box => SameBoxes
BY DEF SameBoxes

LEMMA LeaseOwed ==
    ASSUME LifeTypes, LifeTypes', OwedInv, NEW o \in Op, LeaseStep(o) \/ Ask(o) \/ QueueUpdate(o)
    PROVE  OwedInv'
<1> USE PlacesArePlain DEF Places
<1>1. SameBoxes /\ deaths' = deaths /\ faults' = faults
  BY SameBoxesAre
     DEF LeaseStep, Ask, QueueUpdate, Approach, TakeLease, CheckLease, Release, FinishUpdate
<1>2. \/ Ask(o) \/ QueueUpdate(o) \/ Approach(o) \/ TakeLease(o) \/ CheckLease(o)
      \/ Release(o) \/ FinishUpdate(o)
  BY DEF LeaseStep
<1>3. op[o].at \notin Making
  BY <1>2 DEF Ask, QueueUpdate, Approach, TakeLease, CheckLease, Release, FinishUpdate, Making
<1>4. ASSUME NEW pc \in Plain,
             Goes(o, At(pc)) \/ \E c : Writes(o, At(pc), c) /\ c.ref = comp.ref
      PROVE  OwedInv'
  BY <1>1, <1>3, <1>4, PlainHandless, PlainOwed
<1>5. ASSUME Goes(o, GivenUp(o)) PROVE OwedInv'
  BY <1>1, <1>3, <1>5, GivenUpHandless, PlainOwed
<1>6. CASE Ask(o)
  BY <1>4, <1>6 DEF Ask
<1>7. CASE QueueUpdate(o)
  <2>1. Writes(o, At("rlook"), [comp EXCEPT !.maint = o]) /\ o \in Updates
    BY <1>7 DEF QueueUpdate
  <2>2. [comp EXCEPT !.maint = o].ref = comp.ref
    BY <2>1, RowsRef
  <2> QED
    BY <1>4, <2>1, <2>2
<1>8. CASE Approach(o)
  BY <1>4, <1>8 DEF Approach
<1>9. CASE TakeLease(o)
  BY <1>4, <1>5, <1>9 DEF TakeLease
<1>10. CASE CheckLease(o)
  BY <1>4, <1>5, <1>10 DEF CheckLease
<1>11. CASE Release(o)
  BY <1>4, <1>11 DEF Release
<1>12. CASE FinishUpdate(o)
  <2>1. [comp EXCEPT !.maint = NoOp].ref = comp.ref
    BY RowsRef
  <2> QED
    BY <1>4, <1>12, <2>1 DEF FinishUpdate
<1> QED
  BY <1>2, <1>6, <1>7, <1>8, <1>9, <1>10, <1>11, <1>12

\* A boot on the way to its claim.
LEMMA LookOwed ==
    ASSUME LifeTypes, LifeTypes', OwedInv, NEW o \in Op, Look(o) \/ Waited(o) \/ ClaimBoot(o)
    PROVE  OwedInv'
<1>1. SameBoxes /\ deaths' = deaths /\ faults' = faults /\ op[o].at \in {"look", "wait", "claim"}
  BY SameBoxesAre DEF Look, Waited, ClaimBoot
<1>2. /\ op[o] \in OpRec /\ comp.state \in States /\ comp.ref \in 0..MaxBox
      /\ abandoned \in BOOLEAN /\ OwedOK(o) /\ op[o].at \notin Making
  BY <1>1, RecordsAre DEF OwedInv, Making
<1>3. ASSUME Goes(o, GivenUp(o)) PROVE OwedInv'
  BY <1>1, <1>2, <1>3, GivenUpHandless, PlainOwed
<1>4. ASSUME NEW w \in OpRec, w.at \in {"wait", "claim", "provide"}, w.got = 0,
             Goes(o, w) \/ \E c : Writes(o, w, c) /\ c.ref = comp.ref
      PROVE  OwedInv'
  <2>1. Handless(w)
    BY <1>4 DEF Handless, Making
  <2> QED
    BY <1>1, <1>2, <1>4, <2>1, PlainOwed
<1>5. CASE Look(o)
  <2> DEFINE pc == IF comp.state \in Unstable THEN "wait" ELSE "claim"
             w == SeenAs(At(pc), comp.state, comp.ref, abandoned)
  <2>1. Goes(o, GivenUp(o)) \/ Goes(o, w)
    BY <1>5 DEF Look, SeenAs
  <2>2. pc \in {"wait", "claim"} /\ pc \in Pcs
    BY DEF Pcs
  <2>3. At(pc) \in OpRec /\ At(pc).at = pc /\ At(pc).got = 0
    BY <2>2, AtIs
  <2>4. w \in OpRec /\ w.at = pc
    BY <1>2, <2>3, SeenSet
  <2>5. w.got = At(pc).got
    BY <2>3 DEF SeenAs, OpRec
  <2> HIDE DEF w
  <2> QED
    BY <1>3, <1>4, <2>1, <2>2, <2>3, <2>4, <2>5
<1>6. CASE Waited(o)
  <2> DEFINE w == ClaimFrom(op[o], comp.state, comp.ref)
  <2>1. Goes(o, GivenUp(o)) \/ Goes(o, w)
    BY <1>6 DEF Waited, ClaimFrom
  <2>2. w \in OpRec /\ w.at = "claim"
    BY <1>2, ClaimSet
  <2>3. w.got = op[o].got
    BY <1>2 DEF ClaimFrom, OpRec
  <2>4. op[o].got = 0
    BY <1>2, <1>6 DEF Waited, OwedOK
  <2> HIDE DEF w
  <2> QED
    BY <1>3, <1>4, <2>1, <2>2, <2>3, <2>4
<1>7. CASE ClaimBoot(o)
  <2> DEFINE w == [op[o] EXCEPT !.at = "provide", !.cur = TRUE, !.old = FALSE]
             c == [comp EXCEPT !.state = "booting"]
  <2>1. Goes(o, GivenUp(o)) \/ Writes(o, w, c)
    BY <1>7 DEF ClaimBoot
  <2>2. w \in OpRec /\ w.at = "provide" /\ w.got = op[o].got
    BY <1>2, ProvideSet
  <2>3. op[o].got = 0
    BY <1>2, <1>7 DEF ClaimBoot, OwedOK
  <2>4. c.ref = comp.ref
    BY RowsRef DEF States, Unstable
  <2> HIDE DEF w, c
  <2> QED
    BY <1>3, <1>4, <2>1, <2>2, <2>3, <2>4
<1> QED
  BY <1>5, <1>6, <1>7

LEMMA WorkOwed ==
    ASSUME LifeTypes, LifeTypes', OwedInv, NEW o \in Op, WorkStep(o)
    PROVE  OwedInv'
<1>1. SameBoxes /\ deaths' = deaths /\ faults' = faults /\ op[o].at \in AtWork
  BY SameBoxesAre DEF WorkStep, SaveWorkspace, WorkspaceSaved, EndRun, LoseLease, AtWork
<1>2. op[o].at \notin Making
  BY <1>1 DEF AtWork, Making
<1>3. {"saving", "saved"} \subseteq
         Pcs \ (Making \cup {"record", "destroy", "vacate", "wait", "claim", "provide"})
  BY DEF Pcs, Making
<1>4. CASE SaveWorkspace(o)
  <2>1. [comp EXCEPT !.state = "suspending"].ref = comp.ref
    BY RowsRef DEF States, Unstable
  <2> QED
    BY <1>1, <1>2, <1>3, <1>4, <2>1, ElsewhereOwed DEF SaveWorkspace
<1>5. CASE WorkspaceSaved(o)
  <2>1. [comp EXCEPT !.state = "running"].ref = comp.ref
    BY RowsRef DEF States
  <2> QED
    BY <1>1, <1>2, <1>3, <1>5, <2>1, ElsewhereOwed DEF WorkspaceSaved
<1>6. CASE EndRun(o) \/ LoseLease(o)
  <2>1. {"leave", "retry"} \subseteq Plain
    BY PlacesArePlain DEF Places
  <2> QED
    BY <1>1, <1>2, <1>6, <2>1, PlainHandless, PlainOwed DEF EndRun, LoseLease
<1> QED
  BY <1>4, <1>5, <1>6 DEF WorkStep

\* A replacement: it claims the row with the box it read, and destroys that box.
LEMMA ReplaceOwed ==
    ASSUME LifeTypes, LifeTypes', KeptInv, ClaimsKnowTheBox, OwedInv, NEW o \in Op, ReplaceStep(o)
    PROVE  OwedInv'
<1>0. /\ op[o] \in OpRec /\ comp \in CompRow /\ comp.state \in States /\ comp.ref \in 0..MaxBox
      /\ Fit(Kind[o], op[o]) /\ OwedOK(o) /\ op[o].ref \in 0..MaxBox
      /\ box \in [Box -> {"gone", "up", "down"}]
  BY RecordsAre DEF Others, OwedInv
<1>1. RLook(o) \/ RClaim(o) \/ Recheck(o) \/ Destroy(o) \/ Vacate(o) \/ Spoil(o)
  BY DEF ReplaceStep
<1>2. /\ op[o].at \in {"rlook", "rclaim"} \cup Replacing /\ op[o].at \notin Making
      /\ deaths' = deaths /\ (faults' = faults \/ Fault)
  BY <1>1 DEF RLook, RClaim, Recheck, Destroy, Vacate, Spoil, Replacing, Making
<1>3. op[o].at \in Replacing => \A p \in Op \ {o} : op[p].at \notin Claimed
  BY OnlyMine DEF Claimed
<1>4. ASSUME SameBoxes,
             Goes(o, GivenUp(o)) \/ \E c : Writes(o, GivenUp(o), c) /\ c.ref = comp.ref
      PROVE  OwedInv'
  BY <1>2, <1>4, GivenUpHandless, PlainOwed
<1>5. {"recheck", "spoil"} \subseteq
         Pcs \ (Making \cup {"record", "destroy", "vacate", "wait", "claim", "provide"})
  BY DEF Pcs, Making
<1>6. /\ deaths + faults <= deaths' + faults'
      /\ Fault => deaths' + faults' = deaths + faults + 1
  BY <1>2, Counts
<1>7. CASE RLook(o)
  <2> DEFINE w == ReadCur(At("rclaim"), comp.state, comp.ref)
  <2>1. (Goes(o, GivenUp(o)) \/ Goes(o, w)) /\ SameBoxes
    BY <1>7, SameBoxesAre DEF RLook, ReadCur
  <2>2. w \in OpRec /\ w.at = "rclaim"
    <3>1. At("rclaim") \in OpRec /\ At("rclaim").at = "rclaim"
      BY AtIs DEF Pcs
    <3> QED
      BY <1>0, <3>1, ReadSet
  <2> HIDE DEF w
  <2>3. Handless(w)
    BY <2>2 DEF Handless, Making
  <2> QED
    BY <1>2, <1>4, <2>1, <2>2, <2>3, PlainOwed
<1>8. CASE RClaim(o)
  <2>1. [comp EXCEPT !.state = "suspending"].ref = comp.ref
    BY RowsRef DEF States, Unstable
  <2> QED
    BY <1>2, <1>4, <1>5, <1>8, <2>1, SameBoxesAre, ElsewhereOwed DEF RClaim
<1>9. CASE Recheck(o)
  <2>1. op[o].at = "recheck" /\ op[o].st \in States /\ box' = box /\ op[o].ref = comp.ref
        /\ op[o].at \in Replacing
    BY <1>0, <1>9 DEF Recheck, Fit, ClaimsKnowTheBox, Replacing
  <2>2. CASE Goes(o, GivenUp(o)) \/ Writes(o, GivenUp(o), [comp EXCEPT !.state = op[o].st])
    BY <1>4, <2>1, <2>2, RowsRef, SameBoxesAre
  <2>3. CASE Goes(o, [op[o] EXCEPT !.at = "destroy"])
    <3> DEFINE w == [op[o] EXCEPT !.at = "destroy"]
    <3>1. w \in OpRec /\ w.at = "destroy" /\ w.ref = op[o].ref
      <4>1. "destroy" \in Pcs
        BY DEF Pcs
      <4> QED
        BY <1>0, <4>1, AtSet
    <3>2. Goes(o, w)
      BY <2>3
    <3> HIDE DEF w
    <3>3. Goer(o, w) /\ comp' = comp
      BY <3>1, <3>2, GoesGoer
    <3>4. OwedOK(o)'
      BY <2>1, <3>1, <3>3 DEF OwedOK, Goer
    <3>5. OnlyLoosens(o, w, {})
      BY <2>1, <3>1, <3>3 DEF OnlyLoosens, Mine, Making
    <3> QED
      BY <1>3, <1>6, <2>1, <3>3, <3>4, <3>5, HolderOwed
  <2> QED
    BY <1>9, <2>2, <2>3 DEF Recheck
<1>10. CASE Destroy(o)
  <2>1. op[o].at = "destroy" /\ op[o].ref = comp.ref /\ op[o].at \in Replacing
    BY <1>0, <1>10 DEF Destroy, OwedOK, Replacing
  <2>2. CASE Goes(o, [op[o] EXCEPT !.at = "spoil"]) /\ box' = box
    BY <1>2, <1>5, <2>2, SameBoxesAre, ElsewhereOwed
  <2>3. CASE /\ Goes(o, [op[o] EXCEPT !.at = "vacate"])
             /\ \/ box' = IF op[o].ref = 0 THEN box ELSE [box EXCEPT ![op[o].ref] = "gone"]
                \/ Fault /\ box' = box
    <3> DEFINE w == [op[o] EXCEPT !.at = "vacate"]
    <3>1. w \in OpRec /\ w.at = "vacate" /\ w.ref = op[o].ref
      <4>1. "vacate" \in Pcs
        BY DEF Pcs
      <4> QED
        BY <1>0, <4>1, AtSet
    <3>2. Goes(o, w)
      BY <2>3
    <3> HIDE DEF w
    <3>3. Goer(o, w) /\ comp' = comp
      BY <3>1, <3>2, GoesGoer
    <3>4. OwedOK(o)'
      BY <2>1, <3>1, <3>3 DEF OwedOK, Goer
    <3>5. CASE box' = IF op[o].ref = 0 THEN box ELSE [box EXCEPT ![op[o].ref] = "gone"]
      <4>1. OnlyLoosens(o, w, {})
        BY <1>0, <2>1, <3>1, <3>3, <3>5, LifecycleAssumption DEF OnlyLoosens, Mine, Making, Box
      <4> QED
        BY <1>3, <1>6, <2>1, <3>3, <3>4, <4>1, HolderOwed
    <3>6. CASE Fault /\ box' = box
      <4>1. OnlyLoosens(o, w, {comp.ref})
        BY <2>1, <3>1, <3>3, <3>6 DEF OnlyLoosens, Mine, Making
      <4> QED
        BY <1>3, <1>6, <2>1, <3>3, <3>4, <3>6, <4>1, HolderOwed
    <3> QED
      BY <2>3, <3>5, <3>6
  <2> QED
    BY <1>10, <2>2, <2>3 DEF Destroy
<1>11. CASE Vacate(o)
  <2>1. op[o].at = "vacate" /\ op[o].at \in Replacing /\ box' = box
    BY <1>11 DEF Vacate, Replacing
  <2>2. CASE Goes(o, [op[o] EXCEPT !.at = "spoil"])
    BY <1>2, <1>5, <2>1, <2>2, SameBoxesAre, ElsewhereOwed
  <2>3. CASE op' = [op EXCEPT ![o] = At("look")]
    <3> DEFINE w == At("look")
    <3>1. w \in OpRec /\ w.at = "look" /\ Handless(w)
      BY PlacesArePlain, PlainHandless DEF Places
    <3>2. Goer(o, w)
      BY <2>3, <3>1 DEF Goer, LifeTypes, LifeTypeOK
    <3> HIDE DEF w
    <3>3. OwedOK(o)'
      BY <3>1, <3>2 DEF OwedOK, Goer, Making
    <3>4. OnlyLoosens(o, w, {})
      BY <2>1, <3>1 DEF OnlyLoosens, Mine, Making
    <3> QED
      BY <1>3, <1>6, <2>1, <3>2, <3>3, <3>4, HolderOwed
  <2> QED
    BY <1>11, <2>2, <2>3 DEF Vacate
<1>12. CASE Spoil(o)
  <2>1. [comp EXCEPT !.state = "error"].ref = comp.ref
    BY RowsRef DEF States, Resting
  <2> QED
    BY <1>4, <1>12, <2>1, SameBoxesAre DEF Spoil
<1> QED
  BY <1>1, <1>7, <1>8, <1>9, <1>10, <1>11, <1>12

LEMMA SleepOwed ==
    ASSUME LifeTypes, LifeTypes', OwedInv, NEW o \in Op, SleepStep(o) \/ SLook(o)
    PROVE  OwedInv'
<1>0. /\ op[o] \in OpRec /\ comp.ref \in 0..MaxBox /\ op[o].ref \in 0..MaxBox
      /\ box \in [Box -> {"gone", "up", "down"}] /\ Fit(Kind[o], op[o])
  BY RecordsAre DEF Others
<1>1. SLook(o) \/ SClaim(o) \/ SSave(o) \/ SRecheck(o) \/ SStop(o) \/ SRecord(o)
  BY DEF SleepStep
<1>2. /\ op[o].at \in {"none", "sclaim"} \cup Sleeping /\ op[o].at \notin Making
      /\ deaths' = deaths /\ (faults' = faults \/ Fault)
  BY <1>1 DEF SLook, SClaim, SSave, SRecheck, SStop, SRecord, Sleeping, Making
<1>3. SameBoxes
  <2>1. CASE SStop(o)
    <3>1. CASE box' = [box EXCEPT ![op[o].ref] = IF @ = "up" THEN "down" ELSE @]
      BY <1>0, <3>1 DEF SameBoxes
    <3> QED
      BY <2>1, <3>1, SameBoxesAre DEF SStop
  <2>2. CASE ~SStop(o)
    BY <1>1, <2>2, SameBoxesAre DEF SLook, SClaim, SSave, SRecheck, SRecord
  <2> QED
    BY <2>1, <2>2
<1>4. ASSUME Goes(o, At("none")) \/ \E c : Writes(o, At("none"), c) /\ c.ref = comp.ref
      PROVE  OwedInv'
  <2>1. At("none") \in OpRec /\ Handless(At("none"))
    BY PlacesArePlain, PlainHandless DEF Places
  <2> QED
    BY <1>2, <1>3, <1>4, <2>1, PlainOwed
<1>5. \A s \in {"running", "suspended", "suspending"} : [comp EXCEPT !.state = s].ref = comp.ref
  BY RowsRef DEF States, Unstable, Resting
<1>6. Resume(o) => OwedInv'
  BY <1>4, <1>5 DEF Resume
<1>7. {"ssave", "srecheck", "sstop", "srecord"} \subseteq
         Pcs \ (Making \cup {"record", "destroy", "vacate", "wait", "claim", "provide"})
  BY DEF Pcs, Making
<1>8. CASE SLook(o)
  <2> DEFINE w == RefCur(At("sclaim"), comp.ref)
  <2>1. Goes(o, w)
    BY <1>8 DEF SLook, RefCur
  <2>2. w \in OpRec /\ w.at = "sclaim"
    <3>1. At("sclaim") \in OpRec /\ At("sclaim").at = "sclaim"
      BY AtIs DEF Pcs
    <3> QED
      BY <1>0, <3>1, RefSet
  <2> HIDE DEF w
  <2>3. Handless(w)
    BY <2>2 DEF Handless, Making
  <2> QED
    BY <1>2, <1>3, <2>1, <2>2, <2>3, PlainOwed
<1>9. CASE SClaim(o)
  BY <1>2, <1>3, <1>4, <1>5, <1>7, <1>9, ElsewhereOwed DEF SClaim
<1>10. CASE SSave(o)
  BY <1>2, <1>3, <1>6, <1>7, <1>10, ElsewhereOwed DEF SSave
<1>11. CASE SRecheck(o)
  BY <1>2, <1>3, <1>6, <1>7, <1>11, ElsewhereOwed DEF SRecheck
<1>12. CASE SStop(o)
  BY <1>2, <1>3, <1>6, <1>7, <1>12, ElsewhereOwed DEF SStop
<1>13. CASE SRecord(o)
  BY <1>4, <1>5, <1>13 DEF SRecord
<1> QED
  BY <1>1, <1>8, <1>9, <1>10, <1>11, <1>12, <1>13

\* The box that a boot has in hand when it dies is loose: the death is counted.
LEMMA EndOwed ==
    ASSUME LifeTypes, LifeTypes', KeptInv, OwedInv, NEW o \in Op,
           Die(o) \/ ReleaseInterrupted(o) \/ Recovers(o)
    PROVE  OwedInv'
<1> USE PlacesArePlain DEF Places
<1>0. box' = box /\ SameBoxes
  BY SameBoxesAre DEF Die, ReleaseInterrupted, Recovers, RunLapses, Redeliver
<1>1. CASE Die(o)
  <2> DEFINE pc == IF Kind[o] = "sleep" THEN "none" ELSE "dead"
             w == At(pc)
  <2>1. pc \in Plain
    OBVIOUS
  <2> HIDE DEF pc
  <2>2. w \in OpRec /\ Handless(w)
    BY <2>1, PlainHandless
  <2>3. Goes(o, w)
    BY <1>1 DEF Die, pc
  <2> HIDE DEF w
  <2>4. Goer(o, w) /\ comp' = comp
    BY <2>2, <2>3, GoesGoer
  <2>5. deaths' + faults' = deaths + faults + 1 /\ deaths + faults <= deaths' + faults'
    BY <1>1, LifecycleAssumption DEF Die, LifeTypes, LifeTypeOK
  <2>6. CASE op[o].at \in Making
    <3>1. op[o].at \in Claimed
      BY <2>6 DEF Making, Claimed, Booting
    <3>2. \A p \in Op \ {o} : op[p].at \notin Claimed
      BY <3>1, OnlyMine
    <3>3. OwedOK(o)'
      BY <2>2, <2>4 DEF OwedOK, Goer, Handless, Making
    <3>4. OnlyLoosens(o, w, {op[o].got})
      BY <1>0, <2>2, <2>4 DEF OnlyLoosens, Mine, Handless
    <3> QED
      BY <2>4, <2>5, <3>2, <3>3, <3>4, HolderOwed
  <2>7. CASE op[o].at \notin Making
    BY <1>0, <2>2, <2>4, <2>5, <2>7, HandlessOwed
  <2> QED
    BY <2>6, <2>7
<1>2. CASE Recovers(o) \/ ReleaseInterrupted(o)
  <2>1. op[o].at \notin Making /\ deaths' = deaths /\ faults' = faults
    BY <1>2 DEF Recovers, RunLapses, Redeliver, ReleaseInterrupted, Making
  <2>2. [comp EXCEPT !.maint = NoOp, !.state = "error"].ref = comp.ref
    BY RowsRef
  <2>3. PICK pc \in Plain : \/ Goes(o, At(pc))
                            \/ \E c : Writes(o, At(pc), c) /\ c.ref = comp.ref
    BY <1>2, <2>2 DEF Recovers, RunLapses, Redeliver, ReleaseInterrupted
  <2> QED
    BY <1>0, <2>1, <2>3, PlainHandless, PlainOwed
<1> QED
  BY <1>1, <1>2

LEMMA TimeOwed ==
    ASSUME LifeTypes, LifeTypes', OwedInv,
           UNCHANGED lifeVars \/ StampAges \/ \E b \in Bot : LeaseLapses(b)
    PROVE  OwedInv'
<1>1. comp' = comp /\ op' = op /\ box' = box /\ deaths' = deaths /\ (faults' = faults \/ Fault)
  BY DEF lifeVars, StampAges, LeaseLapses
<1>2. Loose' \subseteq Loose
  BY <1>1 DEF Loose, Kept, Vacating
<1>3. \A p \in Op : OwedOK(p)'
  BY <1>1 DEF OwedInv, OwedOK
<1> QED
  BY <1>1, <1>2, <1>3, Counts, NoneLooser DEF OwedInv

LEMMA OwedStep ==
    LifeTypes /\ KeptInv /\ NoStop /\ ClaimsKnowTheBox /\ OwedInv /\ [LifeNext]_lifeVars /\ NoStop'
    => OwedInv'
<1> SUFFICES ASSUME LifeTypes, KeptInv, NoStop, ClaimsKnowTheBox, OwedInv, [LifeNext]_lifeVars,
                    NoStop'
             PROVE  OwedInv'
  OBVIOUS
<1>1. LifeTypes'
  BY LifeTypesStep DEF TypedStep
<1>2. ASSUME NEW o \in Op, Step(o) \/ Begin(o) \/ Die(o) \/ ReleaseInterrupted(o)
      PROVE  OwedInv'
  <2>1. ProvisionStep(o) => OwedInv'
    BY <1>1, LookOwed, BootOwed DEF ProvisionStep
  <2> QED
    BY <1>1, <1>2, <2>1, NoStopSteps, LeaseOwed, WorkOwed, ReplaceOwed, SleepOwed, EndOwed
       DEF Step, Begin
<1>3. CASE UNCHANGED lifeVars \/ StampAges \/ \E b \in Bot : LeaseLapses(b)
  BY <1>1, <1>3, TimeOwed
<1> QED
  BY <1>2, <1>3 DEF LifeNext

LEMMA OwedInit == LifeInit => OwedInv
<1> SUFFICES ASSUME LifeInit
             PROVE  OwedInv
  OBVIOUS
<1>1. \A o \in Op : op[o].at = "none"
  <2>1. \A o \in Op : op[o] = At("none")
    BY DEF LifeInit
  <2> QED
    BY <2>1, AtIs DEF Pcs
<1>2. Loose = {}
  BY <1>1 DEF LifeInit, Loose, Kept, Vacating
<1>3. Owed
  BY <1>2, FS_EmptySet DEF LifeInit, Owed
<1> QED
  BY <1>1, <1>3 DEF OwedInv, OwedOK

\* Every box that the row no longer names and no operation knows is owed to a death or
\* to a failed call of the provider (LostIsOwed), for every setting, while no user stops
\* the computer and no replacement claims a row that another has given a new box.
\* That claim compares the state alone (computer-lifecycle.ts:653), and no other step
\* of reset, update, recover, boot or idle stop forgets a box.
THEOREM LostIsOwedHolds ==
    LifeSpec /\ []NoStop /\ []ClaimsKnowTheBox => []LostIsOwed
<1> DEFINE Inv == LifeTypes /\ KeptInv /\ OwedInv
<1>1. LifeInit => Inv
  BY LifeInitTypes, KeptInit, OwedInit
<1>2. Inv /\ NoStop /\ ClaimsKnowTheBox /\ [LifeNext]_lifeVars /\ NoStop' => Inv'
  BY LifeTypesStep, KeptStep, OwedStep DEF TypedStep
<1>3. LifeTypes /\ OwedInv => LostIsOwed
  <2> SUFFICES ASSUME LifeTypes, OwedInv
               PROVE  LostIsOwed
    OBVIOUS
  <2>1. Lost \subseteq Loose
    BY DEF Lost, Loose, Kept
  <2>2. Cardinality(Lost) <= Cardinality(Loose)
    BY <2>1, LooseIsFinite, FS_Subset
  <2>3. Lost \in SUBSET Box /\ Loose \in SUBSET Box
    BY DEF Lost, Loose
  <2>4. Cardinality(Lost) \in Nat /\ Cardinality(Loose) \in Nat
    BY <2>3, LooseIsFinite
  <2>5. deaths \in Nat /\ faults \in Nat
    BY LifecycleAssumption DEF LifeTypes, LifeTypeOK
  <2>6. Cardinality(Loose) <= deaths + faults
    BY DEF OwedInv, Owed
  <2>7. Cardinality(Lost) <= deaths + faults
    BY <2>2, <2>4, <2>5, <2>6
  <2> QED
    BY <2>7 DEF LostIsOwed
<1>4. Inv => LostIsOwed
  BY <1>3
<1> HIDE DEF Inv
<1> QED
  BY <1>1, <1>2, <1>4, PTL DEF LifeSpec

-----------------------------------------------------------------------------
(* The fences.                                                             *)

\* The step in which a user's stop deletes the lease row of its bot.
DeletesLease(o, b) == TCheck(o) /\ BotOf[o] = b

OnlyStopsLowerFences ==
    [][\A b \in Bot : lease'[b].fence < lease[b].fence
                      => \E o \in Op : DeletesLease(o, b)]_lifeVars

LEMMA FenceStep ==
    ASSUME LifeTypes, LifeNext, NEW b \in Bot, \A o \in Op : ~DeletesLease(o, b)
    PROVE  lease'[b].fence >= lease[b].fence
<1>0. lease \in [Bot -> LeaseRow] /\ MaxFence \in Nat
  BY LifecycleAssumption DEF LifeTypes, LifeTypeOK
<1>1. lease[b] \in LeaseRow /\ lease[b].fence \in 0..MaxFence
  BY <1>0 DEF LeaseRow
<1>2. CASE UNCHANGED lease
  BY <1>0, <1>1, <1>2
<1>3. ASSUME NEW o \in Op, TakeLease(o) PROVE lease'[b].fence >= lease[b].fence
  <2> DEFINE l == [owner |-> o, live |-> TRUE,
                   fence |-> IF lease[BotOf[o]].fence < MaxFence
                             THEN lease[BotOf[o]].fence + 1 ELSE MaxFence]
  <2>1. CASE lease' = [lease EXCEPT ![BotOf[o]] = l]
    <3>1. CASE BotOf[o] = b
      <4>1. lease'[b] = l
        BY <1>0, <2>1, <3>1
      <4>2. l.fence >= lease[b].fence
        BY <1>0, <1>1, <3>1
      <4> QED
        BY <4>1, <4>2
    <3>2. CASE BotOf[o] # b
      <4>1. lease'[b] = lease[b]
        BY <1>0, <2>1, <3>2
      <4> QED
        BY <1>0, <1>1, <4>1
    <3> QED
      BY <3>1, <3>2
  <2> QED
    BY <1>2, <1>3, <2>1 DEF TakeLease
<1>4. ASSUME NEW d \in Bot, NEW v \in BOOLEAN, lease' = [lease EXCEPT ![d].live = v]
      PROVE  lease'[b].fence >= lease[b].fence
  <2>1. lease'[b].fence = lease[b].fence
    BY <1>0, <1>1, <1>4 DEF LeaseRow
  <2> QED
    BY <1>0, <1>1, <2>1
<1>5. ASSUME NEW o \in Op, Release(o) PROVE lease'[b].fence >= lease[b].fence
  <2>1. BotOf[o] \in Bot /\ lease[BotOf[o]].live \in BOOLEAN
    BY <1>0, LifecycleAssumption DEF LeaseRow
  <2>2. lease' = [lease EXCEPT ![BotOf[o]].live =
                     lease[BotOf[o]].live /\ lease[BotOf[o]].owner # o]
    BY <1>5 DEF Release, Expired
  <2> QED
    BY <1>4, <2>1, <2>2
<1>6. ASSUME NEW o \in Op, TCheck(o) PROVE lease'[b].fence >= lease[b].fence
  <2>1. BotOf[o] # b
    BY <1>6 DEF DeletesLease
  <2>2. lease'[b] = lease[b]
    BY <1>0, <1>6, <2>1 DEF TCheck
  <2> QED
    BY <1>0, <1>1, <2>2
<1>7. ASSUME NEW d \in Bot, LeaseLapses(d) PROVE lease'[b].fence >= lease[b].fence
  BY <1>4, <1>7 DEF LeaseLapses
<1>8. ASSUME NEW o \in Op, Step(o) \/ Begin(o) \/ Die(o) \/ ReleaseInterrupted(o)
      PROVE  lease'[b].fence >= lease[b].fence
  <2>1. LeaseStep(o) => UNCHANGED lease \/ TakeLease(o) \/ Release(o)
    BY DEF LeaseStep, Approach, CheckLease, FinishUpdate
  <2>2. ProvisionStep(o) \/ WorkStep(o) => UNCHANGED lease
    BY DEF ProvisionStep, Look, Waited, ClaimBoot, Provide, SetUpFails, Activate, RollBack,
           RecordFailure, WorkStep, SaveWorkspace, WorkspaceSaved, EndRun, LoseLease
  <2>3. ReplaceStep(o) \/ SleepStep(o) => UNCHANGED lease
    BY DEF ReplaceStep, RLook, RClaim, Recheck, Destroy, Vacate, Spoil,
           SleepStep, SClaim, SSave, SRecheck, SStop, SRecord
  <2>4. StopStep(o) => UNCHANGED lease \/ TCheck(o)
    BY DEF StopStep, TClaim, TStop, TRecord
  <2>5. Recovers(o) \/ Begin(o) \/ Die(o) \/ ReleaseInterrupted(o) => UNCHANGED lease
    BY DEF Recovers, RunLapses, Redeliver, Begin, Ask, QueueUpdate, SLook, TLook, Die,
           ReleaseInterrupted
  <2> QED
    BY <1>2, <1>3, <1>5, <1>6, <1>8, <2>1, <2>2, <2>3, <2>4, <2>5 DEF Step
<1>9. CASE StampAges
  BY <1>2, <1>9 DEF StampAges
<1> QED
  BY <1>7, <1>8, <1>9 DEF LifeNext

\* A fence of a bot's lease falls in one kind of step only, the one in which a user's
\* stop deletes the row (router.ts:1967).  Taking a lease raises the fence or leaves it at
\* its bound, and a release or a lapse leaves it as it is (computer-lifecycle.ts:557).
THEOREM FencesFallByStopsOnly == LifeSpec => OnlyStopsLowerFences
<1> DEFINE Falls == \A b \in Bot : lease'[b].fence < lease[b].fence
                                   => \E o \in Op : DeletesLease(o, b)
<1>1. LifeTypes /\ [LifeNext]_lifeVars => LifeTypes' /\ [Falls]_lifeVars
  <2> SUFFICES ASSUME LifeTypes, LifeNext
               PROVE  Falls
    BY LifeTypesStep DEF TypedStep
  <2> SUFFICES ASSUME NEW b \in Bot, \A o \in Op : ~DeletesLease(o, b)
               PROVE  ~(lease'[b].fence < lease[b].fence)
    OBVIOUS
  <2>1. lease'[b].fence >= lease[b].fence
    BY FenceStep
  <2>2. lease'[b].fence \in 0..MaxFence /\ lease[b].fence \in 0..MaxFence
    BY LifeTypesStep DEF TypedStep, LifeTypes, LifeTypeOK, LeaseRow
  <2> QED
    BY <2>1, <2>2, LifecycleAssumption
<1> HIDE DEF Falls
<1>2. LifeSpec => [][Falls]_lifeVars
  BY <1>1, LifeInitTypes, PTL DEF LifeSpec
<1> QED
  BY <1>2 DEF OnlyStopsLowerFences, Falls

=============================================================================
