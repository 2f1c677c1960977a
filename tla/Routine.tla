------------------------------- MODULE Routine -------------------------------
(***************************************************************************)
(* The schedule of one routine: its next date, the jobs that wake it, and  *)
(* the user who edits it.                                                  *)
(*                                                                         *)
(* A wake reads the routine, claims its date by a compare-and-set in one   *)
(* transaction with the run, and enqueues the run; when the enqueue fails, *)
(* it takes run and claim back.  Wake jobs are replaced, repeated, late    *)
(* and lost, so a wake for any date may come at any time; the reconciler   *)
(* repeats them for the date that is stored.  An edit reads the routine    *)
(* and writes it back in two statements.                                   *)
(***************************************************************************)
EXTENDS Integers

CONSTANTS
    Wake,         \* executions of routine.wakeup
    MaxDate,      \* bound: dates of the schedule
    MaxFire,      \* bound: runs created
    MaxEdit,      \* bound: edits by the user
    MaxFailure    \* bound: failed enqueues and crashes

ASSUME RoutineAssumption ==
    /\ MaxDate \in Nat \ {0} /\ MaxFire \in Nat
    /\ MaxEdit \in Nat /\ MaxFailure \in Nat

Date   == 1 .. MaxDate
NoDate == 0
Fire   == 1 .. MaxFire

VARIABLES
    once,         \* the routine is a one-shot (@once), not a cron
    rt,           \* the routine's row: active, next (nextRunAt), last (lastRunAt is set)
    now,          \* the last date whose time has come
    soon,         \* the next date is less than a second ahead
    fire,         \* the runs created for dates, and when they began
    wake,         \* program counter and locals of each wake
    edit,         \* the edit in progress, with what it read
    edits, failures,
    setBack       \* how often a date that was not stored any more was stored again

rtVars == <<once, rt, now, soon, fire, wake, edit, edits, failures, setBack>>

-----------------------------------------------------------------------------

Asleep  == [at |-> "idle", date |-> NoDate, next |-> NoDate, last |-> FALSE, run |-> 0]
NotEdit == [at |-> "none", saw |-> [active |-> FALSE, next |-> NoDate, last |-> FALSE]]

\* The first date of the cron after another; the schedule ends with the bound.
After(d) == IF d < MaxDate THEN d + 1 ELSE NoDate

\* A routine is created with a first date.
RtInit ==
    /\ once \in BOOLEAN
    /\ rt = [active |-> TRUE, next |-> 1, last |-> FALSE]
    /\ now = 0 /\ soon = FALSE
    /\ fire = [f \in Fire |-> [date |-> NoDate, status |-> "none", at |-> 0]]
    /\ wake = [w \in Wake |-> Asleep]
    /\ edit = NotEdit /\ edits = 0 /\ failures = 0
    /\ setBack = [d \in Date |-> 0]

UnusedFire == {f \in Fire : fire[f].status = "none"}

\* Storing a date as the next one; setBack only counts.
Stores(d) == setBack' = IF d # NoDate /\ d # rt.next THEN [setBack EXCEPT ![d] = @ + 1]
                        ELSE setBack

-----------------------------------------------------------------------------
(* Time and the runs.                                                      *)

TimePasses ==
    /\ now < MaxDate
    /\ IF soon THEN now' = now + 1 /\ soon' = FALSE ELSE soon' = TRUE /\ UNCHANGED now
    /\ UNCHANGED <<once, rt, fire, wake, edit, edits, failures, setBack>>

\* The row of a queued run is enough: the reconciler enqueues it, too.
RunBegins(f) ==
    /\ fire[f].status = "queued"
    /\ fire' = [fire EXCEPT ![f].status = "begun", ![f].at = now]
    /\ UNCHANGED <<once, rt, now, soon, wake, edit, edits, failures, setBack>>

-----------------------------------------------------------------------------
(* wakeRoutine.                                                            *)

\* deferFutureRoutine: a date more than a second ahead is put off.
isFuture(d) == ~ (d <= now \/ (d = now + 1 /\ soon))

\* The next date of a cron is after the claimed one, though that be early.
nextRunAt(d) == IF once THEN NoDate ELSE After(IF now > d THEN now ELSE d)

\* A job for a date is delivered and reads the routine; for another date than
\* the stored one, or for a future one, it ends there.
WakeReads(w, d) ==
    /\ wake[w].at = "idle"
    /\ rt.active /\ rt.next = d /\ ~isFuture(d)
    /\ wake' = [wake EXCEPT ![w] = [at |-> "claim", date |-> d, next |-> nextRunAt(d),
                                    last |-> rt.last, run |-> 0]]
    /\ UNCHANGED <<once, rt, now, soon, fire, edit, edits, failures, setBack>>

\* Mutant: the claim compares nothing but active.
stillActive(w) == rt.active

stillDue(w) == rt.active /\ rt.next = wake[w].date

WakeClaims(w) ==
    /\ wake[w].at = "claim" /\ stillDue(w)
    /\ rt' = [active |-> wake[w].next # NoDate, next |-> wake[w].next, last |-> TRUE]
    /\ \E f \in UnusedFire :
          /\ \A x \in UnusedFire : f <= x
          /\ fire' = [fire EXCEPT ![f].date = wake[w].date, ![f].status = "queued"]
          /\ wake' = [wake EXCEPT ![w].at = "enqueue", ![w].run = f]
    /\ UNCHANGED <<once, now, soon, edit, edits, failures, setBack>>

WakeLoses(w) ==
    /\ wake[w].at = "claim" /\ ~stillDue(w)
    /\ wake' = [wake EXCEPT ![w] = Asleep]
    /\ UNCHANGED <<once, rt, now, soon, fire, edit, edits, failures, setBack>>

\* The run is in the queue; the job of the next date is replaced or lost.
WakeEnqueues(w) ==
    /\ wake[w].at = "enqueue"
    /\ wake' = [wake EXCEPT ![w] = Asleep]
    /\ UNCHANGED <<once, rt, now, soon, fire, edit, edits, failures, setBack>>

EnqueueFails(w) ==
    /\ wake[w].at = "enqueue" /\ failures < MaxFailure
    /\ failures' = failures + 1
    /\ wake' = [wake EXCEPT ![w].at = "rollback"]
    /\ UNCHANGED <<once, rt, now, soon, fire, edit, edits, setBack>>

\* Mutant: a one-shot, which its claim has made inactive, is not restored.
claimStandsActive(w) == rt.next = wake[w].next /\ rt.active

\* The run is deleted unless it has begun, and the date restored unless the
\* routine has moved on; the job is retried.
claimStands(w) == rt.next = wake[w].next /\ (wake[w].next = NoDate => ~rt.active)

WakeRollsBack(w) ==
    /\ wake[w].at = "rollback"
    /\ fire' = [fire EXCEPT ![wake[w].run].status = IF @ = "queued" THEN "none" ELSE @]
    /\ IF claimStands(w)
       THEN /\ rt' = [active |-> TRUE, next |-> wake[w].date, last |-> wake[w].last]
            /\ Stores(wake[w].date)
       ELSE UNCHANGED <<rt, setBack>>
    /\ wake' = [wake EXCEPT ![w] = Asleep]
    /\ UNCHANGED <<once, now, soon, edit, edits, failures>>

WakeDies(w) ==
    /\ wake[w].at # "idle" /\ failures < MaxFailure
    /\ failures' = failures + 1
    /\ wake' = [wake EXCEPT ![w] = Asleep]
    /\ UNCHANGED <<once, rt, now, soon, fire, edit, edits, setBack>>

-----------------------------------------------------------------------------
(* routines.update, by the owner of the routine.                           *)

Changes == {"rename", "pause", "resume", "retime"}

\* "This one-shot already ran": it is not resumed.
oneShotRan == rt.next = NoDate /\ rt.last

EditReads(change) ==
    /\ edit.at = "none" /\ edits < MaxEdit
    /\ once => /\ change # "retime"
               /\ change = "resume" \/ (rt.active /\ change # "pause") => ~oneShotRan
    /\ edit' = [at |-> change, saw |-> rt]
    /\ edits' = edits + 1
    /\ UNCHANGED <<once, rt, now, soon, fire, wake, failures, setBack>>

\* What the edit makes of the row it read: only an edit of the schedule, or a
\* routine without a date, gets a new one, and a one-shot the time the user names.
editedActive == CASE edit.at = "pause" -> FALSE [] edit.at = "resume" -> TRUE
                  [] OTHER -> edit.saw.active
newDate == \/ edit.saw.next = NoDate
           \/ ~once /\ (edit.at = "retime" \/ ~edit.saw.active)
editedNext == IF ~editedActive THEN NoDate
              ELSE IF newDate THEN After(now) ELSE edit.saw.next

\* update where id: only active is left alone when the edit does not name it.
EditWrites ==
    /\ edit.at # "none" /\ (editedActive /\ newDate => After(now) # NoDate)
    /\ rt' = [rt EXCEPT !.next = editedNext,
                        !.active = IF edit.at \in {"pause", "resume"} THEN editedActive ELSE @]
    /\ Stores(editedNext)
    /\ edit' = NotEdit
    /\ UNCHANGED <<once, now, soon, fire, wake, edits, failures>>

-----------------------------------------------------------------------------

WakeStep(w) == WakeClaims(w) \/ WakeLoses(w) \/ WakeEnqueues(w) \/ WakeRollsBack(w)

RtNext ==
    \/ TimePasses \/ \E f \in Fire : RunBegins(f)
    \/ \E w \in Wake : WakeStep(w) \/ EnqueueFails(w) \/ WakeDies(w)
                       \/ \E d \in Date : WakeReads(w, d)
    \/ EditWrites \/ \E change \in Changes : EditReads(change)

\* Time passes, the reconciler wakes a routine that is due and enqueues a run
\* that waits, and a wake that lives goes on.
RtFairness ==
    /\ WF_rtVars(TimePasses)
    /\ WF_rtVars(\E w \in Wake, d \in Date : WakeReads(w, d))
    /\ \A w \in Wake : WF_rtVars(WakeStep(w))
    /\ \A f \in Fire : WF_rtVars(RunBegins(f))

RtSpec == RtInit /\ [][RtNext]_rtVars /\ RtFairness

-----------------------------------------------------------------------------
(* Properties.                                                             *)

Schedules  == [active : BOOLEAN, next : Date \cup {NoDate}, last : BOOLEAN]
Fires      == [date : Date \cup {NoDate}, status : {"none", "queued", "begun"},
               at : 0 .. MaxDate]
WakeLocals == [at : {"idle", "claim", "enqueue", "rollback"}, date : Date \cup {NoDate},
               next : Date \cup {NoDate}, last : BOOLEAN, run : Fire \cup {0}]

RtTypeOK ==
    /\ once \in BOOLEAN /\ rt \in Schedules
    /\ now \in 0 .. MaxDate /\ soon \in BOOLEAN
    /\ fire \in [Fire -> Fires] /\ wake \in [Wake -> WakeLocals]
    /\ edit \in [at : Changes \cup {"none"}, saw : Schedules]
    /\ edits \in 0 .. MaxEdit /\ failures \in 0 .. MaxFailure
    /\ setBack \in [Date -> Nat]

\* A date starts one run, however many jobs wake the routine for it, also early,
\* unless a failed enqueue or an edit has set the schedule back to that date or an
\* earlier one (executor.ts 1018-1048).
DateFiresOnce ==
    \A d \in Date :
        \A f, g \in Fire :
            (/\ fire[f].date = d /\ fire[g].date = d /\ f # g
             /\ fire[f].status # "none" /\ fire[g].status # "none")
            => \E e \in 1 .. d : setBack[e] > 0

\* A date that is stored and that nobody edits gets its run, through lost jobs,
\* crashes and failed enqueues; or the run of another date, begun since, stands
\* for it (executor.ts 1018-1024, 1067-1087).
DateGetsRun ==
    \A d \in Date :
        (rt.active /\ rt.next = d)
           ~> \/ edits > 0
              \/ \E f \in Fire : /\ fire[f].status = "begun"
                                 /\ fire[f].date = d \/ fire[f].at >= d
=============================================================================
