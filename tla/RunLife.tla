------------------------------ MODULE RunLife ------------------------------
(***************************************************************************)
(* What a run promises to the executions of its job.                       *)
(*                                                                         *)
(* An execution may take the run whenever it is not over, also from an     *)
(* execution that took it before.  Only the execution that took it last    *)
(* may begin it, and only the one that began it may settle it: make it     *)
(* wait, put it back into the queue, complete or fail it.  One that lost   *)
(* the run may do nothing but leave.  A user resumes a run that waits, or  *)
(* cancels a run that is not over; what is over stays over.  No fence, no  *)
(* lease, no clock and no process appear here.                             *)
(***************************************************************************)
CONSTANTS
    Execution,   \* the executions of the run's job
    NoOne        \* the run is in nobody's hands

VARIABLES
    status,      \* the status of the run
    holder,      \* the execution in whose hands a leased or running run is
    at           \* per execution: "out", "taken" (took the run) or "working"

lifeVars == <<status, holder, at>>

Waits   == {"waiting_input", "waiting_takeover"}
Open    == {"queued", "leased", "running"} \cup Waits
Outcome == Waits \cup {"queued", "completed", "failed"}

LifeInit ==
    /\ status = "queued" /\ holder = NoOne
    /\ at = [e \in Execution |-> "out"]

Take(e) ==
    /\ status \in Open /\ at[e] = "out"
    /\ status' = "leased" /\ holder' = e
    /\ at' = [at EXCEPT ![e] = "taken"]

Begin(e) ==
    /\ status = "leased" /\ holder = e /\ at[e] = "taken"
    /\ status' = "running" /\ holder' = holder
    /\ at' = [at EXCEPT ![e] = "working"]

Settle(e) ==
    /\ status = "running" /\ holder = e /\ at[e] = "working"
    /\ status' \in Outcome /\ holder' = NoOne
    /\ at' = [at EXCEPT ![e] = "out"]

\* Executions leave: they noticed that they lost the run, threw, or died.
Leave ==
    /\ \E E \in SUBSET Execution :
         at' = [e \in Execution |-> IF e \in E THEN "out" ELSE at[e]]
    /\ UNCHANGED <<status, holder>>

Resume == status \in Waits /\ status' = "queued" /\ UNCHANGED <<holder, at>>

Cancel ==
    /\ status \in Open /\ status' = "cancelled"
    /\ holder' = NoOne /\ at' = at

LifeNext ==
    \/ Leave \/ Resume \/ Cancel
    \/ \E e \in Execution : Take(e) \/ Begin(e) \/ Settle(e)

LifeSpec == LifeInit /\ [][LifeNext]_lifeVars

=============================================================================
