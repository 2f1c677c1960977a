--------------------------- MODULE Steering_proofs ---------------------------
(***************************************************************************)
(* Theorems about Steering, for any number of runs, messages and routines: *)
(* types and the steering that an attempt was shown in every setting; and, *)
(* for a bot that talks in the app and in direct messages while routines   *)
(* run beside it, that no message is stranded or answered twice.           *)
(***************************************************************************)
EXTENDS Steering, WellFoundedInduction, TLAPS

-----------------------------------------------------------------------------
(* The smallest and the largest of some messages.                          *)

LEMMA SomeLeast ==
    ASSUME NEW T \in SUBSET Nat, T # {}
    PROVE  \E x \in T : \A y \in T : x <= y
<1> DEFINE R == OpToRel(<, Nat)
<1>1. IsWellFoundedOn(R, Nat)
  BY NatLessThanWellFounded
<1> HIDE DEF R
<1>2. PICK x \in T : \A y \in T : ~(<<y, x>> \in R)
  BY <1>1, WFMin
<1>3. \A y \in T : y < x => <<y, x>> \in R
  BY DEF OpToRel, R
<1>4. \A y \in T : ~(y < x)
  BY <1>2, <1>3
<1> QED
  BY <1>4

LEMMA LeastMessage ==
    ASSUME NEW S \in SUBSET Msg, S # {}
    PROVE  Min(S) \in S
<1>1. \E x \in S : \A y \in S : x =< y
  BY SomeLeast, BoundAssumption DEF Msg
<1> QED
  BY <1>1 DEF Min

LEMMA LastMessage ==
    ASSUME NEW S \in SUBSET Msg, S # {}
    PROVE  Max(S) \in S
<1> DEFINE T == {MaxMsg - m : m \in S}
<1>1. T \in SUBSET Nat /\ T # {}
  <2>1. \A m \in S : MaxMsg - m \in Nat
    BY BoundAssumption DEF Msg
  <2> QED
    BY <2>1
<1>2. PICK t \in T : \A u \in T : t <= u
  BY <1>1, SomeLeast
<1>3. PICK x \in S : t = MaxMsg - x
  BY <1>2
<1>4. \A y \in S : x >= y
  BY <1>2, <1>3, BoundAssumption DEF Msg
<1> QED
  BY <1>3, <1>4 DEF Max

-----------------------------------------------------------------------------
(* The continuation.                                                       *)

\* The run c, for the messages batch of the origin o, the last of which is src.
ContinuesFor(c, batch, src, o, st, rw, cl) ==
    /\ Free(c)
    /\ status' = [st EXCEPT ![c] = "queued"]
    /\ trigger' = [trigger EXCEPT ![c] = IF o = "app" THEN "follow_up" ELSE "messaging"]
    /\ source' = [source EXCEPT ![c] = src]
    /\ row' = [m \in Msg |-> IF m \in batch THEN c ELSE rw[m]]
    /\ claimed' = cl \ batch
    /\ retried' = retried \cup batch
    /\ batch = {m \in Msg : rw[m] = NoRun /\ steeringOrigin(m) = o}

\* The runs keep their statuses st and the rows are rw, or an idle bot gets one
\* run for a batch of pending messages of one origin.
LEMMA Continuation ==
    ASSUME NEW r \in Run, NEW st, NEW rw, NEW cl, createSteeringContinuation(r, st, rw, cl)
    PROVE  \/ /\ status' = st /\ row' = rw /\ claimed' = cl
              /\ UNCHANGED <<trigger, source, retried>>
              /\ (\E x \in Run : st[x] \in Active) \/ (\A m \in Msg : rw[m] # NoRun)
           \/ /\ \A x \in Run : st[x] \notin Active
              /\ \E c \in Run \ {r}, batch \in SUBSET Msg :
                    \E src \in batch, o \in {"app"} \cup {chat[m] : m \in Msg} :
                       ContinuesFor(c, batch, src, o, st, rw, cl)
<1> DEFINE pending == {m \in Msg : rw[m] = NoRun}
           o == steeringOrigin(Min(pending))
           batch == {m \in pending : steeringOrigin(m) = o}
<1>1. CASE (\A x \in Run : st[x] \notin Active) /\ pending # {}
  <2>1. Min(pending) \in pending
    BY <1>1, LeastMessage
  <2>2. batch \in SUBSET Msg /\ batch # {}
    BY <2>1
  <2>3. Max(batch) \in batch
    BY <2>2, LastMessage
  <2>4. o \in {"app"} \cup {chat[m] : m \in Msg}
    BY <2>1 DEF steeringOrigin
  <2>5. PICK c \in Run \ {r} :
          /\ Free(c)
          /\ status' = [st EXCEPT ![c] = "queued"]
          /\ trigger' = [trigger EXCEPT ![c] = IF o = "app" THEN "follow_up" ELSE "messaging"]
          /\ source' = [source EXCEPT ![c] = Max(batch)]
          /\ row' = [m \in Msg |-> IF m \in batch THEN c ELSE rw[m]]
          /\ claimed' = cl \ batch
          /\ retried' = retried \cup batch
    BY <1>1 DEF createSteeringContinuation
  <2>6. batch = {m \in Msg : rw[m] = NoRun /\ steeringOrigin(m) = o}
    OBVIOUS
  <2> HIDE DEF batch, o, pending
  <2>7. ContinuesFor(c, batch, Max(batch), o, st, rw, cl)
    BY <2>5, <2>6 DEF ContinuesFor
  <2> QED
    BY <1>1, <2>2, <2>3, <2>4, <2>5, <2>7
<1>2. CASE ~((\A x \in Run : st[x] \notin Active) /\ pending # {})
  BY <1>2 DEF createSteeringContinuation
<1> QED
  BY <1>1, <1>2

-----------------------------------------------------------------------------
(* Types.                                                                  *)

Statuses == Active \cup Terminal \cup {"none"}

LEMMA ActiveIsNot ==
    /\ Active \cap (Terminal \cup {"none"}) = {}
    /\ "queued" \in Active /\ "running" \in Active
BY DEF Active, Terminal

\* A run is created in a slot that is free.
LEMMA CreatedRun ==
    ASSUME TypeOK, NEW r \in Run, NEW t \in Trigger, NEW src \in 0 .. MaxMsg,
           CreateRun(r, t, src)
    PROVE  /\ status' \in [Run -> Statuses] /\ trigger' \in [Run -> Trigger]
           /\ source' \in [Run -> 0 .. MaxMsg]
           /\ status'[r] = "queued" /\ trigger'[r] = t /\ source'[r] = src
           /\ status[r] \notin Active /\ \A m \in Msg : row[m] # r
           /\ \A x \in Run \ {r} : /\ status'[x] = status[x] /\ trigger'[x] = trigger[x]
                                   /\ source'[x] = source[x]
           /\ primed \subseteq {x \in Run : status'[x] = "running"}
BY ActiveIsNot DEF TypeOK, CreateRun, Free, Statuses, Active, Terminal

\* An attempt ends for some runs; the other attempts go on.
LEMMA EndedTurn ==
    ASSUME TypeOK, NEW R \in SUBSET Run, EndTurn(R),
           \A x \in Run \ R : status[x] = "running" => status'[x] = "running"
    PROVE  /\ primed' \subseteq {x \in Run : status'[x] = "running"}
           /\ shown' \in [Run -> SUBSET Msg]
           /\ \A x \in Run \ primed' : shown'[x] = {}
           /\ primed' \subseteq primed /\ \A x \in primed' : shown'[x] = shown[x]
           /\ \A x \in R : shown'[x] = {}
BY DEF TypeOK, EndTurn

\* The end of a run, with the continuation.
LEMMA EndTypes ==
    ASSUME TypeOK, NEW r \in Run, NEW s \in {"completed", "failed"},
           NEW rw \in [Msg -> Run \cup {NoRun, NoRow}], NEW cl \in SUBSET Msg,
           createSteeringContinuation(r, [status EXCEPT ![r] = s], rw, cl),
           EndTurn({r}), answered' \subseteq Msg,
           UNCHANGED <<opening, tagged, chat, sent, extra>>
    PROVE  TypeOK'
<1> DEFINE st == [status EXCEPT ![r] = s]
<1>1. st \in [Run -> Statuses] /\ \A x \in Run \ {r} : st[x] = status[x]
  BY DEF TypeOK, Statuses, Active, Terminal
<1> HIDE DEF st
<1>2. CASE /\ status' = st /\ row' = rw /\ claimed' = cl
           /\ UNCHANGED <<trigger, source, retried>>
  <2>1. \A x \in Run \ {r} : status'[x] = status[x]
    BY <1>1, <1>2
  <2> QED
    BY <1>1, <1>2, <2>1, EndedTurn DEF TypeOK, Statuses
<1>3. ASSUME NEW c \in Run \ {r}, NEW batch \in SUBSET Msg, NEW src \in batch, NEW o,
             ContinuesFor(c, batch, src, o, st, rw, cl)
      PROVE  TypeOK'
  <2>1. \A x \in Run \ {r} : status[x] = "running" => status'[x] = "running"
    BY <1>1, <1>3, ActiveIsNot DEF ContinuesFor, Free
  <2>2. status' \in [Run -> Statuses]
    BY <1>1, <1>3 DEF ContinuesFor, Statuses, Active
  <2>3. trigger' \in [Run -> Trigger] /\ source' \in [Run -> 0 .. MaxMsg]
    BY <1>3, BoundAssumption DEF ContinuesFor, TypeOK, Trigger, Msg
  <2>4. row' \in [Msg -> Run \cup {NoRun, NoRow}] /\ claimed' \subseteq Msg
        /\ retried' \subseteq Msg
    BY <1>3 DEF ContinuesFor, TypeOK
  <2> QED
    BY <2>1, <2>2, <2>3, <2>4, EndedTurn DEF TypeOK, Statuses
<1> QED
  <2>1. createSteeringContinuation(r, st, rw, cl)
    BY DEF st
  <2> QED
    BY <1>2, <1>3, <2>1, Continuation

LEMMA CompleteTypes ==
    ASSUME TypeOK, NEW r \in Run, Complete(r) \/ Fail(r)
    PROVE  TypeOK'
<1>1. CASE Complete(r)
  <2> DEFINE settled == {m \in claimed : row[m] = r}
             left == [m \in Msg |-> IF m \in settled THEN NoRow
                                    ELSE IF row[m] = r THEN NoRun ELSE row[m]]
  <2>1. left \in [Msg -> Run \cup {NoRun, NoRow}] /\ claimed \ settled \in SUBSET Msg
    BY DEF TypeOK
  <2>2. createSteeringContinuation(r, [status EXCEPT ![r] = "completed"], left, claimed \ settled)
    BY <1>1 DEF Complete
  <2>3. answered' \subseteq Msg /\ EndTurn({r}) /\ UNCHANGED <<opening, tagged, chat, sent, extra>>
    BY <1>1 DEF Complete, TypeOK, log
  <2> HIDE DEF settled, left
  <2> QED
    BY <2>1, <2>2, <2>3, EndTypes
<1>2. CASE Fail(r)
  <2> DEFINE left == [m \in Msg |-> IF row[m] = r /\ m > source[r] THEN NoRun ELSE row[m]]
  <2>1. left \in [Msg -> Run \cup {NoRun, NoRow}] /\ claimed \in SUBSET Msg
    BY DEF TypeOK
  <2>2. createSteeringContinuation(r, [status EXCEPT ![r] = "failed"], left, claimed)
    BY <1>2 DEF Fail
  <2>3. answered' \subseteq Msg /\ EndTurn({r}) /\ UNCHANGED <<opening, tagged, chat, sent, extra>>
    BY <1>2 DEF Fail, TypeOK, log
  <2> HIDE DEF left
  <2> QED
    BY <2>1, <2>2, <2>3, EndTypes
<1> QED
  BY <1>1, <1>2

\* A message that steers no run, some run, or waits.
LEMMA ArrivalTypes ==
    ASSUME TypeOK, NEW c \in {"app", "dm", "channel"}, NewMessage(c),
           status' \in [Run -> Statuses], trigger' \in [Run -> Trigger],
           source' \in [Run -> 0 .. MaxMsg],
           primed \subseteq {x \in Run : status'[x] = "running"},
           row' \in [Msg -> Run \cup {NoRun, NoRow}], tagged' \subseteq Msg,
           opening' \subseteq Run, extra' \in 0 .. MaxExtra,
           UNCHANGED <<turn, claimed, hist>>
    PROVE  TypeOK'
<1>1. sent' \in 0 .. MaxMsg /\ chat' \in [Msg -> {"app", "dm", "channel"}]
  BY BoundAssumption DEF NewMessage, TypeOK, Msg
<1> QED
  BY <1>1 DEF TypeOK, Statuses, turn, hist

LEMMA SteerTypes ==
    ASSUME TypeOK, sent < MaxMsg, NEW r \in Run \cup {NoRun}, Steer(r)
    PROVE  /\ row' \in [Msg -> Run \cup {NoRun, NoRow}] /\ sent + 1 \in Msg
           /\ row'[sent + 1] = r /\ \A m \in Msg \ {sent + 1} : row'[m] = row[m]
           /\ UNCHANGED <<status, trigger, source>>
<1>1. sent + 1 \in Msg
  BY BoundAssumption DEF TypeOK, Msg
<1> QED
  BY <1>1 DEF TypeOK, Steer, runs

LEMMA SentInRange ==
    ASSUME TypeOK, sent < MaxMsg
    PROVE  sent + 1 \in Msg /\ sent + 1 \in 0 .. MaxMsg
BY BoundAssumption DEF TypeOK, Msg

LEMMA SendTypes ==
    ASSUME TypeOK, Send
    PROVE  TypeOK'
<1>1. NewMessage("app") /\ UNCHANGED <<opening, turn, claimed, tagged, extra, hist>>
      /\ sent < MaxMsg
  BY DEF Send, NewMessage
<1>2. opening \subseteq Run /\ tagged \subseteq Msg /\ extra \in 0 .. MaxExtra
      /\ row \in [Msg -> Run \cup {NoRun, NoRow}]
      /\ status \in [Run -> Statuses] /\ trigger \in [Run -> Trigger]
      /\ source \in [Run -> 0 .. MaxMsg]
      /\ primed \subseteq {x \in Run : status[x] = "running"}
  BY DEF TypeOK, Statuses
<1>3. ASSUME NEW R \in SUBSET Run, \A x \in R : status[x] = "waiting_input",
             status' = [r \in Run |-> IF r \in R THEN "queued" ELSE status[r]],
             UNCHANGED <<trigger, source, row>>
      PROVE  TypeOK'
  <2>1. "queued" \in Statuses
    BY DEF Statuses, Active
  <2>2. status' \in [Run -> Statuses]
    BY <1>2, <1>3, <2>1
  <2>3. primed \subseteq {x \in Run : status'[x] = "running"}
    BY <1>2, <1>3
  <2> QED
    BY <1>1, <1>2, <1>3, <2>2, <2>3, ArrivalTypes
<1>4. ASSUME NEW r \in Run \cup {NoRun}, Steer(r)
      PROVE  TypeOK'
  BY <1>1, <1>2, <1>4, SteerTypes, ArrivalTypes
<1>5. ASSUME NEW r \in Run, CreateRun(r, "user", sent + 1), UNCHANGED row
      PROVE  TypeOK'
  <2>1. "user" \in Trigger
    BY DEF Trigger
  <2> QED
    BY <1>1, <1>2, <1>5, <2>1, SentInRange, CreatedRun, ArrivalTypes
<1> QED
  <2> DEFINE W == {r \in ActiveRuns : status[r] = "waiting_input"}
  <2>1. W \in SUBSET Run /\ \A x \in W : status[x] = "waiting_input"
    BY DEF ActiveRuns
  <2>2. \A r \in ActiveRuns : r \in Run
    BY DEF ActiveRuns
  <2>3. \/ /\ status' = [r \in Run |-> IF r \in W THEN "queued" ELSE status[r]]
           /\ UNCHANGED <<trigger, source, row>>
        \/ \E r \in Run \cup {NoRun} : Steer(r)
        \/ \E r \in Run : CreateRun(r, "user", sent + 1) /\ UNCHANGED row
    BY <2>2 DEF Send, StartRun
  <2> HIDE DEF W
  <2> QED
    BY <1>3, <1>4, <1>5, <2>1, <2>3

LEMMA SendUserTypes ==
    ASSUME TypeOK, NEW t \in {"webhook", "follow_up", "messaging"},
           NEW c \in {"app", "dm", "channel"}, sendUserMessage(t, c)
    PROVE  TypeOK'
<1>1. NewMessage(c) /\ UNCHANGED <<opening, turn, claimed, extra, hist>> /\ sent < MaxMsg
  BY DEF sendUserMessage, NewMessage
<1>2. opening \subseteq Run /\ tagged \subseteq Msg /\ extra \in 0 .. MaxExtra
      /\ row \in [Msg -> Run \cup {NoRun, NoRow}]
      /\ status \in [Run -> Statuses] /\ trigger \in [Run -> Trigger]
      /\ source \in [Run -> 0 .. MaxMsg]
      /\ primed \subseteq {x \in Run : status[x] = "running"}
  BY DEF TypeOK, Statuses
<1>3. tagged' \subseteq Msg
  BY <1>1, <1>2, SentInRange DEF sendUserMessage
<1>4. ASSUME NEW r \in Run \cup {NoRun}, Steer(r)
      PROVE  TypeOK'
  BY <1>1, <1>2, <1>3, <1>4, SteerTypes, ArrivalTypes
<1>5. ASSUME NEW r \in Run, CreateRun(r, t, sent + 1), UNCHANGED row
      PROVE  TypeOK'
  <2>1. t \in Trigger
    BY DEF Trigger
  <2> QED
    BY <1>1, <1>2, <1>3, <1>5, <2>1, SentInRange, CreatedRun, ArrivalTypes
<1> QED
  <2>1. \A r \in ActiveRuns : r \in Run
    BY DEF ActiveRuns
  <2> QED
    BY <1>4, <1>5, <2>1 DEF sendUserMessage, StartRun

LEMMA GroupTypes ==
    ASSUME TypeOK, GroupFollowUp
    PROVE  TypeOK'
<1>1. NewMessage("app") /\ UNCHANGED <<opening, turn, claimed, tagged, extra, hist>>
      /\ sent < MaxMsg
  BY DEF GroupFollowUp, NewMessage
<1>2. opening \subseteq Run /\ tagged \subseteq Msg /\ extra \in 0 .. MaxExtra
      /\ row \in [Msg -> Run \cup {NoRun, NoRow}]
      /\ status \in [Run -> Statuses] /\ trigger \in [Run -> Trigger]
      /\ source \in [Run -> 0 .. MaxMsg]
      /\ primed \subseteq {x \in Run : status[x] = "running"}
  BY DEF TypeOK, Statuses
<1>4. ASSUME NEW r \in Run, Steer(r)
      PROVE  TypeOK'
  BY <1>1, <1>2, <1>4, SteerTypes, ArrivalTypes
<1>5. ASSUME NEW r \in Run, CreateRun(r, "follow_up", sent + 1), UNCHANGED row
      PROVE  TypeOK'
  <2>1. "follow_up" \in Trigger
    BY DEF Trigger
  <2> QED
    BY <1>1, <1>2, <1>5, <2>1, SentInRange, CreatedRun, ArrivalTypes
<1> QED
  BY <1>4, <1>5 DEF GroupFollowUp, StartRun, ActiveRuns

LEMMA RoutineTypes ==
    ASSUME TypeOK, wakeRoutine
    PROVE  TypeOK'
<1>1. PICK r \in Run : CreateRun(r, "routine", 0) /\ opening' = opening \cup {r}
  BY DEF wakeRoutine
<1>2. "routine" \in Trigger /\ 0 \in 0 .. MaxMsg
  BY BoundAssumption DEF Trigger
<1>3. extra' \in 0 .. MaxExtra /\ UNCHANGED <<turn, rows, log, hist>>
  BY BoundAssumption DEF wakeRoutine, TypeOK
<1>4. opening' \subseteq Run
  BY <1>1 DEF TypeOK
<1> QED
  BY <1>1, <1>2, <1>3, <1>4, CreatedRun DEF TypeOK, turn, rows, log, hist, Statuses

LEMMA ParallelTypes ==
    ASSUME TypeOK, NEW t \in {"bot_message", "messaging"}, StartParallel(t)
    PROVE  TypeOK'
<1>1. PICK r \in Run : CreateRun(r, t, sent + 1)
                       /\ opening' = IF t = "messaging" THEN opening \cup {r} ELSE opening
  BY DEF StartParallel
<1>2. t \in Trigger /\ sent < MaxMsg
  BY DEF Trigger, StartParallel, NewMessage
<1>3. extra' \in 0 .. MaxExtra /\ UNCHANGED <<turn, row, claimed, tagged, hist>>
  BY BoundAssumption DEF StartParallel, TypeOK, rows
<1>4. opening' \subseteq Run /\ tagged' \subseteq Msg
      /\ row' \in [Msg -> Run \cup {NoRun, NoRow}]
  BY <1>1, <1>3 DEF TypeOK
<1>5. PICK c \in {"app", "dm", "channel"} : NewMessage(c)
  BY DEF StartParallel
<1> QED
  BY <1>1, <1>2, <1>3, <1>4, <1>5, SentInRange, CreatedRun, ArrivalTypes

\* A run begins, yields, or is answered.
LEMMA TurnTypes ==
    ASSUME TypeOK, NEW r \in Run, Begin(r) \/ Yield(r) \/ Answer(r)
    PROVE  TypeOK'
<1>1. UNCHANGED <<trigger, source, opening, rows, log, extra, hist>>
  BY DEF Begin, Yield, Answer
<1>2. status' \in [Run -> Statuses] /\ \A x \in Run \ {r} : status'[x] = status[x]
  BY DEF Begin, Yield, Answer, TypeOK, Statuses, Active
<1>3. CASE Yield(r)
  <2>1. EndTurn({r})
    BY <1>3 DEF Yield
  <2> QED
    BY <1>1, <1>2, <2>1, EndedTurn DEF TypeOK, rows, log, hist, Statuses
<1>4. CASE Begin(r) \/ Answer(r)
  <2>1. UNCHANGED turn /\ primed' \subseteq {x \in Run : status'[x] = "running"}
    BY <1>2, <1>4 DEF Begin, Answer, TypeOK, turn
  <2> QED
    BY <1>1, <1>2, <2>1 DEF TypeOK, turn, rows, log, hist, Statuses
<1> QED
  BY <1>3, <1>4

\* What claimSteering returns are rows of the run or pending ones, not yet shown.
LEMMA SteeringOf ==
    ASSUME TypeOK, NEW r \in Run
    PROVE  /\ steeringFor(r) \subseteq Msg
           /\ \A m \in steeringFor(r) : row[m] \in {r, NoRun} /\ m \notin shown[r]
BY DEF steeringFor, Pending

LEMMA ClaimTypes ==
    ASSUME TypeOK, NEW r \in Run, claimSteering(r)
    PROVE  TypeOK'
<1> DEFINE steering == IF trigger[r] = "created" THEN {} ELSE steeringFor(r)
<1>1. steering \subseteq Msg
  BY SteeringOf
<1>2. /\ status[r] = "running" /\ primed' = primed \cup {r}
      /\ row' = [m \in Msg |-> IF m \in steering \ claimed THEN r ELSE row[m]]
      /\ claimed' = claimed \cup steering
      /\ shown' = [shown EXCEPT ![r] = @ \cup steering]
      /\ UNCHANGED <<runs, opening, tagged, log, extra, hist>>
  BY DEF claimSteering
<1> HIDE DEF steering
<1>3. row' \in [Msg -> Run \cup {NoRun, NoRow}] /\ claimed' \subseteq Msg
  BY <1>1, <1>2 DEF TypeOK
<1>4. shown' \in [Run -> SUBSET Msg] /\ \A x \in Run \ primed' : shown'[x] = {}
  BY <1>1, <1>2 DEF TypeOK
<1>5. primed' \subseteq {x \in Run : status'[x] = "running"}
  BY <1>2 DEF TypeOK, runs
<1> QED
  BY <1>2, <1>3, <1>4, <1>5 DEF TypeOK, runs, log, hist

LEMMA CancelTypes ==
    ASSUME TypeOK, CancelActive, DropRows \/ UNCHANGED rows
    PROVE  TypeOK'
<1>1. status' \in [Run -> Statuses]
  BY DEF CancelActive, TypeOK, Statuses, Terminal
<1>2. EndTurn(Run) /\ UNCHANGED <<trigger, source, opening, log, extra, hist>>
  BY DEF CancelActive
<1>3. row' \in [Msg -> Run \cup {NoRun, NoRow}] /\ claimed' \subseteq Msg /\ tagged' \subseteq Msg
  BY DEF DropRows, rows, TypeOK
<1> QED
  BY <1>1, <1>2, <1>3, EndedTurn DEF TypeOK, log, hist, Statuses

LEMMA WithdrawTypes ==
    ASSUME TypeOK, NEW r \in Run, Opened(r) \/ RollbackRoutine(r) \/ AbandonForRoutine(r)
    PROVE  TypeOK'
<1>1. CASE Opened(r)
  BY <1>1 DEF Opened, TypeOK, runs, turn, rows, log, hist
<1>2. CASE RollbackRoutine(r)
  <2>1. /\ status' \in [Run -> Statuses] /\ row' \in [Msg -> Run \cup {NoRun, NoRow}]
        /\ primed \subseteq {x \in Run : status'[x] = "running"}
    BY <1>2 DEF RollbackRoutine, TypeOK, Statuses
  <2>2. opening' \subseteq Run
        /\ UNCHANGED <<trigger, source, turn, claimed, tagged, log, extra, hist>>
    BY <1>2 DEF RollbackRoutine, TypeOK
  <2> QED
    BY <2>1, <2>2 DEF TypeOK, turn, log, hist, Statuses
<1>3. CASE AbandonForRoutine(r)
  <2>1. opening' \subseteq Run /\ UNCHANGED <<trigger, source, rows, log, extra, hist>>
    BY <1>3 DEF AbandonForRoutine, TypeOK
  <2>2. CASE status[r] \in Active
    <3>1. status' \in [Run -> Statuses] /\ EndTurn({r})
          /\ \A x \in Run \ {r} : status'[x] = status[x]
      BY <1>3, <2>2 DEF AbandonForRoutine, TypeOK, Statuses, Terminal
    <3> QED
      BY <2>1, <3>1, EndedTurn DEF TypeOK, rows, log, hist, Statuses
  <2>3. CASE status[r] \notin Active
    BY <1>3, <2>1, <2>3 DEF AbandonForRoutine, TypeOK, turn, rows, log, hist
  <2> QED
    BY <2>2, <2>3
<1> QED
  BY <1>1, <1>2, <1>3

LEMMA InitTypes == Init => TypeOK
<1> SUFFICES ASSUME Init
             PROVE  TypeOK
  OBVIOUS
<1>1. status \in [Run -> Statuses]
  BY DEF Init, Statuses, Active
<1>2. trigger \in [Run -> Trigger] /\ source \in [Run -> 0 .. MaxMsg]
      /\ sent \in 0 .. MaxMsg /\ extra \in 0 .. MaxExtra
  BY BoundAssumption DEF Init, Trigger
<1> QED
  BY <1>1, <1>2 DEF Init, TypeOK, Statuses

LEMMA StepTypes == TypeOK /\ [Next]_vars => TypeOK'
<1> SUFFICES ASSUME TypeOK, [Next]_vars
             PROVE  TypeOK'
  OBVIOUS
<1>1. CASE UNCHANGED vars
  BY <1>1 DEF vars, TypeOK
<1>2. CASE Inbound
  <2>1. CASE \E c \in Chats :
         IF c = "app"
         THEN \E t \in {"webhook", "follow_up"} :
                ~ (GroupThread /\ t = "follow_up") /\ sendUserMessage(t, c)
         ELSE sendUserMessage("messaging", c)
    BY <2>1, ChoiceAssumption, SendUserTypes
  <2> QED
    BY <1>2, <2>1, SendTypes, GroupTypes DEF Inbound
<1>3. ASSUME NEW r \in Run, Turn(r) \/ Opened(r) \/ RollbackRoutine(r) \/ AbandonForRoutine(r)
      PROVE  TypeOK'
  BY <1>3, TurnTypes, ClaimTypes, CompleteTypes, WithdrawTypes DEF Turn
<1>4. ASSUME NEW t \in Parallel, StartParallel(t)
      PROVE  TypeOK'
  BY <1>4, ChoiceAssumption, ParallelTypes
<1>5. CASE stopThreadRuns \/ clearThread \/ cancelActiveRuns
  BY <1>5, CancelTypes DEF stopThreadRuns, clearThread, cancelActiveRuns
<1> QED
  BY <1>1, <1>2, <1>3, <1>4, <1>5, RoutineTypes DEF Next

\* The types, and that what an attempt has seen is forgotten with it.
THEOREM SteeringTypesAreRight == Spec => []TypeOK
BY InitTypes, StepTypes, PTL DEF Spec

-----------------------------------------------------------------------------
(* A conversation starts alone.                                            *)

StartsAlone ==
    \A r \in Run :
      (/\ r \notin ActiveRuns /\ status'[r] \in Active
       /\ isConversationalRun(trigger'[r]))
      => \A x \in Run \ {r} : status'[x] \notin Active

\* A step that activates nothing.
LEMMA NothingStarts ==
    ASSUME \A r \in Run : status'[r] \in Active => status[r] \in Active
    PROVE  StartsAlone
BY DEF StartsAlone, ActiveRuns

\* A run for a new message, of an idle bot.
LEMMA StartedAlone ==
    ASSUME TypeOK, NEW t \in Trigger, sent < MaxMsg, ActiveRuns = {}, StartRun(t)
    PROVE  StartsAlone
<1>1. PICK r \in Run : CreateRun(r, t, sent + 1)
  BY DEF StartRun
<1>2. \A x \in Run \ {r} : status'[x] = status[x]
  BY <1>1, SentInRange, CreatedRun
<1> QED
  BY <1>2 DEF StartsAlone, ActiveRuns

LEMMA InboundAlone ==
    ASSUME TypeOK, Inbound
    PROVE  StartsAlone
<1>1. sent < MaxMsg /\ {"user", "follow_up", "messaging", "webhook"} \subseteq Trigger
  BY DEF Inbound, Send, GroupFollowUp, sendUserMessage, NewMessage, Trigger
<1>2. ASSUME NEW r, Steer(r)
      PROVE  StartsAlone
  BY <1>2, NothingStarts DEF Steer, runs
<1>3. CASE Send
  <2>1. CASE \E R \in SUBSET Run : /\ \A x \in R : status[x] = "waiting_input"
                                   /\ status' = [r \in Run |-> IF r \in R THEN "queued" ELSE status[r]]
    <3>1. "waiting_input" \in Active
      BY DEF Active
    <3> QED
      BY <2>1, <3>1, NothingStarts
  <2>2. CASE ActiveRuns = {} /\ StartRun("user")
    BY <1>1, <2>2, StartedAlone
  <2> DEFINE W == {r \in ActiveRuns : status[r] = "waiting_input"}
  <2>3. W \in SUBSET Run /\ \A x \in W : status[x] = "waiting_input"
    BY DEF ActiveRuns
  <2>4. \/ status' = [r \in Run |-> IF r \in W THEN "queued" ELSE status[r]]
        \/ \E r \in ActiveRuns \cup {NoRun} : Steer(r)
        \/ ActiveRuns = {} /\ StartRun("user")
    BY <1>3 DEF Send
  <2> HIDE DEF W
  <2> QED
    BY <1>2, <2>1, <2>2, <2>3, <2>4
<1>4. ASSUME NEW t \in {"webhook", "follow_up", "messaging"}, NEW c, sendUserMessage(t, c)
      PROVE  StartsAlone
  <2>1. (ActiveRuns = {} /\ StartRun(t)) \/ \E r \in ActiveRuns \cup {NoRun} : Steer(r)
    BY <1>4 DEF sendUserMessage
  <2> QED
    BY <1>1, <1>2, <2>1, StartedAlone
<1>5. CASE GroupFollowUp
  BY <1>1, <1>2, <1>5, StartedAlone DEF GroupFollowUp
<1> QED
  BY <1>3, <1>4, <1>5 DEF Inbound

\* The end of a run, with the continuation.
LEMMA EndAlone ==
    ASSUME TypeOK, NEW r \in Run, NEW s \in Terminal, NEW rw, NEW cl,
           createSteeringContinuation(r, [status EXCEPT ![r] = s], rw, cl)
    PROVE  StartsAlone
<1> DEFINE st == [status EXCEPT ![r] = s]
<1>1. st \in [Run -> Statuses] /\ st[r] = s /\ \A x \in Run \ {r} : st[x] = status[x]
  BY DEF TypeOK, Statuses
<1>2. createSteeringContinuation(r, st, rw, cl)
  OBVIOUS
<1> HIDE DEF st
<1>3. CASE status' = st
  BY <1>1, <1>3, ActiveIsNot, NothingStarts
<1>4. ASSUME \A x \in Run : st[x] \notin Active,
             NEW c \in Run, NEW batch, NEW src, NEW o,
             ContinuesFor(c, batch, src, o, st, rw, cl)
      PROVE  StartsAlone
  BY <1>1, <1>4 DEF StartsAlone, ContinuesFor
<1> QED
  BY <1>2, <1>3, <1>4, Continuation

LEMMA StepAlone == Parallel = {} /\ TypeOK /\ [Next]_vars => StartsAlone \/ UNCHANGED vars
<1> SUFFICES ASSUME Parallel = {}, TypeOK, Next
             PROVE  StartsAlone
  OBVIOUS
<1>1. CASE wakeRoutine
  <2>1. PICK r \in Run : CreateRun(r, "routine", 0)
    BY <1>1 DEF wakeRoutine
  <2>2. "routine" \in Trigger /\ 0 \in 0 .. MaxMsg /\ ~ isConversationalRun("routine")
    BY BoundAssumption DEF Trigger, isConversationalRun
  <2>3. trigger'[r] = "routine" /\ \A x \in Run \ {r} : status'[x] = status[x]
    BY <2>1, <2>2, CreatedRun
  <2> QED
    BY <2>2, <2>3 DEF StartsAlone, ActiveRuns
<1>2. ASSUME NEW r \in Run, Turn(r) \/ Opened(r) \/ RollbackRoutine(r) \/ AbandonForRoutine(r)
      PROVE  StartsAlone
  <2>1. CASE Begin(r) \/ claimSteering(r) \/ Yield(r) \/ Answer(r) \/ Opened(r)
             \/ RollbackRoutine(r) \/ AbandonForRoutine(r)
    <3>1. \A x \in Run \ {r} : status'[x] = status[x]
      BY <2>1 DEF TypeOK, Begin, claimSteering, Yield, Answer, Opened, RollbackRoutine,
                  AbandonForRoutine, runs
    <3>2. status'[r] \in Active => status[r] \in Active
      BY <2>1 DEF TypeOK, Begin, claimSteering, Yield, Answer, Opened, RollbackRoutine,
                  AbandonForRoutine, runs, Active
    <3> QED
      BY <3>1, <3>2, NothingStarts
  <2>2. CASE Complete(r)
    BY <2>2, EndAlone DEF Complete, Terminal
  <2>3. CASE Fail(r)
    BY <2>3, EndAlone DEF Fail, Terminal
  <2> QED
    BY <1>2, <2>1, <2>2, <2>3 DEF Turn
<1>3. CASE stopThreadRuns \/ clearThread \/ cancelActiveRuns
  BY <1>3, NothingStarts DEF stopThreadRuns, clearThread, cancelActiveRuns, CancelActive, Active
<1> QED
  BY <1>1, <1>2, <1>3, InboundAlone DEF Next

\* A bot that gets no run of a message from another bot or of a team chat never
\* starts a conversation beside another run, nor continues one: in its own
\* thread or in a group's, whatever is withdrawn or rolled back.
THEOREM ConversationsStartAlone ==
    ASSUME Parallel = {}
    PROVE  Spec => ConversationStartsAlone
<1>1. TypeOK /\ [Next]_vars => [StartsAlone]_vars
  BY StepAlone
<1> QED
  BY <1>1, SteeringTypesAreRight, PTL DEF Spec, ConversationStartsAlone, StartsAlone

-----------------------------------------------------------------------------
(* What a completion settles, the attempt was shown.                       *)

\* Runs, rows and claims name messages that were sent.
Recorded ==
    /\ \A r \in Run : source[r] <= sent /\ (trigger[r] = "messaging" => source[r] \in Msg)
    /\ \A m \in Msg : row[m] # NoRow => m <= sent
    /\ \A m \in claimed : m <= sent

\* A claimed row is of a kind and a chat that its run takes steering from, so
\* that the next attempt of the run finds it again.
TakenAgain ==
    \A m \in claimed : row[m] \in Run =>
        /\ trigger[row[m]] # "created"
        /\ ofChannel(row[m]) => chat[m] = "channel"
        /\ ofDirect(row[m]) => chat[m] # "channel"

ShownInv == TypeOK /\ Recorded /\ TakenAgain /\ ClaimedIsShown

\* A step in which no row is claimed and no attempt begins to claim.
LEMMA ShownKeeps ==
    ASSUME ShownInv, TypeOK', sent <= sent',
           \A m \in Msg : m <= sent => chat'[m] = chat[m],
           \A m \in Msg : row'[m] # NoRow => m <= sent',
           claimed' \subseteq claimed,
           \A m \in claimed' : row'[m] \in {row[m], NoRun, NoRow},
           primed' \subseteq primed, \A r \in primed' : shown'[r] = shown[r],
           \A r \in Run : /\ source'[r] <= sent'
                          /\ trigger'[r] = "messaging" => source'[r] \in Msg,
           \A r \in Run : \/ trigger'[r] = trigger[r] /\ source'[r] = source[r]
                          \/ \A m \in claimed' : row'[m] # r
    PROVE  ShownInv'
<1>1. sent \in Nat /\ sent' \in Nat /\ Msg \subseteq Nat /\ claimed \subseteq Msg
      /\ primed \subseteq Run /\ \A m \in Msg : m >= 1
  BY BoundAssumption DEF ShownInv, TypeOK, Msg
<1>2. Recorded'
  <2>1. \A m \in claimed' : m <= sent'
    BY <1>1 DEF ShownInv, Recorded
  <2> QED
    BY <2>1 DEF Recorded
<1>3. TakenAgain'
  <2> SUFFICES ASSUME NEW m \in claimed', NEW r \in Run, r = row'[m]
               PROVE  /\ trigger'[r] # "created"
                      /\ (trigger'[r] = "messaging" /\ chat'[source'[r]] = "channel")
                            => chat'[m] = "channel"
                      /\ (trigger'[r] = "messaging" /\ chat'[source'[r]] # "channel")
                            => chat'[m] # "channel"
    BY DEF TakenAgain, ofChannel, ofDirect
  <2>1. row[m] = r /\ m \in claimed /\ m \in Msg /\ m <= sent
    BY <1>1, RunAssumption DEF ShownInv, Recorded
  <2>2. trigger'[r] = trigger[r] /\ source'[r] = source[r] /\ chat'[m] = chat[m]
    BY <1>1, <2>1
  <2>3. trigger[r] = "messaging" => chat'[source'[r]] = chat[source[r]]
    BY <2>2 DEF ShownInv, Recorded
  <2>4. /\ trigger[r] # "created"
        /\ ofChannel(r) => chat[m] = "channel"
        /\ ofDirect(r) => chat[m] # "channel"
    BY <2>1 DEF ShownInv, TakenAgain
  <2> QED
    BY <2>2, <2>3, <2>4 DEF ofChannel, ofDirect
<1>4. ClaimedIsShown'
  <2> SUFFICES ASSUME NEW r \in primed', NEW m \in claimed', row'[m] = r
               PROVE  m \in shown'[r]
    BY DEF ClaimedIsShown
  <2>1. r \in Run /\ row[m] = r
    BY <1>1, RunAssumption
  <2> QED
    BY <2>1 DEF ShownInv, ClaimedIsShown
<1> QED
  BY <1>2, <1>3, <1>4 DEF ShownInv

LEMMA ClaimShown ==
    ASSUME ShownInv, TypeOK', NEW r \in Run, claimSteering(r)
    PROVE  ShownInv'
<1> DEFINE steering == IF trigger[r] = "created" THEN {} ELSE steeringFor(r)
<1>1. /\ steering \subseteq Msg /\ r \in Run
      /\ \A m \in steering : /\ row[m] \in {r, NoRun} /\ m <= sent
                             /\ trigger[r] # "created"
                             /\ ofChannel(r) => chat[m] = "channel"
                             /\ ofDirect(r) => chat[m] # "channel"
  BY SteeringOf, RunAssumption DEF ShownInv, Recorded, steeringFor
<1>2. \A m \in Msg : /\ row[m] = r /\ trigger[r] # "created"
                     /\ ofChannel(r) => chat[m] = "channel"
                     /\ ofDirect(r) => chat[m] # "channel"
                     => m \in steering \/ m \in shown[r]
  BY DEF steeringFor
<1>3. /\ status[r] = "running" /\ primed' = primed \cup {r}
      /\ row' = [m \in Msg |-> IF m \in steering \ claimed THEN r ELSE row[m]]
      /\ claimed' = claimed \cup steering
      /\ shown' = [shown EXCEPT ![r] = @ \cup steering]
      /\ UNCHANGED <<runs, log>>
  BY DEF claimSteering
<1> HIDE DEF steering
<1>4. claimed \subseteq Msg /\ primed \subseteq Run /\ shown \in [Run -> SUBSET Msg]
  BY DEF ShownInv, TypeOK
<1>5. Recorded'
  <2>1. \A m \in Msg : row'[m] # NoRow => m <= sent
    BY <1>1, <1>3 DEF ShownInv, Recorded
  <2> QED
    BY <1>1, <1>3, <2>1 DEF ShownInv, Recorded, runs, log
<1>6. TakenAgain'
  <2>1. \A m \in claimed' : row'[m] \in Run =>
            IF m \in steering THEN row'[m] = r ELSE m \in claimed /\ row'[m] = row[m]
    BY <1>1, <1>3, <1>4, RunAssumption
  <2>2. \A m \in claimed' : row'[m] \in Run =>
            /\ trigger[row'[m]] # "created"
            /\ ofChannel(row'[m]) => chat[m] = "channel"
            /\ ofDirect(row'[m]) => chat[m] # "channel"
    BY <1>1, <2>1 DEF ShownInv, TakenAgain
  <2> QED
    BY <1>3, <2>2 DEF TakenAgain, ofChannel, ofDirect, runs, log
<1>7. ClaimedIsShown'
  <2> SUFFICES ASSUME NEW x \in primed', NEW m \in claimed', row'[m] = x
               PROVE  m \in shown'[x]
    BY DEF ClaimedIsShown
  <2>1. CASE x = r
    <3>1. CASE m \in steering
      BY <1>3, <1>4, <2>1, <3>1
    <3>2. CASE m \notin steering
      <4>1. m \in claimed /\ m \in Msg /\ row[m] = r
        BY <1>3, <1>4, <2>1, <3>2
      <4>2. m \in shown[r]
        BY <1>2, <3>2, <4>1 DEF ShownInv, TakenAgain
      <4> QED
        BY <1>3, <1>4, <2>1, <4>2
    <3> QED
      BY <3>1, <3>2
  <2>2. CASE x # r
    <3>1. x \in primed /\ x \in Run /\ shown'[x] = shown[x]
      BY <1>3, <1>4, <2>2
    <3>2. m \in claimed /\ row[m] = x
      BY <1>1, <1>3, <1>4, <2>2, <3>1, RunAssumption
    <3> QED
      BY <3>1, <3>2 DEF ShownInv, ClaimedIsShown
  <2> QED
    BY <2>1, <2>2
<1> QED
  BY <1>5, <1>6, <1>7 DEF ShownInv

\* The end of a run, with the continuation.
LEMMA EndShown ==
    ASSUME ShownInv, TypeOK', NEW r \in Run, NEW s \in Terminal,
           NEW rw \in [Msg -> Run \cup {NoRun, NoRow}], NEW cl \in SUBSET claimed,
           \A m \in Msg : rw[m] \in {row[m], NoRun, NoRow} /\ (row[m] = NoRow => rw[m] = NoRow),
           createSteeringContinuation(r, [status EXCEPT ![r] = s], rw, cl),
           EndTurn({r}), UNCHANGED log
    PROVE  ShownInv'
<1> DEFINE st == [status EXCEPT ![r] = s]
<1>1. createSteeringContinuation(r, st, rw, cl)
  OBVIOUS
<1> HIDE DEF st
<1>2. UNCHANGED <<chat, sent>> /\ sent \in Nat /\ sent <= sent' /\ claimed \subseteq Msg
      /\ \A m \in Msg : rw[m] # NoRow => m <= sent'
  BY DEF ShownInv, Recorded, TypeOK, log
<1>3. primed' \subseteq primed /\ \A x \in primed' : shown'[x] = shown[x]
  BY DEF EndTurn, ShownInv, TypeOK
<1>4. CASE row' = rw /\ claimed' = cl /\ UNCHANGED <<trigger, source, retried>>
  <2>1. \A x \in Run : /\ source'[x] <= sent'
                       /\ trigger'[x] = "messaging" => source'[x] \in Msg
    BY <1>2, <1>4 DEF ShownInv, Recorded
  <2>2. \A m \in claimed' : row'[m] \in {row[m], NoRun, NoRow}
    BY <1>2, <1>4
  <2> QED
    BY <1>2, <1>3, <1>4, <2>1, <2>2, ShownKeeps
<1>5. ASSUME NEW c \in Run \ {r}, NEW batch \in SUBSET Msg, NEW src \in batch, NEW o,
             ContinuesFor(c, batch, src, o, st, rw, cl)
      PROVE  ShownInv'
  <2> DEFINE t == IF o = "app" THEN "follow_up" ELSE "messaging"
  <2>0. /\ Free(c) /\ \A m \in batch : rw[m] = NoRun
        /\ trigger' = [trigger EXCEPT ![c] = t] /\ source' = [source EXCEPT ![c] = src]
        /\ row' = [m \in Msg |-> IF m \in batch THEN c ELSE rw[m]]
        /\ claimed' = cl \ batch
    BY <1>5 DEF ContinuesFor
  <2> HIDE DEF t
  <2>1. \A m \in claimed' : m \in Msg /\ m \notin batch /\ row'[m] = rw[m]
    BY <1>2, <2>0
  <2>2. \A m \in claimed' : row'[m] # c /\ row'[m] \in {row[m], NoRun, NoRow}
    BY <2>0, <2>1, RunAssumption DEF Free
  <2>3. src <= sent /\ src \in Msg
    BY <1>2, <2>0, RunAssumption
  <2>4. \A x \in Run \ {c} : trigger'[x] = trigger[x] /\ source'[x] = source[x]
    BY <2>0 DEF ShownInv, TypeOK
  <2>5. \A x \in Run : /\ source'[x] <= sent'
                       /\ trigger'[x] = "messaging" => source'[x] \in Msg
    BY <1>2, <2>0, <2>3, <2>4 DEF ShownInv, Recorded, TypeOK
  <2>6. \A m \in Msg : row'[m] # NoRow => m <= sent'
    BY <1>2, <2>0, RunAssumption
  <2>7. claimed' \subseteq claimed
    BY <2>0
  <2> QED
    BY <1>2, <1>3, <2>2, <2>4, <2>5, <2>6, <2>7, ShownKeeps
<1> QED
  BY <1>1, <1>4, <1>5, Continuation

\* A new message, which may become a row, or a run.
LEMMA ArrivalShown ==
    ASSUME ShownInv, TypeOK', NEW c, NewMessage(c), UNCHANGED <<claimed, turn>>,
           UNCHANGED row \/ \E x \in Run \cup {NoRun} : row' = [row EXCEPT ![sent + 1] = x],
           \/ UNCHANGED <<trigger, source>>
           \/ UNCHANGED row /\ \E r \in Run, t \in Trigger : CreateRun(r, t, sent + 1)
    PROVE  ShownInv'
<1>1. /\ sent' = sent + 1 /\ sent \in Nat /\ sent + 1 \in Msg /\ Msg \subseteq Nat
      /\ sent + 1 \in 0 .. MaxMsg
      /\ chat' = [chat EXCEPT ![sent + 1] = c] /\ claimed \subseteq Msg
  BY SentInRange, BoundAssumption DEF ShownInv, TypeOK, NewMessage, Msg
<1>2. sent <= sent' /\ \A m \in Msg : m <= sent => m # sent + 1 /\ m <= sent'
  BY <1>1
<1>3. \A m \in Msg : m <= sent => chat'[m] = chat[m]
  BY <1>1, <1>2 DEF ShownInv, TypeOK
<1>4. \A m \in Msg : m # sent + 1 => row'[m] = row[m]
  BY DEF ShownInv, TypeOK
<1>5. \A m \in Msg : row'[m] # NoRow => m <= sent'
  <2>1. \A m \in Msg : row[m] # NoRow => m <= sent
    BY DEF ShownInv, Recorded
  <2>2. sent + 1 <= sent'
    BY <1>1
  <2> QED
    BY <1>2, <1>4, <2>1, <2>2
<1>6. \A m \in claimed' : row'[m] \in {row[m], NoRun, NoRow}
  BY <1>1, <1>2, <1>4 DEF ShownInv, Recorded
<1>7. CASE UNCHANGED <<trigger, source>>
  <2>1. \A r \in Run : /\ source'[r] <= sent'
                       /\ trigger'[r] = "messaging" => source'[r] \in Msg
    BY <1>1, <1>7, BoundAssumption DEF ShownInv, Recorded, TypeOK
  <2> QED
    BY <1>2, <1>3, <1>5, <1>6, <1>7, <2>1, ShownKeeps DEF turn
<1>8. ASSUME UNCHANGED row, NEW r \in Run, NEW t \in Trigger, CreateRun(r, t, sent + 1)
      PROVE  ShownInv'
  <2>1. /\ source'[r] = sent + 1 /\ \A m \in Msg : row[m] # r
        /\ \A x \in Run \ {r} : trigger'[x] = trigger[x] /\ source'[x] = source[x]
    BY <1>1, <1>8, CreatedRun DEF ShownInv
  <2>2. \A x \in Run : /\ source'[x] <= sent'
                       /\ trigger'[x] = "messaging" => source'[x] \in Msg
    BY <1>1, <2>1, BoundAssumption DEF ShownInv, Recorded, TypeOK
  <2>3. \A x \in Run : \/ trigger'[x] = trigger[x] /\ source'[x] = source[x]
                       \/ \A m \in claimed' : row'[m] # x
    BY <1>1, <1>8, <2>1
  <2> QED
    BY <1>2, <1>3, <1>5, <1>6, <2>2, <2>3, ShownKeeps DEF turn
<1> QED
  BY <1>7, <1>8

LEMMA InboundShown ==
    ASSUME ShownInv, TypeOK', Inbound \/ \E t \in Parallel : StartParallel(t)
    PROVE  ShownInv'
<1> DEFINE Steered == \E x \in Run \cup {NoRun} : row' = [row EXCEPT ![sent + 1] = x]
           Started == UNCHANGED row
                      /\ \E r \in Run, t \in Trigger : CreateRun(r, t, sent + 1)
<1>1. \A r \in ActiveRuns : r \in Run
  BY DEF ActiveRuns
<1>2. \A x \in Run \cup {NoRun} : Steer(x) => Steered /\ UNCHANGED <<trigger, source>>
  BY DEF Steer, runs
<1>3. \A t \in Trigger : StartRun(t) /\ UNCHANGED row => Started
  BY DEF StartRun
<1> HIDE DEF Steered, Started
<1>4. {"user", "follow_up", "messaging", "webhook", "bot_message"} \subseteq Trigger
  BY DEF Trigger
<1>5. CASE Send
  <2>1. (\E c : NewMessage(c)) /\ UNCHANGED <<claimed, turn>>
    BY <1>5 DEF Send
  <2>2. \/ UNCHANGED row /\ UNCHANGED <<trigger, source>>
        \/ \E x \in Run \cup {NoRun} : Steer(x)
        \/ StartRun("user") /\ UNCHANGED row
    BY <1>1, <1>5 DEF Send
  <2>3. (UNCHANGED row \/ Steered) /\ (UNCHANGED <<trigger, source>> \/ Started)
    BY <1>2, <1>3, <1>4, <2>2 DEF Started
  <2> QED
    BY <2>1, <2>3, ArrivalShown DEF Steered, Started
<1>6. ASSUME NEW t \in {"webhook", "follow_up", "messaging"}, NEW c, sendUserMessage(t, c)
      PROVE  ShownInv'
  <2>1. NewMessage(c) /\ UNCHANGED <<claimed, turn>>
    BY <1>6 DEF sendUserMessage
  <2>2. \/ \E x \in Run \cup {NoRun} : Steer(x)
        \/ StartRun(t) /\ UNCHANGED row
    BY <1>1, <1>6 DEF sendUserMessage
  <2>3. (UNCHANGED row \/ Steered) /\ (UNCHANGED <<trigger, source>> \/ Started)
    BY <1>2, <1>3, <1>4, <2>2 DEF Started
  <2> QED
    BY <2>1, <2>3, ArrivalShown DEF Steered, Started
<1>7. CASE GroupFollowUp
  <2>1. (\E c : NewMessage(c)) /\ UNCHANGED <<claimed, turn>>
    BY <1>7 DEF GroupFollowUp
  <2>2. \/ \E x \in Run \cup {NoRun} : Steer(x)
        \/ StartRun("follow_up") /\ UNCHANGED row
    BY <1>1, <1>7 DEF GroupFollowUp
  <2>3. (UNCHANGED row \/ Steered) /\ (UNCHANGED <<trigger, source>> \/ Started)
    BY <1>2, <1>3, <1>4, <2>2 DEF Started
  <2> QED
    BY <2>1, <2>3, ArrivalShown DEF Steered, Started
<1>8. ASSUME NEW t \in Parallel, StartParallel(t)
      PROVE  ShownInv'
  <2>1. (\E c : NewMessage(c)) /\ UNCHANGED <<claimed, turn>>
    BY <1>8 DEF StartParallel, rows
  <2>2. Started
    BY <1>4, <1>8, ChoiceAssumption DEF Started, StartParallel, rows
  <2> QED
    BY <2>1, <2>2, ArrivalShown DEF Started
<1> QED
  BY <1>5, <1>6, <1>7, <1>8 DEF Inbound

\* Steps that send no message and create no run.
LEMMA QuietShown ==
    ASSUME ShownInv, TypeOK', UNCHANGED <<trigger, source, chat, sent>>,
           claimed' \subseteq claimed, \A m \in Msg : row'[m] \in {row[m], NoRun, NoRow},
           \A m \in Msg : row'[m] # NoRow => m <= sent,
           primed' \subseteq primed, \A r \in primed' : shown'[r] = shown[r]
    PROVE  ShownInv'
<1>1. sent <= sent' /\ claimed' \subseteq Msg
  BY BoundAssumption DEF ShownInv, TypeOK
<1>2. \A x \in Run : /\ source'[x] <= sent'
                     /\ trigger'[x] = "messaging" => source'[x] \in Msg
  BY DEF ShownInv, Recorded
<1> QED
  BY <1>1, <1>2, ShownKeeps

LEMMA StepShown == ShownInv /\ [Next]_vars => ShownInv'
<1> SUFFICES ASSUME ShownInv, [Next]_vars
             PROVE  ShownInv'
  OBVIOUS
<1>1. TypeOK' /\ TypeOK
  BY StepTypes DEF ShownInv
<1>2. \A m \in Msg : row[m] # NoRow => m <= sent
  BY DEF ShownInv, Recorded
<1>3. CASE UNCHANGED vars
  BY <1>1, <1>2, <1>3, QuietShown DEF vars
<1>4. CASE wakeRoutine
  <2>1. PICK r \in Run : CreateRun(r, "routine", 0)
    BY <1>4 DEF wakeRoutine
  <2>2. "routine" \in Trigger /\ 0 \in 0 .. MaxMsg /\ sent \in Nat
    BY <1>1, BoundAssumption DEF Trigger, TypeOK
  <2>3. /\ source'[r] = 0 /\ trigger'[r] = "routine" /\ \A m \in Msg : row[m] # r
        /\ \A x \in Run \ {r} : trigger'[x] = trigger[x] /\ source'[x] = source[x]
    BY <1>1, <2>1, <2>2, CreatedRun
  <2>4. UNCHANGED <<primed, shown, row, claimed, chat, sent>>
    BY <1>4 DEF wakeRoutine, turn, rows, log
  <2>5. \A x \in Run : /\ source'[x] <= sent'
                       /\ trigger'[x] = "messaging" => source'[x] \in Msg
    BY <2>2, <2>3, <2>4 DEF ShownInv, Recorded
  <2>6. claimed \subseteq Msg
    BY <1>1 DEF TypeOK
  <2> QED
    BY <1>1, <1>2, <2>2, <2>3, <2>4, <2>5, <2>6, ShownKeeps
<1>5. ASSUME NEW r \in Run, Begin(r) \/ Answer(r) \/ Opened(r)
      PROVE  ShownInv'
  BY <1>1, <1>2, <1>5, QuietShown DEF Begin, Answer, Opened, runs, turn, rows, log
<1>6. ASSUME NEW r \in Run, Yield(r)
      PROVE  ShownInv'
  <2>1. primed' \subseteq primed /\ \A x \in primed' : shown'[x] = shown[x]
    BY <1>1, <1>6 DEF Yield, EndTurn, TypeOK
  <2> QED
    BY <1>1, <1>2, <1>6, <2>1, QuietShown DEF Yield, rows, log
<1>7. ASSUME NEW r \in Run, Complete(r)
      PROVE  ShownInv'
  <2> DEFINE settled == {m \in claimed : row[m] = r}
             left == [m \in Msg |-> IF m \in settled THEN NoRow
                                    ELSE IF row[m] = r THEN NoRun ELSE row[m]]
  <2>1. left \in [Msg -> Run \cup {NoRun, NoRow}] /\ claimed \ settled \in SUBSET claimed
    BY <1>1 DEF TypeOK
  <2>2. \A m \in Msg : left[m] \in {row[m], NoRun, NoRow} /\ (row[m] = NoRow => left[m] = NoRow)
    BY RunAssumption
  <2>3. createSteeringContinuation(r, [status EXCEPT ![r] = "completed"], left, claimed \ settled)
    BY <1>7 DEF Complete
  <2>4. EndTurn({r}) /\ UNCHANGED log /\ "completed" \in Terminal
    BY <1>7 DEF Complete, Terminal
  <2> HIDE DEF settled, left
  <2> QED
    BY <1>1, <2>1, <2>2, <2>3, <2>4, EndShown
<1>8. ASSUME NEW r \in Run, Fail(r)
      PROVE  ShownInv'
  <2> DEFINE left == [m \in Msg |-> IF row[m] = r /\ m > source[r] THEN NoRun ELSE row[m]]
  <2>1. left \in [Msg -> Run \cup {NoRun, NoRow}] /\ claimed \in SUBSET claimed
    BY <1>1 DEF TypeOK
  <2>2. \A m \in Msg : left[m] \in {row[m], NoRun, NoRow} /\ (row[m] = NoRow => left[m] = NoRow)
    BY RunAssumption
  <2>3. createSteeringContinuation(r, [status EXCEPT ![r] = "failed"], left, claimed)
    BY <1>8 DEF Fail
  <2>4. EndTurn({r}) /\ UNCHANGED log /\ "failed" \in Terminal
    BY <1>8 DEF Fail, Terminal
  <2> HIDE DEF left
  <2> QED
    BY <1>1, <2>1, <2>2, <2>3, <2>4, EndShown
<1>9. CASE stopThreadRuns \/ clearThread \/ cancelActiveRuns
  <2>1. UNCHANGED <<trigger, source, chat, sent>> /\ primed' = {}
    BY <1>1, <1>9 DEF stopThreadRuns, clearThread, cancelActiveRuns, CancelActive, EndTurn,
                      log, TypeOK
  <2>2. claimed' \subseteq claimed /\ \A m \in Msg : row'[m] \in {row[m], NoRow}
    BY <1>9 DEF stopThreadRuns, clearThread, cancelActiveRuns, DropRows, rows
  <2>3. \A m \in Msg : row'[m] # NoRow => m <= sent
    BY <1>2, <2>2
  <2> QED
    BY <1>1, <2>1, <2>2, <2>3, QuietShown
<1>10. ASSUME NEW r \in Run, RollbackRoutine(r)
       PROVE  ShownInv'
  <2>1. UNCHANGED <<trigger, source, chat, sent, claimed, primed, shown>>
    BY <1>10 DEF RollbackRoutine, turn, log
  <2>2. \A m \in Msg : row'[m] = row[m] \/ (row[m] = r /\ row'[m] = NoRun)
    BY <1>10 DEF RollbackRoutine
  <2>3. \A m \in Msg : row'[m] # NoRow => m <= sent
    BY <1>2, <2>2, RunAssumption
  <2> QED
    BY <1>1, <2>1, <2>2, <2>3, QuietShown
<1>11. ASSUME NEW r \in Run, AbandonForRoutine(r)
       PROVE  ShownInv'
  <2>1. UNCHANGED <<trigger, source, chat, sent, row, claimed>>
    BY <1>11 DEF AbandonForRoutine, rows, log
  <2>2. primed' \subseteq primed /\ \A x \in primed' : shown'[x] = shown[x]
    BY <1>1, <1>11 DEF AbandonForRoutine, EndTurn, turn, TypeOK
  <2> QED
    BY <1>1, <1>2, <2>1, <2>2, QuietShown
<1> QED
  BY <1>1, <1>3, <1>4, <1>5, <1>6, <1>7, <1>8, <1>9, <1>10, <1>11, ClaimShown, InboundShown
     DEF Next, Turn

\* In every setting, the rows a completion settles are rows its attempt was shown.
THEOREM ASettledRowWasShown == Spec => []ClaimedIsShown
<1>1. Init => ShownInv
  <2> SUFFICES ASSUME Init
               PROVE  ShownInv
    OBVIOUS
  <2>1. sent = 0 /\ claimed = {} /\ primed = {} /\ \A m \in Msg : row[m] = NoRow
    BY DEF Init
  <2>2. \A r \in Run : source[r] = 0 /\ trigger[r] = "created"
    BY DEF Init
  <2> QED
    BY <2>1, <2>2, InitTypes DEF ShownInv, Recorded, TakenAgain, ClaimedIsShown
<1>2. ShownInv => ClaimedIsShown
  BY DEF ShownInv
<1> QED
  BY <1>1, <1>2, StepShown, PTL DEF Spec

-----------------------------------------------------------------------------
(* No steering is stranded, or answered twice.                             *)
(*                                                                         *)
(* Of a bot in its own thread, with messages from the app and in direct    *)
(* chats, webhooks and routines.  In each of the other settings TLC finds  *)
(* a row that is left behind.                                              *)

OwnThread ==
    /\ Parallel = {} /\ Withdrawals = {}
    /\ GroupThread = FALSE /\ "channel" \notin Chats

\* What is named has been sent, and only direct messages carry an origin.
Logged ==
    /\ \A r \in Run : source[r] <= sent /\ \A m \in shown[r] : m <= sent
    /\ \A m \in Msg : row[m] # NoRow => m <= sent
    /\ \A m \in answered \cup tagged : m <= sent
    /\ \A m \in Msg : chat[m] # "channel"
    /\ \A m \in tagged : chat[m] = "dm"

\* NoStrandedSteering, told without sets of runs.
Held ==
    \A m \in Msg : row[m] # NoRow =>
        /\ m \notin answered
        /\ \/ row[m] \in Run /\ status[row[m]] \in Active
           \/ row[m] = NoRun /\ \E x \in Run : status[x] \in Active
           \/ row[m] \in Run /\ status[row[m]] = "failed" /\ m \in retried

\* A row that its run does not outlive has had its second run already.
RetriedOnce ==
    \A m \in Msg : row[m] \in Run /\ m <= source[row[m]] => m \in retried

\* What an attempt was shown it has claimed, or another turn has settled it.
SeenIsClaimed ==
    \A r \in Run : \A m \in shown[r] : row[m] = NoRow \/ (row[m] = r /\ m \in claimed)

\* Only a conversation is steered.
RowsSteerConversations ==
    \A m \in Msg : row[m] \in Run /\ status[row[m]] \in Active
                      => isConversationalRun(trigger[row[m]])

Converses(r) == status[r] \in Active /\ isConversationalRun(trigger[r])

OneConversation ==
    \A r, x \in Run : Converses(r) /\ Converses(x) => r = x

\* What is pending beside a conversation is of the other origin.
PendingIsForAnother ==
    \A r \in Run : Converses(r) =>
        \A m \in Msg : row[m] = NoRun => (m \in tagged <=> trigger[r] # "messaging")

KeptInv ==
    /\ TypeOK /\ Logged /\ Held /\ RetriedOnce /\ SeenIsClaimed
    /\ RowsSteerConversations /\ OneConversation /\ PendingIsForAnother

\* Runs stay as active as they are and rows where they are.
LEMMA QuietKept ==
    ASSUME KeptInv, TypeOK',
           UNCHANGED <<trigger, source, row, tagged, chat, sent, answered, retried>>,
           \A r \in Run : status'[r] \in Active <=> status[r] \in Active,
           \A r \in Run : status[r] = "failed" => status'[r] = "failed",
           claimed \subseteq claimed',
           \A r \in Run : \A m \in shown'[r] : m \in shown[r] \/ (row[m] = r /\ m \in claimed')
    PROVE  KeptInv'
<1>1. shown' \in [Run -> SUBSET Msg] /\ NoRow \notin Run
  BY RunAssumption DEF TypeOK
<1>2. Logged'
  <2>1. \A r \in Run : \A m \in shown'[r] : m <= sent
    BY <1>1 DEF KeptInv, Logged
  <2> QED
    BY <2>1 DEF KeptInv, Logged
<1>3. Held'
  BY DEF KeptInv, Held
<1>4. SeenIsClaimed'
  BY DEF KeptInv, SeenIsClaimed
<1>5. RetriedOnce' /\ RowsSteerConversations'
  BY DEF KeptInv, RetriedOnce, RowsSteerConversations
<1>6. OneConversation' /\ PendingIsForAnother'
  BY DEF KeptInv, OneConversation, PendingIsForAnother, Converses
<1> QED
  BY <1>2, <1>3, <1>4, <1>5, <1>6 DEF KeptInv

\* A run takes in its own rows only, for no pending one is of its origin.
LEMMA ClaimKept ==
    ASSUME KeptInv, TypeOK', NEW r \in Run, claimSteering(r)
    PROVE  KeptInv'
<1> DEFINE steering == IF trigger[r] = "created" THEN {} ELSE steeringFor(r)
<1>1. \A m \in steering : m \in Msg /\ row[m] = r
  <2> SUFFICES ASSUME NEW m \in steeringFor(r)
               PROVE  row[m] = r
    BY SteeringOf DEF KeptInv
  <2>1. m \in Msg /\ row[m] \in {r, NoRun} /\ status[r] \in Active
    BY SteeringOf DEF KeptInv, claimSteering, Active
  <2>2. CASE row[m] = NoRun
    <3>1. ~ ofChannel(r) \/ chat[m] = "channel"
      BY DEF steeringFor
    <3>2. isConversationalRun(trigger[r])
      BY <2>2, RunAssumption DEF steeringFor
    <3>3. m \in tagged <=> trigger[r] # "messaging"
      BY <2>1, <2>2, <3>2 DEF KeptInv, PendingIsForAnother, Converses
    <3>4. ~ ofChannel(r) /\ (ofDirect(r) <=> trigger[r] = "messaging")
      BY <2>1, <3>1 DEF KeptInv, Logged, ofChannel, ofDirect
    <3>5. m \in IF ofDirect(r) THEN Pending \cap tagged ELSE Pending \ tagged
      BY <2>2, <3>2, <3>4, RunAssumption DEF steeringFor
    <3> QED
      BY <3>3, <3>4, <3>5
  <2> QED
    BY <2>1, <2>2
<1>2. /\ status[r] = "running" /\ claimed' = claimed \cup steering
      /\ row' = [m \in Msg |-> IF m \in steering \ claimed THEN r ELSE row[m]]
      /\ shown' = [shown EXCEPT ![r] = @ \cup steering]
      /\ UNCHANGED <<runs, tagged, log, hist>>
  BY DEF claimSteering
<1> HIDE DEF steering
<1>3. row' = row
  BY <1>1, <1>2 DEF KeptInv, TypeOK
<1>4. \A x \in Run : \A m \in shown'[x] : m \in shown[x] \/ (row[m] = x /\ m \in claimed')
  BY <1>1, <1>2 DEF KeptInv, TypeOK
<1> QED
  BY <1>2, <1>3, <1>4, QuietKept DEF runs, log, hist

\* A message that is answered to, or becomes a row of a conversation, or waits
\* while there is none.
LEMMA MessageKept ==
    ASSUME KeptInv, TypeOK', NEW c \in {"app", "dm"}, NewMessage(c),
           UNCHANGED <<trigger, source, claimed, turn, hist>>,
           \A r \in Run : status'[r] \in Active <=> status[r] \in Active,
           \A r \in Run : status[r] = "failed" => status'[r] = "failed",
           NEW x \in Run \cup {NoRun, NoRow}, row' = [row EXCEPT ![sent + 1] = x],
           x \in Run => Converses(x),
           x = NoRun => (\E r \in Run : status[r] \in Active) /\ \A r \in Run : ~ Converses(r),
           tagged' = tagged \/ (tagged' = tagged \cup {sent + 1} /\ c = "dm")
    PROVE  KeptInv'
<1> DEFINE n == sent + 1
<1>1. /\ sent' = n /\ n \in Msg /\ sent \in Nat /\ ~ (n <= sent) /\ Msg \subseteq Nat
      /\ \A m \in Nat : m <= sent => m <= n
  BY SentInRange, BoundAssumption DEF KeptInv, TypeOK, NewMessage, Msg
<1>2. /\ \A m \in Msg \ {n} : row'[m] = row[m] /\ chat'[m] = chat[m]
      /\ row'[n] = x /\ chat'[n] = c /\ row[n] = NoRow
      /\ n \notin answered /\ n \notin tagged /\ \A r \in Run : n \notin shown[r]
  BY <1>1 DEF KeptInv, TypeOK, Logged, NewMessage
<1>3. tagged \subseteq Msg /\ answered \subseteq Msg /\ shown \in [Run -> SUBSET Msg]
      /\ source \in [Run -> 0 .. MaxMsg] /\ 0 .. MaxMsg \subseteq Nat /\ n \in Nat
  BY <1>1, BoundAssumption DEF KeptInv, TypeOK
<1>5. tagged' = tagged \/ (tagged' = tagged \cup {n} /\ c = "dm")
  OBVIOUS
<1>6. sent' = sent + 1 /\ row' = [row EXCEPT ![n] = x]
  BY <1>1
<1> HIDE DEF n
<1>7. Logged'
  <2>1. \A r \in Run : source'[r] <= sent' /\ \A m \in shown'[r] : m <= sent'
    BY <1>1, <1>3 DEF KeptInv, Logged, turn
  <2>2. \A m \in Msg : row'[m] # NoRow => m <= sent'
    BY <1>1, <1>2, <1>3 DEF KeptInv, Logged
  <2>3. \A m \in answered' \cup tagged' : m <= sent'
    <3>1. \A m \in answered \cup tagged : m \in Nat /\ m <= sent
      BY <1>1, <1>3 DEF KeptInv, Logged
    <3>2. answered' = answered /\ \A m \in tagged' : m \in tagged \/ m = n
      BY <1>5 DEF hist
    <3>3. n <= sent'
      BY <1>1, <1>3
    <3> QED
      BY <1>1, <3>1, <3>2, <3>3
  <2>4. \A m \in Msg : chat'[m] # "channel"
    BY <1>2 DEF KeptInv, Logged
  <2>5. \A m \in tagged' : chat'[m] = "dm"
    BY <1>2, <1>3, <1>5 DEF KeptInv, Logged
  <2> QED
    BY <2>1, <2>2, <2>3, <2>4, <2>5 DEF Logged
<1>8. Held'
  <2> SUFFICES ASSUME NEW m \in Msg, row'[m] # NoRow
               PROVE  /\ m \notin answered'
                      /\ \/ row'[m] \in Run /\ status'[row'[m]] \in Active
                         \/ row'[m] = NoRun /\ \E y \in Run : status'[y] \in Active
                         \/ row'[m] \in Run /\ status'[row'[m]] = "failed" /\ m \in retried'
    BY DEF Held
  <2>1. CASE m = n
    BY <1>2, <2>1 DEF Converses, hist
  <2>2. CASE m # n
    BY <1>2, <2>2 DEF KeptInv, Held, hist
  <2> QED
    BY <2>1, <2>2
<1>9. RetriedOnce'
  <2>1. \A r \in Run : ~ (n <= source[r])
    BY <1>1, <1>3 DEF KeptInv, Logged, n
  <2> QED
    BY <1>2, <2>1 DEF KeptInv, RetriedOnce, hist
<1>10. SeenIsClaimed'
  BY <1>2, <1>3 DEF KeptInv, SeenIsClaimed, turn
<1>11. RowsSteerConversations'
  BY <1>2 DEF KeptInv, RowsSteerConversations, Converses
<1>12. OneConversation'
  BY DEF KeptInv, OneConversation, Converses
<1>13. PendingIsForAnother'
  <2>1. \A r \in Run : Converses(r)' <=> Converses(r)
    BY DEF Converses
  <2>2. \A r \in Run : Converses(r) => \A m \in Msg : row'[m] = NoRun => m # n /\ row[m] = NoRun
    BY <1>2
  <2> QED
    BY <1>5, <2>1, <2>2 DEF KeptInv, PendingIsForAnother
<1> QED
  BY <1>7, <1>8, <1>9, <1>10, <1>11, <1>12, <1>13 DEF KeptInv

\* A new run: a routine's beside what is at work, or a conversation of an idle
\* bot, which has no rows pending.
LEMMA CreatedKept ==
    ASSUME KeptInv, TypeOK', NEW r \in Run, NEW t \in Trigger, NEW src \in 0 .. MaxMsg,
           CreateRun(r, t, src), UNCHANGED <<row, claimed, tagged, turn, hist>>,
           \/ src = 0 /\ ~ isConversationalRun(t) /\ UNCHANGED log
           \/ /\ src = sent + 1 /\ \A x \in Run : status[x] \notin Active
              /\ \E c \in {"app", "dm"} : NewMessage(c)
    PROVE  KeptInv'
<1>1. /\ status'[r] = "queued" /\ trigger'[r] = t /\ source'[r] = src
      /\ status[r] \notin Active /\ \A m \in Msg : row[m] # r
      /\ \A x \in Run \ {r} : /\ status'[x] = status[x] /\ trigger'[x] = trigger[x]
                              /\ source'[x] = source[x]
  BY CreatedRun DEF KeptInv
<1>2. /\ sent \in Nat /\ sent' \in Nat /\ src \in Nat /\ sent <= sent' /\ src <= sent'
      /\ \A m \in Msg : chat'[m] = chat[m] \/ (m = sent + 1 /\ chat'[m] \in {"app", "dm"})
      /\ Msg \subseteq Nat /\ \A m \in Msg : m <= sent => m # sent + 1
  <2>1. sent \in Nat /\ Msg \subseteq Nat /\ src \in Nat /\ chat \in [Msg -> {"app", "dm", "channel"}]
    BY BoundAssumption DEF KeptInv, TypeOK, Msg
  <2>2. CASE src = 0 /\ UNCHANGED log
    BY <2>1, <2>2 DEF log
  <2>3. ASSUME src = sent + 1, NEW c \in {"app", "dm"}, NewMessage(c)
        PROVE  /\ sent' = sent + 1
               /\ \A m \in Msg : chat'[m] = chat[m] \/ (m = sent + 1 /\ chat'[m] \in {"app", "dm"})
    BY <2>1, <2>3 DEF NewMessage
  <2> QED
    BY <2>1, <2>2, <2>3
<1>3. tagged \subseteq Msg /\ answered \subseteq Msg /\ shown \in [Run -> SUBSET Msg]
      /\ source \in [Run -> 0 .. MaxMsg] /\ 0 .. MaxMsg \subseteq Nat
  BY <1>2, BoundAssumption DEF KeptInv, TypeOK
<1>4. Logged'
  <2>1. \A x \in Run : source'[x] <= sent'
    BY <1>1, <1>2, <1>3 DEF KeptInv, Logged
  <2>2. \A x \in Run : \A m \in shown'[x] : m <= sent'
    BY <1>2, <1>3 DEF KeptInv, Logged, turn
  <2>3. ASSUME NEW m \in Msg, row'[m] # NoRow PROVE m <= sent'
    <3>1. m <= sent
      BY <2>3 DEF KeptInv, Logged
    <3>2. m \in Nat /\ sent \in Nat /\ sent' \in Nat /\ sent <= sent'
      BY <1>2
    <3> QED
      BY ONLY <3>1, <3>2
  <2>4. \A m \in answered' \cup tagged' : m <= sent'
    BY <1>2, <1>3 DEF KeptInv, Logged, hist
  <2>5. \A m \in Msg : chat'[m] # "channel"
    BY <1>2 DEF KeptInv, Logged
  <2>6. \A m \in tagged' : chat'[m] = "dm"
    BY <1>2, <1>3 DEF KeptInv, Logged
  <2> QED
    BY <2>1, <2>2, <2>3, <2>4, <2>5, <2>6 DEF Logged
<1>5. Held'
  <2>1. \A m \in Msg : row[m] = NoRun => status'[r] \in Active
    BY <1>1, ActiveIsNot
  <2> QED
    BY <1>1, <2>1 DEF KeptInv, Held, hist
<1>6. RetriedOnce' /\ RowsSteerConversations'
  BY <1>1 DEF KeptInv, RetriedOnce, RowsSteerConversations, hist
<1>7. SeenIsClaimed'
  BY DEF KeptInv, SeenIsClaimed, turn
<1>8. CASE ~ isConversationalRun(t)
  <2>1. \A x \in Run : Converses(x)' => x # r /\ Converses(x) /\ trigger'[x] = trigger[x]
    BY <1>1, <1>8 DEF Converses
  <2> QED
    BY <1>4, <1>5, <1>6, <1>7, <2>1 DEF KeptInv, OneConversation, PendingIsForAnother
<1>9. CASE \A x \in Run : status[x] \notin Active
  <2>1. \A x \in Run : Converses(x)' => x = r
    BY <1>1, <1>9 DEF Converses
  <2>2. \A m \in Msg : row[m] # NoRun
    BY <1>9, RunAssumption DEF KeptInv, Held
  <2> QED
    BY <1>4, <1>5, <1>6, <1>7, <2>1, <2>2 DEF KeptInv, OneConversation, PendingIsForAnother
<1> QED
  BY <1>8, <1>9

\* The end of a run without a continuation.
LEMMA EndedKept ==
    ASSUME KeptInv, TypeOK', NEW r \in Run, status[r] \in Active,
           NEW s \in {"completed", "failed"}, status' = [status EXCEPT ![r] = s],
           \A m \in Msg : row[m] # r => row'[m] = row[m],
           \A m \in Msg : row[m] = r => \/ row'[m] \in {NoRun, NoRow}
                                        \/ row'[m] = r /\ s = "failed" /\ m \in retried,
           \A m \in Msg : row'[m] # NoRow => m \notin answered',
           answered' \subseteq answered \cup shown[r],
           \A m \in claimed : row[m] # r => m \in claimed',
           EndTurn({r}), UNCHANGED <<trigger, source, tagged, log, retried>>,
           (\E x \in Run : status'[x] \in Active) \/ \A m \in Msg : row'[m] # NoRun
    PROVE  KeptInv'
<1>1. /\ status'[r] = s /\ \A x \in Run \ {r} : status'[x] = status[x]
      /\ shown'[r] = {} /\ \A x \in Run \ {r} : shown'[x] = shown[x]
      /\ s \notin Active /\ NoRun \notin Run /\ NoRow \notin Run \cup {NoRun}
      /\ shown \in [Run -> SUBSET Msg]
  BY RunAssumption DEF KeptInv, TypeOK, EndTurn, Active
<1>2. Logged'
  <2>1. \A m \in answered' : m <= sent
    BY <1>1 DEF KeptInv, Logged
  <2>2. \A m \in Msg : row'[m] # NoRow => m <= sent
    BY <1>1 DEF KeptInv, Logged
  <2>3. \A x \in Run : \A m \in shown'[x] : m <= sent
    BY <1>1 DEF KeptInv, Logged
  <2> QED
    BY <2>1, <2>2, <2>3 DEF KeptInv, Logged, log
<1>3. Held'
  <2> SUFFICES ASSUME NEW m \in Msg, row'[m] # NoRow
               PROVE  \/ row'[m] \in Run /\ status'[row'[m]] \in Active
                      \/ row'[m] = NoRun /\ \E x \in Run : status'[x] \in Active
                      \/ row'[m] \in Run /\ status'[row'[m]] = "failed" /\ m \in retried'
    BY DEF Held
  <2>1. CASE row[m] = r
    BY <1>1, <2>1
  <2>2. CASE row[m] # r
    BY <1>1, <2>2 DEF KeptInv, Held
  <2> QED
    BY <2>1, <2>2
<1>4. RetriedOnce' /\ RowsSteerConversations'
  <2>1. \A m \in Msg : row'[m] \in Run => row'[m] = row[m]
    BY <1>1
  <2>2. \A x \in Run : status'[x] \in Active => status[x] \in Active
    BY <1>1
  <2> QED
    BY <2>1, <2>2 DEF KeptInv, RetriedOnce, RowsSteerConversations
<1>5. SeenIsClaimed'
  <2> SUFFICES ASSUME NEW x \in Run, NEW m \in shown'[x]
               PROVE  row'[m] = NoRow \/ (row'[m] = x /\ m \in claimed')
    BY DEF SeenIsClaimed
  <2>1. x # r /\ m \in Msg /\ m \in shown[x]
    BY <1>1
  <2> QED
    BY <1>1, <2>1 DEF KeptInv, SeenIsClaimed
<1>6. OneConversation' /\ PendingIsForAnother'
  <2>1. \A x \in Run : Converses(x)' => x # r /\ Converses(x)
    BY <1>1 DEF Converses
  <2>2. \A x \in Run : Converses(x)' => \A m \in Msg : row[m] # r
    BY <2>1 DEF KeptInv, OneConversation, RowsSteerConversations, Converses
  <2>3. \A x \in Run : Converses(x)' => \A m \in Msg : row'[m] = row[m]
    BY <2>2
  <2> QED
    BY <2>1, <2>3 DEF KeptInv, OneConversation, PendingIsForAnother
<1> QED
  BY <1>2, <1>3, <1>4, <1>5, <1>6 DEF KeptInv

\* The end of the last run, with the continuation c for a batch of the rows rw.
LEMMA ContinuedKept ==
    ASSUME KeptInv, TypeOK', NEW r \in Run, NEW s \in {"completed", "failed"},
           \A x \in Run \ {r} : status[x] \notin Active,
           NEW rw \in [Msg -> Run \cup {NoRun, NoRow}],
           \A m \in Msg : row[m] # r => rw[m] = row[m],
           \A m \in Msg : row[m] = r => \/ rw[m] \in {NoRun, NoRow}
                                        \/ rw[m] = r /\ s = "failed" /\ m \in retried,
           \A m \in Msg : rw[m] # NoRow => m \notin answered',
           answered' \subseteq answered \cup shown[r],
           EndTurn({r}), UNCHANGED <<tagged, log>>,
           NEW c \in Run \ {r}, NEW batch \in SUBSET Msg, NEW src \in batch, NEW o,
           NEW cl, cl = {m \in claimed : row[m] # r} \/ cl = claimed,
           NEW st, st = [status EXCEPT ![r] = s], ContinuesFor(c, batch, src, o, st, rw, cl)
    PROVE  KeptInv'
<1> DEFINE t == IF o = "app" THEN "follow_up" ELSE "messaging"
<1>0. /\ Free(c) /\ status' = [[status EXCEPT ![r] = s] EXCEPT ![c] = "queued"]
      /\ trigger' = [trigger EXCEPT ![c] = t] /\ source' = [source EXCEPT ![c] = src]
      /\ row' = [m \in Msg |-> IF m \in batch THEN c ELSE rw[m]]
      /\ claimed' = {m \in claimed : row[m] # r} \ batch \/ claimed' = claimed \ batch
      /\ retried' = retried \cup batch
      /\ batch = {m \in Msg : rw[m] = NoRun /\ steeringOrigin(m) = o}
      /\ t \in {"follow_up", "messaging"} /\ (t = "messaging" <=> o # "app")
  BY DEF ContinuesFor
<1> HIDE DEF t
<1>1. /\ NoRun \notin Run /\ NoRow \notin Run \cup {NoRun} /\ shown \in [Run -> SUBSET Msg]
      /\ row \in [Msg -> Run \cup {NoRun, NoRow}] /\ tagged \subseteq Msg
      /\ \A m \in Msg : row[m] # c /\ rw[m] # c
  BY <1>0, RunAssumption DEF KeptInv, TypeOK, Free
<1>2. /\ status'[r] = s /\ status'[c] = "queued" /\ trigger'[c] = t /\ source'[c] = src
      /\ \A x \in Run \ {r, c} : status'[x] = status[x]
      /\ \A x \in Run \ {c} : trigger'[x] = trigger[x] /\ source'[x] = source[x]
      /\ s \notin Active /\ "queued" \in Active /\ isConversationalRun(t)
  BY <1>0 DEF KeptInv, TypeOK, Active, isConversationalRun
<1>3. shown'[r] = {} /\ \A x \in Run \ {r} : shown'[x] = shown[x]
  BY DEF EndTurn
<1>4. \A m \in Msg : /\ m \in batch => row'[m] = c
                     /\ m \notin batch => row'[m] = rw[m]
                     /\ rw[m] # NoRow => row[m] # NoRow
  BY <1>0, <1>1
<1>5. \A m \in batch : rw[m] = NoRun /\ m \in retried'
  BY <1>0
<1>6. Logged'
  <2>1. \A m \in Msg : row'[m] # NoRow => m <= sent
    BY <1>1, <1>4, <1>5 DEF KeptInv, Logged
  <2>2. src <= sent
    BY <1>1, <1>4, <2>1
  <2>3. \A m \in answered' : m <= sent
    BY <1>1 DEF KeptInv, Logged
  <2>4. \A x \in Run : source'[x] <= sent /\ \A m \in shown'[x] : m <= sent
    BY <1>2, <1>3, <2>2 DEF KeptInv, Logged
  <2> QED
    BY <2>1, <2>3, <2>4 DEF KeptInv, Logged, log
<1>7. Held'
  <2> SUFFICES ASSUME NEW m \in Msg, row'[m] # NoRow
               PROVE  /\ m \notin answered'
                      /\ \/ row'[m] \in Run /\ status'[row'[m]] \in Active
                         \/ row'[m] = NoRun /\ \E x \in Run : status'[x] \in Active
                         \/ row'[m] \in Run /\ status'[row'[m]] = "failed" /\ m \in retried'
    BY DEF Held
  <2>1. CASE m \in batch
    BY <1>1, <1>2, <1>4, <1>5, <2>1
  <2>2. CASE m \notin batch /\ row[m] = r
    <3>1. row'[m] = rw[m] /\ m \notin answered'
      BY <1>4, <2>2
    <3>2. rw[m] = NoRun \/ (rw[m] = r /\ s = "failed" /\ m \in retried)
      BY <2>2, <3>1
    <3>3. c \in Run /\ status'[c] \in Active
      BY <1>2
    <3> QED
      BY <1>0, <1>2, <3>1, <3>2, <3>3
  <2>3. CASE m \notin batch /\ row[m] # r
    <3>1. row'[m] = row[m] /\ rw[m] # NoRow
      BY <1>4, <2>3
    <3>2. row[m] = NoRun \/ (row[m] \in Run \ {r, c} /\ status[row[m]] = "failed" /\ m \in retried)
      BY <1>1, <2>3, <3>1 DEF KeptInv, Held
    <3> QED
      BY <1>0, <1>2, <3>1, <3>2
  <2> QED
    BY <2>1, <2>2, <2>3
<1>8. RetriedOnce' /\ RowsSteerConversations'
  <2> SUFFICES ASSUME NEW m \in Msg, row'[m] \in Run
               PROVE  /\ m <= source'[row'[m]] => m \in retried'
                      /\ status'[row'[m]] \in Active => isConversationalRun(trigger'[row'[m]])
    BY DEF RetriedOnce, RowsSteerConversations
  <2>1. CASE m \in batch
    BY <1>2, <1>4, <1>5, <2>1
  <2>2. CASE m \notin batch
    <3>1. row'[m] = row[m] /\ row[m] \in Run \ {c}
      BY <1>1, <1>4, <2>2
    <3>2. source'[row[m]] = source[row[m]] /\ trigger'[row[m]] = trigger[row[m]]
          /\ (status'[row[m]] \in Active => status[row[m]] \in Active)
      <4>1. \A x \in Run \ {c} : status'[x] \in Active => status[x] \in Active
        BY <1>2
      <4>2. \A x \in Run \ {c} : source'[x] = source[x] /\ trigger'[x] = trigger[x]
        BY <1>2
      <4> QED
        BY <3>1, <4>1, <4>2
    <3>3. /\ m <= source[row[m]] => m \in retried
          /\ status[row[m]] \in Active => isConversationalRun(trigger[row[m]])
      BY <3>1 DEF KeptInv, RetriedOnce, RowsSteerConversations
    <3> QED
      BY <1>0, <3>1, <3>2, <3>3
  <2> QED
    BY <2>1, <2>2
<1>9. SeenIsClaimed'
  <2> SUFFICES ASSUME NEW x \in Run, NEW m \in shown'[x]
               PROVE  row'[m] = NoRow \/ (row'[m] = x /\ m \in claimed')
    BY DEF SeenIsClaimed
  <2>1. x # r /\ m \in Msg /\ m \in shown[x]
    BY <1>1, <1>3
  <2>2. row[m] = NoRow \/ (row[m] = x /\ m \in claimed)
    BY <2>1 DEF KeptInv, SeenIsClaimed
  <2>3. rw[m] = row[m] /\ m \notin batch
    BY <1>1, <1>5, <2>1, <2>2
  <2> QED
    BY <1>0, <1>4, <2>1, <2>2, <2>3
<1>10. \A x \in Run : Converses(x)' => x = c
  BY <1>2 DEF Converses
<1>11. OneConversation'
  BY <1>10 DEF OneConversation
<1>12. PendingIsForAnother'
  <2> SUFFICES ASSUME NEW m \in Msg, row'[m] = NoRun
               PROVE  m \in tagged' <=> trigger'[c] # "messaging"
    BY <1>10 DEF PendingIsForAnother
  <2>1. rw[m] = NoRun /\ steeringOrigin(m) # o
    BY <1>0, <1>1, <1>4
  <2>2. steeringOrigin(m) = IF m \in tagged THEN "dm" ELSE "app"
    BY DEF KeptInv, Logged, steeringOrigin
  <2>3. o \in {"app", "dm"}
    BY <1>0 DEF KeptInv, Logged, steeringOrigin
  <2>4. trigger'[c] # "messaging" <=> o = "app"
    BY <1>0, <1>2
  <2> QED
    BY <2>1, <2>2, <2>3, <2>4
<1> QED
  BY <1>6, <1>7, <1>8, <1>9, <1>11, <1>12 DEF KeptInv

LEMMA EndKept ==
    ASSUME KeptInv, TypeOK', NEW r \in Run, status[r] \in Active,
           NEW s \in {"completed", "failed"},
           NEW rw \in [Msg -> Run \cup {NoRun, NoRow}], NEW cl,
           cl = {m \in claimed : row[m] # r} \/ cl = claimed,
           \A m \in Msg : row[m] # r => rw[m] = row[m],
           \A m \in Msg : row[m] = r => \/ rw[m] \in {NoRun, NoRow}
                                        \/ rw[m] = r /\ s = "failed" /\ m \in retried,
           \A m \in Msg : rw[m] # NoRow => m \notin answered',
           answered' \subseteq answered \cup shown[r],
           createSteeringContinuation(r, [status EXCEPT ![r] = s], rw, cl),
           EndTurn({r}), UNCHANGED <<tagged, log>>
    PROVE  KeptInv'
<1> DEFINE st == [status EXCEPT ![r] = s]
<1>1. /\ createSteeringContinuation(r, st, rw, cl) /\ st = [status EXCEPT ![r] = s]
      /\ \A x \in Run \ {r} : st[x] = status[x]
  BY DEF KeptInv, TypeOK
<1> HIDE DEF st
<1>2. CASE /\ status' = st /\ row' = rw /\ claimed' = cl
           /\ UNCHANGED <<trigger, source, retried>>
           /\ (\E x \in Run : st[x] \in Active) \/ (\A m \in Msg : rw[m] # NoRun)
  BY <1>1, <1>2, EndedKept
<1>3. ASSUME \A x \in Run : st[x] \notin Active,
             NEW c \in Run \ {r}, NEW batch \in SUBSET Msg, NEW src \in batch, NEW o,
             ContinuesFor(c, batch, src, o, st, rw, cl)
      PROVE  KeptInv'
  <2>1. \A x \in Run \ {r} : status[x] \notin Active
    BY <1>1, <1>3
  <2> QED
    BY <1>1, <1>3, <2>1, ContinuedKept
<1> QED
  BY <1>1, <1>2, <1>3, Continuation

LEMMA EndsKept ==
    ASSUME KeptInv, TypeOK', NEW r \in Run, Complete(r) \/ Fail(r)
    PROVE  KeptInv'
<1>1. /\ NoRun \notin Run /\ NoRow \notin Run \cup {NoRun} /\ claimed \subseteq Msg
      /\ row \in [Msg -> Run \cup {NoRun, NoRow}] /\ "running" \in Active
      /\ source \in [Run -> 0 .. MaxMsg] /\ 0 .. MaxMsg \subseteq Nat /\ Msg \subseteq Nat
  BY RunAssumption, BoundAssumption DEF KeptInv, TypeOK, Active, Msg
<1>2. CASE Complete(r)
  <2> DEFINE settled == {m \in claimed : row[m] = r}
             left == [m \in Msg |-> IF m \in settled THEN NoRow
                                    ELSE IF row[m] = r THEN NoRun ELSE row[m]]
  <2>1. left \in [Msg -> Run \cup {NoRun, NoRow}]
        /\ claimed \ settled = {m \in claimed : row[m] # r}
    BY <1>1
  <2>2. /\ \A m \in Msg : row[m] # r => left[m] = row[m]
        /\ \A m \in Msg : row[m] = r => left[m] \in {NoRun, NoRow}
    OBVIOUS
  <2>3. /\ status[r] = "running" /\ answered' = answered \cup shown[r]
        /\ createSteeringContinuation(r, [status EXCEPT ![r] = "completed"], left, claimed \ settled)
        /\ EndTurn({r}) /\ UNCHANGED <<tagged, log>>
    BY <1>2 DEF Complete
  <2>4. \A m \in Msg : left[m] # NoRow => m \notin answered'
    <3> SUFFICES ASSUME NEW m \in Msg, left[m] # NoRow
                 PROVE  m \notin answered /\ m \notin shown[r]
      BY <2>3
    <3>1. row[m] # NoRow /\ ~ (row[m] = r /\ m \in claimed)
      BY <1>1
    <3> QED
      BY <3>1 DEF KeptInv, Held, SeenIsClaimed
  <2> HIDE DEF settled, left
  <2> QED
    BY <1>1, <2>1, <2>2, <2>3, <2>4, EndKept
<1>3. CASE Fail(r)
  <2> DEFINE left == [m \in Msg |-> IF row[m] = r /\ m > source[r] THEN NoRun ELSE row[m]]
  <2>1. left \in [Msg -> Run \cup {NoRun, NoRow}]
    BY <1>1
  <2>2. \A m \in Msg : row[m] # r => left[m] = row[m]
    OBVIOUS
  <2>3. \A m \in Msg : row[m] = r => left[m] = NoRun \/ (left[m] = r /\ m \in retried)
    <3>1. \A m \in Msg : ~ (m > source[r]) => m <= source[r]
      BY <1>1
    <3> QED
      BY <3>1 DEF KeptInv, RetriedOnce
  <2>4. /\ status[r] = "running" /\ answered' = answered
        /\ createSteeringContinuation(r, [status EXCEPT ![r] = "failed"], left, claimed)
        /\ EndTurn({r}) /\ UNCHANGED <<tagged, log>>
    BY <1>3 DEF Fail
  <2>5. \A m \in Msg : left[m] # NoRow => m \notin answered'
    BY <1>1, <2>4 DEF KeptInv, Held
  <2> HIDE DEF left
  <2>6. \A m \in Msg : row[m] = r => \/ left[m] \in {NoRun, NoRow}
                                     \/ left[m] = r /\ "failed" = "failed" /\ m \in retried
    BY <2>3
  <2>7. status[r] \in Active /\ answered' \subseteq answered \cup shown[r]
    BY <1>1, <2>4
  <2> QED
    BY <2>1, <2>2, <2>4, <2>5, <2>6, <2>7, EndKept
<1> QED
  BY <1>2, <1>3

LEMMA InboundKept ==
    ASSUME OwnThread, KeptInv, TypeOK', Inbound
    PROVE  KeptInv'
<1>1. /\ NoRun \notin Run /\ NoRow \notin Run \cup {NoRun} /\ sent \in Nat
      /\ {"user", "follow_up", "messaging", "webhook"} \subseteq Trigger
      /\ row \in [Msg -> Run \cup {NoRun, NoRow}]
  BY RunAssumption, BoundAssumption DEF KeptInv, TypeOK, Trigger
<1>2. ASSUME NEW t \in {"user", "follow_up", "messaging", "webhook"},
             NEW c \in {"app", "dm"}, NewMessage(c), ActiveRuns = {}, StartRun(t),
             UNCHANGED <<row, claimed, tagged, turn, hist>>
      PROVE  KeptInv'
  <2>1. PICK r \in Run : CreateRun(r, t, sent + 1)
    BY <1>2 DEF StartRun
  <2>2. sent + 1 \in 0 .. MaxMsg /\ \A x \in Run : status[x] \notin Active
    BY <1>2, SentInRange DEF KeptInv, NewMessage, ActiveRuns
  <2> QED
    BY <1>1, <1>2, <2>1, <2>2, CreatedKept
<1>3. ASSUME NEW c \in {"app", "dm"}, NewMessage(c), UNCHANGED <<claimed, turn, hist>>,
             NEW x \in Run \cup {NoRun}, Steer(x),
             x \in Run => Converses(x),
             x = NoRun => ActiveRuns # {} /\ \A r \in Run : ~ Converses(r),
             tagged' = tagged \/ (tagged' = tagged \cup {sent + 1} /\ c = "dm")
      PROVE  KeptInv'
  <2>1. x = NoRun => \E r \in Run : status[r] \in Active
    BY <1>3 DEF ActiveRuns
  <2> QED
    BY <1>3, <2>1, MessageKept DEF Steer, runs
<1>4. CASE Send
  <2> DEFINE steerable == {r \in ActiveRuns : steersUserMessage(r)}
             waiting == {r \in ActiveRuns : status[r] = "waiting_input"}
  <2>1. NewMessage("app") /\ UNCHANGED <<claimed, tagged, turn, hist>>
    BY <1>4 DEF Send
  <2>2. CASE /\ status' = [r \in Run |-> IF r \in waiting THEN "queued" ELSE status[r]]
             /\ UNCHANGED <<trigger, source, row>>
    <3>1. \A r \in Run : status'[r] \in Active <=> status[r] \in Active
      BY <2>2 DEF Active
    <3>2. \A r \in Run : status[r] = "failed" => status'[r] = "failed"
      BY <2>2
    <3>3. row[sent + 1] = NoRow /\ sent + 1 \in Msg
      BY <1>1, <2>1, SentInRange DEF KeptInv, Logged, NewMessage
    <3>4. row' = [row EXCEPT ![sent + 1] = NoRow]
      BY <1>1, <2>2, <3>3
    <3> HIDE DEF waiting
    <3> QED
      BY <1>1, <2>1, <2>2, <3>1, <3>2, <3>4, MessageKept
  <2>3. \A r \in steerable : r \in Run /\ Converses(r)
    BY DEF ActiveRuns, steersUserMessage, Converses
  <2>4. waiting = {} /\ steerable = {} => \A r \in Run : ~ Converses(r)
    BY DEF ActiveRuns, steersUserMessage, Converses
  <2>5. \/ /\ status' = [r \in Run |-> IF r \in waiting THEN "queued" ELSE status[r]]
           /\ UNCHANGED <<trigger, source, row>>
        \/ \E r \in steerable : Steer(r)
        \/ ActiveRuns # {} /\ waiting = {} /\ steerable = {} /\ Steer(NoRun)
        \/ ActiveRuns = {} /\ StartRun("user") /\ UNCHANGED row
    BY <1>4 DEF Send
  <2> HIDE DEF waiting, steerable
  <2>6. ASSUME NEW r \in steerable, Steer(r)
        PROVE  KeptInv'
    BY <1>1, <1>3, <2>1, <2>3, <2>6
  <2>7. CASE ActiveRuns # {} /\ waiting = {} /\ steerable = {} /\ Steer(NoRun)
    BY <1>1, <1>3, <2>1, <2>4, <2>7
  <2>8. CASE ActiveRuns = {} /\ StartRun("user") /\ UNCHANGED row
    BY <1>2, <2>1, <2>8
  <2> QED
    BY <2>2, <2>5, <2>6, <2>7, <2>8
<1>5. ASSUME NEW t \in {"webhook", "follow_up", "messaging"}, NEW c \in {"app", "dm"},
             t = "messaging" => c = "dm", sendUserMessage(t, c)
      PROVE  KeptInv'
  <2> DEFINE busy == {r \in ActiveRuns : isConversationalRun(trigger[r])}
  <2>1. NewMessage(c) /\ UNCHANGED <<claimed, turn, hist>>
    BY <1>5 DEF sendUserMessage
  <2>2. \A r \in busy : r \in Run /\ Converses(r)
    BY DEF ActiveRuns, Converses
  <2>3. busy = {} => \A r \in Run : ~ Converses(r)
    BY DEF ActiveRuns, Converses
  <2>4. \/ ActiveRuns = {} /\ StartRun(t) /\ UNCHANGED <<row, tagged>>
        \/ \E r \in busy : Steer(r) /\ UNCHANGED tagged
        \/ /\ ActiveRuns # {} /\ busy = {} /\ Steer(NoRun)
           /\ tagged' = IF t = "messaging" THEN tagged \cup {sent + 1} ELSE tagged
    BY <1>5 DEF sendUserMessage
  <2> HIDE DEF busy
  <2>5. CASE ActiveRuns = {} /\ StartRun(t) /\ UNCHANGED <<row, tagged>>
    BY <1>2, <2>1, <2>5
  <2>6. ASSUME NEW r \in busy, Steer(r), UNCHANGED tagged
        PROVE  KeptInv'
    BY <1>1, <1>3, <2>1, <2>2, <2>6
  <2>7. CASE /\ ActiveRuns # {} /\ busy = {} /\ Steer(NoRun)
             /\ tagged' = IF t = "messaging" THEN tagged \cup {sent + 1} ELSE tagged
    <3>1. tagged' = tagged \/ (tagged' = tagged \cup {sent + 1} /\ c = "dm")
      BY <1>5, <2>7
    <3> QED
      BY <1>1, <1>3, <2>1, <2>3, <2>7, <3>1
  <2> QED
    BY <2>4, <2>5, <2>6, <2>7
<1>6. \A c \in Chats : c \in {"app", "dm"}
  BY ChoiceAssumption DEF OwnThread
<1>7. ~ GroupFollowUp
  BY DEF OwnThread, GroupFollowUp
<1>8. \/ Send
      \/ \E t \in {"webhook", "follow_up"} : sendUserMessage(t, "app")
      \/ sendUserMessage("messaging", "dm")
  BY <1>6, <1>7 DEF Inbound
<1> QED
  BY <1>4, <1>5, <1>8

LEMMA StepKept == OwnThread /\ KeptInv /\ [Next]_vars => KeptInv'
<1> SUFFICES ASSUME OwnThread, KeptInv, [Next]_vars
             PROVE  KeptInv'
  OBVIOUS
<1>1. TypeOK' /\ TypeOK
  BY StepTypes DEF KeptInv
<1>2. CASE UNCHANGED vars
  BY <1>1, <1>2, QuietKept DEF vars
<1>3. CASE wakeRoutine
  <2>1. PICK r \in Run : CreateRun(r, "routine", 0)
    BY <1>3 DEF wakeRoutine
  <2>2. "routine" \in Trigger /\ 0 \in 0 .. MaxMsg /\ ~ isConversationalRun("routine")
    BY BoundAssumption DEF Trigger, isConversationalRun
  <2>3. UNCHANGED <<row, claimed, tagged, turn, log, hist>>
    BY <1>3 DEF wakeRoutine, rows
  <2> QED
    BY <1>1, <2>1, <2>2, <2>3, CreatedKept
<1>4. ASSUME NEW r \in Run, Begin(r) \/ Answer(r) \/ Opened(r)
      PROVE  KeptInv'
  <2>1. /\ \A x \in Run : status'[x] \in Active <=> status[x] \in Active
        /\ \A x \in Run : status[x] = "failed" => status'[x] = "failed"
    BY <1>1, <1>4 DEF Begin, Answer, Opened, runs, TypeOK, Active
  <2>2. UNCHANGED <<trigger, source, row, tagged, chat, sent, answered, retried, claimed, shown>>
    BY <1>4 DEF Begin, Answer, Opened, runs, turn, rows, log, hist
  <2> QED
    BY <1>1, <2>1, <2>2, QuietKept
<1>5. ASSUME NEW r \in Run, Yield(r)
      PROVE  KeptInv'
  <2>1. /\ \A x \in Run : status'[x] \in Active <=> status[x] \in Active
        /\ \A x \in Run : status[x] = "failed" => status'[x] = "failed"
    BY <1>1, <1>5 DEF Yield, TypeOK, Active
  <2>2. UNCHANGED <<trigger, source, row, tagged, chat, sent, answered, retried, claimed>>
    BY <1>5 DEF Yield, rows, log, hist
  <2>3. \A x \in Run : shown'[x] \subseteq shown[x]
    BY <1>5 DEF Yield, EndTurn
  <2> QED
    BY <1>1, <2>1, <2>2, <2>3, QuietKept
<1>6. CASE stopThreadRuns \/ clearThread
  <2>1. /\ UNCHANGED <<trigger, source, chat, sent, answered, retried>>
        /\ \A x \in Run : status'[x] \notin Active /\ shown'[x] = {}
        /\ \A m \in Msg : row'[m] = NoRow
        /\ tagged' = {}
    BY <1>6 DEF stopThreadRuns, clearThread, CancelActive, DropRows, EndTurn, Active, log, hist
  <2>2. Logged'
    BY <2>1 DEF KeptInv, Logged
  <2>3. Held' /\ RetriedOnce' /\ SeenIsClaimed' /\ RowsSteerConversations'
    BY <2>1, RunAssumption DEF Held, RetriedOnce, SeenIsClaimed, RowsSteerConversations
  <2>4. OneConversation' /\ PendingIsForAnother'
    BY <2>1 DEF OneConversation, PendingIsForAnother, Converses
  <2> QED
    BY <1>1, <2>2, <2>3, <2>4 DEF KeptInv
<1>7. /\ ~ cancelActiveRuns
      /\ ~ \E t \in Parallel : StartParallel(t)
      /\ \A r \in Run : ~ RollbackRoutine(r) /\ ~ AbandonForRoutine(r)
  BY DEF OwnThread, cancelActiveRuns, RollbackRoutine, AbandonForRoutine
<1> QED
  BY <1>1, <1>2, <1>3, <1>4, <1>5, <1>6, <1>7, ClaimKept, EndsKept, InboundKept
     DEF Next, Turn

\* A bot in its own thread strands no message and answers none twice, however
\* many runs, routines, messages and failed attempts there are.
THEOREM NoSteeringIsStranded ==
    ASSUME OwnThread
    PROVE  Spec => []NoStrandedSteering
<1>1. Init => KeptInv
  <2> SUFFICES ASSUME Init
               PROVE  KeptInv
    OBVIOUS
  <2>1. /\ \A m \in Msg : row[m] = NoRow /\ chat[m] = "app"
        /\ \A r \in Run : source[r] = 0 /\ trigger[r] = "created" /\ shown[r] = {}
        /\ sent = 0 /\ answered = {} /\ tagged = {}
    BY DEF Init
  <2>2. Logged
    BY <2>1 DEF Logged
  <2>3. Held /\ RetriedOnce /\ SeenIsClaimed /\ RowsSteerConversations
    BY <2>1, RunAssumption DEF Held, RetriedOnce, SeenIsClaimed, RowsSteerConversations
  <2>4. OneConversation /\ PendingIsForAnother
    BY <2>1 DEF OneConversation, PendingIsForAnother, Converses, isConversationalRun
  <2> QED
    BY <2>2, <2>3, <2>4, InitTypes DEF KeptInv
<1>2. KeptInv => NoStrandedSteering
  <2> SUFFICES ASSUME KeptInv, NEW m \in Msg, row[m] # NoRow
               PROVE  /\ m \notin answered
                      /\ \/ row[m] \in ActiveRuns
                         \/ row[m] = NoRun /\ ActiveRuns # {}
                         \/ Abandoned(m) /\ m \in retried
    BY DEF NoStrandedSteering
  <2> QED
    BY DEF KeptInv, Held, ActiveRuns, Abandoned
<1>3. KeptInv /\ [Next]_vars => KeptInv'
  BY StepKept
<1> QED
  BY <1>1, <1>2, <1>3, PTL DEF Spec
=============================================================================
