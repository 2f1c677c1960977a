-------------------------- MODULE Deliveries_proofs --------------------------
(***************************************************************************)
(* Theorems about MessagingOutbox, for any rows, drains and bounds: every  *)
(* copy of a message is explained by a failure that came too late, and an  *)
(* invite goes out while its request is pending; and about CloudAgent, for *)
(* any polls and bounds: the bot is woken once for the end of a launch or  *)
(* of a follow-up, and an agent that is said to have ended was followed to *)
(* its last run.  The last part carries the theorems about these two and   *)
(* about ExternalEffect over to the settings in which TLC runs them.       *)
(***************************************************************************)
EXTENDS MCDeliveries, ExternalEffect_proofs, FiniteSetTheorems

-----------------------------------------------------------------------------
(* MessagingOutbox.                                                        *)

Waiting(r) == out[r] \in {"none", "pending"}

\* A row that waits was delivered no more often than a failure explains.
RowOK(r) ==
    /\ delivered[r] <= 1 + lost[r]
    /\ Waiting(r) => delivered[r] <= lost[r] /\ tries[r] < MaxAttempts

\* So is a row that a drain has claimed and not sent; and an invite is sent
\* under the lock of a pending connection.
WorkOK(d) ==
    LET w == drain[d]
    IN  /\ w.on = NoRow <=> w.at \in {"idle", "loop"}
        /\ \A r \in Row : w.read[r] < MaxAttempts
        /\ w.on # NoRow => ~Waiting(w.on) /\ tries[w.on] < MaxAttempts
        /\ w.at \in {"claimed", "locked", "catch"} => delivered[w.on] <= lost[w.on]
        /\ w.at = "locked" => /\ connLock = d /\ conn = "pending"
                              /\ out[w.on] # "gone" /\ w.on \in Invite

\* No two drains have the same row in hand.
Alone == \A d, e \in Drain : drain[d].on = drain[e].on /\ drain[d].on # NoRow => d = e

OutInv ==
    /\ OutboxTypeOK /\ Alone
    /\ \A r \in Row : RowOK(r)
    /\ \A d \in Drain : WorkOK(d)

LEMMA OutInitInv == OutboxInit => OutInv
<1> SUFFICES ASSUME OutboxInit
             PROVE  OutInv
  OBVIOUS
<1> USE OutboxAssumption
<1>1. NoDrainWork \in DrainWork /\ NoDrainWork.on = NoRow /\ NoDrainWork.at = "idle"
      /\ NoDrainWork.read = [r \in Row |-> 0]
  BY DEF NoDrainWork, DrainWork
<1>2. \A d \in Drain : drain[d] = NoDrainWork
  BY DEF OutboxInit
<1>3. OutboxTypeOK
  BY <1>1 DEF OutboxInit, OutboxTypeOK
<1>4. \A r \in Row : RowOK(r)
  BY DEF OutboxInit, RowOK
<1> QED
  BY <1>1, <1>2, <1>3, <1>4 DEF OutInv, Alone, WorkOK

\* Rows change, though none comes to wait again; the drains stay where they are.
LEMMA RowsMove ==
    ASSUME OutInv, OutboxTypeOK', UNCHANGED <<tries, drain, delivered, lost, connLock>>,
           \A r \in Row : Waiting(r)' => Waiting(r),
           connLock # NoDrain =>
              conn' = conn /\ \A r \in Row : out'[r] = "gone" => out[r] = "gone"
    PROVE  OutInv'
<1>1. \A r \in Row : RowOK(r)'
  BY DEF OutInv, RowOK
<1>2. ASSUME NEW d \in Drain
      PROVE  WorkOK(d)'
  <2>1. WorkOK(d) /\ drain[d].on \in Row \cup {NoRow} /\ d # NoDrain
    BY OutboxAssumption DEF OutInv, OutboxTypeOK, DrainWork
  <2> QED
    BY <2>1, OutboxAssumption DEF WorkOK
<1>3. Alone'
  BY DEF OutInv, Alone
<1> QED
  BY <1>1, <1>2, <1>3 DEF OutInv

\* A drain moves with the row it has in hand, or puts it down.
LEMMA HolderMoves ==
    ASSUME OutInv, OutboxTypeOK', NEW d \in Drain, NEW r \in Row, drain[d].on = r,
           NEW c \in DrainWork, drain' = [drain EXCEPT ![d] = c],
           \A x \in Row \ {r} : /\ out'[x] = out[x] /\ tries'[x] = tries[x]
                                /\ delivered'[x] = delivered[x] /\ lost'[x] = lost[x],
           RowOK(r)', WorkOK(d)', c.on \in {r, NoRow}, conn' = conn,
           connLock \notin {d, NoDrain} => connLock' = connLock
    PROVE  OutInv'
<1>1. \A x \in Row : RowOK(x)'
  BY DEF OutInv, RowOK, Waiting
<1>2. drain'[d] = c /\ \A e \in Drain \ {d} : drain'[e] = drain[e] /\ drain[e].on # r
  BY OutboxAssumption DEF OutInv, OutboxTypeOK, Alone
<1>3. ASSUME NEW e \in Drain \ {d}
      PROVE  WorkOK(e)'
  <2>1. WorkOK(e) /\ drain[e].on \in (Row \ {r}) \cup {NoRow} /\ e # NoDrain /\ e # d
    BY <1>2, OutboxAssumption DEF OutInv, OutboxTypeOK, DrainWork
  <2>2. drain'[e] = drain[e]
    BY <1>2
  <2> QED
    BY <2>1, <2>2 DEF WorkOK, Waiting
<1>4. Alone'
  BY <1>2 DEF OutInv, Alone
<1> QED
  BY <1>1, <1>3, <1>4 DEF OutInv

\* A drain without a row moves, and takes none.
LEMMA IdlerMoves ==
    ASSUME OutInv, NEW d \in Drain, NEW c \in DrainWork, drain' = [drain EXCEPT ![d] = c],
           c.on = NoRow, c.at \in {"idle", "loop"}, \A r \in Row : c.read[r] < MaxAttempts,
           UNCHANGED <<out, tries, delivered, lost, conn>>, OutboxTypeOK',
           connLock \notin {d, NoDrain} => connLock' = connLock
    PROVE  OutInv'
<1>1. \A x \in Row : RowOK(x)'
  BY DEF OutInv, RowOK, Waiting
<1>2. drain'[d] = c /\ \A e \in Drain \ {d} : drain'[e] = drain[e]
  BY DEF OutInv, OutboxTypeOK
<1>3. ASSUME NEW e \in Drain \ {d}
      PROVE  WorkOK(e)'
  <2>1. WorkOK(e) /\ e # NoDrain /\ e # d /\ drain'[e] = drain[e]
    BY <1>2, OutboxAssumption DEF OutInv
  <2> QED
    BY <2>1 DEF WorkOK, Waiting
<1>4. WorkOK(d)'
  BY <1>2 DEF WorkOK
<1>5. Alone'
  BY <1>2 DEF OutInv, Alone
<1> QED
  BY <1>1, <1>3, <1>4, <1>5 DEF OutInv

LEMMA NextRowIsWork ==
    ASSUME OutInv, NEW d \in Drain
    PROVE  LET c == NextRow(d)
           IN  /\ c \in DrainWork /\ c.on = NoRow /\ c.at \in {"idle", "loop"}
               /\ \A r \in Row : c.read[r] < MaxAttempts
<1>1. drain[d] \in DrainWork /\ WorkOK(d)
  BY DEF OutInv, OutboxTypeOK
<1>2. drain[d].todo \subseteq Row /\ \A r \in Row : drain[d].read[r] \in 0 .. MaxAttempts
  BY <1>1 DEF DrainWork
<1> QED
  BY <1>1, <1>2, OutboxAssumption DEF NextRow, DrainWork, WorkOK

\* A drain goes on with its row.
LEMMA AtIsWork ==
    ASSUME NEW c \in DrainWork, NEW s \in {"locked", "record", "count", "catch"}
    PROVE  LET e == [c EXCEPT !.at = s]
           IN  e \in DrainWork /\ e.at = s /\ e.on = c.on /\ e.read = c.read
BY ZenonT(30) DEF DrainWork

LEMMA ClaimKeeps ==
    ASSUME OutInv, NEW d \in Drain, NEW r \in Row, ClaimRow(d, r)
    PROVE  OutInv'
<1> DEFINE left == [drain[d] EXCEPT !.todo = @ \ {r}]
<1>1. /\ drain[d].at = "loop" /\ drain[d].on = NoRow /\ WorkOK(d)
      /\ UNCHANGED <<tries, handle, conn, connLock, streak, delivered, lost,
                     drainCrashes, inbounds>>
  BY DEF ClaimRow, OutInv, WorkOK
<1>2. left \in DrainWork /\ left.on = NoRow /\ left.read = drain[d].read
      /\ left.read \in [Row -> 0 .. MaxAttempts]
  <2>1. drain[d] \in DrainWork
    BY DEF OutInv, OutboxTypeOK
  <2> QED
    BY <1>1, <2>1 DEF DrainWork
<1>3. CASE claimable(r)
  <2> DEFINE c == [left EXCEPT !.at = "claimed", !.on = r]
  <2>1. out' = [out EXCEPT ![r] = "sent"] /\ due' = [due EXCEPT ![r] = TRUE]
        /\ drain' = [drain EXCEPT ![d] = c]
    BY <1>3 DEF ClaimRow, Put, Step
  <2>2. c \in DrainWork /\ c.at = "claimed" /\ c.on = r /\ c.read = left.read
    <3> HIDE DEF left
    <3> QED
      BY <1>2, ZenonT(30) DEF DrainWork
  <2> HIDE DEF c, left
  <2>3. out[r] = "pending" /\ \A e \in Drain : drain[e].on # r
    <3>1. out[r] = "pending" /\ Waiting(r)
      BY <1>3 DEF claimable, Waiting
    <3> QED
      BY <3>1, OutboxAssumption DEF OutInv, WorkOK
  <2>4. drain'[d] = c /\ \A e \in Drain \ {d} : drain'[e] = drain[e]
    BY <2>1 DEF OutInv, OutboxTypeOK
  <2>5. /\ out' \in [Row -> {"none", "pending", "sent", "failed", "gone"}]
        /\ out'[r] = "sent" /\ \A x \in Row \ {r} : out'[x] = out[x]
    BY <2>1 DEF OutInv, OutboxTypeOK
  <2>6. OutboxTypeOK'
    BY <1>1, <2>1, <2>2, <2>5 DEF OutInv, OutboxTypeOK
  <2>7. ASSUME NEW x \in Row
        PROVE  RowOK(x)'
    BY <1>1, <2>5 DEF OutInv, RowOK, Waiting
  <2>8. WorkOK(d)'
    <3>1. delivered[r] <= lost[r] /\ tries[r] < MaxAttempts
      BY <2>3 DEF OutInv, RowOK, Waiting
    <3>2. \A x \in Row : c.read[x] < MaxAttempts
      BY <1>1, <1>2, <2>2 DEF WorkOK
    <3>3. r # NoRow
      BY OutboxAssumption
    <3> QED
      BY <1>1, <2>2, <2>4, <2>5, <3>1, <3>2, <3>3 DEF WorkOK, Waiting
  <2>9. ASSUME NEW e \in Drain \ {d}
        PROVE  WorkOK(e)'
    <3>1. WorkOK(e) /\ drain[e].on \in (Row \ {r}) \cup {NoRow} /\ drain'[e] = drain[e]
      BY <2>3, <2>4 DEF OutInv, OutboxTypeOK, DrainWork
    <3> QED
      BY <1>1, <2>5, <3>1 DEF WorkOK, Waiting
  <2>10. Alone'
    BY <2>2, <2>3, <2>4 DEF OutInv, Alone
  <2> QED
    BY <2>6, <2>7, <2>8, <2>9, <2>10 DEF OutInv
<1>4. CASE ~claimable(r)
  <2> DEFINE at == IF left.todo = {} THEN "idle" ELSE "loop"
             c  == [left EXCEPT !.read[r] = 0, !.at = at]
  <2>1. UNCHANGED <<out, due>> /\ drain' = [drain EXCEPT ![d] = c]
    BY <1>4 DEF ClaimRow, Step
  <2>2. c \in DrainWork /\ c.at = at /\ c.on = NoRow
        /\ c.read = [left.read EXCEPT ![r] = 0]
    <3>1. at \in {"idle", "loop"} /\ [left.read EXCEPT ![r] = 0] \in [Row -> 0 .. MaxAttempts]
      BY <1>2, OutboxAssumption
    <3>2. c = [left EXCEPT !.read = [left.read EXCEPT ![r] = 0], !.at = at]
      OBVIOUS
    <3> DEFINE rd == [left.read EXCEPT ![r] = 0]
    <3> HIDE DEF left, at, rd
    <3>3. [left EXCEPT !.read = rd, !.at = at] \in DrainWork
          /\ [left EXCEPT !.read = rd, !.at = at].at = at
          /\ [left EXCEPT !.read = rd, !.at = at].on = left.on
          /\ [left EXCEPT !.read = rd, !.at = at].read = rd
      <4>1. rd \in [Row -> 0 .. MaxAttempts]
        BY <3>1 DEF rd
      <4> QED
        BY <1>2, <3>1, <4>1, ZenonT(30) DEF DrainWork
    <3> QED
      BY <1>2, <3>2, <3>3 DEF rd
  <2>3. at \in {"idle", "loop"}
    OBVIOUS
  <2>4. \A x \in Row : c.read[x] < MaxAttempts
    BY <1>1, <1>2, <2>2, OutboxAssumption DEF WorkOK
  <2> HIDE DEF c, left, at
  <2>5. OutboxTypeOK'
    BY <1>1, <2>1, <2>2 DEF OutInv, OutboxTypeOK
  <2> QED
    BY <1>1, <2>1, <2>2, <2>3, <2>4, <2>5, IdlerMoves
<1> QED
  BY <1>3, <1>4

\* What a drain knows that has a row in hand.
LEMMA HolderKnows ==
    ASSUME OutInv, NEW d \in Drain, NEW r \in Row, drain[d].on = r
    PROVE  /\ drain[d] \in DrainWork /\ WorkOK(d) /\ RowOK(r) /\ r # NoRow /\ d # NoDrain
           /\ ~Waiting(r) /\ tries[r] < MaxAttempts
           /\ delivered[r] \in Nat /\ lost[r] \in Nat
BY OutboxAssumption DEF OutInv, OutboxTypeOK, WorkOK

\* A drain writes the status and goes on, or finds that the row is gone.
LEMMA SetClaimedKeeps ==
    ASSUME OutInv, NEW d \in Drain, NEW r \in Row, NEW s \in {"pending", "failed"},
           On(d, "claimed", r), SetClaimed(d, r, s),
           UNCHANGED <<tries, due, handle, conn, connLock, streak, delivered, lost,
                       drainCrashes, inbounds>>
    PROVE  OutInv'
<1>1. drain[d].on = r /\ drain[d].at = "claimed"
  BY DEF On
<1>2. delivered[r] <= lost[r]
  BY <1>1 DEF OutInv, WorkOK
<1>3. CASE out[r] = "gone"
  <2> DEFINE c == [drain[d] EXCEPT !.at = "catch"]
  <2>1. UNCHANGED out /\ drain' = [drain EXCEPT ![d] = c]
    BY <1>3 DEF SetClaimed, Step
  <2>2. c \in DrainWork /\ c.at = "catch" /\ c.on = r /\ c.read = drain[d].read
    BY <1>1, HolderKnows, AtIsWork
  <2> HIDE DEF c
  <2>3. OutboxTypeOK'
    BY <2>1, <2>2 DEF OutInv, OutboxTypeOK
  <2>4. drain'[d] = c
    BY <2>1 DEF OutInv, OutboxTypeOK
  <2>5. WorkOK(d)' /\ RowOK(r)'
    BY <1>1, <1>2, <2>1, <2>2, <2>4, HolderKnows DEF WorkOK, RowOK, Waiting
  <2> QED
    BY <1>1, <2>1, <2>2, <2>3, <2>5, HolderMoves
<1>4. CASE out[r] # "gone"
  <2> DEFINE c == NextRow(d)
  <2>1. out' = [out EXCEPT ![r] = s] /\ drain' = [drain EXCEPT ![d] = c]
    BY <1>4 DEF SetClaimed, Step, Put
  <2>2. c \in DrainWork /\ c.on = NoRow /\ c.at \in {"idle", "loop"}
        /\ \A x \in Row : c.read[x] < MaxAttempts
    BY NextRowIsWork
  <2> HIDE DEF c
  <2>3. /\ out' \in [Row -> {"none", "pending", "sent", "failed", "gone"}]
        /\ out'[r] = s /\ \A x \in Row \ {r} : out'[x] = out[x]
    BY <2>1 DEF OutInv, OutboxTypeOK
  <2>4. OutboxTypeOK'
    BY <2>1, <2>2, <2>3 DEF OutInv, OutboxTypeOK
  <2>5. drain'[d] = c
    BY <2>1 DEF OutInv, OutboxTypeOK
  <2>6. WorkOK(d)' /\ RowOK(r)'
    BY <1>1, <1>2, <2>2, <2>3, <2>5, HolderKnows DEF WorkOK, RowOK, Waiting
  <2> QED
    BY <1>1, <2>1, <2>2, <2>3, <2>4, <2>6, HolderMoves
<1> QED
  BY <1>3, <1>4

\* A copy goes out, or is refused.
LEMMA SendChatKeeps ==
    ASSUME OutInv, NEW d \in Drain, NEW r \in Row, NEW o \in Outcomes, SendChat(d, r, o)
    PROVE  OutInv'
<1> DEFINE s == IF o = "accepted" THEN "record" ELSE "catch"
           c == [drain[d] EXCEPT !.at = s]
<1>1. drain[d].on = r /\ drain[d].at = "claimed" /\ drain' = [drain EXCEPT ![d] = c]
      /\ UNCHANGED <<out, tries, due, handle, conn, connLock, streak, drainCrashes, inbounds>>
  BY DEF On, SendChat, Step
<1>2. delivered[r] <= lost[r] /\ delivered[r] \in Nat /\ lost[r] \in Nat
  BY <1>1, HolderKnows DEF WorkOK
<1>3. /\ delivered' \in [Row -> Nat] /\ lost' \in [Row -> Nat]
      /\ delivered'[r] = delivered[r] + (IF o = "refused" THEN 0 ELSE 1)
      /\ lost'[r] = lost[r] + (IF o = "lost" THEN 1 ELSE 0)
      /\ \A x \in Row \ {r} : delivered'[x] = delivered[x] /\ lost'[x] = lost[x]
  BY DEF SendChat, Reaches, OutInv, OutboxTypeOK
<1>4. c \in DrainWork /\ c.at = s /\ c.on = r /\ c.read = drain[d].read
  <2>1. s \in {"locked", "record", "count", "catch"}
    OBVIOUS
  <2> HIDE DEF s
  <2> QED
    BY <1>1, <2>1, HolderKnows, AtIsWork
<1> HIDE DEF c
<1>5. OutboxTypeOK'
  BY <1>1, <1>3, <1>4 DEF OutInv, OutboxTypeOK
<1>6. drain'[d] = c
  BY <1>1 DEF OutInv, OutboxTypeOK
<1>7. RowOK(r)'
  BY <1>1, <1>2, <1>3, HolderKnows DEF RowOK, Waiting
<1>8. WorkOK(d)'
  BY <1>1, <1>2, <1>3, <1>4, <1>6, HolderKnows DEF WorkOK, Waiting, Outcomes
<1> QED
  BY <1>1, <1>3, <1>4, <1>5, <1>7, <1>8, HolderMoves

LEMMA LockKeeps ==
    ASSUME OutInv, NEW d \in Drain, NEW r \in Row, LockInvite(d, r)
    PROVE  OutInv'
<1>1. drain[d].on = r /\ drain[d].at = "claimed" /\ connLock = NoDrain /\ r \in Invite
      /\ UNCHANGED <<tries, due, handle, conn, streak, delivered, lost, drainCrashes, inbounds>>
  BY DEF On, LockInvite
<1>2. delivered[r] <= lost[r]
  BY <1>1 DEF OutInv, WorkOK
<1>3. CASE conn = "pending" /\ out[r] # "gone"
  <2> DEFINE c == [drain[d] EXCEPT !.at = "locked"]
  <2>1. UNCHANGED out /\ drain' = [drain EXCEPT ![d] = c] /\ connLock' = d
    BY <1>3 DEF LockInvite, lockedBy, Step
  <2>2. c \in DrainWork /\ c.at = "locked" /\ c.on = r /\ c.read = drain[d].read
    BY <1>1, HolderKnows, AtIsWork
  <2> HIDE DEF c
  <2>3. OutboxTypeOK'
    BY <1>1, <2>1, <2>2 DEF OutInv, OutboxTypeOK
  <2>4. drain'[d] = c
    BY <2>1 DEF OutInv, OutboxTypeOK
  <2>5. WorkOK(d)' /\ RowOK(r)'
    BY <1>1, <1>2, <1>3, <2>1, <2>2, <2>4, HolderKnows DEF WorkOK, RowOK, Waiting
  <2> QED
    BY <1>1, <2>1, <2>2, <2>3, <2>5, HolderMoves
<1>4. CASE ~(conn = "pending" /\ out[r] # "gone")
  <2> DEFINE c == NextRow(d)
             s == IF conn # "pending" /\ out[r] # "gone" THEN "failed" ELSE out[r]
  <2>1. out' = [out EXCEPT ![r] = s] /\ drain' = [drain EXCEPT ![d] = c] /\ UNCHANGED connLock
    BY <1>4 DEF LockInvite, Step
  <2>2. c \in DrainWork /\ c.on = NoRow /\ c.at \in {"idle", "loop"}
        /\ \A x \in Row : c.read[x] < MaxAttempts
    BY NextRowIsWork
  <2>3. s \in {"sent", "failed", "gone"}
    BY <1>1, HolderKnows DEF OutInv, OutboxTypeOK, Waiting
  <2> HIDE DEF c, s
  <2>4. /\ out' \in [Row -> {"none", "pending", "sent", "failed", "gone"}]
        /\ out'[r] = s /\ \A x \in Row \ {r} : out'[x] = out[x]
    BY <2>1, <2>3 DEF OutInv, OutboxTypeOK
  <2>5. OutboxTypeOK'
    BY <1>1, <2>1, <2>2, <2>4 DEF OutInv, OutboxTypeOK
  <2>6. drain'[d] = c
    BY <2>1 DEF OutInv, OutboxTypeOK
  <2>7. WorkOK(d)' /\ RowOK(r)'
    BY <1>1, <1>2, <2>2, <2>3, <2>4, <2>6, HolderKnows DEF WorkOK, RowOK, Waiting
  <2> QED
    BY <1>1, <2>1, <2>2, <2>4, <2>5, <2>7, HolderMoves
<1> QED
  BY <1>3, <1>4

LEMMA SendInviteKeeps ==
    ASSUME OutInv, NEW d \in Drain, NEW r \in Row, NEW o \in Outcomes, SendInvite(d, r, o)
    PROVE  OutInv'
<1>1. drain[d].on = r /\ drain[d].at = "locked" /\ connLock' = NoDrain
      /\ UNCHANGED <<out, tries, due, conn, streak, lost, drainCrashes, inbounds>>
  BY DEF On, SendInvite
<1>2. delivered[r] <= lost[r] /\ connLock = d /\ delivered[r] \in Nat /\ lost[r] \in Nat
  BY <1>1, HolderKnows DEF WorkOK
<1>3. /\ delivered' \in [Row -> Nat] /\ handle' \in [Row -> BOOLEAN]
      /\ delivered'[r] = delivered[r] + (IF o = "refused" THEN 0 ELSE 1)
      /\ \A x \in Row \ {r} : delivered'[x] = delivered[x]
  BY DEF SendInvite, OutInv, OutboxTypeOK
<1>4. RowOK(r)'
  BY <1>1, <1>2, <1>3, HolderKnows DEF RowOK, Waiting
<1>5. PICK c \in DrainWork :
         /\ drain' = [drain EXCEPT ![d] = c]
         /\ \A x \in Row : c.read[x] < MaxAttempts
         /\ \/ c.on = NoRow /\ c.at \in {"idle", "loop"}
            \/ c.on = r /\ c.at = "count"
  <2>1. CASE o = "accepted"
    <3> DEFINE c == [drain[d] EXCEPT !.at = "count"]
    <3>1. c \in DrainWork /\ c.at = "count" /\ c.on = r /\ c.read = drain[d].read
      BY <1>1, HolderKnows, AtIsWork
    <3>2. \A x \in Row : drain[d].read[x] < MaxAttempts
      BY <1>1, HolderKnows DEF WorkOK
    <3>3. drain' = [drain EXCEPT ![d] = c]
      BY <2>1 DEF SendInvite, Step
    <3> HIDE DEF c
    <3> QED
      BY <3>1, <3>2, <3>3
  <2>2. CASE o # "accepted"
    BY <2>2, NextRowIsWork DEF SendInvite, Step
  <2> QED
    BY <2>1, <2>2
<1>6. OutboxTypeOK'
  BY <1>1, <1>3, <1>5 DEF OutInv, OutboxTypeOK
<1>7. drain'[d] = c
  BY <1>5 DEF OutInv, OutboxTypeOK
<1>8. WorkOK(d)'
  BY <1>1, <1>5, <1>7, HolderKnows DEF WorkOK, Waiting
<1> QED
  BY <1>1, <1>2, <1>3, <1>4, <1>5, <1>6, <1>8, HolderMoves

\* What follows a send, and its failure.
LEMMA AfterSendKeeps ==
    ASSUME OutInv, NEW d \in Drain, NEW r \in Row,
           RecordHandle(d, r) \/ CountStreak(d, r) \/ WriteFails(d, r)
    PROVE  OutInv'
<1>1. drain[d].on = r /\ drain[d].at \in {"record", "count"}
      /\ UNCHANGED <<out, tries, due, conn, connLock, delivered, drainCrashes, inbounds>>
  BY DEF On, RecordHandle, CountStreak, WriteFails
<1>2. delivered[r] <= 1 + lost[r] /\ delivered[r] \in Nat /\ lost[r] \in Nat
  BY <1>1, HolderKnows DEF RowOK
<1>3. /\ lost' \in [Row -> Nat] /\ (lost'[r] = lost[r] \/ lost'[r] = lost[r] + 1)
      /\ \A x \in Row \ {r} : lost'[x] = lost[x]
  BY DEF RecordHandle, CountStreak, WriteFails, OutInv, OutboxTypeOK
<1>4. handle' \in [Row -> BOOLEAN] /\ streak' \in 0 .. DmCap
  <2>1. CASE RecordHandle(d, r)
    BY <2>1 DEF RecordHandle, OutInv, OutboxTypeOK
  <2>2. CASE CountStreak(d, r)
    BY <2>2, OutboxAssumption DEF CountStreak, OutInv, OutboxTypeOK
  <2>3. CASE WriteFails(d, r)
    BY <2>3 DEF WriteFails, OutInv, OutboxTypeOK
  <2> QED
    BY <2>1, <2>2, <2>3
<1>5. RowOK(r)'
  BY <1>1, <1>2, <1>3, HolderKnows DEF RowOK, Waiting
<1>6. PICK c \in DrainWork :
         /\ drain' = [drain EXCEPT ![d] = c]
         /\ \A x \in Row : c.read[x] < MaxAttempts
         /\ \/ c.on = NoRow /\ c.at \in {"idle", "loop"}
            \/ c.on = r /\ c.at = "count"
            \/ c.on = r /\ c.at = "catch" /\ lost'[r] = lost[r] + 1
  <2>1. \A x \in Row : drain[d].read[x] < MaxAttempts
    BY <1>1, HolderKnows DEF WorkOK
  <2>2. CASE CountStreak(d, r)
    BY <2>2, NextRowIsWork DEF CountStreak, Step
  <2>3. CASE RecordHandle(d, r)
    <3> DEFINE c == [drain[d] EXCEPT !.at = "count"]
    <3>1. c \in DrainWork /\ c.at = "count" /\ c.on = r /\ c.read = drain[d].read
      BY <1>1, HolderKnows, AtIsWork
    <3>2. drain' = [drain EXCEPT ![d] = c]
      BY <2>3 DEF RecordHandle, Step
    <3> HIDE DEF c
    <3> QED
      BY <2>1, <3>1, <3>2
  <2>4. CASE WriteFails(d, r)
    <3> DEFINE c == [drain[d] EXCEPT !.at = "catch"]
    <3>1. c \in DrainWork /\ c.at = "catch" /\ c.on = r /\ c.read = drain[d].read
      BY <1>1, HolderKnows, AtIsWork
    <3>2. drain' = [drain EXCEPT ![d] = c] /\ lost'[r] = lost[r] + 1
      BY <2>4 DEF WriteFails, Step, OutInv, OutboxTypeOK
    <3> HIDE DEF c
    <3> QED
      BY <2>1, <3>1, <3>2
  <2> QED
    BY <2>2, <2>3, <2>4
<1>7. OutboxTypeOK'
  BY <1>1, <1>3, <1>4, <1>6 DEF OutInv, OutboxTypeOK
<1>8. drain'[d] = c
  BY <1>6 DEF OutInv, OutboxTypeOK
<1>9. WorkOK(d)'
  BY <1>1, <1>2, <1>3, <1>6, <1>8, HolderKnows DEF WorkOK, Waiting
<1> QED
  BY <1>1, <1>3, <1>5, <1>6, <1>7, <1>9, HolderMoves

\* The row is retried, or given up after the last attempt.
LEMMA CatchKeeps ==
    ASSUME OutInv, NEW d \in Drain, NEW r \in Row, CatchFailure(d, r)
    PROVE  OutInv'
<1> DEFINE n == attemptsAfter(d, r)
           c == NextRow(d)
<1>1. drain[d].on = r /\ drain[d].at = "catch" /\ drain' = [drain EXCEPT ![d] = c]
      /\ UNCHANGED <<handle, conn, connLock, streak, delivered, lost, drainCrashes, inbounds>>
  BY DEF On, CatchFailure, Step
<1>2. delivered[r] <= lost[r] /\ drain[d].read[r] < MaxAttempts
      /\ drain[d].read[r] \in 0 .. MaxAttempts
  BY <1>1, HolderKnows DEF WorkOK, DrainWork
<1>3. n \in 0 .. MaxAttempts /\ (exhausted(n) \/ n < MaxAttempts)
  BY <1>2, OutboxAssumption DEF attemptsAfter, exhausted
<1>4. c \in DrainWork /\ c.on = NoRow /\ c.at \in {"idle", "loop"}
      /\ \A x \in Row : c.read[x] < MaxAttempts
  BY NextRowIsWork
<1>5. \/ UNCHANGED <<out, tries, due>>
      \/ /\ out' = [out EXCEPT ![r] = IF exhausted(n) THEN "failed" ELSE "pending"]
         /\ tries' = [tries EXCEPT ![r] = n]
         /\ due' = [due EXCEPT ![r] = exhausted(n)]
  BY DEF CatchFailure, Put
<1>6. exhausted(n) \in BOOLEAN
  BY DEF exhausted
<1> HIDE DEF c, n
<1>7. drain'[d] = c
  BY <1>1 DEF OutInv, OutboxTypeOK
<1>8. CASE UNCHANGED <<out, tries, due>>
  <2>1. OutboxTypeOK'
    BY <1>1, <1>4, <1>8 DEF OutInv, OutboxTypeOK
  <2>2. RowOK(r)' /\ WorkOK(d)'
    BY <1>1, <1>4, <1>7, <1>8, HolderKnows DEF RowOK, WorkOK, Waiting
  <2> QED
    BY <1>1, <1>4, <1>8, <2>1, <2>2, HolderMoves
<1>9. CASE /\ out' = [out EXCEPT ![r] = IF exhausted(n) THEN "failed" ELSE "pending"]
           /\ tries' = [tries EXCEPT ![r] = n]
           /\ due' = [due EXCEPT ![r] = exhausted(n)]
  <2>1. /\ out' \in [Row -> {"none", "pending", "sent", "failed", "gone"}]
        /\ tries' \in [Row -> 0 .. MaxAttempts] /\ due' \in [Row -> BOOLEAN]
        /\ out'[r] = (IF exhausted(n) THEN "failed" ELSE "pending") /\ tries'[r] = n
        /\ \A x \in Row \ {r} : out'[x] = out[x] /\ tries'[x] = tries[x]
    BY <1>3, <1>6, <1>9 DEF OutInv, OutboxTypeOK
  <2>2. OutboxTypeOK'
    BY <1>1, <1>4, <2>1 DEF OutInv, OutboxTypeOK
  <2>3. RowOK(r)' /\ WorkOK(d)'
    BY <1>1, <1>2, <1>3, <1>4, <1>7, <2>1, HolderKnows DEF RowOK, WorkOK, Waiting
  <2> QED
    BY <1>1, <1>4, <2>1, <2>2, <2>3, HolderMoves
<1> QED
  BY <1>5, <1>8, <1>9

LEMMA StartKeeps ==
    ASSUME OutInv, NEW d \in Drain, StartDrain(d)
    PROVE  OutInv'
<1> DEFINE c == [at |-> "loop", todo |-> dueRows, on |-> NoRow,
                 read |-> [r \in Row |-> IF r \in dueRows THEN tries[r] ELSE 0]]
<1>1. drain' = [drain EXCEPT ![d] = c]
      /\ UNCHANGED <<out, tries, due, handle, conn, connLock, streak, delivered,
                     lost, drainCrashes, inbounds>>
  BY DEF StartDrain, Step
<1>2. dueRows \subseteq Row /\ \A r \in dueRows : tries[r] < MaxAttempts
  BY DEF dueRows, OutInv, RowOK, Waiting
<1>3. c \in DrainWork /\ c.on = NoRow /\ c.at = "loop"
      /\ \A r \in Row : c.read[r] < MaxAttempts
  BY <1>2, OutboxAssumption DEF DrainWork, OutInv, OutboxTypeOK
<1> HIDE DEF c
<1>4. OutboxTypeOK'
  BY <1>1, <1>3 DEF OutInv, OutboxTypeOK
<1> QED
  BY <1>1, <1>3, <1>4, IdlerMoves

LEMMA CrashKeeps ==
    ASSUME OutInv, NEW d \in Drain, DrainCrashes(d)
    PROVE  OutInv'
<1>1. /\ drain' = [drain EXCEPT ![d] = NoDrainWork]
      /\ connLock' = (IF connLock = d THEN NoDrain ELSE connLock)
      /\ UNCHANGED <<out, tries, due, handle, conn, streak, delivered, lost, inbounds>>
      /\ drainCrashes' \in 0 .. MaxDrainCrash
  BY OutboxAssumption DEF DrainCrashes, Step, OutInv, OutboxTypeOK
<1>2. /\ NoDrainWork \in DrainWork /\ NoDrainWork.on = NoRow /\ NoDrainWork.at = "idle"
      /\ \A r \in Row : NoDrainWork.read[r] < MaxAttempts
  BY OutboxAssumption DEF NoDrainWork, DrainWork
<1>3. OutboxTypeOK'
  BY <1>1, <1>2 DEF OutInv, OutboxTypeOK
<1> QED
  BY <1>1, <1>2, <1>3, IdlerMoves

LEMMA WorldKeeps ==
    ASSUME OutInv,
           \/ \E r \in Row : WriteRow(r) \/ RequestConnection(r) \/ BackoffPasses(r)
           \/ \E r \in Row, s \in {"sent", "failed"} : StatusWebhook(r, s)
           \/ \E s \in {"approved", "declined"} : AnswerConnection(s)
           \/ RevokeConnection \/ InboundMessage
    PROVE  OutInv'
<1>1. UNCHANGED <<tries, drain, delivered, lost, connLock, handle, drainCrashes>>
  BY DEF WriteRow, RequestConnection, BackoffPasses, StatusWebhook, AnswerConnection,
         RevokeConnection, InboundMessage
<1>2. /\ out' \in [Row -> {"none", "pending", "sent", "failed", "gone"}]
      /\ \A r \in Row : Waiting(r)' => Waiting(r)
      /\ connLock # NoDrain =>
            conn' = conn /\ \A r \in Row : out'[r] = "gone" => out[r] = "gone"
  BY DEF WriteRow, RequestConnection, BackoffPasses, StatusWebhook, AnswerConnection,
         RevokeConnection, InboundMessage, Put, Waiting, OutInv, OutboxTypeOK
<1>3. /\ due' \in [Row -> BOOLEAN] /\ streak' \in 0 .. DmCap /\ inbounds' \in 0 .. MaxInbound
      /\ conn' \in {"none", "pending", "approved", "declined", "revoked"}
  <2>1. due \in [Row -> BOOLEAN] /\ streak \in 0 .. DmCap /\ inbounds \in 0 .. MaxInbound
        /\ conn \in {"none", "pending", "approved", "declined", "revoked"}
    BY DEF OutInv, OutboxTypeOK
  <2>2. CASE InboundMessage
    BY <2>1, <2>2, OutboxAssumption DEF InboundMessage
  <2>3. CASE RevokeConnection
    BY <2>1, <2>3 DEF RevokeConnection
  <2>4. ASSUME NEW r \in Row, WriteRow(r) \/ RequestConnection(r) \/ BackoffPasses(r)
        PROVE  /\ due' \in [Row -> BOOLEAN] /\ streak' \in 0 .. DmCap
               /\ inbounds' \in 0 .. MaxInbound
               /\ conn' \in {"none", "pending", "approved", "declined", "revoked"}
    BY <2>1, <2>4 DEF WriteRow, RequestConnection, BackoffPasses
  <2>5. CASE \E r \in Row, s \in {"sent", "failed"} : StatusWebhook(r, s)
    BY <2>1, <2>5 DEF StatusWebhook
  <2>6. CASE \E s \in {"approved", "declined"} : AnswerConnection(s)
    BY <2>1, <2>6 DEF AnswerConnection
  <2> QED
    BY <2>2, <2>3, <2>4, <2>5, <2>6
<1>4. OutboxTypeOK'
  BY <1>1, <1>2, <1>3 DEF OutInv, OutboxTypeOK
<1> QED
  BY <1>1, <1>2, <1>4, RowsMove

LEMMA OutStepInv == OutInv /\ [OutboxNext]_outVars => OutInv'
<1> SUFFICES ASSUME OutInv, [OutboxNext]_outVars
             PROVE  OutInv'
  OBVIOUS
<1>1. CASE UNCHANGED outVars
  BY <1>1 DEF outVars, OutInv, OutboxTypeOK, Alone, RowOK, WorkOK, Waiting
<1>2. ASSUME NEW d \in Drain, NEW r \in Row, RowStep(d, r)
      PROVE  OutInv'
  <2>1. CASE NobodyToSendTo(d, r) \/ HoldForCap(d, r)
    BY <2>1, SetClaimedKeeps DEF NobodyToSendTo, HoldForCap
  <2>2. CASE \E o \in Outcomes : SendChat(d, r, o) \/ SendInvite(d, r, o)
    BY <2>2, SendChatKeeps, SendInviteKeeps
  <2> QED
    BY <1>2, <2>1, <2>2, ClaimKeeps, LockKeeps, AfterSendKeeps, CatchKeeps DEF RowStep
<1> QED
  BY <1>1, <1>2, WorldKeeps, StartKeeps, CrashKeeps DEF OutboxNext

\* The inductive invariant of the outbox holds.
THEOREM OutboxInvariant == OutboxSpec => []OutInv
BY OutInitInv, OutStepInv, PTL DEF OutboxSpec

\* Rows, drains and connections have their types; no attempt beyond the limit.
THEOREM OutboxTypesAreRight == OutboxSpec => []OutboxTypeOK
<1>1. OutInv => OutboxTypeOK
  BY DEF OutInv
<1> QED
  BY <1>1, OutboxInvariant, PTL

\* Each copy beyond the first follows a failure (messaging-delivery.ts 323-331).
THEOREM EveryCopyIsExplained == OutboxSpec => []CopyIsExplained
<1>1. OutInv => CopyIsExplained
  BY DEF OutInv, RowOK, CopyIsExplained
<1> QED
  BY <1>1, OutboxInvariant, PTL

\* An invite goes out while its request is pending (messaging-delivery.ts 262-315).
THEOREM InvitesAreNotStale == OutboxSpec => InviteOnlyWhilePending
<1> DEFINE A == \A r \in Invite : delivered'[r] # delivered[r] =>
                   conn = "pending" /\ out[r] # "gone"
<1>1. OutInv /\ [OutboxNext]_outVars => [A]_outVars
  <2> SUFFICES ASSUME OutInv, OutboxNext, NEW r \in Invite, delivered'[r] # delivered[r]
               PROVE  conn = "pending" /\ out[r] # "gone"
    BY DEF outVars
  <2>1. PICK d \in Drain, x \in Row, o \in Outcomes : SendChat(d, x, o) \/ SendInvite(d, x, o)
    <3>1. PICK d \in Drain, x \in Row : RowStep(d, x)
      <4>1. /\ \A x \in Row : ~WriteRow(x) /\ ~RequestConnection(x) /\ ~BackoffPasses(x)
            /\ \A x \in Row, s \in {"sent", "failed"} : ~StatusWebhook(x, s)
            /\ \A s \in {"approved", "declined"} : ~AnswerConnection(s)
            /\ ~RevokeConnection /\ ~InboundMessage
            /\ \A d \in Drain : ~StartDrain(d) /\ ~DrainCrashes(d)
        BY DEF WriteRow, RequestConnection, BackoffPasses, StatusWebhook, AnswerConnection,
               RevokeConnection, InboundMessage, StartDrain, DrainCrashes
      <4> QED
        BY <4>1 DEF OutboxNext
    <3>2. /\ ~ClaimRow(d, x) /\ ~NobodyToSendTo(d, x) /\ ~HoldForCap(d, x) /\ ~LockInvite(d, x)
          /\ ~RecordHandle(d, x) /\ ~CountStreak(d, x) /\ ~WriteFails(d, x)
          /\ ~CatchFailure(d, x)
      BY DEF ClaimRow, NobodyToSendTo, HoldForCap, LockInvite, RecordHandle, CountStreak,
             WriteFails, CatchFailure
    <3> QED
      BY <3>1, <3>2 DEF RowStep
  <2>2. r \in Row /\ r \notin Chat
    BY OutboxAssumption DEF Row
  <2>3. x = r
    BY <2>1, <2>2 DEF SendChat, SendInvite, Reaches, OutInv, OutboxTypeOK
  <2>4. On(d, "locked", r)
    BY <2>1, <2>2, <2>3 DEF SendChat, SendInvite
  <2> QED
    BY <2>4 DEF On, OutInv, WorkOK
<1> QED
  BY <1>1, OutboxInvariant, PTL DEF OutboxSpec, InviteOnlyWhilePending

-----------------------------------------------------------------------------
(* CloudAgent.                                                             *)

\* Of a row only the generation and the mark of its wake matter here.
Counts == {"gen", "woke"} \subseteq DOMAIN ca /\ ca.gen \in Generation

\* No generation is reported before it exists, and a reported one is marked:
\* the mark is reset only by the follow-up that starts the next.
WakeInv ==
    /\ Counts
    /\ woken \in [Generation -> Nat]
    /\ \A g \in Generation : woken[g] <= 1 /\ (g > ca.gen => woken[g] = 0)
    /\ woken[ca.gen] = 1 => ca.woke

\* The two columns are what they were.
SameWake == Counts' /\ ca'.gen = ca.gen /\ ca'.woke = ca.woke

LEMMA SameWakeKeeps ==
    ASSUME WakeInv, SameWake, woken' = woken
    PROVE  WakeInv'
BY DEF WakeInv, SameWake

\* finishPoll writes columns that were the row's, and marks the wake it queues.
LEMMA FinishKeeps ==
    ASSUME WakeInv, NEW p, NEW data, NEW gone, Finish(p, data, gone),
           {"gen", "woke"} \subseteq DOMAIN data, data.gen = ca.gen, data.woke = ca.woke
    PROVE  WakeInv'
<1>1. CASE ~holds(p)
  BY <1>1 DEF Finish, WakeInv, Counts
<1>2. CASE holds(p)
  <2> DEFINE detached == gone \/ ~attached
             terminal == data.status # "running"
             wakes    == Wakes(terminal, detached)
  <2>1. /\ ca' = [data EXCEPT !.cancel = ~terminal /\ (detached \/ @ \/ poller[p].saw.cancel),
                               !.poll = PollAgain(terminal, Unwanted(p)),
                               !.woke = @ \/ wakes]
        /\ woken' = [woken EXCEPT ![ca.gen] = @ + IF wakes THEN 1 ELSE 0]
    BY <1>2 DEF Finish
  <2>2. Counts' /\ ca'.gen = ca.gen /\ ca'.woke = (ca.woke \/ wakes)
    BY <2>1 DEF WakeInv, Counts
  <2>3. wakes => ~ca.woke
    BY DEF Wakes
  <2> HIDE DEF wakes
  <2>4. CASE wakes
    <3>1. woken[ca.gen] = 0
      BY <2>3, <2>4 DEF WakeInv, Counts, Generation
    <3>2. woken' = [woken EXCEPT ![ca.gen] = 1]
      BY <2>1, <2>4, <3>1 DEF WakeInv, Counts
    <3> QED
      <4>1. woken' \in [Generation -> Nat] /\ ca'.gen = ca.gen /\ ca'.woke
        BY <2>2, <2>4, <3>2 DEF WakeInv
      <4>2. \A g \in Generation : woken'[g] = IF g = ca.gen THEN 1 ELSE woken[g]
        BY <3>2 DEF WakeInv
      <4>3. \A g \in Generation : woken'[g] <= 1 /\ (g > ca.gen => woken'[g] = 0)
        BY <4>2 DEF WakeInv, Counts, Generation
      <4> QED
        BY <2>2, <4>1, <4>3 DEF WakeInv
  <2>5. CASE ~wakes
    <3>1. woken' = woken
      BY <2>1, <2>5 DEF WakeInv, Counts
    <3> QED
      BY <2>2, <2>5, <3>1 DEF WakeInv
  <2> QED
    BY <2>4, <2>5
<1> QED
  BY <1>1, <1>2

LEMMA WrittenKeepsWake ==
    ASSUME Counts, NEW p, NEW status, NEW latest, NEW sent
    PROVE  LET data == Written(p, status, latest, sent)
           IN  {"gen", "woke"} \subseteq DOMAIN data /\ data.gen = ca.gen /\ data.woke = ca.woke
BY DEF Written, Counts

LEMMA WakeInvStep == WakeInv /\ [CloudNext]_caVars => WakeInv'
<1> SUFFICES ASSUME WakeInv, [CloudNext]_caVars PROVE WakeInv'
  OBVIOUS
<1> USE CloudAssumption
<1>0. Counts
  BY DEF WakeInv
<1>1. CASE ReplyTool
  <2>1. Counts' /\ ca'.gen = ca.gen + 1 /\ woken' = woken
    BY <1>0, <1>1 DEF ReplyTool, Counts, Generation
  <2> QED
    BY <1>0, <2>1 DEF WakeInv, Counts, Generation
<1>2. CASE CancelTool
  BY <1>0, <1>2, SameWakeKeeps DEF CancelTool, SameWake, Counts
<1>3. ASSUME NEW p \in Poller,
             MarkLaunch(p) \/ MarkReply(p) \/ RetryPoll(p)
      PROVE  WakeInv'
  <2>1. SameWake /\ woken' = woken
    BY <1>0, <1>3 DEF MarkLaunch, MarkReply, RetryPoll, Mark, SameWake, Counts
  <2> QED
    BY <2>1, SameWakeKeeps
<1>4. ASSUME NEW p \in Poller, CancelLocally(p) \/ TakeRefusal(p)
      PROVE  WakeInv'
  <2>1. PICK status, latest, sent, gone :
           Finish(p, Written(p, status, latest, sent), gone)
    BY <1>4 DEF CancelLocally, TakeRefusal
  <2> QED
    BY <1>0, <2>1, WrittenKeepsWake, FinishKeeps
<1>5. ASSUME NEW p \in Poller, TakeAnswer(p)
      PROVE  WakeInv'
  <2>1. CASE StillAmbiguous(p)
    BY <1>0, <1>5, <2>1, SameWakeKeeps DEF TakeAnswer, SameWake, Counts
  <2>2. CASE ~StillAmbiguous(p)
    <3> DEFINE data == Written(p, poller[p].got.status, poller[p].got.run, poller[p].saw.followup)
               all  == [data EXCEPT !.remote = TRUE, !.cancel = Unwanted(p)]
    <3>1. Finish(p, all, poller[p].gone)
      BY <1>5, <2>2 DEF TakeAnswer
    <3>2. {"gen", "woke"} \subseteq DOMAIN data /\ data.gen = ca.gen /\ data.woke = ca.woke
      BY <1>0, WrittenKeepsWake
    <3>3. {"gen", "woke"} \subseteq DOMAIN all /\ all.gen = ca.gen /\ all.woke = ca.woke
      <4> HIDE DEF data
      <4> QED
        BY <3>2
    <3> HIDE DEF all
    <3> QED
      BY <3>1, <3>3, FinishKeeps
  <2> QED
    BY <2>1, <2>2
<1>6. CASE UNCHANGED <<ca, woken>>
  BY <1>0, <1>6, SameWakeKeeps DEF SameWake, Counts
<1>7. ASSUME NEW p \in Poller,
             \/ ReadAgent(p) \/ ClaimAgent(p) \/ ChooseCall(p) \/ ProviderLaunch(p)
             \/ ProviderRefuses(p) \/ ProviderReply(p) \/ ReleaseLease(p)
             \/ LoseCall(p) \/ PollDies(p)
             \/ \E r \in RemoteRun : ProviderLooks(p, r) \/ ProviderCancels(p, r)
      PROVE  UNCHANGED <<ca, woken>>
  BY <1>7 DEF ReadAgent, ClaimAgent, ChooseCall, ProviderLaunch, ProviderRefuses, ProviderReply,
              ReleaseLease, LoseCall, PollDies, ProviderLooks, ProviderCancels
<1>8. ASSUME \/ \E r \in RemoteRun, s \in {"finished", "failed", "cancelled"} : RemoteEnds(r, s)
             \/ Detach \/ CloudLeaseLapses \/ LateReply \/ UNCHANGED caVars
      PROVE  UNCHANGED <<ca, woken>>
  BY <1>8 DEF RemoteEnds, Detach, CloudLeaseLapses, LateReply, caVars
<1> QED
  BY <1>1, <1>2, <1>3, <1>4, <1>5, <1>6, <1>7, <1>8 DEF CloudNext, PollStep

\* Polls may overlap, die and repeat: the end of each generation is reported to
\* the bot at most once.
THEOREM WakesOnce == CloudSpec => []WokenOnce
<1>1. CloudInit => WakeInv
  BY CloudAssumption DEF CloudInit, Fresh, WakeInv, Counts, Generation
<1>2. WakeInv => WokenOnce
  BY DEF WakeInv, WokenOnce
<1> QED
  BY <1>1, <1>2, WakeInvStep, PTL DEF CloudSpec

-----------------------------------------------------------------------------
(* CloudAgent: the columns, the provider and what the polls know of them. *)

Accepted(r) == remote[r] # "none"

\* A poll names a run that there is.
Names(w) ==
    /\ w.saw.remote => w.saw.latest \in 1..lastRun
    /\ w.at = "answered" => w.got.run \in 1..lastRun /\ w.got.status \in AgentStatus
    /\ w.at \in {"reply", "get", "cancel"} => w.saw.remote

\* The provider numbers the runs it accepts; the row and the polls name these.
RemoteAgent ==
    /\ \A r \in RemoteRun : Accepted(r) <=> r <= lastRun
    /\ ca.remote => ca.latest \in 1..lastRun
    /\ \A p \in Poller : Names(poller[p])

CloudTypes == CloudTypeOK /\ RemoteAgent

LEMMA SetColumns ==
    ASSUME NEW c \in AgentRow, NEW v \in BOOLEAN
    PROVE  /\ [c EXCEPT !.remote = v] \in AgentRow
           /\ [c EXCEPT !.dispatched = v] \in AgentRow
           /\ [c EXCEPT !.fdisp = v] \in AgentRow
           /\ [c EXCEPT !.cancel = v] \in AgentRow
           /\ [c EXCEPT !.poll = v] \in AgentRow
BY ZenonT(30) DEF AgentRow

LEMMA SeenIsRead == ASSUME NEW c \in AgentRow PROVE Seen(c) \in ReadRow
BY DEF AgentRow, ReadRow, Seen

LEMMA PollRecs ==
    ASSUME NEW w \in PollRec
    PROVE  /\ \A s \in {"claimed", "answered", "refused", "retry", "finally"} \cup Calls :
                 [w EXCEPT !.at = s] \in PollRec
           /\ [w EXCEPT !.cur = FALSE] \in PollRec
           /\ \A b \in BOOLEAN : [w EXCEPT !.at = "claimed", !.gone = b] \in PollRec
           /\ \A r \in 0..MaxRun, s \in AgentStatus \cup {"none"} :
                 [w EXCEPT !.at = "answered", !.got = [run |-> r, status |-> s]] \in PollRec
<1>1. ASSUME NEW s \in {"claimed", "answered", "refused", "retry", "finally"} \cup Calls
      PROVE  [w EXCEPT !.at = s] \in PollRec
  BY ZenonT(30) DEF PollRec, Calls
<1>2. [w EXCEPT !.cur = FALSE] \in PollRec
  BY ZenonT(30) DEF PollRec
<1>3. ASSUME NEW b \in BOOLEAN PROVE [w EXCEPT !.at = "claimed", !.gone = b] \in PollRec
  <2>1. ASSUME NEW u \in PollRec PROVE [u EXCEPT !.gone = b] \in PollRec
    BY ZenonT(30) DEF PollRec
  <2> QED
    BY <1>1, <2>1
<1>4. ASSUME NEW r \in 0..MaxRun, NEW s \in AgentStatus \cup {"none"}
      PROVE  [w EXCEPT !.at = "answered", !.got = [run |-> r, status |-> s]] \in PollRec
  <2> DEFINE g == [run |-> r, status |-> s]
  <2>0. g \in [run : 0..MaxRun, status : AgentStatus \cup {"none"}]
    OBVIOUS
  <2> HIDE DEF g
  <2>1. ASSUME NEW u \in PollRec PROVE [u EXCEPT !.got = g] \in PollRec
    BY <2>0, ZenonT(30) DEF PollRec
  <2> QED
    BY <1>1, <2>1 DEF g
<1> QED
  BY <1>1, <1>2, <1>3, <1>4

LEMMA RestingIsPoll == Resting \in PollRec
<1> USE CloudAssumption
<1>1. Fresh \in AgentRow
  BY DEF Fresh, AgentRow, AgentStatus, Generation
<1>2. Seen(Fresh) \in ReadRow
  BY <1>1, SeenIsRead
<1>3. NoAnswer \in [run : 0..MaxRun, status : AgentStatus \cup {"none"}]
  BY DEF NoAnswer
<1> HIDE DEF Fresh, NoAnswer
<1> QED
  BY <1>2, <1>3 DEF Resting, PollRec

LEMMA RunsAreCounted ==
    /\ IsFiniteSet({r \in RemoteRun : remote[r] # "none"})
    /\ lastRun \in 0..MaxRun
<1> DEFINE U == {r \in RemoteRun : remote[r] # "none"}
<1>1. IsFiniteSet(RemoteRun) /\ Cardinality(RemoteRun) = MaxRun
  BY CloudAssumption, FS_Interval DEF RemoteRun
<1>2. U \in SUBSET RemoteRun
  OBVIOUS
<1> HIDE DEF U
<1>3. IsFiniteSet(U) /\ Cardinality(U) <= MaxRun
  BY <1>1, <1>2, FS_Subset
<1>4. Cardinality(U) \in Nat
  BY <1>3, FS_CardinalityType
<1> QED
  BY <1>3, <1>4, CloudAssumption DEF U, lastRun

\* Runs that are numbered from 1 are as many as the last of them.
LEMMA NumberedRuns ==
    ASSUME NEW f, NEW n \in 0..MaxRun,
           \A r \in RemoteRun : f[r] # "none" <=> r <= n
    PROVE  Cardinality({r \in RemoteRun : f[r] # "none"}) = n
<1>1. {r \in RemoteRun : f[r] # "none"} = 1..n
  BY CloudAssumption DEF RemoteRun
<1>2. Cardinality(1..n) = n
  BY FS_Interval
<1> QED
  BY <1>1, <1>2

LEMMA SameRuns ==
    ASSUME \A r \in RemoteRun : Accepted(r)' <=> Accepted(r)
    PROVE  lastRun' = lastRun
<1>1. {r \in RemoteRun : remote'[r] # "none"}
        = {r \in RemoteRun : remote[r] # "none"}
  BY DEF Accepted
<1> QED
  BY <1>1 DEF lastRun

\* Bumped polls are polls.
LEMMA BumpedPolls ==
    ASSUME NEW ps \in [Poller -> PollRec]
    PROVE  /\ Bumped(ps) \in [Poller -> PollRec]
           /\ \A p \in Poller : /\ ~ Bumped(ps)[p].cur /\ Bumped(ps)[p].at = ps[p].at
                                /\ Bumped(ps)[p].saw = ps[p].saw /\ Bumped(ps)[p].got = ps[p].got
<1>1. \A p \in Poller : ps[p] \in PollRec
  OBVIOUS
<1>2. Bumped(ps) \in [Poller -> PollRec]
  BY <1>1, PollRecs DEF Bumped
<1>3. ASSUME NEW p \in Poller
      PROVE  /\ ~ Bumped(ps)[p].cur /\ Bumped(ps)[p].at = ps[p].at
             /\ Bumped(ps)[p].saw = ps[p].saw /\ Bumped(ps)[p].got = ps[p].got
  <2>1. Bumped(ps)[p] = [ps[p] EXCEPT !.cur = FALSE]
    BY DEF Bumped
  <2> QED
    BY <1>1, <2>1 DEF PollRec
<1> QED
  BY <1>2, <1>3

LEMMA WrittenIsRow ==
    ASSUME CloudTypeOK, NEW p \in Poller, NEW status \in AgentStatus, NEW latest \in 0..MaxRun,
           NEW sent \in BOOLEAN
    PROVE  /\ Written(p, status, latest, sent) \in AgentRow
           /\ Written(p, status, latest, sent).status = status /\ Written(p, status, latest, sent).latest = latest /\ Written(p, status, latest, sent).remote = ca.remote
           /\ Written(p, status, latest, sent).dispatched = ca.dispatched /\ Written(p, status, latest, sent).gen = ca.gen
           /\ Written(p, status, latest, sent).followup = (ca.followup /\ ~ sent) /\ Written(p, status, latest, sent).fdisp = (ca.fdisp /\ ~ sent)
<1>1. poller[p] \in PollRec /\ poller[p].saw \in ReadRow /\ poller[p].saw.remote \in BOOLEAN
  BY DEF CloudTypeOK, PollRec, ReadRow
<1> DEFINE b == poller[p].saw.remote
<1>2. b \in BOOLEAN
  BY <1>1
<1>3. ca \in AgentRow
  BY DEF CloudTypeOK
<1>4. Written(p, status, latest, sent) =
        [ca EXCEPT !.request = @ /\ b, !.status = status,
                   !.latest = latest, !.cancel = FALSE,
                   !.followup = IF sent THEN FALSE ELSE @,
                   !.fdisp = IF sent THEN FALSE ELSE @]
  BY DEF Written
<1> HIDE DEF b
<1> DEFINE q == ca.request /\ b
           f == IF sent THEN FALSE ELSE ca.followup
           d == IF sent THEN FALSE ELSE ca.fdisp
<1>5. /\ q \in BOOLEAN /\ f \in BOOLEAN /\ d \in BOOLEAN
      /\ f = (ca.followup /\ ~ sent) /\ d = (ca.fdisp /\ ~ sent)
  BY <1>2, <1>3 DEF AgentRow
<1>6. Written(p, status, latest, sent) =
        [ca EXCEPT !.request = q, !.status = status, !.latest = latest, !.cancel = FALSE,
                   !.followup = f, !.fdisp = d]
  BY <1>3, <1>4 DEF AgentRow
<1> DEFINE x == Written(p, status, latest, sent)
<1> HIDE DEF q, f, d, x
<1>7. x = [ca EXCEPT !.request = q, !.status = status, !.latest = latest, !.cancel = FALSE,
                      !.followup = f, !.fdisp = d]
  BY <1>6 DEF x
<1>8. /\ \A y \in AgentRow : [y EXCEPT !.request = q] \in AgentRow
      /\ \A y \in AgentRow : [y EXCEPT !.followup = f] \in AgentRow
      /\ \A y \in AgentRow : [y EXCEPT !.status = status] \in AgentRow
      /\ \A y \in AgentRow : [y EXCEPT !.latest = latest] \in AgentRow
  BY <1>5, ZenonT(30) DEF AgentRow
<1>9. x \in AgentRow
  BY <1>3, <1>5, <1>7, <1>8, SetColumns
<1>10. /\ x.status = status /\ x.latest = latest /\ x.remote = ca.remote
       /\ x.dispatched = ca.dispatched /\ x.gen = ca.gen /\ x.cancel = FALSE
       /\ x.followup = f /\ x.fdisp = d
  BY <1>3, <1>7 DEF AgentRow
<1> QED
  BY <1>5, <1>9, <1>10 DEF x

\* What finishPoll writes, when the row is still the poll's.
LEMMA FinishWrites ==
    ASSUME CloudTypeOK, NEW p \in Poller, NEW data \in AgentRow, NEW gone \in BOOLEAN,
           holds(p), Finish(p, data, gone)
    PROVE  /\ ca' \in AgentRow
           /\ ca'.status = data.status /\ ca'.remote = data.remote /\ ca'.latest = data.latest
           /\ ca'.dispatched = data.dispatched /\ ca'.followup = data.followup
           /\ ca'.fdisp = data.fdisp /\ ca'.gen = data.gen
           /\ ca'.poll = (data.status = "running")
           /\ woken' \in [Generation -> Nat]
           /\ caLease' = NoPoller /\ caLapsed' = FALSE
           /\ poller' \in [Poller -> PollRec]
           /\ \A q \in Poller :
                 /\ ~ poller'[q].cur
                 /\ q # p => /\ poller'[q].at = poller[q].at /\ poller'[q].saw = poller[q].saw
                             /\ poller'[q].got = poller[q].got
                 /\ q = p => poller'[q].at = "idle" /\ ~ poller'[q].saw.remote
<1> DEFINE detached == gone \/ ~ attached
           terminal == data.status # "running"
           wakes == Wakes(terminal, detached)
           saw == poller[p].saw
           c == ~ terminal /\ (detached \/ data.cancel \/ saw.cancel)
           w == data.woke \/ wakes
<1>1. /\ ca' = [data EXCEPT !.cancel = ~ terminal /\ (detached \/ @ \/ saw.cancel),
                             !.poll = PollAgain(terminal, Unwanted(p)), !.woke = @ \/ wakes]
      /\ woken' = [woken EXCEPT ![ca.gen] = @ + IF wakes THEN 1 ELSE 0]
      /\ caLease' = NoPoller /\ caLapsed' = FALSE
      /\ poller' = Bumped([poller EXCEPT ![p] = Resting])
  BY DEF Finish
<1>2. /\ saw.cancel \in BOOLEAN /\ data.cancel \in BOOLEAN /\ data.woke \in BOOLEAN
      /\ detached \in BOOLEAN /\ wakes \in BOOLEAN
  BY DEF CloudTypeOK, PollRec, ReadRow, AgentRow, Wakes
<1>3. ca' = [data EXCEPT !.cancel = c, !.poll = ~ terminal, !.woke = w]
  BY <1>1 DEF PollAgain, AgentRow
<1>4. c \in BOOLEAN /\ w \in BOOLEAN /\ (~ terminal) \in BOOLEAN /\ (~ terminal) = (data.status = "running")
  OBVIOUS
<1> DEFINE t == ~ terminal
<1>t. t \in BOOLEAN /\ t = (data.status = "running") /\ ca' = [data EXCEPT !.cancel = c, !.poll = t, !.woke = w]
  BY <1>3
<1> HIDE DEF c, w, t
<1>5. /\ \A x \in AgentRow, v \in BOOLEAN : [x EXCEPT !.woke = v] \in AgentRow
  BY ZenonT(30) DEF AgentRow
<1>6. ca' \in AgentRow
  BY <1>4, <1>5, <1>t, SetColumns
<1>7. /\ ca'.status = data.status /\ ca'.remote = data.remote /\ ca'.latest = data.latest
      /\ ca'.dispatched = data.dispatched /\ ca'.followup = data.followup
      /\ ca'.fdisp = data.fdisp /\ ca'.gen = data.gen
      /\ ca'.poll = (data.status = "running")
  BY <1>t DEF AgentRow
<1>8. woken' \in [Generation -> Nat]
  <2>1. woken \in [Generation -> Nat]
    BY DEF CloudTypeOK
  <2> DEFINE k == IF wakes THEN 1 ELSE 0
  <2>2. k \in Nat /\ ca.gen \in Generation
    BY DEF CloudTypeOK, AgentRow
  <2>3. woken' = [woken EXCEPT ![ca.gen] = @ + k]
    BY <1>1
  <2> HIDE DEF k
  <2>4. woken[ca.gen] + k \in Nat
    BY <2>1, <2>2
  <2> QED
    BY <2>1, <2>3, <2>4
<1>9. [poller EXCEPT ![p] = Resting] \in [Poller -> PollRec]
  BY RestingIsPoll DEF CloudTypeOK
<1>10. Resting.at = "idle" /\ ~ Resting.saw.remote
  BY DEF Resting, Seen, Fresh
<1>11. \A q \in Poller : [poller EXCEPT ![p] = Resting][q] = IF q = p THEN Resting ELSE poller[q]
  BY DEF CloudTypeOK
<1> QED
  BY <1>1, <1>6, <1>7, <1>8, <1>9, <1>10, <1>11, BumpedPolls

\* One poll moves; the others do not.
OnlyPoll(p) == \A q \in Poller \ {p} : poller'[q] = poller[q]

LEMMA SetPoll ==
    ASSUME CloudTypeOK, NEW p \in Poller, NEW w \in PollRec, Set(p, w)
    PROVE  poller' \in [Poller -> PollRec] /\ poller'[p] = w /\ OnlyPoll(p)
BY DEF CloudTypeOK, Set, OnlyPoll

LEMMA ToPoll ==
    ASSUME CloudTypeOK, NEW p \in Poller,
           NEW s \in {"claimed", "answered", "refused", "retry", "finally"} \cup Calls, To(p, s)
    PROVE  /\ poller' \in [Poller -> PollRec] /\ OnlyPoll(p)
           /\ poller'[p].at = s /\ poller'[p].saw = poller[p].saw
           /\ poller'[p].cur = poller[p].cur /\ poller'[p].got = poller[p].got
<1>1. poller[p] \in PollRec
  BY DEF CloudTypeOK
<1>2. [poller[p] EXCEPT !.at = s] \in PollRec
  BY <1>1, PollRecs
<1>3. poller' \in [Poller -> PollRec] /\ poller'[p] = [poller[p] EXCEPT !.at = s] /\ OnlyPoll(p)
  BY <1>2, SetPoll DEF To
<1> QED
  BY <1>1, <1>3 DEF PollRec

LEMMA GotPoll ==
    ASSUME CloudTypeOK, NEW p \in Poller, NEW r \in 0..MaxRun, Got(p, r),
           statusOf(remote'[r]) \in AgentStatus \cup {"none"}
    PROVE  /\ poller' \in [Poller -> PollRec] /\ OnlyPoll(p)
           /\ poller'[p].at = "answered" /\ poller'[p].saw = poller[p].saw
           /\ poller'[p].cur = poller[p].cur
           /\ poller'[p].got.run = r /\ poller'[p].got.status = statusOf(remote'[r])
<1> DEFINE g == [run |-> r, status |-> statusOf(remote'[r])]
           w == [poller[p] EXCEPT !.at = "answered", !.got = g]
<1>1. poller[p] \in PollRec
  BY DEF CloudTypeOK
<1>2. w \in PollRec
  BY <1>1, PollRecs
<1>3. poller' \in [Poller -> PollRec] /\ poller'[p] = w /\ OnlyPoll(p)
  <2> HIDE DEF w
  <2>1. Set(p, w)
    BY DEF Got, w
  <2> QED
    BY <1>2, <2>1, SetPoll
<1>4. g.run = r /\ g.status = statusOf(remote'[r])
  OBVIOUS
<1> HIDE DEF g
<1>5. w.at = "answered" /\ w.saw = poller[p].saw /\ w.cur = poller[p].cur /\ w.got = g
  BY <1>1 DEF PollRec
<1> QED
  BY <1>3, <1>4, <1>5

\* A poll that gives up or starts again owes nothing.
LEMMA RestPoll ==
    ASSUME CloudTypeOK, NEW p \in Poller, Set(p, Resting)
    PROVE  /\ poller' \in [Poller -> PollRec] /\ OnlyPoll(p)
           /\ poller'[p].at = "idle" /\ ~ poller'[p].saw.remote /\ ~ poller'[p].cur
<1>1. Resting.at = "idle" /\ ~ Resting.saw.remote /\ ~ Resting.cur
  BY DEF Resting, Seen, Fresh
<1> QED
  BY <1>1, RestingIsPoll, SetPoll

LEMMA ReadPoll ==
    ASSUME CloudTypeOK, NEW p \in Poller, ReadAgent(p)
    PROVE  /\ poller' \in [Poller -> PollRec] /\ OnlyPoll(p)
           /\ poller'[p].at = "read" /\ poller'[p].saw = Seen(ca) /\ poller'[p].cur
<1> DEFINE s == Seen(ca)
           w == [Resting EXCEPT !.at = "read", !.saw = s, !.cur = TRUE]
<1>1. s \in ReadRow
  BY SeenIsRead DEF CloudTypeOK
<1> HIDE DEF s
<1>2. /\ \A y \in PollRec : [y EXCEPT !.at = "read"] \in PollRec
      /\ \A y \in PollRec : [y EXCEPT !.saw = s] \in PollRec
      /\ \A y \in PollRec : [y EXCEPT !.cur = TRUE] \in PollRec
  BY <1>1, ZenonT(30) DEF PollRec
<1>3. w \in PollRec
  BY <1>2, RestingIsPoll
<1>4. w.at = "read" /\ w.saw = s /\ w.cur
  BY RestingIsPoll DEF PollRec
<1>5. Set(p, w)
  BY DEF ReadAgent, s
<1> HIDE DEF w
<1> QED
  BY <1>3, <1>4, <1>5, SetPoll DEF s

LEMMA ClaimPoll ==
    ASSUME CloudTypeOK, NEW p \in Poller, claimMatches(p), ClaimAgent(p)
    PROVE  /\ poller' \in [Poller -> PollRec] /\ OnlyPoll(p)
           /\ poller'[p].at = "claimed" /\ poller'[p].saw = poller[p].saw
           /\ poller'[p].cur = poller[p].cur
<1> DEFINE b == ~ attached
           w == [poller[p] EXCEPT !.at = "claimed", !.gone = b]
<1>1. poller[p] \in PollRec /\ b \in BOOLEAN
  BY DEF CloudTypeOK
<1> HIDE DEF b
<1>2. w \in PollRec
  BY <1>1, PollRecs
<1>3. w.at = "claimed" /\ w.saw = poller[p].saw /\ w.cur = poller[p].cur
  BY <1>1 DEF PollRec
<1>4. Set(p, w)
  BY DEF ClaimAgent, b
<1> HIDE DEF w
<1> QED
  BY <1>2, <1>3, <1>4, SetPoll

Statuses == {"none", "running", "stopping", "finished", "failed", "cancelled"}

\* A step of one poll keeps what is known of the remote agent.
LEMMA PollKeepsRemote ==
    ASSUME RemoteAgent, NEW p \in Poller, OnlyPoll(p), lastRun' \in Nat, lastRun \in Nat,
           lastRun' >= lastRun, \A r \in RemoteRun : Accepted(r)' <=> r <= lastRun',
           ca'.remote = ca.remote /\ ca'.latest = ca.latest,
           Names(poller[p])'
    PROVE  RemoteAgent'
<1>1. \A n \in 1..lastRun : n \in 1..lastRun'
  OBVIOUS
<1> HIDE DEF lastRun
<1> QED
  BY <1>1, Zenon DEF RemoteAgent, OnlyPoll, Names

LEMMA BumpKeepsRemote ==
    ASSUME RemoteAgent, UNCHANGED remote, ca'.remote => ca'.latest \in 1..lastRun,
           \A q \in Poller : \/ /\ poller'[q].at = poller[q].at /\ poller'[q].saw = poller[q].saw
                                /\ poller'[q].got = poller[q].got
                             \/ poller'[q].at = "idle" /\ ~ poller'[q].saw.remote
    PROVE  RemoteAgent'
<1>1. lastRun' = lastRun
  BY SameRuns DEF Accepted
<1> HIDE DEF lastRun
<1> QED
  BY <1>1 DEF RemoteAgent, Accepted, Names

\* The run a poll asks about is there.
LEMMA LooksAtRun ==
    ASSUME CloudTypes, NEW p \in Poller, NEW r \in RemoteRun, poller[p].at \in {"get", "cancel"},
           r \in TargetRun(p)
    PROVE  poller[p].saw.remote /\ Accepted(r) /\ r \in 1..lastRun
<1>1. lastRun \in Nat /\ poller[p].saw.latest \in Nat
  BY RunsAreCounted DEF CloudTypes, CloudTypeOK, PollRec, ReadRow
<1>2. poller[p].saw.remote /\ poller[p].saw.latest \in 1..lastRun
  BY DEF CloudTypes, RemoteAgent, Names
<1> HIDE DEF lastRun
<1>3. r \in 1..lastRun
  BY <1>1, <1>2 DEF TargetRun
<1> QED
  BY <1>2, <1>3 DEF CloudTypes, RemoteAgent, RemoteRun

\* A new run of the provider.
LEMMA NewRunTypes ==
    ASSUME CloudTypes, lastRun < MaxRun, remote' = [remote EXCEPT ![lastRun + 1] = "running"]
    PROVE  /\ lastRun + 1 \in RemoteRun /\ lastRun' = lastRun + 1
           /\ remote' \in [RemoteRun -> Statuses] /\ remote'[lastRun + 1] = "running"
           /\ \A r \in RemoteRun : r # lastRun + 1 => remote'[r] = remote[r]
           /\ \A r \in RemoteRun : Accepted(r)' <=> r <= lastRun'
<1> DEFINE n == lastRun + 1
<1>1. lastRun \in 0..MaxRun /\ n \in 0..MaxRun /\ n \in RemoteRun
  BY RunsAreCounted, CloudAssumption DEF RemoteRun
<1>2. \A r \in RemoteRun : Accepted(r) <=> r <= lastRun
  BY DEF CloudTypes, RemoteAgent
<1>3. /\ remote' \in [RemoteRun -> Statuses] /\ remote'[n] = "running"
      /\ \A r \in RemoteRun : r # n => remote'[r] = remote[r]
  <2> HIDE DEF lastRun
  <2> QED
    BY <1>1 DEF CloudTypes, CloudTypeOK, Statuses
<1>4. \A r \in RemoteRun : remote'[r] # "none" <=> r <= n
  <2> HIDE DEF lastRun
  <2> QED
    BY <1>1, <1>2, <1>3 DEF Accepted, RemoteRun
<1>5. lastRun' = n
  BY <1>1, <1>4, NumberedRuns DEF lastRun
<1> QED
  BY <1>1, <1>3, <1>4, <1>5 DEF Accepted

LEMMA CloudInitTypes == CloudInit => CloudTypes
<1> SUFFICES ASSUME CloudInit PROVE CloudTypes
  OBVIOUS
<1> USE CloudAssumption
<1>1. Fresh \in AgentRow /\ ~ Fresh.remote
  BY DEF Fresh, AgentRow, AgentStatus, Generation
<1>2. /\ Resting \in PollRec /\ Resting.at = "idle" /\ ~ Resting.saw.remote
  BY RestingIsPoll DEF Resting, Seen, Fresh
<1>3. poller \in [Poller -> PollRec] /\ \A p \in Poller : poller[p] = Resting
  BY <1>2 DEF CloudInit
<1>n. /\ MaxReply \in Nat /\ MaxCancel \in Nat /\ MaxRun \in Nat /\ MaxLoss \in Nat
  OBVIOUS
<1>r. remote \in [RemoteRun -> {"none", "running", "stopping", "finished", "failed",
                                "cancelled"}]
  BY DEF CloudInit
<1>w. woken \in [Generation -> Nat] /\ sentReplies \in [Generation -> Nat]
  BY DEF CloudInit
<1>4. CloudTypeOK
  <2>1. cancels \in 0..MaxCancel /\ losses \in 0..MaxLoss
    BY <1>n DEF CloudInit
  <2>2. /\ ca \in AgentRow /\ caLease \in Poller \cup {NoPoller} /\ caLapsed \in BOOLEAN
        /\ attached \in BOOLEAN /\ staleClaim \in BOOLEAN /\ dropped \in BOOLEAN
        /\ unheard \in BOOLEAN
    BY <1>1, Zenon DEF CloudInit
  <2> QED
    BY <1>3, <1>r, <1>w, <2>1, <2>2 DEF CloudTypeOK
<1>5. RemoteAgent
  <2>1. \A r \in RemoteRun : remote[r] = "none"
    BY DEF CloudInit
  <2>2. \A r \in RemoteRun : remote[r] # "none" <=> r <= 0
    BY <2>1 DEF RemoteRun
  <2>3. lastRun = 0
    BY <1>n, <2>2, NumberedRuns DEF lastRun
  <2> HIDE DEF lastRun
  <2> QED
    BY <1>1, <1>2, <1>3, <2>2, <2>3 DEF CloudInit, RemoteAgent, Names, Accepted
<1> QED
  BY <1>4, <1>5 DEF CloudTypes

\* The steps of a poll that write neither the row nor the provider's runs.
LEMMA QuietStepTypes ==
    ASSUME CloudTypes, NEW p \in Poller,
           \/ ReadAgent(p) \/ ClaimAgent(p) \/ ChooseCall(p) \/ LoseCall(p) \/ PollDies(p)
           \/ ReleaseLease(p) \/ \E r \in RemoteRun : ProviderLooks(p, r)
    PROVE  CloudTypes'
<1> USE CloudAssumption
<1>0. CloudTypeOK /\ RemoteAgent /\ poller[p] \in PollRec
  BY DEF CloudTypes, CloudTypeOK
<1>a. UNCHANGED <<ca, attached, remote, woken, sentReplies, cancels>>
  BY DEF ReadAgent, ClaimAgent, ChooseCall, LoseCall, PollDies, ReleaseLease, ProviderLooks
<1>b. caLease' \in {caLease, NoPoller, p} /\ caLapsed' \in {caLapsed, FALSE}
  BY DEF ReadAgent, ClaimAgent, ChooseCall, LoseCall, PollDies, ReleaseLease, ProviderLooks
<1>c. /\ staleClaim' \in {staleClaim, staleClaim \/ poller[p].saw # Seen(ca)}
      /\ dropped' \in {dropped, dropped \/ At(p, "reply")}
      /\ unheard' \in {unheard, unheard \/ (At(p, "refused") /\ poller[p].saw.followup)}
  BY DEF ReadAgent, ClaimAgent, ChooseCall, LoseCall, PollDies, ReleaseLease, ProviderLooks
<1>d. losses' \in 0..MaxLoss
  BY <1>0 DEF CloudTypeOK, ReadAgent, ClaimAgent, ChooseCall, LoseCall, PollDies, ReleaseLease,
              ProviderLooks
<1>1. /\ UNCHANGED <<ca, attached, remote, woken, sentReplies, cancels>>
      /\ caLease' \in Poller \cup {NoPoller} /\ caLapsed' \in BOOLEAN
      /\ staleClaim' \in BOOLEAN /\ dropped' \in BOOLEAN /\ losses' \in 0..MaxLoss
      /\ unheard' \in BOOLEAN
  BY <1>0, <1>a, <1>b, <1>c, <1>d DEF CloudTypeOK
<1>r. lastRun' = lastRun /\ \A r \in RemoteRun : Accepted(r)' <=> Accepted(r)
  BY <1>1, SameRuns DEF Accepted
<1>s. lastRun \in Nat
  BY RunsAreCounted
<1> HIDE DEF lastRun
<1>p. Names(poller[p]) /\ (ca.remote => ca.latest \in 1..lastRun)
  BY <1>0 DEF RemoteAgent
<1>2. poller' \in [Poller -> PollRec] /\ OnlyPoll(p) /\ Names(poller'[p])
  <2>1. CASE ReadAgent(p)
    BY <1>0, <1>p, <2>1, ReadPoll DEF Seen, Names
  <2>2. CASE ClaimAgent(p)
    <3>1. CASE claimMatches(p)
      BY <1>0, <1>p, <2>2, <3>1, ClaimPoll DEF Names
    <3>2. CASE ~ claimMatches(p)
      BY <1>0, <2>2, <3>2, RestPoll DEF ClaimAgent, Names
    <3> QED
      BY <3>1, <3>2
  <2>3. CASE ChooseCall(p)
    <3>1. poller[p].saw.remote /\ (To(p, "cancel") \/ To(p, "get"))
      BY <2>3 DEF ChooseCall
    <3> QED
      BY <1>0, <1>p, <3>1, ToPoll DEF Names, Calls
  <2>4. CASE LoseCall(p)
    BY <1>0, <1>p, <2>4, ToPoll DEF LoseCall, Names
  <2>5. CASE PollDies(p)
    BY <1>0, <2>5, RestPoll DEF PollDies, Names
  <2>6. CASE ReleaseLease(p)
    BY <1>0, <2>6, RestPoll DEF ReleaseLease, Names
  <2>7. ASSUME NEW r \in RemoteRun, ProviderLooks(p, r)
        PROVE  poller' \in [Poller -> PollRec] /\ OnlyPoll(p) /\ Names(poller'[p])
    <3>1. r \in 1..lastRun /\ remote'[r] = remote[r] /\ Accepted(r) /\ Got(p, r)
      BY <2>7, LooksAtRun DEF ProviderLooks, At
    <3>2. statusOf(remote'[r]) \in AgentStatus
      BY <1>0, <3>1 DEF CloudTypeOK, statusOf, AgentStatus, Accepted
    <3>3. /\ poller' \in [Poller -> PollRec] /\ OnlyPoll(p)
          /\ poller'[p].at = "answered" /\ poller'[p].saw = poller[p].saw
          /\ poller'[p].got.run = r /\ poller'[p].got.status = statusOf(remote'[r])
      BY <1>0, <3>1, <3>2, GotPoll DEF RemoteRun
    <3> QED
      BY <1>p, <3>1, <3>2, <3>3 DEF Names
  <2> QED
    BY <2>1, <2>2, <2>3, <2>4, <2>5, <2>6, <2>7
<1>3. CloudTypeOK'
  BY <1>0, <1>1, <1>2 DEF CloudTypeOK
<1>4. Names(poller[p])'
  BY <1>2, <1>r DEF Names
<1>5. RemoteAgent'
  <2>1. \A r \in RemoteRun : Accepted(r)' <=> r <= lastRun'
    BY <1>0, <1>r DEF RemoteAgent
  <2> QED
    BY <1>0, <1>1, <1>2, <1>4, <1>r, <1>s, <2>1, PollKeepsRemote
<1> QED
  BY <1>3, <1>5 DEF CloudTypes

\* finishPoll, with columns that name a run there is.
LEMMA FinishTypes ==
    ASSUME CloudTypes, NEW p \in Poller, NEW data \in AgentRow,
           data.remote => data.latest \in 1..lastRun, Finish(p, data, poller[p].gone),
           UNCHANGED <<attached, remote, sentReplies, staleClaim, dropped, cancels, losses>>,
           unheard' \in BOOLEAN
    PROVE  CloudTypes'
<1> USE CloudAssumption
<1>0. CloudTypeOK /\ RemoteAgent /\ poller[p].gone \in BOOLEAN
  BY DEF CloudTypes, CloudTypeOK, PollRec
<1>r. lastRun' = lastRun /\ (\A r \in RemoteRun : Accepted(r)' <=> Accepted(r)) /\ lastRun \in Nat
  BY SameRuns, RunsAreCounted DEF Accepted
<1> HIDE DEF lastRun
<1>1. CASE holds(p)
  <2>1. /\ ca' \in AgentRow /\ ca'.remote = data.remote /\ ca'.latest = data.latest
        /\ woken' \in [Generation -> Nat]
        /\ caLease' = NoPoller /\ caLapsed' = FALSE /\ poller' \in [Poller -> PollRec]
        /\ \A q \in Poller : /\ q # p => /\ poller'[q].at = poller[q].at
                                         /\ poller'[q].saw = poller[q].saw
                                         /\ poller'[q].got = poller[q].got
                             /\ q = p => poller'[q].at = "idle" /\ ~ poller'[q].saw.remote
    BY <1>0, <1>1, FinishWrites
  <2>2. RemoteAgent'
    BY <1>0, <2>1, BumpKeepsRemote
  <2>3. CloudTypeOK'
    BY <1>0, <2>1 DEF CloudTypeOK
  <2> QED
    BY <2>2, <2>3 DEF CloudTypes
<1>2. CASE ~ holds(p)
  <2>1. To(p, "finally") /\ UNCHANGED <<ca, woken, caLease, caLapsed>>
    BY <1>2 DEF Finish
  <2>2. /\ poller' \in [Poller -> PollRec] /\ OnlyPoll(p)
        /\ poller'[p].at = "finally" /\ poller'[p].saw = poller[p].saw
    BY <1>0, <2>1, ToPoll
  <2>3. Names(poller[p])'
    BY <1>0, <1>r, <2>2 DEF RemoteAgent, Names
  <2>4. RemoteAgent'
    BY <1>0, <1>r, <2>1, <2>2, <2>3, PollKeepsRemote DEF RemoteAgent
  <2>5. CloudTypeOK'
    BY <1>0, <2>1, <2>2 DEF CloudTypeOK
  <2> QED
    BY <2>4, <2>5 DEF CloudTypes
<1> QED
  BY <1>1, <1>2

\* What a poll writes to the row, by the step that writes it.
CancelData(p) == Written(p, "cancelled", ca.latest, poller[p].saw.remote)
RefuseData(p) == Written(p, "failed", ca.latest, poller[p].saw.followup)
AnswerData(p) == Written(p, poller[p].got.status, poller[p].got.run, poller[p].saw.followup)

LEMMA LocalData ==
    ASSUME CloudTypeOK, NEW p \in Poller
    PROVE  /\ CancelData(p) \in AgentRow /\ RefuseData(p) \in AgentRow
           /\ CancelData(p).remote = ca.remote /\ RefuseData(p).remote = ca.remote
           /\ CancelData(p).latest = ca.latest /\ RefuseData(p).latest = ca.latest
           /\ CancelData(p).status = "cancelled" /\ RefuseData(p).status = "failed"
           /\ CancelData(p).dispatched = ca.dispatched /\ RefuseData(p).dispatched = ca.dispatched
           /\ CancelData(p).gen = ca.gen /\ RefuseData(p).gen = ca.gen
           /\ CancelData(p).followup = (ca.followup /\ ~ poller[p].saw.remote)
           /\ CancelData(p).fdisp = (ca.fdisp /\ ~ poller[p].saw.remote)
           /\ RefuseData(p).followup = (ca.followup /\ ~ poller[p].saw.followup)
           /\ RefuseData(p).fdisp = (ca.fdisp /\ ~ poller[p].saw.followup)
<1>1. ca.latest \in 0..MaxRun /\ poller[p].saw.remote \in BOOLEAN /\ poller[p].saw.followup \in BOOLEAN
  BY DEF CloudTypeOK, AgentRow, PollRec, ReadRow
<1>2. "cancelled" \in AgentStatus /\ "failed" \in AgentStatus
  BY DEF AgentStatus
<1>3. /\ CancelData(p) = Written(p, "cancelled", ca.latest, poller[p].saw.remote)
      /\ RefuseData(p) = Written(p, "failed", ca.latest, poller[p].saw.followup)
  BY DEF CancelData, RefuseData
<1> QED
  BY <1>1, <1>2, <1>3, WrittenIsRow

LEMMA AnsweredData ==
    ASSUME CloudTypeOK, NEW p \in Poller, poller[p].got.status \in AgentStatus,
           NEW x, x = [AnswerData(p) EXCEPT !.remote = TRUE, !.cancel = Unwanted(p)]
    PROVE  /\ x \in AgentRow /\ x.remote /\ x.status = poller[p].got.status
           /\ x.latest = poller[p].got.run /\ x.dispatched = ca.dispatched /\ x.gen = ca.gen
           /\ x.followup = (ca.followup /\ ~ poller[p].saw.followup)
           /\ x.fdisp = (ca.fdisp /\ ~ poller[p].saw.followup)
<1>1. /\ poller[p].got.run \in 0..MaxRun /\ poller[p].saw.followup \in BOOLEAN
      /\ Unwanted(p) \in BOOLEAN
  BY DEF CloudTypeOK, PollRec, ReadRow, Unwanted
<1> DEFINE d == AnswerData(p)
           u == Unwanted(p)
<1>2. /\ d \in AgentRow /\ d.status = poller[p].got.status
      /\ d.latest = poller[p].got.run /\ d.dispatched = ca.dispatched /\ d.gen = ca.gen
      /\ d.followup = (ca.followup /\ ~ poller[p].saw.followup)
      /\ d.fdisp = (ca.fdisp /\ ~ poller[p].saw.followup)
  <2>1. d = Written(p, poller[p].got.status, poller[p].got.run, poller[p].saw.followup)
    BY DEF AnswerData
  <2> HIDE DEF d
  <2> QED
    BY <1>1, <2>1, WrittenIsRow
<1>3. x = [d EXCEPT !.remote = TRUE, !.cancel = u] /\ u \in BOOLEAN
  BY <1>1
<1> HIDE DEF d, u
<1>4. x \in AgentRow
  <2>1. [d EXCEPT !.remote = TRUE] \in AgentRow
    BY <1>2, SetColumns
  <2>2. \A y \in AgentRow : [y EXCEPT !.cancel = u] \in AgentRow
    BY <1>3, SetColumns
  <2>3. [[d EXCEPT !.remote = TRUE] EXCEPT !.cancel = u] \in AgentRow
    BY <2>1, <2>2
  <2> QED
    BY <1>3, <2>3
<1>5. /\ x.remote /\ x.status = d.status /\ x.latest = d.latest /\ x.dispatched = d.dispatched
      /\ x.gen = d.gen /\ x.followup = d.followup /\ x.fdisp = d.fdisp
  BY <1>2, <1>3 DEF AgentRow
<1> QED
  BY <1>2, <1>4, <1>5

LEMMA TakeTypes ==
    ASSUME CloudTypes, NEW p \in Poller, CancelLocally(p) \/ TakeRefusal(p) \/ TakeAnswer(p)
    PROVE  CloudTypes'
<1>0. CloudTypeOK /\ RemoteAgent
  BY DEF CloudTypes
<1>1. CASE CancelLocally(p) \/ TakeRefusal(p)
  <2>1. PICK data \in {CancelData(p), RefuseData(p)} : Finish(p, data, poller[p].gone)
    BY <1>1 DEF CancelLocally, TakeRefusal, CancelData, RefuseData
  <2>2. data \in AgentRow /\ (data.remote => data.latest \in 1..lastRun)
    BY <1>0, LocalData DEF RemoteAgent
  <2>3. UNCHANGED <<attached, remote, sentReplies, staleClaim, dropped, cancels, losses>>
        /\ unheard' \in {unheard, unheard \/ (poller[p].saw.followup /\ ~holds(p))}
    BY <1>1 DEF CancelLocally, TakeRefusal
  <2>4. unheard' \in BOOLEAN
    BY <1>0, <2>3 DEF CloudTypeOK
  <2> QED
    BY <2>1, <2>2, <2>3, <2>4, FinishTypes
<1>2. CASE TakeAnswer(p)
  <2>1. /\ poller[p].got.status \in AgentStatus /\ poller[p].got.run \in 1..lastRun
        /\ Names(poller[p])
        /\ UNCHANGED <<attached, remote, sentReplies, staleClaim, dropped, cancels, losses>>
        /\ UNCHANGED unheard /\ unheard \in BOOLEAN
    BY <1>0, <1>2 DEF TakeAnswer, RemoteAgent, At, Names, CloudTypeOK
  <2>2. CASE StillAmbiguous(p)
    <3>1. To(p, "retry") /\ UNCHANGED <<ca, woken, caLease, caLapsed>>
      BY <1>2, <2>2 DEF TakeAnswer
    <3>2. /\ poller' \in [Poller -> PollRec] /\ OnlyPoll(p)
          /\ poller'[p].at = "retry" /\ poller'[p].saw = poller[p].saw
      BY <1>0, <3>1, ToPoll
    <3>r. lastRun' = lastRun /\ (\A r \in RemoteRun : Accepted(r)' <=> Accepted(r)) /\ lastRun \in Nat
      BY <2>1, SameRuns, RunsAreCounted DEF Accepted
    <3> HIDE DEF lastRun
    <3>3. Names(poller[p])'
      BY <2>1, <3>2, <3>r DEF Names
    <3>4. RemoteAgent'
      BY <1>0, <2>1, <3>1, <3>2, <3>3, <3>r, PollKeepsRemote DEF RemoteAgent
    <3>5. CloudTypeOK'
      BY <1>0, <2>1, <3>1, <3>2 DEF CloudTypeOK
    <3> QED
      BY <3>4, <3>5 DEF CloudTypes
  <2>3. CASE ~ StillAmbiguous(p)
    <3> DEFINE x == [AnswerData(p) EXCEPT !.remote = TRUE, !.cancel = Unwanted(p)]
    <3>1. Finish(p, x, poller[p].gone)
      BY <1>2, <2>3 DEF TakeAnswer, AnswerData
    <3>2. x = [AnswerData(p) EXCEPT !.remote = TRUE, !.cancel = Unwanted(p)]
      OBVIOUS
    <3> HIDE DEF x
    <3>3. x \in AgentRow /\ x.latest \in 1..lastRun
      BY <1>0, <2>1, <3>2, AnsweredData
    <3> QED
      BY <2>1, <3>1, <3>3, FinishTypes
  <2> QED
    BY <2>2, <2>3
<1> QED
  BY <1>1, <1>2

\* The user's calls, and the marks of a poll, write a few columns.
LEMMA ToolTypes ==
    ASSUME CloudTypes, ReplyTool \/ CancelTool
    PROVE  /\ CloudTypes' /\ ca'.remote = ca.remote /\ ca'.latest = ca.latest
           /\ ca'.dispatched = ca.dispatched /\ ca'.fdisp = (ca.fdisp /\ ~ ReplyTool)
           /\ \A p \in Poller : /\ ~ poller'[p].cur /\ poller'[p].at = poller[p].at
                                /\ poller'[p].saw = poller[p].saw /\ poller'[p].got = poller[p].got
<1> USE CloudAssumption
<1>0. CloudTypeOK /\ RemoteAgent /\ ca \in AgentRow
  BY DEF CloudTypes, CloudTypeOK
<1>1. /\ ca' \in AgentRow /\ ca'.remote = ca.remote /\ ca'.latest = ca.latest
      /\ ca'.dispatched = ca.dispatched /\ ca'.fdisp = (ca.fdisp /\ ~ ReplyTool)
  <2>1. CASE ReplyTool
    <3> DEFINE g == ca.gen + 1
    <3>1. g \in Generation
      BY <1>0, <2>1 DEF ReplyTool, AgentRow, Generation
    <3>2. ca' = [ca EXCEPT !.followup = TRUE, !.fdisp = FALSE, !.status = "running",
                           !.gen = g, !.woke = FALSE, !.poll = TRUE]
      BY <1>0, <2>1 DEF ReplyTool, AgentRow
    <3> HIDE DEF g
    <3>3. "running" \in AgentStatus
      BY DEF AgentStatus
    <3>4. /\ \A y \in AgentRow : [y EXCEPT !.followup = TRUE] \in AgentRow
          /\ \A y \in AgentRow : [y EXCEPT !.woke = FALSE] \in AgentRow
          /\ \A y \in AgentRow : [y EXCEPT !.status = "running"] \in AgentRow
          /\ \A y \in AgentRow : [y EXCEPT !.gen = g] \in AgentRow
      BY <3>1, <3>3, ZenonT(30) DEF AgentRow
    <3>5. ca' \in AgentRow
      BY <1>0, <3>2, <3>4, SetColumns
    <3> QED
      BY <1>0, <2>1, <3>2, <3>5 DEF AgentRow
  <2>2. CASE CancelTool
    <3>1. ca' = [ca EXCEPT !.cancel = TRUE, !.poll = TRUE]
      BY <2>2 DEF CancelTool
    <3>2. ca' \in AgentRow
      BY <1>0, <3>1, SetColumns
    <3>3. ~ ReplyTool
      <4>1. cancels \in Nat /\ cancels' = cancels + 1
        BY <1>0, <2>2 DEF CancelTool, CloudTypeOK
      <4> QED
        BY <4>1 DEF ReplyTool
    <3> QED
      BY <1>0, <3>1, <3>2, <3>3 DEF AgentRow
  <2> QED
    BY <2>1, <2>2
<1>2. /\ poller' \in [Poller -> PollRec]
      /\ \A p \in Poller : /\ ~ poller'[p].cur /\ poller'[p].at = poller[p].at
                           /\ poller'[p].saw = poller[p].saw /\ poller'[p].got = poller[p].got
  <2>1. poller' = Bumped(poller) /\ poller \in [Poller -> PollRec]
    BY <1>0 DEF ReplyTool, CancelTool, CloudTypeOK
  <2> QED
    BY <2>1, BumpedPolls
<1>3. /\ UNCHANGED <<caLease, caLapsed, attached, remote, woken, sentReplies, staleClaim,
                     dropped, unheard, losses>>
      /\ cancels' \in 0..MaxCancel
  BY <1>0 DEF ReplyTool, CancelTool, CloudTypeOK
<1>4. CloudTypeOK'
  BY <1>0, <1>1, <1>2, <1>3 DEF CloudTypeOK
<1>5. RemoteAgent'
  BY <1>0, <1>1, <1>2, <1>3, BumpKeepsRemote DEF RemoteAgent
<1> QED
  BY <1>1, <1>2, <1>4, <1>5 DEF CloudTypes

\* A poll marks a column, or gives up.
LEMMA MarkTypes ==
    ASSUME CloudTypes, NEW p \in Poller, MarkLaunch(p) \/ MarkReply(p) \/ RetryPoll(p)
    PROVE  /\ CloudTypes' /\ OnlyPoll(p)
           /\ poller'[p].at \in {"launch", "reply", "retry", "finally"}
           /\ poller'[p].at = "reply" => MarkReply(p) /\ holds(p)
           /\ poller'[p].at = "launch" => MarkLaunch(p) /\ holds(p)
           /\ poller'[p].saw = poller[p].saw /\ poller'[p].cur = poller[p].cur
           /\ ca'.remote = ca.remote /\ ca'.latest = ca.latest /\ ca'.status = ca.status
           /\ ca'.followup = ca.followup /\ ca'.cancel = ca.cancel /\ ca'.gen = ca.gen
           /\ ca'.dispatched = (ca.dispatched \/ (MarkLaunch(p) /\ holds(p)))
           /\ ca'.fdisp = (ca.fdisp \/ (MarkReply(p) /\ holds(p)))
           /\ ca'.poll = (ca.poll \/ (RetryPoll(p) /\ holds(p)))
<1> USE CloudAssumption
<1>0. CloudTypeOK /\ RemoteAgent /\ ca \in AgentRow
  BY DEF CloudTypes, CloudTypeOK
<1>s. /\ ~ (MarkLaunch(p) /\ MarkReply(p)) /\ ~ (MarkLaunch(p) /\ RetryPoll(p))
      /\ ~ (MarkReply(p) /\ RetryPoll(p))
  BY DEF MarkLaunch, MarkReply, RetryPoll, At
<1>1. /\ ca' \in AgentRow
      /\ ca'.remote = ca.remote /\ ca'.latest = ca.latest /\ ca'.status = ca.status
      /\ ca'.followup = ca.followup /\ ca'.cancel = ca.cancel /\ ca'.gen = ca.gen
      /\ ca'.dispatched = (ca.dispatched \/ (MarkLaunch(p) /\ holds(p)))
      /\ ca'.fdisp = (ca.fdisp \/ (MarkReply(p) /\ holds(p)))
      /\ ca'.poll = (ca.poll \/ (RetryPoll(p) /\ holds(p)))
  <2>1. CASE ~ holds(p)
    <3>1. ca' = ca
      BY <2>1 DEF MarkLaunch, MarkReply, RetryPoll, Mark
    <3> QED
      BY <1>0, <2>1, <3>1 DEF AgentRow
  <2>2. CASE MarkLaunch(p) /\ holds(p)
    <3>1. ca' = [ca EXCEPT !.dispatched = TRUE]
      BY <2>2 DEF MarkLaunch, Mark
    <3>2. ca' \in AgentRow
      BY <1>0, <3>1, SetColumns
    <3>3. /\ ca'.remote = ca.remote /\ ca'.latest = ca.latest /\ ca'.status = ca.status
          /\ ca'.followup = ca.followup /\ ca'.cancel = ca.cancel /\ ca'.gen = ca.gen
          /\ ca'.fdisp = ca.fdisp /\ ca'.poll = ca.poll /\ ca'.dispatched = TRUE
      BY <1>0, <3>1 DEF AgentRow
    <3>4. ca.dispatched \in BOOLEAN /\ ca.fdisp \in BOOLEAN /\ ca.poll \in BOOLEAN
      BY <1>0 DEF AgentRow
    <3> QED
      BY <1>s, <2>2, <3>2, <3>3, <3>4, Zenon
  <2>3. CASE MarkReply(p) /\ holds(p)
    <3>1. ca' = [ca EXCEPT !.fdisp = TRUE]
      BY <2>3 DEF MarkReply, Mark
    <3>2. ca' \in AgentRow
      BY <1>0, <3>1, SetColumns
    <3>3. /\ ca'.remote = ca.remote /\ ca'.latest = ca.latest /\ ca'.status = ca.status
          /\ ca'.followup = ca.followup /\ ca'.cancel = ca.cancel /\ ca'.gen = ca.gen
          /\ ca'.dispatched = ca.dispatched /\ ca'.poll = ca.poll /\ ca'.fdisp = TRUE
      BY <1>0, <3>1 DEF AgentRow
    <3>4. ca.dispatched \in BOOLEAN /\ ca.fdisp \in BOOLEAN /\ ca.poll \in BOOLEAN
      BY <1>0 DEF AgentRow
    <3> QED
      BY <1>s, <2>3, <3>2, <3>3, <3>4, Zenon
  <2>4. CASE RetryPoll(p) /\ holds(p)
    <3>1. ca' = [ca EXCEPT !.poll = TRUE]
      BY <2>4 DEF RetryPoll, Mark
    <3>2. ca' \in AgentRow
      BY <1>0, <3>1, SetColumns
    <3>3. /\ ca'.remote = ca.remote /\ ca'.latest = ca.latest /\ ca'.status = ca.status
          /\ ca'.followup = ca.followup /\ ca'.cancel = ca.cancel /\ ca'.gen = ca.gen
          /\ ca'.dispatched = ca.dispatched /\ ca'.fdisp = ca.fdisp /\ ca'.poll = TRUE
      BY <1>0, <3>1 DEF AgentRow
    <3>4. ca.dispatched \in BOOLEAN /\ ca.fdisp \in BOOLEAN /\ ca.poll \in BOOLEAN
      BY <1>0 DEF AgentRow
    <3> QED
      BY <1>s, <2>4, <3>2, <3>3, <3>4, Zenon
  <2> QED
    BY <2>1, <2>2, <2>3, <2>4
<1>2. PICK s \in {"launch", "reply", "retry", "finally"} :
         /\ To(p, s)
         /\ s = "reply" => MarkReply(p) /\ holds(p) /\ poller[p].saw.remote
         /\ s = "launch" => MarkLaunch(p) /\ holds(p)
  BY DEF MarkLaunch, MarkReply, RetryPoll, Mark
<1>3. /\ poller' \in [Poller -> PollRec] /\ OnlyPoll(p)
      /\ poller'[p].at = s /\ poller'[p].saw = poller[p].saw /\ poller'[p].cur = poller[p].cur
  BY <1>0, <1>2, ToPoll DEF Calls
<1>4. /\ UNCHANGED <<attached, remote, woken, sentReplies, staleClaim, dropped, unheard,
                     cancels, losses>>
      /\ caLease' \in {caLease, NoPoller} /\ caLapsed' \in {caLapsed, FALSE}
  BY DEF MarkLaunch, MarkReply, RetryPoll
<1>r. lastRun' = lastRun /\ (\A r \in RemoteRun : Accepted(r)' <=> Accepted(r)) /\ lastRun \in Nat
  BY <1>4, SameRuns, RunsAreCounted DEF Accepted
<1> HIDE DEF lastRun
<1>5. Names(poller[p])'
  BY <1>0, <1>2, <1>3, <1>r DEF RemoteAgent, Names
<1>6. RemoteAgent'
  BY <1>0, <1>1, <1>3, <1>5, <1>r, PollKeepsRemote DEF RemoteAgent
<1>7. CloudTypeOK'
  BY <1>0, <1>1, <1>3, <1>4 DEF CloudTypeOK
<1> QED
  BY <1>1, <1>2, <1>3, <1>6, <1>7 DEF CloudTypes

\* Runs of the provider change, and those it has accepted stay accepted.
LEMMA SettleTypes ==
    ASSUME CloudTypes,
           \/ \E r \in RemoteRun, s \in {"finished", "failed", "cancelled"} : RemoteEnds(r, s)
           \/ Detach \/ CloudLeaseLapses \/ UNCHANGED caVars
    PROVE  CloudTypes' /\ UNCHANGED <<lastRun, ca, poller, sentReplies, staleClaim, dropped, caLease>>
<1>0. CloudTypeOK /\ RemoteAgent
  BY DEF CloudTypes
<1>1. /\ UNCHANGED <<ca, caLease, poller, woken, sentReplies, staleClaim, dropped, unheard,
                     cancels, losses>>
      /\ caLapsed' \in {caLapsed, TRUE} /\ attached' \in {attached, FALSE}
  BY DEF RemoteEnds, Detach, CloudLeaseLapses, caVars
<1>2. /\ remote' \in [RemoteRun -> Statuses]
      /\ \A r \in RemoteRun : Accepted(r)' <=> Accepted(r)
  BY <1>0 DEF RemoteEnds, Detach, CloudLeaseLapses, caVars, CloudTypeOK, Accepted, Statuses
<1>3. lastRun' = lastRun
  BY <1>2, SameRuns
<1>4. CloudTypeOK'
  BY <1>0, <1>1, <1>2 DEF CloudTypeOK, Statuses
<1>5. RemoteAgent'
  <2> HIDE DEF lastRun
  <2> QED
    BY <1>0, <1>1, <1>2, <1>3 DEF RemoteAgent, Names
<1> QED
  BY <1>1, <1>3, <1>4, <1>5 DEF CloudTypes

\* The provider's runs change, by their numbers: none, or the next.
RunsGrow ==
    /\ remote' \in [RemoteRun -> Statuses]
    /\ lastRun' \in Nat /\ lastRun' >= lastRun
    /\ \A r \in RemoteRun : Accepted(r)' <=> r <= lastRun'

LEMMA SameRunsGrow ==
    ASSUME CloudTypes, remote' \in [RemoteRun -> Statuses],
           \A r \in RemoteRun : Accepted(r)' <=> Accepted(r)
    PROVE  RunsGrow /\ lastRun' = lastRun
<1>1. lastRun' = lastRun /\ lastRun \in Nat
  BY SameRuns, RunsAreCounted
<1> HIDE DEF lastRun
<1> QED
  BY <1>1 DEF RunsGrow, CloudTypes, RemoteAgent

LEMMA NewRunGrows ==
    ASSUME CloudTypes, lastRun < MaxRun, remote' = [remote EXCEPT ![lastRun + 1] = "running"]
    PROVE  RunsGrow
<1>1. lastRun \in Nat
  BY RunsAreCounted
<1>2. lastRun' = lastRun + 1 /\ remote' \in [RemoteRun -> Statuses]
      /\ \A r \in RemoteRun : Accepted(r)' <=> r <= lastRun'
  BY NewRunTypes
<1> HIDE DEF lastRun
<1> QED
  BY <1>1, <1>2 DEF RunsGrow

\* What the provider does with a launch that it takes.
LEMMA LaunchGrows ==
    ASSUME CloudTypes, NEW p \in Poller, ProviderLaunch(p)
    PROVE  /\ RunsGrow /\ 1 \in 1..lastRun' /\ statusOf(remote'[1]) \in AgentStatus
           /\ \/ remote' = remote /\ lastRun' = lastRun
              \/ /\ remote[1] = "none" /\ remote'[1] = "running" /\ lastRun = 0 /\ lastRun' = 1
                 /\ \A r \in RemoteRun : r # 1 => remote'[r] = remote[r]
<1>0. /\ CloudTypeOK /\ RemoteAgent /\ 1 \in RemoteRun /\ lastRun \in 0..MaxRun
      /\ remote \in [RemoteRun -> Statuses] /\ 0 < MaxRun
  BY RunsAreCounted, CloudAssumption DEF CloudTypes, CloudTypeOK, RemoteRun, Statuses
<1>1. CASE remote[1] = "none"
  <2>1. remote' = [remote EXCEPT ![1] = "running"]
    BY <1>0, <1>1 DEF ProviderLaunch
  <2>2. lastRun = 0
    <3> HIDE DEF lastRun
    <3> QED
      BY <1>0, <1>1 DEF RemoteAgent, Accepted
  <2>3. /\ lastRun < MaxRun /\ lastRun + 1 = 1
        /\ remote' = [remote EXCEPT ![lastRun + 1] = "running"]
    BY <1>0, <2>1, <2>2
  <2>4. /\ RunsGrow /\ lastRun' = lastRun + 1 /\ remote'[lastRun + 1] = "running"
        /\ \A r \in RemoteRun : r # lastRun + 1 => remote'[r] = remote[r]
    BY <2>3, NewRunGrows, NewRunTypes
  <2> HIDE DEF lastRun
  <2> QED
    BY <1>1, <2>2, <2>3, <2>4 DEF statusOf, AgentStatus
<1>2. CASE remote[1] # "none"
  <2>1. remote' = remote
    BY <1>0, <1>2 DEF ProviderLaunch
  <2>2. Accepted(1) /\ statusOf(remote[1]) \in AgentStatus
    BY <1>0, <1>2 DEF ProviderLaunch, Accepted, Statuses, statusOf, AgentStatus
  <2>3. RunsGrow /\ lastRun' = lastRun
    BY <1>0, <2>1, SameRunsGrow DEF Accepted
  <2> HIDE DEF lastRun
  <2>4. 1 <= lastRun
    BY <1>0, <2>2 DEF RemoteAgent
  <2> QED
    BY <1>0, <2>1, <2>2, <2>3, <2>4
<1> QED
  BY <1>1, <1>2

\* A refusal leaves the runs as they are.
LEMMA RefusalGrows ==
    ASSUME CloudTypes, NEW p \in Poller, ProviderRefuses(p)
    PROVE  RunsGrow /\ lastRun' = lastRun /\ remote' = remote
<1>1. remote' = remote /\ remote' \in [RemoteRun -> Statuses]
  BY DEF ProviderRefuses, CloudTypes, CloudTypeOK, Statuses
<1> QED
  BY <1>1, SameRunsGrow DEF Accepted

LEMMA ProviderTypes ==
    ASSUME CloudTypes, NEW p \in Poller,
           \/ ProviderLaunch(p) \/ ProviderRefuses(p) \/ ProviderReply(p)
           \/ \E r \in RemoteRun : ProviderCancels(p, r)
    PROVE  /\ CloudTypes' /\ RunsGrow /\ OnlyPoll(p) /\ poller'[p].at \in {"answered", "refused"}
           /\ poller'[p].saw = poller[p].saw /\ poller'[p].cur = poller[p].cur
<1>0. CloudTypeOK /\ RemoteAgent /\ lastRun \in 0..MaxRun
  BY RunsAreCounted DEF CloudTypes
<1>1. /\ RunsGrow /\ OnlyPoll(p) /\ poller' \in [Poller -> PollRec]
      /\ poller'[p].at \in {"answered", "refused"}
      /\ poller'[p].saw = poller[p].saw /\ poller'[p].cur = poller[p].cur
      /\ poller'[p].at = "answered" => /\ poller'[p].got.run \in 1..lastRun'
                                       /\ poller'[p].got.status \in AgentStatus
  <2>1. CASE ProviderLaunch(p)
    <3>1. Got(p, 1) /\ 1 \in 0..MaxRun
      BY <2>1, CloudAssumption DEF ProviderLaunch
    <3>2. RunsGrow /\ 1 \in 1..lastRun' /\ statusOf(remote'[1]) \in AgentStatus
      BY <2>1, LaunchGrows
    <3> HIDE DEF lastRun
    <3> QED
      BY <1>0, <3>1, <3>2, GotPoll
  <2>2. CASE ProviderRefuses(p)
    <3>1. To(p, "refused")
      BY <2>2 DEF ProviderRefuses, To
    <3> QED
      BY <1>0, <2>2, <3>1, ToPoll, RefusalGrows
  <2>3. CASE ProviderReply(p)
    <3>1. /\ lastRun < MaxRun /\ Got(p, lastRun + 1)
          /\ remote' = [remote EXCEPT ![lastRun + 1] = "running"]
      BY <2>3 DEF ProviderReply
    <3>2. RunsGrow /\ lastRun' = lastRun + 1 /\ remote'[lastRun + 1] = "running"
      BY <3>1, NewRunGrows, NewRunTypes
    <3> HIDE DEF lastRun
    <3>n. MaxRun \in Nat
      BY CloudAssumption
    <3>3. lastRun + 1 \in 0..MaxRun /\ lastRun + 1 \in 1..lastRun'
      BY <1>0, <3>1, <3>2, <3>n
    <3>4. statusOf(remote'[lastRun + 1]) \in AgentStatus
      BY <3>2 DEF statusOf, AgentStatus
    <3> QED
      BY <1>0, <3>1, <3>2, <3>3, <3>4, GotPoll
  <2>4. ASSUME NEW r \in RemoteRun, ProviderCancels(p, r)
        PROVE  /\ RunsGrow /\ OnlyPoll(p) /\ poller' \in [Poller -> PollRec]
               /\ poller'[p].at = "answered"
               /\ poller'[p].saw = poller[p].saw /\ poller'[p].cur = poller[p].cur
               /\ poller'[p].got.run \in 1..lastRun' /\ poller'[p].got.status \in AgentStatus
    <3>1. poller[p].at \in {"get", "cancel"} /\ r \in TargetRun(p) /\ Got(p, r)
      BY <2>4 DEF ProviderCancels, At
    <3>2. Accepted(r) /\ r \in 1..lastRun
      BY <3>1, LooksAtRun
    <3>3. remote' \in [RemoteRun -> Statuses] /\ \A x \in RemoteRun : Accepted(x)' <=> Accepted(x)
      BY <1>0, <2>4 DEF CloudTypeOK, Statuses, Accepted, ProviderCancels
    <3>4. RunsGrow /\ lastRun' = lastRun
      BY <3>3, SameRunsGrow
    <3>5. statusOf(remote'[r]) \in AgentStatus
      BY <3>2, <3>3 DEF Accepted, Statuses, statusOf, AgentStatus
    <3> HIDE DEF lastRun
    <3> QED
      BY <1>0, <3>1, <3>2, <3>4, <3>5, GotPoll DEF RemoteRun
  <2> QED
    BY <2>1, <2>2, <2>3, <2>4
<1>2. /\ UNCHANGED <<ca, caLease, caLapsed, attached, woken, staleClaim, dropped, unheard,
                     cancels, losses>>
      /\ sentReplies' \in [Generation -> Nat]
  <2>1. poller[p].saw.gen \in Generation
    BY <1>0 DEF CloudTypeOK, PollRec, ReadRow
  <2> QED
    BY <1>0, <2>1
       DEF ProviderLaunch, ProviderRefuses, ProviderReply, ProviderCancels, Sent, CloudTypeOK
<1>3. CloudTypeOK'
  BY <1>0, <1>1, <1>2 DEF CloudTypeOK, RunsGrow, Statuses
<1> HIDE DEF lastRun
<1>4. /\ lastRun' \in Nat /\ lastRun' >= lastRun
      /\ \A r \in RemoteRun : Accepted(r)' <=> r <= lastRun'
  BY <1>1 DEF RunsGrow
<1>5. Names(poller[p])'
  BY <1>0, <1>1, <1>4 DEF RemoteAgent, Names
<1>6. RemoteAgent'
  BY <1>0, <1>1, <1>2, <1>4, <1>5, PollKeepsRemote
<1> QED
  BY <1>1, <1>3, <1>6 DEF CloudTypes

LEMMA LateReplyTypes ==
    ASSUME CloudTypes, LateReply
    PROVE  CloudTypes' /\ RunsGrow
<1>0. CloudTypeOK /\ RemoteAgent /\ lastRun \in 0..MaxRun
  BY RunsAreCounted DEF CloudTypes
<1>1. RunsGrow
  BY NewRunGrows DEF LateReply
<1>2. /\ UNCHANGED <<ca, caLease, caLapsed, attached, poller, woken, staleClaim, unheard,
                     cancels, losses>>
      /\ dropped' = FALSE
  BY DEF LateReply
<1>3. sentReplies' \in [Generation -> Nat]
  <2>1. ca.gen \in Generation /\ sentReplies \in [Generation -> Nat]
    BY <1>0 DEF CloudTypeOK, AgentRow
  <2> QED
    BY <2>1 DEF LateReply
<1>4. CloudTypeOK'
  BY <1>0, <1>1, <1>2, <1>3 DEF CloudTypeOK, RunsGrow, Statuses
<1> HIDE DEF lastRun
<1>5. RemoteAgent'
  <2>1. \A n \in 1..lastRun : n \in 1..lastRun'
    BY <1>0, <1>1 DEF RunsGrow
  <2> QED
    BY <1>0, <1>1, <1>2, <2>1, Zenon DEF RunsGrow, RemoteAgent, Names
<1> QED
  BY <1>1, <1>4, <1>5 DEF CloudTypes

LEMMA CloudTypesStep == CloudTypes /\ [CloudNext]_caVars => CloudTypes'
BY QuietStepTypes, TakeTypes, ToolTypes, MarkTypes, SettleTypes, ProviderTypes, LateReplyTypes
   DEF CloudNext, PollStep

\* The row, the polls and the provider's runs have their types.
THEOREM CloudTypesAreRight == CloudSpec => []CloudTypeOK
<1>1. CloudTypes => CloudTypeOK
  BY DEF CloudTypes
<1> QED
  BY <1>1, CloudInitTypes, CloudTypesStep, PTL DEF CloudSpec

-----------------------------------------------------------------------------
(* What the row says of the provider's runs, unless a poll went on with a   *)
(* row that had changed under it.                                           *)

Quiet == \A r \in RemoteRun : ~ Active(r)

\* Until the row knows its remote agent, there is its launch, if anything; a row
\* that ends so after a dispatch ends as failed.
Launching ==
    /\ \A r \in RemoteRun : Active(r) => r = lastRun
    /\ ~ ca.remote => ca.latest = 0 /\ ~ ca.followup /\ lastRun <= 1
    /\ ~ ca.remote /\ ~ ca.dispatched => lastRun = 0
    /\ ~ ca.remote /\ ca.dispatched => ca.status \in {"running", "failed"}

\* Then the row names the newest run, or the one before it while a follow-up is
\* dispatched.
Following ==
    /\ ca.fdisp => ca.followup
    /\ ca.followup => ca.status = "running"
    /\ ca.remote => lastRun = ca.latest \/ (ca.fdisp /\ lastRun = ca.latest + 1)
    /\ ca.followup /\ lastRun = ca.latest => Quiet
    /\ ca.followup /\ ~ ca.fdisp => sentReplies[ca.gen] = 0
    /\ \A g \in Generation : sentReplies[g] <= 1 /\ (g > ca.gen => sentReplies[g] = 0)

\* A dispatched follow-up has not reached the provider.
Owed == ca.fdisp /\ lastRun = ca.latest /\ sentReplies[ca.gen] = 0

\* One poll sends it, or it is on its way without a poll.
Sending ==
    /\ dropped => Owed
    /\ \A p \in Poller : At(p, "reply") =>
          /\ Owed /\ ~ dropped /\ poller[p].saw.gen = ca.gen
          /\ \A q \in Poller : At(q, "reply") => q = p

\* An agent that has ended is quiet, if the row knows it, and is only looked at
\* to be cancelled.
Ending ==
    /\ ca.status # "running" /\ ca.remote => Quiet
    /\ ca.status # "running" /\ ca.poll => ca.cancel
    /\ \A p \in Poller : poller[p].cur /\ ca.status # "running" => ca.cancel

\* The row is the poll's, and the poll goes on with what it read.
Handed(p) == holds(p) /\ poller[p].at \notin {"idle", "read", "finally"}

AnswerOK(p) ==
    LET got == poller[p].got  saw == poller[p].saw IN
    /\ got.status # "running" => remote[got.run] = got.status
    /\ got.run = lastRun \/ (saw.fdisp /\ got.run = saw.latest)
    /\ ca.fdisp /\ ~ saw.fdisp => got.run = ca.latest + 1

\* The provider has refused the launch, or has started nothing for the follow-up.
RefusalOK(p) ==
    poller[p].saw.remote =>
       poller[p].saw.followup /\ lastRun = ca.latest /\ sentReplies[ca.gen] = 1

\* What it read is the row, but for what it has marked itself.
Knows(p) ==
    LET saw == poller[p].saw IN
    /\ saw.remote = ca.remote /\ saw.latest = ca.latest /\ saw.followup = ca.followup
    /\ saw.cancel = ca.cancel /\ saw.gen = ca.gen
    /\ saw.fdisp => ca.fdisp
    /\ poller[p].at \in {"claimed", "get", "cancel"} => saw.fdisp = ca.fdisp
    /\ poller[p].at = "claimed" => saw.dispatched = ca.dispatched
    /\ poller[p].at = "answered" => AnswerOK(p)
    /\ poller[p].at = "refused" => RefusalOK(p)

PollOK(p) ==
    /\ poller[p].at = "launch" => ca.dispatched /\ ~ poller[p].saw.remote
    /\ Handed(p) => Knows(p)

CloudInv == Launching /\ Following /\ Sending /\ Ending /\ \A p \in Poller : PollOK(p)

\* What a poll that moved, or one that did not, leaves behind.
Landed(q) ==
    /\ PollOK(q)' /\ poller'[q].at # "reply"
    /\ poller'[q].cur /\ ca.status # "running" => ca.cancel
Still(q) == poller'[q] = poller[q] /\ (caLease' = q => caLease = q)

\* Polls move while the row stays as it is, and runs of the provider settle; the
\* follow-up that a poll sends may be refused.
LEMMA PollsMove ==
    ASSUME CloudTypes, CloudInv, UNCHANGED <<ca, lastRun>>,
           \/ UNCHANGED sentReplies
           \/ /\ ca.fdisp /\ ~ dropped' /\ \A q \in Poller : poller'[q].at # "reply"
              /\ sentReplies' = [sentReplies EXCEPT ![ca.gen] = 1],
           \A r \in RemoteRun : Active(r)' => Active(r),
           \A r \in RemoteRun : remote[r] # "none" /\ ~ Active(r) => remote'[r] = remote[r],
           \A q \in Poller : Still(q) \/ Landed(q),
           dropped' => dropped \/ \E q \in Poller : At(q, "reply") /\ poller'[q].at # "reply"
    PROVE  CloudInv'
<1> USE CloudAssumption
<1>0. /\ lastRun \in 0..MaxRun /\ 1 \in RemoteRun /\ ca \in AgentRow
      /\ sentReplies \in [Generation -> Nat] /\ ca.gen \in Generation
      /\ \A q \in Poller : Names(poller[q]) /\ poller[q] \in PollRec
  BY RunsAreCounted DEF CloudTypes, CloudTypeOK, RemoteAgent, RemoteRun, AgentRow
<1> HIDE DEF lastRun
<1>1. Quiet => Quiet'
  BY DEF Quiet
<1>2. Launching'
  BY DEF CloudInv, Launching
<1>s. /\ \A g \in Generation : sentReplies'[g] = sentReplies[g] \/ (g = ca.gen /\ sentReplies'[g] = 1)
      /\ sentReplies'[ca.gen] # sentReplies[ca.gen] =>
            ca.fdisp /\ ~ dropped' /\ \A q \in Poller : poller'[q].at # "reply"
  BY <1>0
<1>3. Following'
  <2>1. \A g \in Generation : sentReplies'[g] <= 1 /\ (g > ca.gen => sentReplies'[g] = 0)
    BY <1>0, <1>s DEF CloudInv, Following, Generation
  <2> QED
    BY <1>1, <1>s, <2>1 DEF CloudInv, Following
<1>4. Sending'
  <2>1. \A q \in Poller : poller'[q].at = "reply" => At(q, "reply") /\ poller'[q].saw = poller[q].saw
    BY DEF Still, Landed, At
  <2>2. dropped' => Owed'
    BY <1>s DEF CloudInv, Sending, Owed
  <2>3. ASSUME NEW q \in Poller, poller'[q].at = "reply"
        PROVE  /\ Owed' /\ ~ dropped' /\ poller'[q].saw.gen = ca.gen
               /\ \A x \in Poller : poller'[x].at = "reply" => x = q
    BY <1>s, <2>1, <2>3 DEF CloudInv, Sending, Owed
  <2> QED
    BY <2>2, <2>3 DEF Sending, At
<1>5. Ending'
  BY <1>1 DEF CloudInv, Ending, Still, Landed
<1>6. ASSUME NEW q \in Poller, Still(q) PROVE PollOK(q)'
  <2>1. poller[q].at = "refused" /\ RefusalOK(q) => RefusalOK(q)'
    BY <1>0, <1>6, <1>s DEF RefusalOK, Still
  <2>2. Handed(q)' => Handed(q) /\ Knows(q)
    BY <1>6 DEF CloudInv, PollOK, Handed, holds, Still
  <2>3. poller[q].at = "answered" /\ AnswerOK(q) => AnswerOK(q)'
    <3> SUFFICES ASSUME poller[q].at = "answered", AnswerOK(q), poller[q].got.status # "running"
                 PROVE  remote'[poller[q].got.run] = poller[q].got.status
      BY <1>6 DEF AnswerOK, Still
    <3>1. poller[q].got.run \in RemoteRun /\ poller[q].got.status \in AgentStatus
      BY <1>0 DEF Names, RemoteRun
    <3> QED
      BY <3>1 DEF AnswerOK, Active, AgentStatus
  <2>4. Handed(q)' => Knows(q)'
    BY <1>6, <2>1, <2>2, <2>3 DEF Knows, Still
  <2> QED
    BY <1>6, <2>4 DEF CloudInv, PollOK, Still
<1>7. \A q \in Poller : PollOK(q)'
  BY <1>6 DEF Landed
<1> QED
  BY <1>2, <1>3, <1>4, <1>5, <1>7 DEF CloudInv

LEMMA OnlyOneMoves ==
    ASSUME NEW p \in Poller, OnlyPoll(p), caLease' \in {caLease, NoPoller, p}
    PROVE  \A q \in Poller : Still(q) \/ q = p
BY CloudAssumption DEF OnlyPoll, Still

\* A poll that goes on from a step it knew the row at.
LEMMA GoesOn ==
    ASSUME CloudTypes, CloudInv, NEW p \in Poller, UNCHANGED ca,
           poller'[p].saw = poller[p].saw, poller'[p].cur = poller[p].cur,
           caLease' = caLease, poller[p].at \notin {"idle", "read", "finally"},
           poller'[p].at \in {"launch", "reply", "retry", "get", "cancel"},
           poller'[p].at = "launch" => ca.dispatched /\ ~ poller[p].saw.remote,
           poller'[p].at \in {"get", "cancel"} => poller[p].at = "claimed"
    PROVE  PollOK(p)'
<1>1. Handed(p)' => Handed(p) /\ Knows(p)
  BY DEF CloudInv, PollOK, Handed, holds
<1>2. Handed(p)' => Knows(p)'
  BY <1>1 DEF Knows
<1> QED
  BY <1>2 DEF PollOK

\* A poll looks at a run that it may take for its answer.
LEMMA GetsAnswer ==
    ASSUME CloudTypes, CloudInv, NEW p \in Poller, NEW r \in RemoteRun, r \in TargetRun(p),
           poller[p].at \in {"get", "cancel"}, UNCHANGED <<ca, caLease, lastRun>>,
           poller'[p].at = "answered", poller'[p].saw = poller[p].saw,
           poller'[p].cur = poller[p].cur, poller'[p].got.run = r,
           poller'[p].got.status = statusOf(remote'[r])
    PROVE  PollOK(p)'
<1>0. /\ lastRun \in Nat /\ ca \in AgentRow /\ poller[p].saw \in ReadRow
      /\ poller[p].saw.remote
  BY RunsAreCounted DEF CloudTypes, CloudTypeOK, PollRec, RemoteAgent, Names
<1> SUFFICES ASSUME Handed(p)' PROVE Knows(p)'
  BY DEF PollOK
<1>1. Handed(p) /\ Knows(p)
  BY DEF CloudInv, PollOK, Handed, holds
<1> HIDE DEF lastRun
<1>2. ca.remote /\ poller[p].saw.fdisp = ca.fdisp /\ poller[p].saw.latest = ca.latest
  BY <1>0, <1>1 DEF Knows
<1>3. r = lastRun \/ (poller[p].saw.fdisp /\ r = poller[p].saw.latest)
  BY <1>0, <1>2 DEF CloudInv, Following, TargetRun, AgentRow
<1>4. statusOf(remote'[r]) # "running" => remote'[r] = statusOf(remote'[r])
  BY DEF statusOf
<1>5. AnswerOK(p)'
  BY <1>2, <1>3, <1>4 DEF AnswerOK
<1> QED
  BY <1>1, <1>5 DEF Knows

LEMMA QuietStepInv ==
    ASSUME CloudTypes, CloudInv, ~ staleClaim', NEW p \in Poller,
           \/ ReadAgent(p) \/ ClaimAgent(p) \/ ChooseCall(p) \/ LoseCall(p) \/ PollDies(p)
           \/ ReleaseLease(p) \/ \E r \in RemoteRun : ProviderLooks(p, r)
    PROVE  CloudInv'
<1>0. CloudTypeOK /\ RemoteAgent /\ poller[p] \in PollRec
  BY DEF CloudTypes, CloudTypeOK
<1>a. UNCHANGED <<ca, remote, sentReplies>>
  BY DEF ReadAgent, ClaimAgent, ChooseCall, LoseCall, PollDies, ReleaseLease, ProviderLooks
<1>b. caLease' \in {caLease, NoPoller, p}
  BY DEF ReadAgent, ClaimAgent, ChooseCall, LoseCall, PollDies, ReleaseLease, ProviderLooks
<1>c. dropped' = dropped \/ dropped' = (dropped \/ At(p, "reply"))
  BY DEF ReadAgent, ClaimAgent, ChooseCall, LoseCall, PollDies, ReleaseLease, ProviderLooks
<1>1. /\ UNCHANGED <<ca, remote, sentReplies>> /\ caLease' \in {caLease, NoPoller, p}
      /\ dropped' => dropped \/ At(p, "reply")
  <2>1. dropped' => dropped \/ At(p, "reply")
    BY <1>c, Zenon
  <2> QED
    BY <1>a, <1>b, <2>1
<1>2. lastRun' = lastRun
  BY <1>1, SameRuns DEF Accepted
<1>3. PollOK(p)' /\ OnlyPoll(p) /\ poller'[p].at # "reply"
      /\ (poller'[p].cur /\ ca.status # "running" => ca.cancel)
  <2>1. CASE ReadAgent(p)
    <3>1. /\ OnlyPoll(p) /\ poller'[p].at = "read"
      BY <1>0, <2>1, ReadPoll
    <3>2. ca.poll
      BY <2>1 DEF ReadAgent
    <3> QED
      BY <3>1, <3>2 DEF PollOK, Handed, CloudInv, Ending
  <2>2. ASSUME ClaimAgent(p), claimMatches(p)
        PROVE  PollOK(p)' /\ OnlyPoll(p) /\ poller'[p].at = "claimed" /\ poller'[p].cur = poller[p].cur
    <3>1. /\ OnlyPoll(p) /\ poller'[p].at = "claimed" /\ poller'[p].saw = poller[p].saw
          /\ poller'[p].cur = poller[p].cur
      BY <1>0, <2>2, ClaimPoll
    <3>2. poller[p].saw = Seen(ca)
      BY <2>2 DEF ClaimAgent
    <3>3. Knows(p)'
      BY <1>1, <3>1, <3>2 DEF Knows, Seen
    <3> QED
      BY <3>1, <3>3 DEF PollOK
  <2>3. ASSUME \/ (ClaimAgent(p) /\ ~ claimMatches(p)) \/ PollDies(p) \/ ReleaseLease(p)
        PROVE  PollOK(p)' /\ OnlyPoll(p) /\ poller'[p].at = "idle" /\ ~ poller'[p].cur
    <3>1. Set(p, Resting)
      BY <2>3 DEF ClaimAgent, PollDies, ReleaseLease
    <3> QED
      BY <1>0, <3>1, RestPoll DEF PollOK, Handed
  <2>4. ASSUME ChooseCall(p) \/ LoseCall(p)
        PROVE  PollOK(p)' /\ OnlyPoll(p) /\ poller'[p].at # "reply" /\ poller'[p].cur = poller[p].cur
    <3>1. PICK s \in {"retry", "get", "cancel"} :
             To(p, s) /\ (s \in {"get", "cancel"} => At(p, "claimed"))
      BY <2>4 DEF ChooseCall, LoseCall
    <3>2. /\ OnlyPoll(p) /\ poller'[p].at = s /\ poller'[p].saw = poller[p].saw
          /\ poller'[p].cur = poller[p].cur
      BY <1>0, <3>1, ToPoll DEF Calls
    <3>3. poller[p].at \notin {"idle", "read", "finally"} /\ UNCHANGED <<ca, caLease>>
      BY <2>4 DEF ChooseCall, LoseCall, At, Calls
    <3>4. PollOK(p)'
      BY <3>1, <3>2, <3>3, GoesOn DEF At
    <3> QED
      BY <3>2, <3>4
  <2>5. ASSUME NEW r \in RemoteRun, ProviderLooks(p, r)
        PROVE  PollOK(p)' /\ OnlyPoll(p) /\ poller'[p].at = "answered" /\ poller'[p].cur = poller[p].cur
    <3>1. r \in 1..lastRun /\ remote'[r] = remote[r] /\ Accepted(r) /\ Got(p, r)
          /\ r \in TargetRun(p) /\ poller[p].at = "get" /\ caLease' = caLease
      BY <2>5, LooksAtRun DEF ProviderLooks, At
    <3>2. statusOf(remote'[r]) \in AgentStatus
      BY <1>0, <3>1 DEF CloudTypeOK, statusOf, AgentStatus, Accepted
    <3>3. /\ OnlyPoll(p)
          /\ poller'[p].at = "answered" /\ poller'[p].saw = poller[p].saw
          /\ poller'[p].cur = poller[p].cur
          /\ poller'[p].got.run = r /\ poller'[p].got.status = statusOf(remote'[r])
      BY <1>0, <3>1, <3>2, GotPoll DEF RemoteRun
    <3>4. PollOK(p)'
      BY <1>1, <1>2, <3>1, <3>3, GetsAnswer
    <3> QED
      BY <3>3, <3>4
  <2>6. poller[p].cur /\ ca.status # "running" => ca.cancel
    BY DEF CloudInv, Ending
  <2> QED
    BY <2>1, <2>2, <2>3, <2>4, <2>5, <2>6
<1>4. \A q \in Poller : Still(q) \/ Landed(q)
  BY <1>1, <1>3, OnlyOneMoves DEF Landed
<1>5. \A r \in RemoteRun : Active(r)' => Active(r)
  BY <1>1 DEF Active
<1>6. dropped' => dropped \/ \E q \in Poller : At(q, "reply") /\ poller'[q].at # "reply"
  BY <1>1, <1>3
<1> QED
  BY <1>1, <1>2, <1>4, <1>5, <1>6, PollsMove

LEMMA SettleInv ==
    ASSUME CloudTypes, CloudInv,
           \/ \E r \in RemoteRun, s \in {"finished", "failed", "cancelled"} : RemoteEnds(r, s)
           \/ Detach \/ CloudLeaseLapses \/ UNCHANGED caVars
    PROVE  CloudInv'
<1>1. UNCHANGED <<lastRun, ca, poller, sentReplies, dropped, caLease>>
  BY SettleTypes
<1>2. /\ \A r \in RemoteRun : Active(r)' => Active(r)
      /\ \A r \in RemoteRun : remote[r] # "none" /\ ~ Active(r) => remote'[r] = remote[r]
  BY DEF RemoteEnds, Detach, CloudLeaseLapses, caVars, Active, CloudTypes, CloudTypeOK
<1>3. \A q \in Poller : Still(q)
  BY <1>1 DEF Still
<1> QED
  BY <1>1, <1>2, <1>3, PollsMove

LEMMA ToolInv ==
    ASSUME CloudTypes, CloudInv, ReplyTool \/ CancelTool
    PROVE  CloudInv'
<1>0. ca \in AgentRow /\ lastRun \in Nat /\ sentReplies \in [Generation -> Nat]
  BY RunsAreCounted DEF CloudTypes, CloudTypeOK
<1>1. /\ UNCHANGED <<remote, sentReplies, dropped, caLease>>
      /\ ca'.remote = ca.remote /\ ca'.latest = ca.latest
      /\ ca'.dispatched = ca.dispatched /\ ca'.fdisp = (ca.fdisp /\ ~ ReplyTool)
      /\ \A p \in Poller : /\ ~ poller'[p].cur /\ poller'[p].at = poller[p].at
                           /\ poller'[p].saw = poller[p].saw /\ poller'[p].got = poller[p].got
  BY ToolTypes DEF ReplyTool, CancelTool
<1>2. lastRun' = lastRun
  BY <1>1, SameRuns DEF Accepted
<1>3. \A p \in Poller : PollOK(p)'
  BY <1>1 DEF CloudInv, PollOK, Handed, holds
<1> HIDE DEF lastRun
<1>4. Quiet' <=> Quiet
  BY <1>1 DEF Quiet, Active
<1>5. CASE ReplyTool
  <2>1. /\ ca.status # "running" /\ ~ ca.followup /\ ca.remote /\ ca.gen < MaxReply
        /\ ca'.status = "running" /\ ca'.followup /\ ca'.gen = ca.gen + 1 /\ ~ ca'.fdisp
    BY <1>0, <1>1, <1>5 DEF ReplyTool, AgentRow
  <2>2. /\ ca.gen \in Nat /\ ca'.gen \in Generation
    BY <1>0, <2>1, CloudAssumption DEF AgentRow, Generation
  <2>3. ~ ca.fdisp /\ lastRun = ca.latest /\ Quiet
    BY <2>1 DEF CloudInv, Following, Ending
  <2>4. ~ dropped /\ \A p \in Poller : ~ At(p, "reply")
    BY <2>3 DEF CloudInv, Sending, Owed
  <2>5. sentReplies[ca'.gen] = 0
    BY <1>0, <2>1, <2>2 DEF CloudInv, Following
  <2>6. \A g \in Generation : sentReplies[g] <= 1 /\ (g > ca'.gen => sentReplies[g] = 0)
    BY <1>0, <2>1, <2>2 DEF CloudInv, Following, Generation
  <2>7. Launching'
    BY <1>1, <1>2, <2>1 DEF CloudInv, Launching, Active
  <2>8. Following'
    BY <1>1, <1>2, <1>4, <2>1, <2>3, <2>5, <2>6 DEF Following
  <2>9. Sending'
    BY <1>1, <2>4 DEF Sending, At
  <2>10. Ending'
    BY <2>1 DEF Ending
  <2> QED
    BY <1>3, <2>7, <2>8, <2>9, <2>10 DEF CloudInv
<1>6. CASE CancelTool
  <2>1. /\ ca'.status = ca.status /\ ca'.followup = ca.followup /\ ca'.gen = ca.gen
        /\ ca'.cancel
    BY <1>0, <1>6 DEF CancelTool, AgentRow
  <2>2. ca'.fdisp = ca.fdisp
    <3>1. ~ ReplyTool
      <4>1. cancels \in Nat /\ cancels' = cancels + 1
        BY <1>6 DEF CancelTool, CloudTypes, CloudTypeOK
      <4> QED
        BY <4>1 DEF ReplyTool
    <3> QED
      BY <1>0, <1>1, <3>1 DEF AgentRow
  <2>3. Launching'
    BY <1>1, <1>2, <2>1 DEF CloudInv, Launching, Active
  <2>4. Following'
    BY <1>1, <1>2, <1>4, <2>1, <2>2 DEF CloudInv, Following
  <2>5. Sending'
    BY <1>1, <1>2, <2>1, <2>2 DEF CloudInv, Sending, Owed, At
  <2>6. Ending'
    BY <1>1, <1>4, <2>1 DEF CloudInv, Ending
  <2> QED
    BY <1>3, <2>3, <2>4, <2>5, <2>6 DEF CloudInv
<1> QED
  BY <1>5, <1>6

LEMMA MarkInv ==
    ASSUME CloudTypes, CloudInv, NEW p \in Poller, MarkLaunch(p) \/ MarkReply(p) \/ RetryPoll(p)
    PROVE  CloudInv'
<1>0. ca \in AgentRow /\ lastRun \in Nat /\ poller[p] \in PollRec /\ 1 \in RemoteRun
  BY RunsAreCounted, CloudAssumption DEF CloudTypes, CloudTypeOK, RemoteRun
<1>1. /\ UNCHANGED <<remote, sentReplies, dropped>> /\ caLease' \in {caLease, NoPoller}
      /\ RetryPoll(p) /\ holds(p) => caLease' = NoPoller
      /\ ~ (RetryPoll(p) /\ holds(p)) => caLease' = caLease
  BY DEF MarkLaunch, MarkReply, RetryPoll
<1>2. /\ OnlyPoll(p)
      /\ poller'[p].at \in {"launch", "reply", "retry", "finally"}
      /\ poller'[p].at = "reply" => MarkReply(p) /\ holds(p)
      /\ poller'[p].at = "launch" => MarkLaunch(p) /\ holds(p)
      /\ poller'[p].saw = poller[p].saw /\ poller'[p].cur = poller[p].cur
      /\ ca'.remote = ca.remote /\ ca'.latest = ca.latest /\ ca'.status = ca.status
      /\ ca'.followup = ca.followup /\ ca'.cancel = ca.cancel /\ ca'.gen = ca.gen
      /\ ca'.dispatched = (ca.dispatched \/ (MarkLaunch(p) /\ holds(p)))
      /\ ca'.fdisp = (ca.fdisp \/ (MarkReply(p) /\ holds(p)))
      /\ ca'.poll = (ca.poll \/ (RetryPoll(p) /\ holds(p)))
  BY MarkTypes
<1>3. lastRun' = lastRun
  BY <1>1, SameRuns DEF Accepted
<1> HIDE DEF lastRun
<1>4. Quiet' <=> Quiet
  BY <1>1 DEF Quiet, Active
<1>5. /\ MarkLaunch(p) /\ holds(p) => Handed(p) /\ Knows(p)
      /\ MarkReply(p) /\ holds(p) => Handed(p) /\ Knows(p)
      /\ RetryPoll(p) /\ holds(p) => Handed(p)
  BY DEF MarkLaunch, MarkReply, RetryPoll, At, Handed, CloudInv, PollOK
<1>6. MarkLaunch(p) /\ holds(p) =>
         /\ ~ ca.remote
         /\ ca.status # "running" => ca.dispatched
  <2> SUFFICES ASSUME MarkLaunch(p), holds(p)
               PROVE  ~ ca.remote /\ (ca.status # "running" => ca.dispatched)
    OBVIOUS
  <2>1. /\ At(p, "claimed") /\ ~ poller[p].saw.remote
        /\ ~ (Unwanted(p) /\ ~ poller[p].saw.dispatched)
    BY DEF MarkLaunch
  <2>2. Knows(p) /\ poller[p].cur
    BY <1>5 DEF holds
  <2>3. ca.status # "running" => poller[p].saw.cancel
    BY <2>2 DEF CloudInv, Ending, Knows
  <2> QED
    BY <2>1, <2>2, <2>3 DEF Knows, At, Unwanted
<1>7. MarkReply(p) /\ holds(p) =>
         /\ ca.remote /\ ca.followup /\ ~ ca.fdisp /\ poller[p].saw.gen = ca.gen
         /\ lastRun = ca.latest /\ ~ dropped /\ \A q \in Poller : ~ At(q, "reply")
         /\ sentReplies[ca.gen] = 0
  <2> SUFFICES ASSUME MarkReply(p), holds(p)
               PROVE  /\ ca.remote /\ ca.followup /\ ~ ca.fdisp /\ poller[p].saw.gen = ca.gen
                      /\ lastRun = ca.latest /\ ~ dropped /\ \A q \in Poller : ~ At(q, "reply")
                      /\ sentReplies[ca.gen] = 0
    OBVIOUS
  <2>1. At(p, "claimed") /\ poller[p].saw.remote /\ poller[p].saw.followup /\ ~ poller[p].saw.fdisp
    BY DEF MarkReply
  <2>2. /\ ca.remote /\ ca.followup /\ ~ ca.fdisp /\ poller[p].saw.gen = ca.gen
    BY <1>5, <2>1 DEF Knows, At
  <2> QED
    BY <2>2 DEF CloudInv, Following, Sending, Owed
<1>8. Launching'
  BY <1>1, <1>2, <1>3, <1>6 DEF CloudInv, Launching, Active
<1>9. Following'
  BY <1>1, <1>2, <1>3, <1>4, <1>7 DEF CloudInv, Following
<1>10. Sending'
  <2>1. CASE MarkReply(p) /\ holds(p)
    <3>1. Owed' /\ ~ dropped'
      BY <1>1, <1>2, <1>3, <1>7, <2>1 DEF Owed
    <3>2. \A q \in Poller : poller'[q].at = "reply" => q = p
      BY <1>2, <1>7, <2>1 DEF OnlyPoll, At
    <3> QED
      BY <1>2, <1>7, <2>1, <3>1, <3>2 DEF Sending, At
  <2>2. CASE ~ (MarkReply(p) /\ holds(p))
    <3>1. Owed => Owed'
      BY <1>1, <1>2, <1>3 DEF Owed
    <3>2. \A q \in Poller : poller'[q].at = "reply" => At(q, "reply") /\ poller'[q] = poller[q]
      BY <1>2, <2>2 DEF OnlyPoll, At
    <3> QED
      BY <1>1, <1>2, <3>1, <3>2 DEF CloudInv, Sending, At
  <2> QED
    BY <2>1, <2>2
<1>11. Ending'
  <2>1. RetryPoll(p) /\ holds(p) /\ ca.status # "running" => ca.cancel
    BY DEF CloudInv, Ending, holds
  <2>2. \A q \in Poller : poller'[q].cur = poller[q].cur
    BY <1>2 DEF OnlyPoll
  <2> QED
    BY <1>2, <1>4, <2>1, <2>2 DEF CloudInv, Ending
<1>12. ASSUME NEW q \in Poller, q # p PROVE PollOK(q)'
  <2>1. poller'[q] = poller[q]
    BY <1>2, <1>12 DEF OnlyPoll
  <2>2. CASE holds(p)
    <3>1. ~ holds(q)'
      BY <1>1, <1>12, <2>2, CloudAssumption DEF holds
    <3> QED
      BY <1>1, <1>2, <2>1, <3>1 DEF CloudInv, PollOK, Handed
  <2>3. CASE ~ holds(p)
    <3>1. ca' = ca /\ caLease' = caLease
      BY <2>3 DEF MarkLaunch, MarkReply, RetryPoll, Mark
    <3>2. Handed(q)' => Handed(q) /\ Knows(q)
      BY <2>1, <3>1 DEF Handed, holds, CloudInv, PollOK
    <3>3. Handed(q)' => Knows(q)'
      BY <1>1, <1>3, <2>1, <3>1, <3>2 DEF Knows, AnswerOK, RefusalOK
    <3> QED
      BY <1>1, <2>1, <3>1, <3>3 DEF CloudInv, PollOK
  <2> QED
    BY <2>2, <2>3
<1>13. PollOK(p)'
  <2>1. CASE holds(p) /\ ~ RetryPoll(p)
    <3>1. Knows(p)'
      BY <1>2, <1>5, <2>1 DEF Knows
    <3>2. poller'[p].at = "launch" => ca'.dispatched /\ ~ poller'[p].saw.remote
      BY <1>2, <2>1 DEF MarkLaunch
    <3> QED
      BY <1>2, <3>1, <3>2 DEF PollOK
  <2>2. CASE ~ holds(p)
    <3>1. caLease' = caLease
      BY <2>2 DEF MarkLaunch, MarkReply, RetryPoll, Mark
    <3>2. ~ Handed(p)'
      BY <1>2, <2>2, <3>1 DEF Handed, holds
    <3> QED
      BY <1>2, <2>2, <3>2 DEF PollOK
  <2>3. CASE holds(p) /\ RetryPoll(p)
    <3>1. ~ Handed(p)'
      BY <1>1, <2>3, CloudAssumption DEF Handed, holds
    <3>2. poller'[p].at # "launch"
      BY <1>2, <2>3 DEF MarkLaunch, RetryPoll, At
    <3> QED
      BY <1>2, <3>1, <3>2 DEF PollOK
  <2> QED
    BY <2>1, <2>2, <2>3
<1> QED
  BY <1>8, <1>9, <1>10, <1>11, <1>12, <1>13 DEF CloudInv

\* The columns finishPoll writes when an agent ends, or its answer is taken: no
\* follow-up is left, and the row names the newest run, or knows of none.
Settled(data) ==
    /\ data.dispatched = ca.dispatched /\ data.gen = ca.gen
    /\ ~ data.followup /\ ~ data.fdisp
    /\ data.remote => lastRun = data.latest /\ (data.status # "running" => Quiet)
    /\ ~ data.remote => /\ ~ ca.remote /\ data.latest = 0
                        /\ ca.dispatched => data.status = "failed"

LEMMA FinishInv ==
    ASSUME CloudTypes, CloudInv, NEW p \in Poller, NEW data \in AgentRow, Settled(data),
           ~ dropped, \A q \in Poller : ~ At(q, "reply"),
           Finish(p, data, poller[p].gone), UNCHANGED <<remote, sentReplies, dropped>>,
           poller[p].at \notin {"idle", "read", "finally"}
    PROVE  CloudInv'
<1>0. /\ CloudTypeOK /\ poller[p].gone \in BOOLEAN /\ lastRun \in 0..MaxRun
  BY RunsAreCounted DEF CloudTypes, CloudTypeOK, PollRec
<1>r. lastRun' = lastRun
  BY SameRuns DEF Accepted
<1>1. CASE holds(p)
  <2>1. /\ ca'.status = data.status /\ ca'.remote = data.remote /\ ca'.latest = data.latest
        /\ ca'.dispatched = data.dispatched /\ ca'.followup = data.followup
        /\ ca'.fdisp = data.fdisp /\ ca'.gen = data.gen
        /\ ca'.poll = (data.status = "running") /\ caLease' = NoPoller
        /\ \A q \in Poller :
              /\ ~ poller'[q].cur
              /\ q # p => /\ poller'[q].at = poller[q].at /\ poller'[q].saw = poller[q].saw
                          /\ poller'[q].got = poller[q].got
              /\ q = p => poller'[q].at = "idle" /\ ~ poller'[q].saw.remote
    BY <1>0, <1>1, FinishWrites
  <2> HIDE DEF lastRun
  <2>2. \A q \in Poller : PollOK(q)'
    BY <2>1 DEF CloudInv, PollOK, Handed, holds, Settled
  <2>3. Quiet' <=> Quiet
    BY DEF Quiet, Active
  <2>5. Launching'
    BY <1>0, <1>r, <2>1 DEF CloudInv, Launching, Settled, Active
  <2>6. Following'
    BY <1>r, <2>1, <2>3 DEF CloudInv, Following, Settled
  <2>7. Sending'
    BY <2>1 DEF Sending, At
  <2>8. Ending'
    BY <2>1, <2>3 DEF Ending, Settled
  <2> QED
    BY <2>2, <2>5, <2>6, <2>7, <2>8 DEF CloudInv
<1>2. CASE ~ holds(p)
  <2>1. To(p, "finally") /\ UNCHANGED <<ca, woken, caLease, caLapsed>>
    BY <1>2 DEF Finish
  <2>2. /\ OnlyPoll(p) /\ poller'[p].at = "finally" /\ poller'[p].cur = poller[p].cur
    BY <1>0, <2>1, ToPoll
  <2>3. Landed(p)
    BY <2>2 DEF Landed, PollOK, Handed, CloudInv, Ending
  <2>4. \A q \in Poller : Still(q) \/ Landed(q)
    BY <2>1, <2>2, <2>3, OnlyOneMoves
  <2> QED
    BY <1>r, <2>1, <2>4, PollsMove DEF Active
<1> QED
  BY <1>1, <1>2

LEMMA TakeInv ==
    ASSUME CloudTypes, CloudInv, NEW p \in Poller,
           CancelLocally(p) \/ TakeRefusal(p) \/ TakeAnswer(p)
    PROVE  CloudInv'
<1>0. /\ CloudTypeOK /\ RemoteAgent /\ ca \in AgentRow /\ poller[p] \in PollRec
      /\ poller[p].saw \in ReadRow /\ lastRun \in 0..MaxRun /\ Names(poller[p])
      /\ 1 \in RemoteRun
  BY RunsAreCounted, CloudAssumption DEF CloudTypes, CloudTypeOK, PollRec, RemoteAgent, RemoteRun
<1>1. UNCHANGED <<remote, sentReplies, dropped, staleClaim>>
  BY DEF CancelLocally, TakeRefusal, TakeAnswer
<1>2. poller[p].at \in {"claimed", "refused", "answered"}
  BY DEF CancelLocally, TakeRefusal, TakeAnswer, At
<1>r. lastRun' = lastRun
  BY <1>1, SameRuns DEF Accepted
<1> HIDE DEF lastRun
\* A poll that does not hold the row leaves it alone.
<1>3. ASSUME ~ holds(p), NEW s \in {"finally", "retry"}, To(p, s), UNCHANGED <<ca, caLease>>
      PROVE  CloudInv'
  <2>1. OnlyPoll(p) /\ poller'[p].at = s /\ poller'[p].cur = poller[p].cur
    BY <1>0, <1>3, ToPoll
  <2>2. ~ Handed(p)'
    BY <1>3, <2>1 DEF Handed, holds
  <2>3. Landed(p)
    BY <2>1, <2>2 DEF Landed, PollOK, CloudInv, Ending
  <2>4. \A q \in Poller : Still(q) \/ Landed(q)
    BY <1>3, <2>1, <2>3, OnlyOneMoves
  <2> QED
    BY <1>1, <1>3, <1>r, <2>4, PollsMove DEF Active
<1>4. CASE ~ holds(p)
  <2>1. \E s \in {"finally", "retry"} : To(p, s) /\ UNCHANGED <<ca, caLease>>
    BY <1>4 DEF CancelLocally, TakeRefusal, TakeAnswer, Finish
  <2> QED
    BY <1>3, <1>4, <2>1
<1>5. CASE holds(p) /\ CancelLocally(p)
  <2>1. Knows(p) /\ Finish(p, CancelData(p), poller[p].gone)
    BY <1>2, <1>5 DEF CloudInv, PollOK, Handed, CancelLocally, CancelData
  <2>2. \/ ~ ca.remote /\ ~ ca.dispatched
        \/ ca.remote /\ ca.followup /\ ~ ca.fdisp
    BY <1>5, <2>1 DEF CancelLocally, Knows, At
  <2>3. poller[p].saw.remote = ca.remote
    BY <2>1 DEF Knows
  <2>4. ~ ca.fdisp /\ Quiet /\ lastRun = ca.latest
    <3>1. CASE ~ ca.remote /\ ~ ca.dispatched
      <4>1. lastRun = 0 /\ ca.latest = 0 /\ ~ ca.fdisp
        BY <3>1 DEF CloudInv, Launching, Following
      <4> QED
        BY <4>1 DEF CloudInv, Launching, Quiet, RemoteRun
    <3>2. CASE ca.remote /\ ca.followup /\ ~ ca.fdisp
      BY <3>2 DEF CloudInv, Following
    <3> QED
      BY <2>2, <3>1, <3>2
  <2>5. ~ ca.remote => ~ ca.followup /\ lastRun = 0 /\ ~ ca.dispatched
    BY <2>2 DEF CloudInv, Launching
  <2>6. Settled(CancelData(p)) /\ CancelData(p) \in AgentRow
    BY <1>0, <2>3, <2>4, <2>5, LocalData DEF Settled, CloudInv, Launching
  <2>7. ~ dropped /\ \A q \in Poller : ~ At(q, "reply")
    BY <2>4 DEF CloudInv, Sending, Owed
  <2> QED
    BY <1>1, <1>2, <2>1, <2>6, <2>7, FinishInv
<1>6. CASE holds(p) /\ TakeRefusal(p)
  <2>1. Knows(p) /\ Finish(p, RefuseData(p), poller[p].gone) /\ At(p, "refused")
    BY <1>2, <1>6 DEF CloudInv, PollOK, Handed, TakeRefusal, RefuseData
  <2>2. RefusalOK(p) /\ poller[p].saw.remote = ca.remote /\ poller[p].saw.followup = ca.followup
    BY <2>1 DEF Knows, At
  <2>3. CASE ~ ca.remote
    <3>1. ~ ca.followup /\ ~ ca.fdisp /\ ca.latest = 0
      BY <2>3 DEF CloudInv, Launching, Following
    <3>2. Settled(RefuseData(p)) /\ RefuseData(p) \in AgentRow
      BY <1>0, <2>3, <3>1, LocalData DEF Settled
    <3>3. ~ dropped /\ \A q \in Poller : ~ At(q, "reply")
      BY <3>1 DEF CloudInv, Sending, Owed
    <3> QED
      BY <1>1, <1>2, <2>1, <3>2, <3>3, FinishInv
  <2>4. CASE ca.remote
    <3>1. ca.followup /\ lastRun = ca.latest /\ sentReplies[ca.gen] = 1
      BY <2>2, <2>4 DEF RefusalOK
    <3>2. Quiet
      BY <3>1 DEF CloudInv, Following
    <3>3. Settled(RefuseData(p)) /\ RefuseData(p) \in AgentRow
      BY <1>0, <2>2, <2>4, <3>1, <3>2, LocalData DEF Settled
    <3>4. ~ dropped /\ \A q \in Poller : ~ At(q, "reply")
      BY <3>1 DEF CloudInv, Sending, Owed
    <3> QED
      BY <1>1, <1>2, <2>1, <3>3, <3>4, FinishInv
  <2> QED
    BY <1>0, <2>3, <2>4 DEF AgentRow
<1>7. CASE holds(p) /\ TakeAnswer(p)
  <2> DEFINE saw == poller[p].saw
             got == poller[p].got
  <2>1. Knows(p) /\ AnswerOK(p) /\ At(p, "answered")
    BY <1>2, <1>7 DEF CloudInv, PollOK, Handed, TakeAnswer, Knows, At
  <2>2. got.status \in AgentStatus /\ got.run \in 1..lastRun
    BY <1>0, <2>1 DEF Names, At
  <2>3. CASE StillAmbiguous(p)
    <3>1. To(p, "retry") /\ UNCHANGED <<ca, caLease>>
      BY <1>7, <2>3 DEF TakeAnswer
    <3>2. /\ OnlyPoll(p) /\ poller'[p].at = "retry" /\ poller'[p].cur = poller[p].cur
          /\ poller'[p].saw = poller[p].saw
      BY <1>0, <3>1, ToPoll
    <3>3. PollOK(p)'
      BY <1>2, <3>1, <3>2, GoesOn
    <3>4. Landed(p)
      BY <3>2, <3>3 DEF Landed, CloudInv, Ending
    <3>5. \A q \in Poller : Still(q) \/ Landed(q)
      BY <3>1, <3>2, <3>4, OnlyOneMoves
    <3> QED
      BY <1>1, <1>r, <3>1, <3>5, PollsMove DEF Active
  <2>4. CASE ~ StillAmbiguous(p)
    <3> DEFINE x == [AnswerData(p) EXCEPT !.remote = TRUE, !.cancel = Unwanted(p)]
    <3>1. Finish(p, x, poller[p].gone)
      BY <1>7, <2>4 DEF TakeAnswer, AnswerData
    <3>2. x = [AnswerData(p) EXCEPT !.remote = TRUE, !.cancel = Unwanted(p)]
      OBVIOUS
    <3> HIDE DEF x
    <3>3. /\ x \in AgentRow /\ x.remote /\ x.status = got.status
          /\ x.latest = got.run /\ x.dispatched = ca.dispatched /\ x.gen = ca.gen
          /\ x.followup = (ca.followup /\ ~ saw.followup)
          /\ x.fdisp = (ca.fdisp /\ ~ saw.followup)
      BY <1>0, <2>2, <3>2, AnsweredData
    <3>4. got.run = lastRun
      BY <2>1, <2>4 DEF AnswerOK, StillAmbiguous
    <3>5. ~ x.followup /\ ~ x.fdisp
      BY <2>1, <3>3 DEF Knows, CloudInv, Following
    <3>6. x.status # "running" => Quiet
      <4> SUFFICES ASSUME got.status # "running" PROVE Quiet
        BY <3>3
      <4>1. remote[lastRun] = got.status
        BY <2>1, <3>4 DEF AnswerOK
      <4>2. ~ Active(lastRun)
        BY <2>2, <4>1 DEF Active, AgentStatus
      <4> QED
        BY <4>2 DEF CloudInv, Launching, Quiet
    <3>7. ~ dropped /\ \A q \in Poller : ~ At(q, "reply")
      <4> SUFFICES ASSUME ca.fdisp, lastRun = ca.latest PROVE FALSE
        BY DEF CloudInv, Sending, Owed
      <4>1. saw.latest = ca.latest
        BY <2>1 DEF Knows
      <4>2. saw.fdisp
        BY <1>0, <2>1, <3>4 DEF AnswerOK, AgentRow
      <4> QED
        BY <2>4, <3>4, <4>1, <4>2 DEF StillAmbiguous
    <3>8. Settled(x)
      BY <3>3, <3>4, <3>5, <3>6 DEF Settled
    <3> QED
      BY <1>1, <1>2, <3>1, <3>3, <3>7, <3>8, FinishInv
  <2> QED
    BY <2>3, <2>4
<1> QED
  BY <1>4, <1>5, <1>6, <1>7

\* A follow-up reaches the provider, which starts the next run.
LEMMA FollowUpArrives ==
    ASSUME CloudTypes, CloudInv, Owed, lastRun < MaxRun,
           remote' = [remote EXCEPT ![lastRun + 1] = "running"],
           sentReplies' = [sentReplies EXCEPT ![ca.gen] = @ + 1],
           UNCHANGED <<ca, caLease>>, ~ dropped',
           \A q \in Poller : Still(q) \/ Landed(q), \A q \in Poller : poller'[q].at # "reply"
    PROVE  CloudInv'
<1>0. /\ ca \in AgentRow /\ lastRun \in 0..MaxRun /\ 1 \in RemoteRun /\ ca.gen \in Generation
      /\ sentReplies \in [Generation -> Nat]
      /\ \A q \in Poller : Names(poller[q]) /\ poller[q] \in PollRec
  BY RunsAreCounted, CloudAssumption
     DEF CloudTypes, CloudTypeOK, RemoteAgent, RemoteRun, AgentRow
<1>1. /\ lastRun' = lastRun + 1 /\ remote'[lastRun + 1] = "running"
      /\ \A r \in RemoteRun : r # lastRun + 1 => remote'[r] = remote[r]
  BY NewRunTypes
<1> HIDE DEF lastRun
<1>2. ca.fdisp /\ ca.followup /\ ca.remote /\ ca.status = "running" /\ lastRun = ca.latest
  BY DEF CloudInv, Launching, Following, Owed
<1>3. Quiet /\ sentReplies[ca.gen] = 0
  BY <1>2 DEF CloudInv, Following, Owed
<1>4. lastRun >= 1
  BY <1>0, <1>2 DEF CloudTypes, RemoteAgent
<1>6. Launching'
  <2>1. \A r \in RemoteRun : Active(r)' => r = lastRun + 1
    BY <1>1, <1>3 DEF Quiet, Active
  <2> QED
    BY <1>1, <1>2, <2>1 DEF Launching
<1>7. Following'
  <2>1. \A g \in Generation : sentReplies'[g] = IF g = ca.gen THEN 1 ELSE sentReplies[g]
    BY <1>0, <1>3
  <2>2. \A g \in Generation : sentReplies'[g] <= 1 /\ (g > ca.gen => sentReplies'[g] = 0)
    BY <1>0, <2>1 DEF CloudInv, Following, Generation
  <2> QED
    BY <1>0, <1>1, <1>2, <2>2 DEF Following
<1>8. Sending' /\ Ending'
  BY <1>2 DEF Sending, Ending, At
<1>9. ASSUME NEW q \in Poller, Still(q) PROVE PollOK(q)'
  <2>1. poller[q].at = "refused" => ~ RefusalOK(q) \/ ~ poller[q].saw.remote
    BY <1>3 DEF RefusalOK
  <2>2. Handed(q)' => Handed(q) /\ Knows(q)
    BY <1>9 DEF CloudInv, PollOK, Handed, holds, Still
  <2>3. poller[q].at = "answered" /\ Knows(q) => AnswerOK(q)'
    <3> SUFFICES ASSUME poller[q].at = "answered", Knows(q) PROVE AnswerOK(q)'
      OBVIOUS
    <3> DEFINE n == poller[q].got.run
    <3>1. n \in 1..lastRun /\ AnswerOK(q) /\ poller[q].saw.latest = ca.latest
      BY <1>0 DEF Names, Knows
    <3>2. n \in RemoteRun /\ n # lastRun + 1
      <4>1. n \in 1..lastRun /\ lastRun \in 0..MaxRun /\ MaxRun \in Nat
        BY <1>0, <3>1, CloudAssumption
      <4> HIDE DEF n
      <4> QED
        BY <4>1 DEF RemoteRun
    <3>3. remote'[n] = remote[n]
      BY <1>1, <3>2
    <3>4. poller[q].saw.fdisp
      BY <1>0, <1>2, <3>1 DEF AnswerOK
    <3>5. n = poller[q].saw.latest
      BY <1>2, <3>1 DEF AnswerOK
    <3> QED
      BY <1>9, <3>1, <3>3, <3>4, <3>5 DEF AnswerOK, Still
  <2>4. Handed(q)' => Knows(q)'
    BY <1>2, <1>9, <2>1, <2>2, <2>3 DEF Knows, Still
  <2> QED
    BY <1>9, <2>4 DEF CloudInv, PollOK, Still
<1> QED
  BY <1>6, <1>7, <1>8, <1>9 DEF CloudInv, Landed

LEMMA ReplyInv ==
    ASSUME CloudTypes, CloudInv, NEW p \in Poller, ProviderReply(p)
    PROVE  CloudInv'
<1>0. /\ CloudTypeOK /\ ca \in AgentRow /\ poller[p] \in PollRec /\ lastRun \in 0..MaxRun
  BY RunsAreCounted DEF CloudTypes, CloudTypeOK
<1>1. /\ At(p, "reply") /\ lastRun < MaxRun /\ UNCHANGED <<ca, caLease, dropped>>
      /\ sentReplies' = [sentReplies EXCEPT ![poller[p].saw.gen] = @ + 1]
  BY DEF ProviderReply, Sent
<1>2. /\ Owed /\ ~ dropped /\ poller[p].saw.gen = ca.gen
      /\ \A q \in Poller : At(q, "reply") => q = p
  BY <1>1 DEF CloudInv, Sending
<1>3. Quiet /\ ca.fdisp /\ lastRun = ca.latest
  BY <1>2 DEF CloudInv, Following, Owed
<1>4. /\ remote' = [remote EXCEPT ![lastRun + 1] = "running"] /\ Got(p, lastRun + 1)
  BY <1>3 DEF ProviderReply, Quiet
<1>5. lastRun' = lastRun + 1 /\ remote'[lastRun + 1] = "running"
  BY <1>1, <1>4, NewRunTypes
<1>n. MaxRun \in Nat
  BY CloudAssumption
<1> HIDE DEF lastRun
<1>6. lastRun + 1 \in 0..MaxRun
  BY <1>0, <1>1, <1>n
<1>7. statusOf(remote'[lastRun + 1]) = "running" /\ "running" \in AgentStatus
  BY <1>5 DEF statusOf, AgentStatus
<1>8. /\ OnlyPoll(p) /\ poller'[p].at = "answered" /\ poller'[p].saw = poller[p].saw
      /\ poller'[p].cur = poller[p].cur
      /\ poller'[p].got.run = lastRun + 1 /\ poller'[p].got.status = "running"
  BY <1>0, <1>4, <1>6, <1>7, GotPoll
<1>9. Handed(p)' => Knows(p)'
  <2>1. Handed(p)' => Knows(p)
    BY <1>1, <1>8 DEF Handed, holds, CloudInv, PollOK, At
  <2>2. AnswerOK(p)'
    BY <1>1, <1>3, <1>5, <1>8 DEF AnswerOK
  <2> QED
    BY <1>1, <1>8, <2>1, <2>2 DEF Knows
<1>10. Landed(p)
  BY <1>8, <1>9 DEF Landed, PollOK, CloudInv, Ending
<1>11. /\ \A q \in Poller : Still(q) \/ Landed(q)
       /\ \A q \in Poller : poller'[q].at # "reply"
  BY <1>1, <1>2, <1>8, <1>10, OnlyOneMoves DEF OnlyPoll, At
<1> QED
  BY <1>1, <1>2, <1>4, <1>11, FollowUpArrives

LEMMA LateReplyInv ==
    ASSUME CloudTypes, CloudInv, LateReply
    PROVE  CloudInv'
<1>1. Owed /\ \A q \in Poller : ~ At(q, "reply")
  BY DEF LateReply, CloudInv, Sending
<1>2. Quiet
  BY <1>1 DEF CloudInv, Following, Owed
<1>3. /\ lastRun < MaxRun /\ ~ dropped' /\ UNCHANGED <<ca, caLease, poller>>
      /\ remote' = [remote EXCEPT ![lastRun + 1] = "running"]
      /\ sentReplies' = [sentReplies EXCEPT ![ca.gen] = @ + 1]
  BY <1>2 DEF LateReply, Quiet
<1>4. /\ \A q \in Poller : Still(q)
      /\ \A q \in Poller : poller'[q].at # "reply"
  BY <1>1, <1>3 DEF Still, At
<1> QED
  BY <1>1, <1>3, <1>4, FollowUpArrives

LEMMA LaunchInv ==
    ASSUME CloudTypes, CloudInv, NEW p \in Poller, ProviderLaunch(p)
    PROVE  CloudInv'
<1>0. /\ CloudTypeOK /\ ca \in AgentRow /\ poller[p] \in PollRec /\ lastRun \in 0..MaxRun
      /\ 1 \in 0..MaxRun /\ 1 \in RemoteRun
      /\ \A q \in Poller : Names(poller[q])
  BY RunsAreCounted, CloudAssumption DEF CloudTypes, CloudTypeOK, RemoteAgent, RemoteRun
<1>1. /\ At(p, "launch") /\ Got(p, 1) /\ UNCHANGED <<ca, caLease, dropped, sentReplies>>
  BY DEF ProviderLaunch
<1>2. /\ statusOf(remote'[1]) \in AgentStatus /\ lastRun' \in Nat /\ 1 <= lastRun'
      /\ \/ remote' = remote /\ lastRun' = lastRun
         \/ /\ remote[1] = "none" /\ remote'[1] = "running" /\ lastRun = 0 /\ lastRun' = 1
            /\ \A r \in RemoteRun : r # 1 => remote'[r] = remote[r]
  BY LaunchGrows DEF RunsGrow
<1> HIDE DEF lastRun
<1>3. /\ OnlyPoll(p) /\ poller'[p].at = "answered" /\ poller'[p].saw = poller[p].saw
      /\ poller'[p].cur = poller[p].cur
      /\ poller'[p].got.run = 1 /\ poller'[p].got.status = statusOf(remote'[1])
  BY <1>0, <1>1, <1>2, GotPoll
<1>4. ca.dispatched /\ ~ poller[p].saw.remote
  BY <1>1 DEF CloudInv, PollOK, At
<1>5. Handed(p)' => Knows(p)'
  <2> SUFFICES ASSUME Handed(p)' PROVE Knows(p)'
    OBVIOUS
  <2>1. Knows(p)
    BY <1>1, <1>3 DEF Handed, holds, CloudInv, PollOK, At
  <2>2. ~ ca.remote /\ ~ ca.fdisp /\ lastRun <= 1
    BY <1>4, <2>1 DEF Knows, CloudInv, Launching, Following
  <2>3. lastRun' = 1
    BY <1>0, <1>2, <2>2
  <2>4. statusOf(remote'[1]) # "running" => remote'[1] = statusOf(remote'[1])
    BY DEF statusOf
  <2>5. AnswerOK(p)'
    BY <1>1, <1>3, <2>2, <2>3, <2>4 DEF AnswerOK
  <2> QED
    BY <1>1, <1>3, <2>1, <2>5 DEF Knows
<1>6. Landed(p)
  BY <1>3, <1>5 DEF Landed, PollOK, CloudInv, Ending
<1>7. \A q \in Poller : Still(q) \/ Landed(q)
  BY <1>1, <1>3, <1>6, OnlyOneMoves
<1>8. CASE remote' = remote /\ lastRun' = lastRun
  BY <1>1, <1>7, <1>8, PollsMove DEF Active
<1>9. CASE /\ remote[1] = "none" /\ remote'[1] = "running" /\ lastRun = 0 /\ lastRun' = 1
           /\ \A r \in RemoteRun : r # 1 => remote'[r] = remote[r]
  <2>1. ~ ca.remote
    BY <1>0, <1>9 DEF CloudTypes, RemoteAgent
  <2>2. /\ ca.status \in {"running", "failed"}
        /\ ~ ca.followup /\ ~ ca.fdisp /\ ca.latest = 0
    BY <1>4, <1>9, <2>1 DEF CloudInv, Launching, Following
  <2>3. Launching'
    <3>1. \A r \in RemoteRun : Active(r)' => r = 1
      BY <1>9 DEF CloudInv, Launching, Active, RemoteRun
    <3> QED
      BY <1>1, <1>4, <1>9, <2>1, <2>2, <3>1 DEF Launching
  <2>4. Following'
    BY <1>1, <2>1, <2>2 DEF CloudInv, Following
  <2>5. ~ dropped /\ \A q \in Poller : ~ At(q, "reply")
    BY <2>2 DEF CloudInv, Sending, Owed
  <2>6. Sending' /\ Ending'
    BY <1>1, <1>3, <2>1, <2>2, <2>5 DEF CloudInv, Sending, Ending, OnlyPoll, At
  <2>7. ASSUME NEW q \in Poller, Still(q) PROVE PollOK(q)'
    <3>1. poller[q].at # "answered"
      BY <1>0, <1>9 DEF CloudInv, PollOK, Names
    <3>2. Handed(q)' => Knows(q)
      BY <2>7 DEF CloudInv, PollOK, Handed, holds, Still
    <3>3. Handed(q)' => Knows(q)'
      BY <1>1, <2>1, <2>7, <3>1, <3>2 DEF Knows, RefusalOK, Still
    <3> QED
      BY <1>1, <2>7, <3>1, <3>3 DEF CloudInv, PollOK, Still
  <2>8. \A q \in Poller : PollOK(q)'
    BY <1>7, <2>7 DEF Landed
  <2> QED
    BY <2>3, <2>4, <2>6, <2>8 DEF CloudInv
<1> QED
  BY <1>2, <1>8, <1>9

\* A launch or a follow-up is refused.
LEMMA RefuseInv ==
    ASSUME CloudTypes, CloudInv, NEW p \in Poller, ProviderRefuses(p)
    PROVE  CloudInv'
<1>0. /\ CloudTypeOK /\ poller[p] \in PollRec /\ Names(poller[p])
      /\ sentReplies \in [Generation -> Nat] /\ ca.gen \in Generation
  BY DEF CloudTypes, CloudTypeOK, AgentRow, RemoteAgent
<1>1. /\ To(p, "refused") /\ UNCHANGED <<ca, caLease, dropped, remote>>
      /\ \/ At(p, "launch") /\ UNCHANGED sentReplies
         \/ /\ At(p, "reply")
            /\ sentReplies' = [sentReplies EXCEPT ![poller[p].saw.gen] = @ + 1]
  BY DEF ProviderRefuses, Sent
<1>2. lastRun' = lastRun
  BY RefusalGrows
<1> HIDE DEF lastRun
<1>3. /\ OnlyPoll(p) /\ poller'[p].at = "refused" /\ poller'[p].saw = poller[p].saw
      /\ poller'[p].cur = poller[p].cur
  BY <1>0, <1>1, ToPoll
<1>4. Handed(p)' => Knows(p)
  BY <1>1, <1>3 DEF Handed, holds, CloudInv, PollOK, At
<1>5. At(p, "reply") =>
         /\ ca.fdisp /\ lastRun = ca.latest /\ sentReplies[ca.gen] = 0 /\ ~ dropped
         /\ poller[p].saw.gen = ca.gen /\ \A q \in Poller : At(q, "reply") => q = p
  BY DEF CloudInv, Sending, Owed
<1>6. At(p, "reply") =>
         sentReplies' = [sentReplies EXCEPT ![ca.gen] = 1] /\ sentReplies'[ca.gen] = 1
  <2> SUFFICES ASSUME At(p, "reply")
               PROVE  sentReplies' = [sentReplies EXCEPT ![ca.gen] = 1] /\ sentReplies'[ca.gen] = 1
    OBVIOUS
  <2>1. sentReplies' = [sentReplies EXCEPT ![ca.gen] = @ + 1]
    BY <1>1, <1>5 DEF At
  <2>2. sentReplies[ca.gen] + 1 = 1
    BY <1>5
  <2>3. sentReplies' = [sentReplies EXCEPT ![ca.gen] = 1]
    BY <2>1, <2>2
  <2> QED
    BY <1>0, <2>3
<1>7. Handed(p)' => Knows(p)'
  <2>1. CASE At(p, "launch")
    <3>1. ~ poller[p].saw.remote
      BY <2>1 DEF CloudInv, PollOK, At
    <3> QED
      BY <1>1, <1>3, <1>4, <3>1 DEF Knows, RefusalOK
  <2>2. CASE At(p, "reply")
    <3>1. Handed(p)' => poller[p].saw.followup
      BY <1>4, <1>5, <2>2 DEF Knows, CloudInv, Following
    <3> QED
      BY <1>1, <1>2, <1>3, <1>4, <1>5, <1>6, <2>2, <3>1 DEF Knows, RefusalOK
  <2> QED
    BY <1>1, <2>1, <2>2
<1>8. Landed(p)
  BY <1>3, <1>7 DEF Landed, PollOK, CloudInv, Ending
<1>9. \A q \in Poller : Still(q) \/ Landed(q)
  BY <1>1, <1>3, <1>8, OnlyOneMoves
<1>10. \/ UNCHANGED sentReplies
       \/ /\ ca.fdisp /\ ~ dropped' /\ \A q \in Poller : poller'[q].at # "reply"
          /\ sentReplies' = [sentReplies EXCEPT ![ca.gen] = 1]
  BY <1>1, <1>3, <1>5, <1>6 DEF OnlyPoll, At
<1>11. /\ \A r \in RemoteRun : Active(r)' => Active(r)
       /\ \A r \in RemoteRun : remote[r] # "none" /\ ~ Active(r) => remote'[r] = remote[r]
  BY <1>1 DEF Active
<1> QED
  BY <1>1, <1>2, <1>9, <1>10, <1>11, PollsMove

LEMMA CancelsInv ==
    ASSUME CloudTypes, CloudInv, NEW p \in Poller, NEW r \in RemoteRun, ProviderCancels(p, r)
    PROVE  CloudInv'
<1>0. CloudTypeOK /\ poller[p] \in PollRec /\ remote \in [RemoteRun -> Statuses]
  BY DEF CloudTypes, CloudTypeOK, Statuses
<1>1. /\ poller[p].at \in {"get", "cancel"} /\ r \in TargetRun(p) /\ Got(p, r)
      /\ UNCHANGED <<ca, caLease, dropped, sentReplies>>
      /\ remote' = [remote EXCEPT ![r] = IF @ = "running" THEN "stopping" ELSE @]
  BY DEF ProviderCancels, At
<1>2. Accepted(r)
  BY <1>1, LooksAtRun
<1>3. /\ \A x \in RemoteRun : Accepted(x)' <=> Accepted(x)
      /\ \A x \in RemoteRun : Active(x)' => Active(x)
      /\ \A x \in RemoteRun : remote[x] # "none" /\ ~ Active(x) => remote'[x] = remote[x]
  BY <1>0, <1>1 DEF Active, Accepted
<1>4. lastRun' = lastRun
  BY <1>3, SameRuns
<1> HIDE DEF lastRun
<1>5. statusOf(remote'[r]) \in AgentStatus
  BY <1>0, <1>1, <1>2 DEF Accepted, Statuses, statusOf, AgentStatus
<1>6. /\ OnlyPoll(p) /\ poller'[p].at = "answered" /\ poller'[p].saw = poller[p].saw
      /\ poller'[p].cur = poller[p].cur
      /\ poller'[p].got.run = r /\ poller'[p].got.status = statusOf(remote'[r])
  BY <1>0, <1>1, <1>5, GotPoll DEF RemoteRun
<1>7. PollOK(p)'
  BY <1>1, <1>4, <1>6, GetsAnswer
<1>8. Landed(p)
  BY <1>6, <1>7 DEF Landed, CloudInv, Ending
<1>9. \A q \in Poller : Still(q) \/ Landed(q)
  BY <1>1, <1>6, <1>8, OnlyOneMoves
<1> QED
  BY <1>1, <1>3, <1>4, <1>9, PollsMove

LEMMA CloudStepInv ==
    CloudTypes /\ (staleClaim \/ CloudInv) /\ [CloudNext]_caVars => (staleClaim \/ CloudInv)'
<1> SUFFICES ASSUME CloudTypes, staleClaim \/ CloudInv, [CloudNext]_caVars, ~ staleClaim'
             PROVE  CloudInv'
  OBVIOUS
<1>1. ~ staleClaim
  <2>1. staleClaim' = staleClaim \/ \E b : staleClaim' = (staleClaim \/ b)
    BY DEF CloudNext, PollStep, caVars, ReadAgent, ClaimAgent, CancelLocally, MarkLaunch, MarkReply,
           ChooseCall, ProviderLaunch, ProviderRefuses, ProviderReply, ProviderLooks,
           ProviderCancels, TakeAnswer, TakeRefusal, RetryPoll, ReleaseLease, LoseCall, PollDies,
           RemoteEnds, ReplyTool, CancelTool, Detach, CloudLeaseLapses, LateReply
  <2> QED
    BY <2>1, Zenon
<1>2. CloudInv
  BY <1>1
<1> QED
  BY <1>2, QuietStepInv, TakeInv, ToolInv, MarkInv, SettleInv, ReplyInv, LateReplyInv, LaunchInv,
     RefuseInv, CancelsInv
     DEF CloudNext, PollStep

LEMMA CloudInitInv == CloudInit => CloudInv
<1> SUFFICES ASSUME CloudInit PROVE CloudInv
  OBVIOUS
<1> USE CloudAssumption
<1>1. \A r \in RemoteRun : remote[r] = "none"
  BY DEF CloudInit
<1>2. lastRun = 0
  <2>1. \A r \in RemoteRun : remote[r] # "none" <=> r <= 0
    BY <1>1 DEF RemoteRun
  <2> QED
    BY <2>1, NumberedRuns DEF lastRun
<1> HIDE DEF lastRun
<1>3. /\ ~ ca.remote /\ ~ ca.followup /\ ~ ca.fdisp /\ ~ ca.dispatched /\ ca.latest = 0
      /\ ca.status = "running" /\ ~ dropped /\ \A g \in Generation : sentReplies[g] = 0
  BY DEF CloudInit, Fresh
<1>4. \A p \in Poller : poller[p].at = "idle" /\ ~ poller[p].cur
  BY DEF CloudInit, Resting
<1>5. Launching /\ Following
  BY <1>1, <1>2, <1>3 DEF Launching, Following, Active
<1>6. Sending /\ Ending /\ \A p \in Poller : PollOK(p)
  BY <1>3, <1>4 DEF Sending, Ending, PollOK, Handed, At
<1> QED
  BY <1>5, <1>6 DEF CloudInv

\* A follow-up reaches the provider once, and a row that says its agent has ended
\* names the newest run, and nothing runs: unless a poll claimed a row that was
\* not the one it had read, or the row ended on the refusal of a launch that the
\* provider had accepted.
THEOREM EndedAgentsHaveEnded == CloudSpec => []FollowedToTheEnd
<1>1. CloudTypes /\ (staleClaim \/ CloudInv) => FollowedToTheEnd
  <2> SUFFICES ASSUME CloudInv, CloudTypes PROVE FollowedToTheEnd
    BY DEF FollowedToTheEnd
  <2>0. lastRun \in 0..MaxRun /\ 1 \in RemoteRun
    BY RunsAreCounted, CloudAssumption DEF RemoteRun
  <2> HIDE DEF lastRun
  <2>1. \A g \in Generation : sentReplies[g] <= 1
    BY DEF CloudInv, Following
  <2>2. ASSUME ca.status # "running", ~ Disowned
        PROVE  Quiet /\ ca.latest = lastRun
    <3>1. CASE ca.remote
      <4>1. ~ ca.followup /\ ~ ca.fdisp
        BY <2>2 DEF CloudInv, Following
      <4> QED
        BY <2>2, <3>1, <4>1 DEF CloudInv, Following, Ending
    <3>2. CASE ~ ca.remote
      <4>1. ca.dispatched => remote[1] = "none"
        BY <2>2, <3>2 DEF CloudInv, Launching, Disowned
      <4>2. lastRun = 0 /\ ca.latest = 0
        BY <2>0, <3>2, <4>1 DEF CloudInv, Launching, CloudTypes, RemoteAgent, Accepted
      <4> QED
        BY <4>2 DEF CloudInv, Launching, Quiet, RemoteRun
    <3> QED
      BY <3>1, <3>2
  <2> QED
    BY <2>1, <2>2 DEF FollowedToTheEnd, Quiet
<1> QED
  BY <1>1, CloudInitTypes, CloudTypesStep, CloudInitInv, CloudStepInv, PTL DEF CloudSpec

-----------------------------------------------------------------------------
(* The settings in which TLC runs the three.                               *)

\* A step of a setting is a step of one of the three; the others are at rest.
LEMMA DlvSteps ==
    [DlvNext]_dlvVars =>
       [EffectNext]_effVars /\ [OutboxNext]_outVars /\ [CloudNext]_caVars
<1> SUFFICES ASSUME [DlvNext]_dlvVars
             PROVE  [EffectNext]_effVars /\ [OutboxNext]_outVars /\ [CloudNext]_caVars
  OBVIOUS
<1>1. CASE Tools(EffectNext)
  <2>1. EffectNext /\ UNCHANGED outVars /\ UNCHANGED caVars
    BY <1>1 DEF Tools
  <2> QED
    BY <2>1
<1>2. CASE Outbox(OutboxNext)
  <2>1. OutboxNext /\ UNCHANGED effVars /\ UNCHANGED caVars
    BY <1>2 DEF Outbox
  <2> QED
    BY <2>1
<1>3. CASE Poll(CloudNext) \/ Polls(CloudNext)
  <2>1. CloudNext /\ UNCHANGED effVars /\ UNCHANGED outVars
    BY <1>3 DEF Poll, Polls
  <2> QED
    BY <2>1
<1>4. CASE UNCHANGED dlvVars
  BY <1>4 DEF dlvVars
<1> QED
  BY <1>1, <1>2, <1>3, <1>4 DEF DlvNext

\* What is proved of the tool calls, the outbox and the cloud agent holds in every
\* setting, of any size: settings only leave behaviours out.
THEOREM SettingsOnlyRestrict ==
    DlvSpec => /\ EffectInit /\ [][EffectNext]_effVars
               /\ OutboxInit /\ [][OutboxNext]_outVars
               /\ CloudInit /\ [][CloudNext]_caVars
<1>1. DlvInit => EffectInit /\ OutboxInit /\ CloudInit
  BY DEF DlvInit
<1> QED
  BY <1>1, DlvSteps, PTL DEF DlvSpec

\* The rows, locals and counters of the three keep their types in every setting.
THEOREM DeliveriesTypesAreRight == DlvSpec => []DlvTypeOK
<1>1. EffectTypeOK /\ OutInv /\ CloudTypes => DlvTypeOK
  BY DEF OutInv, CloudTypes, DlvTypeOK
<1> QED
  BY <1>1, SettingsOnlyRestrict, EffectInitTypes, StepTypes, OutInitInv, OutStepInv,
     CloudInitTypes, CloudTypesStep, PTL

=============================================================================
