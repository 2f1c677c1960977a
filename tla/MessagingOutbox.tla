---------------------------- MODULE MessagingOutbox ----------------------------
(***************************************************************************)
(* The outbox of the messaging apps and the drains that empty it.          *)
(*                                                                         *)
(* A row is written in the transaction of what it tells about; drains of   *)
(* several jobs and processes run at once, claim each row by a             *)
(* compare-and-set and send it to a provider that has no idempotency key.  *)
(* An invite to connect two agents is sent under the lock of the           *)
(* connection's row, so that a revoke cannot fall between the check and    *)
(* the send.                                                               *)
(***************************************************************************)
EXTENDS Naturals, FiniteSets

CONSTANTS
    Chat,          \* rows that carry an ordinary direct message
    Invite,        \* rows that carry an invite, one for each approval cycle
    Drain,         \* executions of drain that may overlap
    NoDrain,       \* nobody holds the connection's row
    NoRow,         \* a drain that has no row in hand
    MaxAttempts,   \* MESSAGING_OUTBOUND_MAX_ATTEMPTS
    DmCap,         \* MESSAGING_DM_OUTBOUND_CAP
    MaxDrainCrash, \* bound: crashes of a drain
    MaxInbound     \* bound: messages the owner sends

Row == Chat \cup Invite

ASSUME OutboxAssumption ==
    /\ Chat \cap Invite = {} /\ NoDrain \notin Drain /\ NoRow \notin Row
    /\ MaxAttempts \in Nat \ {0} /\ DmCap \in Nat \ {0}
    /\ MaxDrainCrash \in Nat /\ MaxInbound \in Nat

VARIABLES
    out,          \* messaging_outbound.status; "none" before, "gone" after
    tries,        \* messaging_outbound.attempts
    due,          \* nextAttemptAt is null or past
    handle,       \* messaging_outbound.providerHandle is set
    conn,         \* agent_connections.status of the pair
    connLock,     \* the drain that holds the connection's row FOR UPDATE
    streak,       \* messaging_identities.outboundSinceInbound
    drain,        \* per drain: where it is
    delivered,    \* history: how often the provider accepted the row
    lost,         \* history: accepted, but the drain was told of a failure
    drainCrashes, \* number of crashes so far
    inbounds      \* number of inbound messages so far

outVars == <<out, tries, due, handle, conn, connLock, streak, drain,
             delivered, lost, drainCrashes, inbounds>>

NoDrainWork == [at |-> "idle", todo |-> {}, read |-> [r \in Row |-> 0],
                on |-> NoRow]

OutboxInit ==
    /\ out = [r \in Row |-> "none"] /\ tries = [r \in Row |-> 0]
    /\ due = [r \in Row |-> TRUE] /\ handle = [r \in Row |-> FALSE]
    /\ conn = "none" /\ connLock = NoDrain /\ streak = 0
    /\ drain = [d \in Drain |-> NoDrainWork]
    /\ delivered = [r \in Row |-> 0] /\ lost = [r \in Row |-> 0]
    /\ drainCrashes = 0 /\ inbounds = 0

Put(r, s) == out' = [out EXCEPT ![r] = s]

-----------------------------------------------------------------------------
(* The rows and the connection.                                            *)

\* A mirrored reply or a confirmation, under a unique key.
WriteRow(r) ==
    /\ r \in Chat /\ out[r] = "none"
    /\ Put(r, "pending")
    /\ UNCHANGED <<tries, due, handle, conn, connLock, streak, drain, delivered,
                   lost, drainCrashes, inbounds>>

\* connect_agent: claim the connection and replace the invite, in one
\* transaction that waits for the connection's row.
RequestConnection(r) ==
    /\ r \in Invite /\ out[r] = "none" /\ connLock = NoDrain
    /\ conn \in {"none", "declined", "revoked"}
    /\ conn' = "pending"
    /\ out' = [x \in Row |-> IF x = r THEN "pending"
                             ELSE IF x \in Invite /\ out[x] # "none" THEN "gone"
                             ELSE out[x]]
    /\ UNCHANGED <<tries, due, handle, connLock, streak, drain, delivered, lost,
                   drainCrashes, inbounds>>

\* The target's owner answers in the app, by text or through the bot.
AnswerConnection(s) ==
    /\ conn = "pending" /\ connLock = NoDrain
    /\ conn' = s
    /\ UNCHANGED <<out, tries, due, handle, connLock, streak, drain, delivered,
                   lost, drainCrashes, inbounds>>

\* Either owner revokes: the invite that was not delivered goes with it.
RevokeConnection ==
    /\ conn \notin {"none", "revoked"} /\ connLock = NoDrain
    /\ conn' = "revoked"
    /\ out' = [x \in Row |->
                 IF x \in Invite /\ (out[x] = "pending" \/
                                     (out[x] = "sent" /\ ~handle[x]))
                   THEN "gone" ELSE out[x]]
    /\ UNCHANGED <<tries, due, handle, connLock, streak, drain, delivered, lost,
                   drainCrashes, inbounds>>

\* An inbound message ends the owner's consecutive-outbound streak.
InboundMessage ==
    /\ inbounds < MaxInbound /\ streak > 0
    /\ streak' = 0 /\ inbounds' = inbounds + 1
    /\ UNCHANGED <<out, tries, due, handle, conn, connLock, drain, delivered,
                   lost, drainCrashes>>

\* applyMessagingOutboundStatus: the provider's webhooks, in any order.
StatusWebhook(r, s) ==
    /\ handle[r] /\ out[r] \notin {"none", "gone"}
    /\ Put(r, s)
    /\ UNCHANGED <<tries, due, handle, conn, connLock, streak, drain, delivered,
                   lost, drainCrashes, inbounds>>

BackoffPasses(r) ==
    /\ ~due[r] /\ due' = [due EXCEPT ![r] = TRUE]
    /\ UNCHANGED <<out, tries, handle, conn, connLock, streak, drain, delivered,
                   lost, drainCrashes, inbounds>>

-----------------------------------------------------------------------------
(* drain.                                                                  *)

Step(d, fields) == drain' = [drain EXCEPT ![d] = fields]

\* The row is done with: the next one, or the end of the job.
NextRow(d) ==
    LET left == drain[d].todo
    IN  [at |-> IF left = {} THEN "idle" ELSE "loop", todo |-> left, on |-> NoRow,
         read |-> [r \in Row |-> IF r \in left THEN drain[d].read[r] ELSE 0]]

dueRows == {r \in Row : out[r] = "pending" /\ due[r]}

\* A job, or the reconciler, starts a drain: it lists the rows that are due.
StartDrain(d) ==
    /\ drain[d].at = "idle" /\ dueRows # {}
    /\ Step(d, [at |-> "loop", todo |-> dueRows, on |-> NoRow,
                read |-> [r \in Row |-> IF r \in dueRows THEN tries[r] ELSE 0]])
    /\ UNCHANGED <<out, tries, due, handle, conn, connLock, streak, delivered,
                   lost, drainCrashes, inbounds>>

\* Mutant: the drain trusts its list.
claimableListed(r) == out[r] \in {"pending", "sent"}

\* The claim asks for the status only: the list may be old by now.
claimable(r) == out[r] = "pending"

ClaimRow(d, r) ==
    /\ drain[d].at = "loop" /\ r \in drain[d].todo
    /\ LET left == [drain[d] EXCEPT !.todo = @ \ {r}]
       IN  IF claimable(r)
             THEN /\ Put(r, "sent") /\ due' = [due EXCEPT ![r] = TRUE]
                  /\ Step(d, [left EXCEPT !.at = "claimed", !.on = r])
             ELSE /\ Step(d, [left EXCEPT !.read[r] = 0,
                                  !.at = IF left.todo = {} THEN "idle" ELSE "loop"])
                  /\ UNCHANGED <<out, due>>
    /\ UNCHANGED <<tries, handle, conn, connLock, streak, delivered, lost,
                   drainCrashes, inbounds>>

On(d, pc, r) == drain[d].at = pc /\ drain[d].on = r

\* update by id: a row that was deleted meanwhile makes it throw.
SetClaimed(d, r, s) ==
    IF out[r] = "gone"
      THEN /\ Step(d, [drain[d] EXCEPT !.at = "catch"]) /\ UNCHANGED out
      ELSE /\ Put(r, s) /\ Step(d, NextRow(d))

\* The owner's identity or the chat's thread is gone.
NobodyToSendTo(d, r) ==
    /\ On(d, "claimed", r)
    /\ SetClaimed(d, r, "failed")
    /\ UNCHANGED <<tries, due, handle, conn, connLock, streak, delivered, lost,
                   drainCrashes, inbounds>>

\* The vendor's cap on consecutive messages: release the claim.
HoldForCap(d, r) ==
    /\ On(d, "claimed", r) /\ streak >= DmCap
    /\ SetClaimed(d, r, "pending")
    /\ UNCHANGED <<tries, due, handle, conn, connLock, streak, delivered, lost,
                   drainCrashes, inbounds>>

\* The provider accepts, and the answer arrives or is lost; or it refuses.
Outcomes == {"accepted", "lost", "refused"}

Reaches(r, outcome) ==
    /\ delivered' = [delivered EXCEPT ![r] = @ + (IF outcome = "refused" THEN 0 ELSE 1)]
    /\ lost' = [lost EXCEPT ![r] = @ + (IF outcome = "lost" THEN 1 ELSE 0)]

SendChat(d, r, outcome) ==
    /\ On(d, "claimed", r) /\ r \in Chat /\ streak < DmCap
    /\ Reaches(r, outcome)
    /\ Step(d, [drain[d] EXCEPT !.at =
                  IF outcome = "accepted" THEN "record" ELSE "catch"])
    /\ UNCHANGED <<out, tries, due, handle, conn, connLock, streak, drainCrashes,
                   inbounds>>

\* Mutant: the connection is read but its row is not locked.
lockedByNobody(d) == NoDrain

lockedBy(d) == d

\* sendConnectInvite: lock the connection's row, check it and the invite.
LockInvite(d, r) ==
    /\ On(d, "claimed", r) /\ r \in Invite /\ streak < DmCap
    /\ connLock = NoDrain
    /\ IF conn = "pending" /\ out[r] # "gone"
         THEN /\ connLock' = lockedBy(d)
              /\ Step(d, [drain[d] EXCEPT !.at = "locked"])
              /\ UNCHANGED out
         ELSE /\ out' = [out EXCEPT ![r] =
                           IF conn # "pending" /\ @ # "gone" THEN "failed" ELSE @]
              /\ Step(d, NextRow(d)) /\ UNCHANGED connLock
    /\ UNCHANGED <<tries, due, handle, conn, streak, delivered, lost,
                   drainCrashes, inbounds>>

\* ... send under the lock.  Any failure leaves the row claimed: "held".
SendInvite(d, r, outcome) ==
    /\ On(d, "locked", r)
    /\ delivered' = [delivered EXCEPT ![r] = @ + (IF outcome = "refused" THEN 0 ELSE 1)]
    /\ handle' = [handle EXCEPT ![r] = @ \/ outcome = "accepted"]
    /\ connLock' = NoDrain
    /\ Step(d, IF outcome = "accepted" THEN [drain[d] EXCEPT !.at = "count"]
               ELSE NextRow(d))
    /\ UNCHANGED <<out, tries, due, conn, streak, lost, drainCrashes, inbounds>>

RecordHandle(d, r) ==
    /\ On(d, "record", r)
    /\ handle' = [handle EXCEPT ![r] = TRUE]
    /\ Step(d, [drain[d] EXCEPT !.at = "count"])
    /\ UNCHANGED <<out, tries, due, conn, connLock, streak, delivered, lost,
                   drainCrashes, inbounds>>

\* Only whether the cap is reached matters, so the count stops there.
CountStreak(d, r) ==
    /\ On(d, "count", r)
    /\ streak' = IF streak < DmCap THEN streak + 1 ELSE streak
    /\ Step(d, NextRow(d))
    /\ UNCHANGED <<out, tries, due, handle, conn, connLock, delivered, lost,
                   drainCrashes, inbounds>>

\* A write that follows an accepted send fails: the same catch block.
WriteFails(d, r) ==
    /\ On(d, "record", r) \/ On(d, "count", r)
    /\ lost' = [lost EXCEPT ![r] = @ + 1]
    /\ Step(d, [drain[d] EXCEPT !.at = "catch"])
    /\ UNCHANGED <<out, tries, due, handle, conn, connLock, streak, delivered,
                   drainCrashes, inbounds>>

\* Mutant: a failure is not counted.
attemptsUncounted(d, r) == drain[d].read[r]

\* Mutant: one attempt too many.
exhaustedLate(n) == n > MaxAttempts

exhausted(n) == n >= MaxAttempts

\* The catch block: back to pending with a backoff, or failed for good.  The
\* attempts it counts from are those of the list.
attemptsAfter(d, r) == drain[d].read[r] + 1

CatchFailure(d, r) ==
    /\ On(d, "catch", r)
    /\ LET n == attemptsAfter(d, r)
       IN  IF out[r] = "gone" THEN UNCHANGED <<out, tries, due>>
           ELSE /\ Put(r, IF exhausted(n) THEN "failed" ELSE "pending")
                /\ tries' = [tries EXCEPT ![r] = n]
                /\ due' = [due EXCEPT ![r] = exhausted(n)]
    /\ Step(d, NextRow(d))
    /\ UNCHANGED <<handle, conn, connLock, streak, delivered, lost, drainCrashes,
                   inbounds>>

\* A crash: the rows it had claimed stay "sent", a lock it held is released.
DrainCrashes(d) ==
    /\ drain[d].at # "idle" /\ drainCrashes < MaxDrainCrash
    /\ drainCrashes' = drainCrashes + 1
    /\ connLock' = IF connLock = d THEN NoDrain ELSE connLock
    /\ Step(d, NoDrainWork)
    /\ UNCHANGED <<out, tries, due, handle, conn, streak, delivered, lost, inbounds>>

RowStep(d, r) ==
    \/ ClaimRow(d, r) \/ NobodyToSendTo(d, r) \/ HoldForCap(d, r)
    \/ \E o \in Outcomes : SendChat(d, r, o) \/ SendInvite(d, r, o)
    \/ LockInvite(d, r) \/ RecordHandle(d, r) \/ CountStreak(d, r)
    \/ WriteFails(d, r) \/ CatchFailure(d, r)

OutboxNext ==
    \/ \E r \in Row : WriteRow(r) \/ RequestConnection(r) \/ BackoffPasses(r)
    \/ \E r \in Row, s \in {"sent", "failed"} : StatusWebhook(r, s)
    \/ \E s \in {"approved", "declined"} : AnswerConnection(s)
    \/ RevokeConnection \/ InboundMessage
    \/ \E d \in Drain : StartDrain(d) \/ DrainCrashes(d)
    \/ \E d \in Drain, r \in Row : RowStep(d, r)

\* The queue delivers drain jobs at least once and the reconciler enqueues one
\* while a row is due; time passes; a drain that runs goes on.
OutboxFairness ==
    /\ \A r \in Row : WF_outVars(BackoffPasses(r))
    /\ \A d \in Drain : WF_outVars(StartDrain(d))
    /\ \A d \in Drain : WF_outVars(\E r \in Row : RowStep(d, r))

OutboxSpec == OutboxInit /\ [][OutboxNext]_outVars /\ OutboxFairness

-----------------------------------------------------------------------------
(* Properties.                                                             *)

DrainWork == [at : {"idle", "loop", "claimed", "locked", "record", "count", "catch"},
              todo : SUBSET Row, read : [Row -> 0..MaxAttempts], on : Row \cup {NoRow}]

OutboxTypeOK ==
    /\ out \in [Row -> {"none", "pending", "sent", "failed", "gone"}]
    /\ tries \in [Row -> 0..MaxAttempts] /\ due \in [Row -> BOOLEAN]
    /\ handle \in [Row -> BOOLEAN] /\ streak \in 0..DmCap
    /\ conn \in {"none", "pending", "approved", "declined", "revoked"}
    /\ connLock \in Drain \cup {NoDrain}
    /\ drain \in [Drain -> DrainWork]
    /\ delivered \in [Row -> Nat] /\ lost \in [Row -> Nat]
    /\ drainCrashes \in 0..MaxDrainCrash /\ inbounds \in 0..MaxInbound

\* Overlapping drains, lists that went stale and crashes never deliver a row
\* twice by themselves: every copy beyond the first is explained by a failure
\* that came after the provider had accepted (messaging-delivery.ts 323-331).
CopyIsExplained == \A r \in Row : delivered[r] <= 1 + lost[r]

\* An invite reaches the target only while the request it belongs to is
\* pending: never after a revoke or an answer, and never the invite of an
\* earlier cycle (messaging-delivery.ts 262-315, router.ts 4628-4650).
InviteOnlyWhilePending ==
    [][\A r \in Invite : delivered'[r] # delivered[r] =>
          conn = "pending" /\ out[r] # "gone"]_outVars

\* A row does not wait forever: it ends sent, failed or withdrawn, unless the
\* owner's cap holds it (messaging-delivery.ts 416-439, job-reconciler.ts 322).
RowsSettle ==
    \A r \in Row : <>[](out[r] # "pending" \/ streak >= DmCap)
=============================================================================
