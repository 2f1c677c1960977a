------------------------------ MODULE ThreadFeed ------------------------------
(***************************************************************************)
(* How the events of a thread reach its subscribers.                       *)
(*                                                                         *)
(* Transactions number their events with the thread row's counter, whose   *)
(* lock they hold until they commit; after the commit they publish a       *)
(* signal.  The Postgres fanout of a process hears the signal if its       *)
(* LISTEN connection is up, and wakes the local subscribers.  A subscriber *)
(* reads the log in batches past its cursor, and then waits for a signal   *)
(* or for its catch-up timer.                                              *)
(*                                                                         *)
(* Sources: packages/db/src/events.ts (appendEventInTransaction,           *)
(* notifyRealtime, eventsAfter, followThreadEvents, ChangeLatch) and       *)
(* packages/adapters/src/realtime.ts (PostgresRealtimeFanout).             *)
(*                                                                         *)
(* The latch's generation is only compared with the generation observed    *)
(* before the read, so it is the flag "a signal came since".  Signals of   *)
(* other threads and the delays of the timers are left out.                *)
(***************************************************************************)
EXTENDS Integers, FiniteSets

CONSTANTS
    Writer,      \* transactions that append to the thread
    Follower,    \* subscribers of the thread in one process
    NoWriter,    \* nobody has the thread row locked
    MaxSeq,      \* bound: events of the thread
    Batch,       \* EVENT_BATCH_SIZE
    MaxFault     \* bound: aborts, lost connections and lost signals

ASSUME WriterAssumption == NoWriter \notin Writer
ASSUME SizeAssumption ==
    MaxSeq \in Nat /\ Batch \in Nat \ {0} /\ MaxFault \in Nat

VARIABLES
    next,       \* threads.nextEventSeq as committed
    log,        \* the numbers of the events stored
    progress,   \* those of type thread.progress
    lock,       \* the transaction that has the thread row locked
    mine,       \* the numbers a transaction has given to its events
    signal,     \* writers: "none", or "due" between commit and publish
    listening,  \* the fanout's client is connected and listens
    wire,       \* signals sent to the connection and not yet handled
    pc,         \* subscribers: where followThreadEvents is
    cursor,     \* the last number given to the subscriber (seq)
    batch,      \* events read and not yet given
    full,       \* the last read filled its batch
    subscribed, \* the subscriber is registered with the fanout
    changed,    \* generation # observedGeneration
    faults,     \* faults so far
    lost        \* history: a signal of this thread was never sent

store == <<next, log, progress>>
txns  == <<lock, mine, signal>>
wires == <<listening, wire>>
loops == <<pc, cursor, batch, full, subscribed>>
vars  == <<next, log, progress, lock, mine, signal, listening, wire, pc, cursor,
           batch, full, subscribed, changed, faults, lost>>

Seq0 == 0 .. MaxSeq - 1

Init ==
    /\ next = 0 /\ log = {} /\ progress = {}
    /\ lock = NoWriter /\ mine = [w \in Writer |-> {}]
    /\ signal = [w \in Writer |-> "none"]
    /\ listening = FALSE /\ wire = 0
    /\ pc = [f \in Follower |-> "off"]
    /\ cursor = [f \in Follower |-> -1]
    /\ batch = [f \in Follower |-> {}] /\ full = [f \in Follower |-> FALSE]
    /\ subscribed = [f \in Follower |-> FALSE]
    /\ changed = [f \in Follower |-> FALSE]
    /\ faults = 0 /\ lost = FALSE

Fault == faults < MaxFault /\ faults' = faults + 1

-----------------------------------------------------------------------------
(* Writing *)

\* Mutant: the number is taken from the counter without keeping the row locked.
AppendUnlocked(w) ==
    /\ signal[w] = "none"
    /\ LET seq == next + Cardinality(UNION {mine[v] : v \in Writer})
       IN /\ seq < MaxSeq
          /\ mine' = [mine EXCEPT ![w] = @ \cup {seq}]
          /\ \/ progress' = progress \cup {seq}
             \/ UNCHANGED progress
    /\ UNCHANGED <<next, log, lock, signal, wires, loops, changed, faults, lost>>

\* appendEventInTransaction: the update of the thread row locks it.
AppendEvent(w) ==
    /\ signal[w] = "none" /\ lock \in {w, NoWriter}
    /\ lock' = w
    /\ LET seq == next + Cardinality(mine[w])
       IN /\ seq < MaxSeq
          /\ mine' = [mine EXCEPT ![w] = @ \cup {seq}]
          /\ \/ progress' = progress \cup {seq}
             \/ UNCHANGED progress
    /\ UNCHANGED <<next, log, signal, wires, loops, changed, faults, lost>>

\* A transaction that appends may delete the progress of its run, or the whole
\* log before it (clearThread).
Commit(w) ==
    /\ mine[w] # {}
    /\ \E gone \in {{}, log \cap progress, log} :
         log' = (log \ gone) \cup mine[w]
    /\ next' = next + Cardinality(mine[w])
    /\ lock' = NoWriter
    /\ mine' = [mine EXCEPT ![w] = {}]
    /\ signal' = [signal EXCEPT ![w] = "due"]
    /\ UNCHANGED <<progress, wires, loops, changed, faults, lost>>

Rollback(w) ==
    /\ mine[w] # {}
    /\ progress' = progress \ mine[w]
    /\ lock' = NoWriter
    /\ mine' = [mine EXCEPT ![w] = {}]
    /\ UNCHANGED <<next, log, signal, wires, loops, changed, faults, lost>>

\* Starting to teach a skill deletes progress events and appends none.
PurgeProgress ==
    /\ log \cap progress # {}
    /\ log' = log \ progress
    /\ UNCHANGED <<next, progress, txns, wires, loops, changed, faults, lost>>

\* notifyRealtime: nobody hears a signal sent while the connection is down.
Publish(w) ==
    /\ signal[w] = "due"
    /\ signal' = [signal EXCEPT ![w] = "none"]
    /\ wire' = IF listening THEN wire + 1 ELSE wire
    /\ UNCHANGED <<store, lock, mine, listening, loops, changed, faults, lost>>

\* The publish failed, or the process ended before it: nothing is retried.
LosePublish(w) ==
    /\ signal[w] = "due" /\ Fault
    /\ signal' = [signal EXCEPT ![w] = "none"]
    /\ lost' = TRUE
    /\ UNCHANGED <<store, lock, mine, wires, loops, changed>>

-----------------------------------------------------------------------------
(* The fanout *)

notifySubscribers == changed' = [f \in Follower |-> changed[f] \/ subscribed[f]]

\* handleNotification
HandleNotification ==
    /\ wire > 0 /\ wire' = wire - 1
    /\ notifySubscribers
    /\ UNCHANGED <<store, txns, listening, loops, faults, lost>>

\* connectClient: what was missed while it was down is caught up with.
Connect ==
    /\ ~ listening /\ \E f \in Follower : subscribed[f]
    /\ listening' = TRUE
    /\ notifySubscribers
    /\ UNCHANGED <<store, txns, wire, loops, faults, lost>>

\* handleDisconnect
Disconnect ==
    /\ listening /\ Fault
    /\ listening' = FALSE /\ wire' = 0
    /\ UNCHANGED <<store, txns, loops, changed, lost>>

-----------------------------------------------------------------------------
(* followThreadEvents *)

Goto(f, to) == pc' = [pc EXCEPT ![f] = to]

\* The stream is opened at a cursor the client has got somewhere; a subscription that is refused
\* leaves the timer.
Open(f) ==
    /\ pc[f] = "off"
    /\ Goto(f, "observe")
    /\ \E c \in -1 .. next - 1 : cursor' = [cursor EXCEPT ![f] = c]
    /\ \E b \in BOOLEAN : subscribed' = [subscribed EXCEPT ![f] = b]
    /\ UNCHANGED <<store, txns, wires, batch, full, changed, faults, lost>>

\* The generation is observed before the read it guards.
Observe(f) ==
    /\ pc[f] = "observe"
    /\ changed' = [changed EXCEPT ![f] = FALSE]
    /\ Goto(f, "read")
    /\ UNCHANGED <<store, txns, wires, cursor, batch, full, subscribed, faults, lost>>

\* Mutant: the last Batch of the events is read.
firstDescending(S) == {e \in S : Cardinality({d \in S : d > e}) < Batch}

\* The first Batch of the events S.
first(S) == {e \in S : Cardinality({d \in S : d < e}) < Batch}

eventsAfter(c) == first({e \in log : e > c})

Read(f) ==
    /\ pc[f] = "read"
    /\ LET events == eventsAfter(cursor[f])
       IN /\ batch' = [batch EXCEPT ![f] = events]
          /\ full' = [full EXCEPT ![f] = Cardinality(events) = Batch]
    /\ Goto(f, "give")
    /\ UNCHANGED <<store, txns, wires, cursor, subscribed, changed, faults, lost>>

Yield(f) ==
    /\ pc[f] = "give"
    /\ \E e \in batch[f] :
         /\ \A d \in batch[f] : e <= d
         /\ cursor' = [cursor EXCEPT ![f] = e]
         /\ batch' = [batch EXCEPT ![f] = @ \ {e}]
    /\ UNCHANGED <<store, txns, wires, pc, full, subscribed, changed, faults, lost>>

\* Mutant: the generation is observed after the read.
BatchDoneObserves(f) ==
    /\ pc[f] = "give" /\ batch[f] = {}
    /\ Goto(f, IF full[f] THEN "read" ELSE "wait")
    /\ changed' = [changed EXCEPT ![f] = FALSE]
    /\ UNCHANGED <<store, txns, wires, cursor, batch, full, subscribed, faults, lost>>

\* A full batch is followed by another read; otherwise the subscriber waits.
BatchDone(f) ==
    /\ pc[f] = "give" /\ batch[f] = {}
    /\ Goto(f, IF full[f] THEN "read" ELSE "wait")
    /\ UNCHANGED <<store, txns, wires, cursor, batch, full, subscribed, changed,
                   faults, lost>>

Wake(f) ==
    /\ pc[f] = "wait" /\ changed[f]
    /\ Goto(f, "observe")
    /\ UNCHANGED <<store, txns, wires, cursor, batch, full, subscribed, changed,
                   faults, lost>>

\* Mutant: only a subscriber without push has the timer.
CatchUpUnpushed(f) ==
    /\ pc[f] = "wait" /\ ~ subscribed[f]
    /\ Goto(f, "observe")
    /\ UNCHANGED <<store, txns, wires, cursor, batch, full, subscribed, changed,
                   faults, lost>>

CatchUp(f) ==
    /\ pc[f] = "wait"
    /\ Goto(f, "observe")
    /\ UNCHANGED <<store, txns, wires, cursor, batch, full, subscribed, changed,
                   faults, lost>>

\* The client goes away, and may come back.
Abort(f) ==
    /\ pc[f] # "off" /\ Fault
    /\ Goto(f, "off")
    /\ batch' = [batch EXCEPT ![f] = {}]
    /\ subscribed' = [subscribed EXCEPT ![f] = FALSE]
    /\ changed' = [changed EXCEPT ![f] = FALSE]
    /\ full' = [full EXCEPT ![f] = FALSE]
    /\ UNCHANGED <<store, txns, wires, cursor, lost>>

-----------------------------------------------------------------------------

Write(w) == AppendEvent(w) \/ Commit(w) \/ Rollback(w) \/ Publish(w) \/ LosePublish(w)
Fanout == HandleNotification \/ Connect \/ Disconnect
Loop(f) == Observe(f) \/ Read(f) \/ Yield(f) \/ BatchDone(f) \/ Wake(f) \/ CatchUp(f)
Follow(f) == Open(f) \/ Loop(f) \/ Abort(f)

Next ==
    \/ \E w \in Writer : Write(w)
    \/ PurgeProgress
    \/ Fanout
    \/ \E f \in Follower : Follow(f)

Spec == Init /\ [][Next]_vars

\* The loop runs, its timer fires, and the client reopens its stream.
Fairness == \A f \in Follower : WF_vars(Loop(f)) /\ WF_vars(Open(f))

FairSpec == Spec /\ Fairness

-----------------------------------------------------------------------------
(* Properties *)

\* Types; numbers in use are those before the counter, and only the
\* transaction that has the row locked has numbers not yet committed.
TypeOK ==
    /\ next \in 0 .. MaxSeq /\ log \subseteq 0 .. next - 1 /\ progress \subseteq Seq0
    /\ lock \in Writer \cup {NoWriter}
    /\ mine \in [Writer -> SUBSET Seq0]
    /\ \A w \in Writer : mine[w] # {} => lock = w
    /\ signal \in [Writer -> {"none", "due"}]
    /\ listening \in BOOLEAN /\ wire \in Nat
    /\ pc \in [Follower -> {"off", "observe", "read", "give", "wait"}]
    /\ cursor \in [Follower -> -1 .. next - 1]
    /\ batch \in [Follower -> SUBSET Seq0]
    /\ full \in [Follower -> BOOLEAN] /\ subscribed \in [Follower -> BOOLEAN]
    /\ changed \in [Follower -> BOOLEAN]
    /\ faults \in 0 .. MaxFault /\ lost \in BOOLEAN

\* A subscriber that waits for a signal has been given everything stored, or is
\* about to be woken: a signal is still to come, or the connection is down and
\* wakes it when it is back.  Only a signal that was never sent, or a refused
\* subscription, leaves it to the catch-up timer.
NoLostWakeup ==
    \A f \in Follower :
        (/\ pc[f] = "wait" /\ subscribed[f] /\ ~ changed[f] /\ ~ lost
         /\ \E e \in log : e > cursor[f])
        => wire > 0 \/ ~ listening \/ \E w \in Writer : signal[w] = "due"

Feed == INSTANCE EventFeed WITH
    seen <- cursor, open <- {f \in Follower : pc[f] # "off"}

\* The stream keeps the promise of EventFeed: in order, each event once, and
\* none skipped that is still stored.
KeepsFeed == Feed!FeedSpec

\* Every event that stays in the log is at last given to every subscriber,
\* whatever signals are lost.
EveryEventGiven ==
    \A f \in Follower : \A e \in Seq0 :
        (e \in log) ~> (e \notin log \/ cursor[f] >= e)

=============================================================================
