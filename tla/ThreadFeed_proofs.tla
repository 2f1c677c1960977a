-------------------------- MODULE ThreadFeed_proofs --------------------------
(***************************************************************************)
(* Theorems about ThreadFeed, for any transactions, subscribers and bounds *)
(* on them: its types, that it implements EventFeed, and that no wake-up   *)
(* is lost.                                                                *)
(***************************************************************************)
EXTENDS ThreadFeed, FiniteSetTheorems, WellFoundedInduction, TLAPS

USE WriterAssumption, SizeAssumption

\* The transaction that has the row locked has taken consecutive numbers, from
\* the committed counter on; nobody else has any.
Numbered ==
    \A w \in Writer :
        mine[w] # {} => lock = w /\ \E n \in Nat \ {0} : mine[w] = next .. next + n - 1

\* What a subscriber has read and not yet been given is past its cursor, and
\* misses no stored event before its end.
BatchInv ==
    \A f \in Follower :
        /\ pc[f] # "give" => batch[f] = {}
        /\ \A b \in batch[f] :
             /\ cursor[f] < b /\ b < next
             /\ \A l \in log : cursor[f] < l /\ l < b => l \in batch[f]

FeedInv == TypeOK /\ Numbered /\ BatchInv

-----------------------------------------------------------------------------

\* The first Batch of the events past a cursor leave out none before their end.
LEMMA FirstIsPrefix ==
    ASSUME NEW n \in Nat, NEW S \in SUBSET (0 .. n - 1)
    PROVE  /\ first(S) \subseteq S
           /\ \A b \in first(S) : \A l \in S : l < b => l \in first(S)
<1> SUFFICES ASSUME NEW b \in first(S), NEW l \in S, l < b PROVE l \in first(S)
  BY DEF first
<1> DEFINE Below(x) == {d \in S : d < x}
<1>1. b \in S /\ Cardinality(Below(b)) < Batch
  BY DEF first
<1>2. IsFiniteSet(Below(b))
  <2>1. IsFiniteSet(0 .. n - 1)
    BY FS_Interval
  <2>2. Below(b) \in SUBSET (0 .. n - 1)
    OBVIOUS
  <2> QED
    BY <2>1, <2>2, FS_Subset
<1>3. Below(l) \in SUBSET Below(b)
  <2>1. S \subseteq Int /\ l \in Int /\ b \in Int
    BY <1>1
  <2>2. \A d \in S : d < l => d < b
    BY <2>1
  <2> QED
    BY <2>2
<1>4. /\ IsFiniteSet(Below(l))
      /\ Cardinality(Below(l)) <= Cardinality(Below(b))
  BY <1>2, <1>3, FS_Subset
<1>5. Cardinality(Below(l)) \in Nat /\ Cardinality(Below(b)) \in Nat
  BY <1>2, <1>4, FS_CardinalityType
<1>6. Cardinality(Below(l)) < Batch
  BY <1>1, <1>4, <1>5
<1> QED
  BY <1>6 DEF first

\* A transaction that has taken numbers has taken as many as it commits.
LEMMA MineIsInterval ==
    ASSUME FeedInv, NEW w \in Writer, mine[w] # {}
    PROVE  /\ Cardinality(mine[w]) \in Nat \ {0}
           /\ mine[w] = next .. next + Cardinality(mine[w]) - 1
<1>1. PICK n \in Nat \ {0} : mine[w] = next .. next + n - 1
  BY DEF FeedInv, Numbered
<1>2. next \in Nat
  BY DEF FeedInv, TypeOK
<1>3. Cardinality(next .. next + n - 1) = n
  BY <1>2, FS_Interval
<1> QED
  BY <1>1, <1>3

\* The number an event gets is the next one after those taken before it.
LEMMA NextNumber ==
    ASSUME FeedInv, NEW w \in Writer, lock \in {w, NoWriter}
    PROVE  LET seq == next + Cardinality(mine[w])
           IN  /\ seq \in Nat
               /\ \E n \in Nat \ {0} : mine[w] \cup {seq} = next .. next + n - 1
<1>1. next \in Nat
  BY DEF FeedInv, TypeOK
<1>2. CASE mine[w] = {}
  <2>1. Cardinality(mine[w]) = 0
    BY <1>2, FS_EmptySet
  <2>2. mine[w] \cup {next + 0} = next .. next + 1 - 1
    BY <1>1, <1>2
  <2> QED
    BY <1>1, <2>1, <2>2
<1>3. CASE mine[w] # {}
  <2> DEFINE n == Cardinality(mine[w])
  <2>1. n \in Nat \ {0} /\ mine[w] = next .. next + n - 1
    BY <1>3, MineIsInterval
  <2> HIDE DEF n
  <2>2. mine[w] \cup {next + n} = next .. next + (n + 1) - 1
    BY <1>1, <2>1
  <2>3. next + n \in Nat /\ n + 1 \in Nat \ {0}
    BY <1>1, <2>1
  <2> QED
    BY <2>2, <2>3 DEF n
<1> QED
  BY <1>2, <1>3

-----------------------------------------------------------------------------
(* FeedInv is inductive *)

\* Initially nothing is stored or open.
LEMMA InitFeedInv == Init => FeedInv
<1> SUFFICES ASSUME Init PROVE FeedInv
  OBVIOUS
<1>1. /\ next \in 0 .. MaxSeq /\ log \subseteq 0 .. next - 1 /\ progress \subseteq Seq0
      /\ lock \in Writer \cup {NoWriter} /\ wire \in Nat /\ listening \in BOOLEAN
      /\ faults \in 0 .. MaxFault /\ lost \in BOOLEAN
  <2>1. next = 0 /\ log = {} /\ progress = {} /\ lock = NoWriter /\ wire = 0
        /\ listening = FALSE /\ faults = 0 /\ lost = FALSE
    BY DEF Init
  <2>2. listening \in BOOLEAN /\ lost \in BOOLEAN
    BY <2>1, Zenon
  <2>3. 0 \in 0 .. MaxSeq /\ 0 \in 0 .. MaxFault /\ 0 \in Nat
    OBVIOUS
  <2> QED
    BY <2>1, <2>2, <2>3
<1>2. /\ mine \in [Writer -> SUBSET Seq0] /\ signal \in [Writer -> {"none", "due"}]
      /\ \A w \in Writer : mine[w] = {}
  BY DEF Init
<1>3. /\ pc \in [Follower -> {"off", "observe", "read", "give", "wait"}]
      /\ batch \in [Follower -> SUBSET Seq0] /\ \A f \in Follower : batch[f] = {}
      /\ full \in [Follower -> BOOLEAN] /\ subscribed \in [Follower -> BOOLEAN]
      /\ changed \in [Follower -> BOOLEAN]
  BY DEF Init
<1>4. cursor \in [Follower -> -1 .. next - 1]
  BY DEF Init
<1> QED
  BY <1>1, <1>2, <1>3, <1>4 DEF FeedInv, TypeOK, Numbered, BatchInv

\* A cursor stays in range when the counter grows.
LEMMA WiderRange ==
    ASSUME NEW m \in Int, NEW n \in Int, n > m
    PROVE  -1 .. m - 1 \subseteq -1 .. n - 1
  OBVIOUS

\* Taking a number, under the lock of the row, keeps the numbers consecutive.
LEMMA AppendStep ==
    ASSUME FeedInv, NEW w \in Writer, AppendEvent(w)
    PROVE  FeedInv'
<1> DEFINE seq == next + Cardinality(mine[w])
<1>1. seq \in Nat /\ \E n \in Nat \ {0} : mine[w] \cup {seq} = next .. next + n - 1
  BY NextNumber DEF AppendEvent
<1>2. /\ lock \in {w, NoWriter} /\ lock' = w /\ seq < MaxSeq
      /\ mine' = [mine EXCEPT ![w] = @ \cup {seq}]
      /\ progress' \in {progress \cup {seq}, progress}
      /\ UNCHANGED <<next, log, signal, wires, loops, changed, faults, lost>>
  BY DEF AppendEvent
<1> HIDE DEF seq
<1>3. TypeOK /\ seq \in Seq0
  BY <1>1, <1>2 DEF FeedInv, Seq0
<1>4. \A v \in Writer : v # w => mine[v] = {}
  BY <1>2 DEF FeedInv, Numbered
<1>5. TypeOK'
  BY <1>2, <1>3, <1>4 DEF TypeOK, wires, loops
<1>6. Numbered'
  <2> SUFFICES ASSUME NEW v \in Writer, mine'[v] # {}
               PROVE  lock' = v /\ \E n \in Nat \ {0} : mine'[v] = next' .. next' + n - 1
    BY DEF Numbered
  <2>1. v = w
    BY <1>2, <1>3, <1>4 DEF TypeOK
  <2>2. mine'[v] = mine[w] \cup {seq} /\ next' = next /\ lock' = w
    BY <1>2, <1>3, <2>1 DEF TypeOK
  <2> QED
    BY <1>1, <2>1, <2>2
<1>7. BatchInv'
  BY <1>2 DEF FeedInv, BatchInv, loops
<1> QED
  BY <1>5, <1>6, <1>7 DEF FeedInv

\* A commit stores the numbers taken and moves the counter past them.
LEMMA CommitStep ==
    ASSUME FeedInv, NEW w \in Writer, Commit(w)
    PROVE  /\ FeedInv'
           /\ next' \in Int /\ next' > next
           /\ \E gone \in SUBSET log : log' = (log \ gone) \cup (next .. next' - 1)
<1> DEFINE n == Cardinality(mine[w])
<1>1. n \in Nat \ {0} /\ mine[w] = next .. next + n - 1
  BY MineIsInterval DEF Commit
<1>2. PICK gone \in {{}, log \cap progress, log} : log' = (log \ gone) \cup mine[w]
  BY DEF Commit
<1>3. /\ mine[w] # {} /\ next' = next + n /\ lock' = NoWriter
      /\ mine' = [mine EXCEPT ![w] = {}]
      /\ signal' = [signal EXCEPT ![w] = "due"]
      /\ UNCHANGED <<progress, wires, loops, changed, faults, lost>>
  BY DEF Commit
<1> HIDE DEF n
<1>4. TypeOK /\ next \in Nat /\ mine[w] \subseteq Seq0 /\ log \subseteq 0 .. next - 1
  BY DEF FeedInv, TypeOK
<1>5. next + n - 1 \in Seq0
  BY <1>1, <1>4
<1>6. next' \in 0 .. MaxSeq /\ next' > next
  BY <1>1, <1>3, <1>4, <1>5 DEF Seq0
<1>7. log' \subseteq 0 .. next' - 1
  <2>1. log \subseteq 0 .. next' - 1 /\ mine[w] \subseteq 0 .. next' - 1
    BY <1>1, <1>3, <1>4
  <2> QED
    BY <1>2, <2>1
<1>8. \A v \in Writer : mine'[v] = {}
  BY <1>3, <1>4 DEF FeedInv, TypeOK, Numbered
<1>9. TypeOK'
  <2>1. cursor' \in [Follower -> -1 .. next' - 1]
    <3>1. next' \in Int /\ next \in Int
      BY <1>4, <1>6
    <3>2. -1 .. next - 1 \subseteq -1 .. next' - 1
      BY <1>6, <3>1, WiderRange
    <3> QED
      BY <1>3, <1>4, <3>2 DEF TypeOK, loops
  <2> QED
    BY <1>3, <1>4, <1>6, <1>7, <1>8, <2>1 DEF TypeOK, loops, wires
<1>10. BatchInv'
  <2> SUFFICES ASSUME NEW f \in Follower
               PROVE  /\ pc'[f] # "give" => batch'[f] = {}
                      /\ \A b \in batch'[f] :
                           /\ cursor'[f] < b /\ b < next'
                           /\ \A l \in log' : cursor'[f] < l /\ l < b => l \in batch'[f]
    BY DEF BatchInv
  <2>1. pc' = pc /\ batch' = batch /\ cursor' = cursor
    BY <1>3 DEF loops
  <2>2. batch[f] \subseteq Nat
    BY <1>4 DEF TypeOK, Seq0
  <2>3. ASSUME NEW b \in batch[f], NEW l \in log', cursor[f] < l, l < b PROVE l \in batch[f]
    <3>1. b < next
      BY DEF FeedInv, BatchInv
    <3>2. l \in log
      BY <1>1, <1>2, <1>4, <2>2, <2>3, <3>1
    <3> QED
      BY <2>3, <3>2 DEF FeedInv, BatchInv
  <2>4. \A b \in batch[f] : b < next'
    BY <1>4, <1>6, <2>2 DEF FeedInv, BatchInv
  <2> QED
    BY <2>1, <2>3, <2>4 DEF FeedInv, BatchInv
<1>11. next' \in Int /\ next' > next /\ mine[w] = next .. next' - 1
  BY <1>1, <1>3, <1>4, <1>6
<1>12. gone \cap log \in SUBSET log /\ log' = (log \ (gone \cap log)) \cup mine[w]
  BY <1>2
<1>13. Numbered'
  BY <1>8 DEF Numbered
<1> QED
  BY <1>9, <1>10, <1>11, <1>12, <1>13 DEF FeedInv

\* Deleting events, and every step of the fanout, keeps what was read a prefix.
LEMMA StoreStep ==
    ASSUME FeedInv,
           (\E w \in Writer : Rollback(w) \/ Publish(w) \/ LosePublish(w))
             \/ PurgeProgress \/ Fanout
    PROVE  FeedInv'
<1> USE DEF FeedInv
<1>1. ASSUME NEW w \in Writer, Rollback(w) PROVE FeedInv'
  <2>1. TypeOK'
    BY <1>1 DEF Rollback, TypeOK, wires, loops
  <2>2. Numbered'
    BY <1>1 DEF Rollback, TypeOK, Numbered
  <2>3. BatchInv'
    BY <1>1 DEF Rollback, BatchInv, loops
  <2> QED
    BY <2>1, <2>2, <2>3
<1>2. ASSUME NEW w \in Writer, Publish(w) \/ LosePublish(w) PROVE FeedInv'
  <2>1. TypeOK'
    <3>1. CASE Publish(w)
      BY <3>1 DEF Publish, TypeOK, store, loops
    <3>2. CASE LosePublish(w)
      BY <3>2 DEF LosePublish, Fault, TypeOK, store, wires, loops
    <3> QED
      BY <1>2, <3>1, <3>2
  <2>2. Numbered' /\ BatchInv'
    BY <1>2 DEF Publish, LosePublish, Numbered, BatchInv, store, loops
  <2> QED
    BY <2>1, <2>2
<1>3. CASE PurgeProgress
  <2>1. TypeOK'
    BY <1>3 DEF PurgeProgress, TypeOK, txns, wires, loops
  <2>2. Numbered' /\ BatchInv'
    BY <1>3 DEF PurgeProgress, Numbered, BatchInv, txns, loops
  <2> QED
    BY <2>1, <2>2
<1>4. CASE Fanout
  <2>1. TypeOK'
    <3>1. CASE HandleNotification
      BY <3>1 DEF HandleNotification, notifySubscribers, TypeOK, store, txns, loops
    <3>2. CASE Connect
      BY <3>2 DEF Connect, notifySubscribers, TypeOK, store, txns, loops
    <3>3. CASE Disconnect
      <4>1. faults' = faults + 1 /\ faults < MaxFault /\ wire' = 0 /\ listening' = FALSE
            /\ UNCHANGED <<store, txns, loops, changed, lost>>
        BY <3>3 DEF Disconnect, Fault
      <4>2. faults' \in 0 .. MaxFault
        BY <4>1 DEF TypeOK
      <4> QED
        BY <4>1, <4>2 DEF TypeOK, store, txns, loops
    <3> QED
      BY <1>4, <3>1, <3>2, <3>3 DEF Fanout
  <2>2. Numbered' /\ BatchInv'
    BY <1>4 DEF Fanout, HandleNotification, Connect, Disconnect, Numbered, BatchInv,
       store, txns, loops
  <2> QED
    BY <2>1, <2>2
<1> QED
  BY <1>1, <1>2, <1>3, <1>4

\* Every step of a subscriber keeps what it read a prefix of what is stored.
LEMMA FollowStep ==
    ASSUME FeedInv, NEW f \in Follower, Follow(f)
    PROVE  FeedInv'
<1> USE DEF FeedInv
<1>1. CASE Open(f)
  <2>1. PICK c \in -1 .. next - 1 : cursor' = [cursor EXCEPT ![f] = c]
    BY <1>1 DEF Open
  <2>2. TypeOK'
    BY <1>1, <2>1 DEF Open, Goto, TypeOK, store, txns, wires
  <2>3. Numbered'
    BY <1>1 DEF Open, Numbered, store, txns
  <2>4. batch[f] = {} /\ batch' = batch
    BY <1>1 DEF Open, BatchInv
  <2>5. BatchInv'
    BY <1>1, <2>1, <2>4 DEF Open, Goto, TypeOK, BatchInv, store
  <2> QED
    BY <2>2, <2>3, <2>5
<1>2. CASE Read(f)
  <2> DEFINE S == {e \in log : e > cursor[f]}
  <2>1. /\ batch' = [batch EXCEPT ![f] = first(S)]
        /\ pc' = [pc EXCEPT ![f] = "give"]
        /\ full' = [full EXCEPT ![f] = Cardinality(first(S)) = Batch]
        /\ UNCHANGED <<store, txns, wires, cursor, subscribed, changed, faults, lost>>
    BY <1>2 DEF Read, Goto, eventsAfter
  <2>2. next \in Nat /\ next <= MaxSeq /\ S \in SUBSET (0 .. next - 1)
    <3>1. next \in 0 .. MaxSeq /\ log \subseteq 0 .. next - 1
      BY DEF TypeOK
    <3>2. S \subseteq log
      OBVIOUS
    <3> HIDE DEF S
    <3> QED
      BY <3>1, <3>2
  <2>3. /\ first(S) \subseteq S
        /\ \A b \in first(S) : \A l \in S : l < b => l \in first(S)
    BY <2>2, FirstIsPrefix
  <2>4. first(S) \subseteq Seq0
    BY <2>2, <2>3 DEF Seq0
  <2>5. TypeOK'
    BY <2>1, <2>4 DEF TypeOK, store, txns, wires
  <2>6. Numbered'
    BY <2>1 DEF Numbered, store, txns
  <2>7. \A b \in first(S) : cursor[f] < b /\ b < next
    BY <2>2, <2>3 DEF TypeOK
  <2> HIDE DEF S
  <2>8. \A b \in first(S), l \in log : cursor[f] < l /\ l < b => l \in first(S)
    BY <2>2, <2>3 DEF S, TypeOK
  <2>9. BatchInv'
    BY <2>1, <2>7, <2>8 DEF BatchInv, TypeOK, store
  <2> QED
    BY <2>5, <2>6, <2>9
<1>3. CASE Yield(f)
  <2>1. PICK e \in batch[f] :
          /\ \A d \in batch[f] : e <= d
          /\ cursor' = [cursor EXCEPT ![f] = e]
          /\ batch' = [batch EXCEPT ![f] = @ \ {e}]
    BY <1>3 DEF Yield
  <2>2. /\ pc[f] = "give"
        /\ UNCHANGED <<store, txns, wires, pc, full, subscribed, changed, faults, lost>>
    BY <1>3 DEF Yield
  <2>3. e \in 0 .. next - 1 /\ cursor[f] < e /\ cursor[f] \in Int
    BY DEF BatchInv, TypeOK, Seq0
  <2>4. TypeOK'
    BY <2>1, <2>2, <2>3 DEF TypeOK, store, txns, wires
  <2>5. Numbered'
    BY <2>2 DEF Numbered, store, txns
  <2>6. batch[f] \subseteq Int /\ log \subseteq Int
    BY DEF TypeOK, Seq0
  <2>7. \A b \in batch[f] \ {e} : e < b
    BY <2>1, <2>3, <2>6
  <2>8. \A b \in batch[f] \ {e}, l \in log : e < l /\ l < b => l \in batch[f] \ {e}
    BY <2>3, <2>6 DEF BatchInv
  <2>9. BatchInv'
    BY <2>1, <2>2, <2>7, <2>8 DEF BatchInv, TypeOK, store
  <2> QED
    BY <2>4, <2>5, <2>9
<1>4. CASE Observe(f) \/ BatchDone(f) \/ Wake(f) \/ CatchUp(f)
  <2>1. /\ changed' \in [Follower -> BOOLEAN]
        /\ \E to \in {"observe", "read", "wait"} : pc' = [pc EXCEPT ![f] = to]
        /\ UNCHANGED <<store, txns, wires, cursor, batch, full, subscribed, faults, lost>>
        /\ pc[f] = "give" => batch[f] = {}
    BY <1>4 DEF Observe, BatchDone, Wake, CatchUp, Goto, TypeOK
  <2>2. TypeOK'
    BY <2>1 DEF TypeOK, store, txns, wires
  <2>3. Numbered'
    BY <2>1 DEF Numbered, store, txns
  <2>4. BatchInv'
    BY <2>1 DEF TypeOK, BatchInv, store
  <2> QED
    BY <2>2, <2>3, <2>4
<1>5. CASE Abort(f)
  <2>1. /\ pc' = [pc EXCEPT ![f] = "off"] /\ batch' = [batch EXCEPT ![f] = {}]
        /\ UNCHANGED <<store, txns, wires, cursor, lost>>
    BY <1>5 DEF Abort, Goto
  <2>2. TypeOK'
    BY <1>5, <2>1 DEF Abort, Fault, TypeOK, store, txns, wires
  <2>3. Numbered'
    BY <2>1 DEF Numbered, store, txns
  <2>4. BatchInv'
    BY <2>1 DEF TypeOK, BatchInv, store
  <2> QED
    BY <2>2, <2>3, <2>4
<1> QED
  BY <1>1, <1>2, <1>3, <1>4, <1>5 DEF Follow, Loop

\* The inductive invariant holds.
THEOREM FeedInvariant == Spec => []FeedInv
<1>1. FeedInv /\ [Next]_vars => FeedInv'
  <2> SUFFICES ASSUME FeedInv, [Next]_vars PROVE FeedInv'
    OBVIOUS
  <2>1. CASE Next
    BY <2>1, AppendStep, CommitStep, StoreStep, FollowStep DEF Next, Write
  <2>2. CASE UNCHANGED vars
    BY <2>2 DEF vars, FeedInv, TypeOK, Numbered, BatchInv
  <2> QED
    BY <2>1, <2>2
<1> QED
  BY <1>1, InitFeedInv, PTL DEF Spec

\* Types hold, and with them that only the transaction that has the thread row
\* locked has numbers not yet committed.
THEOREM TypeCorrect == Spec => []TypeOK
<1>1. FeedInv => TypeOK
  BY DEF FeedInv
<1> QED
  BY <1>1, FeedInvariant, PTL

-----------------------------------------------------------------------------
(* The refinement *)

\* Every step of the stream is a step of EventFeed or changes none of its state.
LEMMA StepKeepsFeed ==
    ASSUME FeedInv, [Next]_vars
    PROVE  [Feed!FeedNext]_(Feed!feedVars)
<1> DEFINE open == {f \in Follower : pc[f] # "off"}
<1>1. ASSUME NEW w \in Writer, Commit(w) PROVE Feed!Append
  <2>1. cursor' = cursor /\ pc' = pc
    BY <1>1 DEF Commit, loops
  <2>2. /\ next' \in Int /\ next' > next
        /\ \E gone \in SUBSET log : log' = (log \ gone) \cup (next .. next' - 1)
    BY <1>1, CommitStep
  <2> QED
    BY <2>1, <2>2 DEF Feed!Append
<1>2. CASE PurgeProgress
  <2>1. log' = log \ (log \cap progress) /\ next' = next /\ cursor' = cursor /\ pc' = pc
    BY <1>2 DEF PurgeProgress, loops
  <2>2. open' = open /\ log \cap progress \in SUBSET log
    BY <2>1
  <2>3. \E gone \in SUBSET log : log' = log \ gone
    BY <2>1, <2>2
  <2>4. UNCHANGED <<next, cursor, {f \in Follower : pc[f] # "off"}>>
    BY <2>1
  <2> QED
    BY <2>3, <2>4, Zenon DEF Feed!Purge, Feed!FeedNext
<1>3. ASSUME NEW w \in Writer,
             AppendEvent(w) \/ Rollback(w) \/ Publish(w) \/ LosePublish(w)
      PROVE  UNCHANGED <<next, log, cursor, pc>>
  BY <1>3 DEF AppendEvent, Rollback, Publish, LosePublish, store, loops
<1>4. CASE Fanout
  <2> QED
    BY <1>4 DEF Fanout, HandleNotification, Connect, Disconnect, store, loops,
       Feed!feedVars
<1>5. ASSUME NEW f \in Follower, Open(f) PROVE Feed!Begin(f)
  <2>1. /\ f \notin open /\ open' = open \cup {f}
        /\ next' = next /\ log' = log
    BY <1>5 DEF Open, Goto, FeedInv, TypeOK, store
  <2>2. \E c \in -1 .. next - 1 : cursor' = [cursor EXCEPT ![f] = c]
    BY <1>5 DEF Open
  <2> QED
    BY <2>1, <2>2 DEF Feed!Begin
<1>6. ASSUME NEW f \in Follower, Yield(f) PROVE Feed!Give(f)
  <2>1. PICK e \in batch[f] :
          (\A d \in batch[f] : e <= d) /\ cursor' = [cursor EXCEPT ![f] = e]
    BY <1>6 DEF Yield
  <2>2. pc[f] = "give" /\ pc' = pc /\ next' = next /\ log' = log
    BY <1>6 DEF Yield, store
  <2>3. e \in 0 .. next - 1 /\ cursor[f] < e
    BY DEF FeedInv, BatchInv, TypeOK, Seq0
  <2>4. log \subseteq Int /\ e \in Int /\ batch[f] \subseteq Int
    BY DEF FeedInv, TypeOK, Seq0
  <2>5. \A l \in log : cursor[f] < l => e <= l
    BY <2>1, <2>4 DEF FeedInv, BatchInv
  <2> QED
    BY <2>1, <2>2, <2>3, <2>5 DEF Feed!Give
<1>7. ASSUME NEW f \in Follower, Abort(f) PROVE Feed!End(f)
  BY <1>7 DEF Abort, Goto, FeedInv, TypeOK, store, Feed!End
<1>8. ASSUME NEW f \in Follower,
             Observe(f) \/ Read(f) \/ BatchDone(f) \/ Wake(f) \/ CatchUp(f)
      PROVE  UNCHANGED <<next, log, cursor>> /\ open' = open
  BY <1>8 DEF Observe, Read, BatchDone, Wake, CatchUp, Goto, FeedInv, TypeOK, store
<1>9. CASE UNCHANGED vars
  BY <1>9 DEF vars, Feed!feedVars
<1>10. CASE Next
  <2>1. ASSUME NEW w \in Writer, Write(w) PROVE [Feed!FeedNext]_(Feed!feedVars)
    <3>1. CASE Commit(w)
      BY <1>1, <3>1 DEF Feed!FeedNext
    <3>2. CASE AppendEvent(w) \/ Rollback(w) \/ Publish(w) \/ LosePublish(w)
      BY <1>3, <3>2 DEF Feed!feedVars
    <3> QED
      BY <2>1, <3>1, <3>2 DEF Write
  <2>2. ASSUME NEW f \in Follower, Follow(f) PROVE [Feed!FeedNext]_(Feed!feedVars)
    <3>1. CASE Open(f)
      BY <1>5, <3>1 DEF Feed!FeedNext
    <3>2. CASE Yield(f)
      BY <1>6, <3>2 DEF Feed!FeedNext
    <3>3. CASE Abort(f)
      BY <1>7, <3>3 DEF Feed!FeedNext
    <3>4. CASE Observe(f) \/ Read(f) \/ BatchDone(f) \/ Wake(f) \/ CatchUp(f)
      BY <1>8, <3>4 DEF Feed!feedVars
    <3> QED
      BY <2>2, <3>1, <3>2, <3>3, <3>4 DEF Follow, Loop
  <2> QED
    BY <1>2, <1>4, <1>10, <2>1, <2>2 DEF Next, Feed!FeedNext
<1> QED
  BY <1>9, <1>10

\* The event stream keeps the promise of EventFeed: events are given in order,
\* each once, and none is skipped that is still stored.
THEOREM ImplementsFeed == Spec => KeepsFeed
<1>1. Init => Feed!FeedInit
  BY DEF Init, Feed!FeedInit
<1>2. FeedInv /\ [Next]_vars => [Feed!FeedNext]_(Feed!feedVars)
  BY StepKeepsFeed
<1> QED
  BY <1>1, <1>2, FeedInvariant, PTL DEF Spec, KeepsFeed, Feed!FeedSpec

-----------------------------------------------------------------------------
(* No lost wake-up *)

LEMMA SomeLeast ==
    ASSUME NEW T \in SUBSET Nat, T # {}
    PROVE  \E x \in T : \A y \in T : x <= y
<1> DEFINE R == OpToRel(<, Nat)
<1>1. IsWellFoundedOn(R, Nat)
  BY NatLessThanWellFounded
<1> HIDE DEF R
<1>2. PICK x \in T : \A y \in T : ~(<<y, x>> \in R)
  BY <1>1, WFMin
<1>3. \A y \in T : y < x => <<y, x>> \in R
  BY DEF OpToRel, R
<1>4. \A y \in T : ~(y < x)
  BY <1>2, <1>3
<1> QED
  BY <1>4

LEMMA SomeGreatest ==
    ASSUME NEW n \in Nat, NEW T \in SUBSET (0 .. n - 1), T # {}
    PROVE  \E x \in T : \A y \in T : y <= x
<1> DEFINE U == {n - y : y \in T}
<1>1. U \in SUBSET Nat /\ U # {}
  OBVIOUS
<1>2. PICK u \in U : \A v \in U : u <= v
  BY <1>1, SomeLeast
<1>3. PICK x \in T : u = n - x
  BY <1>2
<1>4. \A y \in T : n - x <= n - y
  BY <1>2, <1>3
<1>5. \A y \in T : y <= x
  BY <1>4
<1> QED
  BY <1>5

\* A read that does not fill its batch has read everything.
LEMMA NotFullIsAll ==
    ASSUME NEW n \in Nat, NEW S \in SUBSET (0 .. n - 1), Cardinality(first(S)) # Batch
    PROVE  first(S) = S
<1> SUFFICES ASSUME S \ first(S) # {}
             PROVE  FALSE
  BY DEF first
<1> DEFINE F == first(S)
<1>1. F \subseteq S /\ \A b \in F : \A l \in S : l < b => l \in F
  BY FirstIsPrefix
<1>2. S \subseteq Nat /\ S \ F \in SUBSET Nat /\ IsFiniteSet(S)
  <2>1. IsFiniteSet(0 .. n - 1)
    BY FS_Interval
  <2>2. IsFiniteSet(S)
    BY <2>1, FS_Subset
  <2>3. 0 .. n - 1 \subseteq Nat
    OBVIOUS
  <2> QED
    BY <2>2, <2>3
<1>3. PICK x \in S \ F : \A y \in S \ F : x <= y
  BY <1>2, SomeLeast
<1> HIDE DEF F
<1>4. F = {d \in S : d < x}
  <2>1. \A d \in F : d < x
    <3> SUFFICES ASSUME NEW d \in F, ~ (d < x)
                 PROVE  FALSE
      OBVIOUS
    <3>1. d # x /\ d \in Nat /\ x \in Nat
      BY <1>1, <1>2
    <3>2. x < d
      BY <3>1
    <3> QED
      BY <1>1, <3>2
  <2>2. \A d \in S : d < x => d \in F
    <3> SUFFICES ASSUME NEW d \in S, d < x, d \notin F
                 PROVE  FALSE
      OBVIOUS
    <3>1. x <= d /\ d \in Nat /\ x \in Nat
      BY <1>2, <1>3
    <3> QED
      BY <3>1
  <2> QED
    BY <1>1, <2>1, <2>2
<1>5. IsFiniteSet(F) /\ Cardinality(F) \in Nat
  BY <1>1, <1>2, FS_Subset, FS_CardinalityType
<1>6. Cardinality(F) >= Batch
  <2>1. ~ (Cardinality({d \in S : d < x}) < Batch)
    BY <1>3 DEF F, first
  <2> QED
    BY <1>4, <1>5, <2>1
<1>7. Cardinality(F) <= Batch
  <2>1. F # {}
    BY <1>6, FS_EmptySet
  <2>2. PICK y \in F : \A d \in F : d <= y
    BY <1>1, <2>1, SomeGreatest
  <2> DEFINE L == {d \in S : d < y}
  <2>3. Cardinality(L) < Batch
    BY <2>2 DEF F, first
  <2>4. F \ {y} = L
    <3>1. \A d \in F : d # y => d < y
      BY <1>1, <1>2, <2>2
    <3>2. \A d \in L : d \in F /\ d # y
      BY <1>1, <1>2, <2>2
    <3> QED
      BY <1>1, <3>1, <3>2
  <2>5. Cardinality(F \ {y}) = Cardinality(F) - 1
    BY <1>5, <2>2, FS_RemoveElement
  <2> HIDE DEF L
  <2>6. Cardinality(F) - 1 < Batch
    BY <2>3, <2>4, <2>5
  <2> QED
    BY <1>5, <2>6
<1> QED
  BY <1>5, <1>6, <1>7 DEF F

\* A signal is on its way, or the connection is down, or a signal was lost.
Awaited == wire > 0 \/ ~ listening \/ lost \/ \E w \in Writer : signal[w] = "due"

\* What a subscriber that nothing will wake holds, or has been given, is all.
Holds(f) ==
    \A e \in log : cursor[f] < e =>
        /\ pc[f] # "wait"
        /\ pc[f] = "give" => e \in batch[f] \/ full[f]

WakeInv ==
    \A f \in Follower : subscribed[f] => changed[f] \/ Awaited \/ Holds(f)

\* The writers' steps: a commit leaves its signal due until it is sent.
LEMMA WriteWakes ==
    ASSUME FeedInv, WakeInv, NEW w \in Writer, Write(w)
    PROVE  WakeInv'
<1>1. UNCHANGED <<loops, changed, listening>> /\ wire \in Nat
  BY DEF Write, AppendEvent, Commit, Rollback, Publish, LosePublish, wires, FeedInv, TypeOK
<1>2. CASE Commit(w)
  <2>1. signal'[w] = "due"
    BY <1>2 DEF Commit, FeedInv, TypeOK
  <2> QED
    BY <2>1 DEF WakeInv, Awaited
<1>3. CASE AppendEvent(w) \/ Rollback(w)
  BY <1>1, <1>3 DEF AppendEvent, Rollback, WakeInv, Awaited, Holds, wires, loops
<1>4. CASE Publish(w)
  <2>1. wire' > 0 \/ ~ listening'
    BY <1>1, <1>4 DEF Publish
  <2> QED
    BY <2>1 DEF WakeInv, Awaited
<1>5. CASE LosePublish(w)
  BY <1>5 DEF LosePublish, WakeInv, Awaited
<1> QED
  BY <1>2, <1>3, <1>4, <1>5 DEF Write

\* The fanout wakes whom it can, and a purge only shortens the log.
LEMMA FanoutWakes ==
    ASSUME FeedInv, WakeInv, Fanout \/ PurgeProgress
    PROVE  WakeInv'
<1>1. CASE PurgeProgress
  <2>1. log' \subseteq log /\ UNCHANGED <<txns, wires, loops, changed, lost>>
    BY <1>1 DEF PurgeProgress
  <2> QED
    BY <2>1 DEF WakeInv, Awaited, Holds, txns, wires, loops
<1>2. CASE HandleNotification \/ Connect
  <2>1. \A f \in Follower : subscribed'[f] => changed'[f]
    BY <1>2 DEF HandleNotification, Connect, notifySubscribers, loops
  <2> QED
    BY <2>1 DEF WakeInv
<1>3. CASE Disconnect
  BY <1>3 DEF Disconnect, WakeInv, Awaited
<1> QED
  BY <1>1, <1>2, <1>3 DEF Fanout

\* A subscriber that waits has read to the end since its generation was observed.
LEMMA FollowWakes ==
    ASSUME FeedInv, WakeInv, NEW f \in Follower, Follow(f)
    PROVE  WakeInv'
<1>1. UNCHANGED <<store, txns, wires, lost>>
  BY DEF Follow, Open, Loop, Observe, Read, Yield, BatchDone, Wake, CatchUp, Abort
<1>2. Awaited' <=> Awaited
  BY <1>1 DEF Awaited, txns, wires
<1>3. TypeOK /\ log' = log
  BY <1>1 DEF FeedInv, store
<1>4. \A g \in Follower \ {f} : /\ pc'[g] = pc[g] /\ cursor'[g] = cursor[g]
                                /\ batch'[g] = batch[g] /\ full'[g] = full[g]
                                /\ subscribed'[g] = subscribed[g]
                                /\ changed'[g] = changed[g]
  BY <1>3 DEF TypeOK, Follow, Open, Loop, Observe, Read, Yield, BatchDone, Wake, CatchUp,
              Abort, Goto
<1>5. \A g \in Follower \ {f} : subscribed'[g] => changed'[g] \/ Awaited' \/ Holds(g)'
  BY <1>2, <1>3, <1>4 DEF WakeInv, Holds
<1>6. CASE Open(f) \/ Observe(f) \/ Wake(f) \/ CatchUp(f) \/ Abort(f)
  <2>1. pc'[f] \notin {"give", "wait"}
    BY <1>3, <1>6 DEF TypeOK, Open, Observe, Wake, CatchUp, Abort, Goto
  <2> QED
    BY <1>5, <2>1 DEF WakeInv, Holds
<1>7. CASE Read(f)
  <2> DEFINE S == {e \in log : e > cursor[f]}
  <2>1. /\ pc'[f] = "give" /\ batch'[f] = first(S) /\ cursor' = cursor
        /\ full'[f] <=> Cardinality(first(S)) = Batch
    BY <1>3, <1>7 DEF TypeOK, Read, Goto, eventsAfter
  <2>2. next \in Nat /\ S \in SUBSET (0 .. next - 1)
    <3>1. next \in Nat /\ log \subseteq 0 .. next - 1
      BY <1>3 DEF TypeOK
    <3>2. S \subseteq log
      OBVIOUS
    <3> HIDE DEF S
    <3> QED
      BY <3>1, <3>2
  <2>3. ~ full'[f] => first(S) = S
    BY <2>1, <2>2, NotFullIsAll
  <2>4. \A e \in log : cursor[f] < e => e \in S
    BY <1>3 DEF TypeOK
  <2> HIDE DEF S
  <2>5. Holds(f)'
    BY <1>3, <2>1, <2>3, <2>4 DEF Holds
  <2> QED
    BY <1>5, <2>5 DEF WakeInv
<1>8. CASE Yield(f)
  <2>1. PICK e \in batch[f] : /\ cursor'[f] = e /\ batch'[f] = batch[f] \ {e}
                              /\ pc[f] = "give"
                              /\ UNCHANGED <<pc, full, subscribed, changed>>
    BY <1>3, <1>8 DEF TypeOK, Yield
  <2>2. cursor[f] < e /\ cursor[f] \in Int /\ e \in Int /\ log \subseteq Int
    BY <1>3, <2>1 DEF FeedInv, BatchInv, TypeOK, Seq0
  <2>3. \A l \in log : e < l => cursor[f] < l /\ l # e
    BY <2>2
  <2>4. Holds(f) => Holds(f)'
    BY <1>3, <2>1, <2>3 DEF Holds
  <2> QED
    BY <1>2, <1>5, <2>1, <2>4 DEF WakeInv
<1>9. CASE BatchDone(f)
  <2>1. /\ pc[f] = "give" /\ batch[f] = {}
        /\ pc'[f] = IF full[f] THEN "read" ELSE "wait"
        /\ UNCHANGED <<cursor, batch, full, subscribed, changed>>
    BY <1>3, <1>9 DEF TypeOK, BatchDone, Goto
  <2>2. Holds(f) => Holds(f)'
    BY <1>3, <2>1 DEF Holds
  <2> QED
    BY <1>2, <1>5, <2>1, <2>2 DEF WakeInv
<1> QED
  BY <1>6, <1>7, <1>8, <1>9 DEF Follow, Loop

\* A signal that is sent is never lost on a subscriber: it waits only with
\* everything stored given to it, or with its wake-up still to come.
THEOREM NoWakeupIsLost == Spec => []NoLostWakeup
<1>1. Init => WakeInv
  BY DEF Init, WakeInv
<1>2. FeedInv /\ WakeInv /\ [Next]_vars => WakeInv'
  <2> SUFFICES ASSUME FeedInv, WakeInv, [Next]_vars PROVE WakeInv'
    OBVIOUS
  <2>1. CASE UNCHANGED vars
    BY <2>1 DEF vars, WakeInv, Awaited, Holds
  <2> QED
    BY <2>1, WriteWakes, FanoutWakes, FollowWakes DEF Next
<1>3. FeedInv /\ WakeInv => NoLostWakeup
  <2> SUFFICES ASSUME FeedInv, WakeInv, NEW f \in Follower,
                      pc[f] = "wait", subscribed[f], ~ changed[f], ~ lost,
                      NEW e \in log, e > cursor[f]
               PROVE  wire > 0 \/ ~ listening \/ \E w \in Writer : signal[w] = "due"
    BY DEF NoLostWakeup
  <2>1. cursor[f] < e
    BY DEF FeedInv, TypeOK
  <2> QED
    BY <2>1 DEF WakeInv, Awaited, Holds
<1> QED
  BY <1>1, <1>2, <1>3, FeedInvariant, PTL DEF Spec

=============================================================================
