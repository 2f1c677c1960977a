----------------------------- MODULE Wakes_proofs -----------------------------
(***************************************************************************)
(* Theorems about BotMessages, for any bots, hops and number of runs: a    *)
(* chain of messages ends, and an outcome is told once; and about Routine, *)
(* for any wakes and dates: a date fires once.  The last part carries both *)
(* over to the settings in which TLC runs them.                            *)
(***************************************************************************)
EXTENDS MCWakes, SequenceTheorems, TLAPS

-----------------------------------------------------------------------------
(* The inductive invariant of BotMessages.                                 *)

\* A chain of messages stays outside groups and one of hand-offs inside, so the
\* hop of a run's source counts the whole way from a person; bots send them.
RowChain(c) ==
    /\ c.depth = c.source.hop
    /\ c.source.kind = "none" => c.source.hop = 0
    /\ c.group => c.source.kind # "message"
    /\ ~c.group => c.source.kind # "handoff"
    /\ c.source.hop <= MaxHop + (IF c.source.intent = "outcome" THEN 1 ELSE 0)
    /\ c.status # "none" => c.bot \in Bot
    /\ c.source.kind # "none" => c.source.from \in Bot

ChainInv == \A r \in Run : RowChain(run[r])

IsTold(r) == autoOutcome[r] = 1 \/ ToldResult(r)

\* Who returns the outcome of a run returns that of an ended one, whose sender
\* says nothing more, and marks only what is told.
OutcomeOf(r) ==
    /\ autoOutcome[r] > 0 => autoOutcome[r] = 1 /\ Ended(r) /\ ~ToldResult(r)
    /\ run[r].returned => Ended(r) /\ (Delegated(r) => IsTold(r))
    /\ \A w \in Returner :
         /\ returner[r][w] # "idle" => Ended(r) /\ run[r].source.kind = "message"
         /\ returner[r][w] = "send" => Delegated(r) /\ ~ToldResult(r)
         /\ returner[r][w] = "mark" => (Delegated(r) => IsTold(r))

OutcomeInv == \A r \in Run : OutcomeOf(r)

\* No run stands twice among the outstanding ones.
EachOnce == \A i, j \in 1 .. Len(outstanding) : outstanding[i] = outstanding[j] => i = j

MsgInv == MsgTypeOK /\ ChainInv /\ OutcomeInv /\ EachOnce

-----------------------------------------------------------------------------
(* Rows.                                                                   *)

LEMMA StatusIsRow ==
    ASSUME NEW c \in Rows, NEW s \in {"ended", "cancelled"}
    PROVE  [c EXCEPT !.status = s] \in Rows
BY ZenonT(30) DEF Rows

LEMMA ReturnedIsRow ==
    ASSUME NEW c \in Rows
    PROVE  [c EXCEPT !.returned = TRUE] \in Rows
BY ZenonT(30) DEF Rows

LEMMA WokenIsRow ==
    ASSUME MsgInv, NEW r \in Run, NEW kind \in {"message", "handoff"}, NEW to \in Bot,
           NEW intent \in {"none", "request", "result", "fyi", "outcome"},
           kind = (IF run[r].group THEN "handoff" ELSE "message"),
           run[r].status # "none",
           NextHop(r, kind) <= MaxHop + (IF intent = "outcome" THEN 1 ELSE 0)
    PROVE  LET c == Woken(r, kind, to, intent)
           IN  /\ c \in Rows /\ RowChain(c)
               /\ c.status = "active" /\ ~c.returned
<1> USE BotMessagesAssumption
<1>1. run[r] \in Rows /\ RowChain(run[r])
  BY DEF MsgInv, MsgTypeOK, ChainInv, Rows, Sources
<1> QED
  BY <1>1 DEF Woken, NextHop, RowChain, Rows, Sources

\* Nothing happens to the outcome of a run.
LEMMA OutcomeStays ==
    ASSUME NEW r \in Run, OutcomeOf(r), run'[r] = run[r], sent'[r] = sent[r],
           autoOutcome'[r] = autoOutcome[r],
           \A w \in Returner : returner'[r][w] \in {returner[r][w], "idle"}
    PROVE  OutcomeOf(r)'
<1>1. /\ Ended(r)' = Ended(r) /\ Delegated(r)' = Delegated(r)
      /\ ToldResult(r)' = ToldResult(r) /\ IsTold(r)' = IsTold(r)
  BY DEF Ended, Delegated, ToldResult, IsTold
<1> QED
  BY <1>1 DEF OutcomeOf

\* A row created in a free slot keeps the types, the chains and all other runs.
LEMMA CreatesKeeps ==
    ASSUME MsgInv, NEW c \in Rows, RowChain(c), c.status = "active", ~c.returned,
           Creates(c), UNCHANGED outstanding
    PROVE  /\ run' \in [Run -> Rows] /\ ChainInv' /\ EachOnce'
           /\ \A r \in Run : Ended(r) => run'[r] = run[r]
           /\ \A r \in Run : run'[r] = run[r] \/ (run[r].status = "none" /\ ~Ended(r)' /\ ~run'[r].returned)
           /\ \A r \in Run : (Ended(r) /\ run[r].source.kind = "message" /\ ~run[r].returned
                             <=> \E i \in 1 .. Len(outstanding) : outstanding[i] = r)'
<1>1. PICK n \in Run : run[n].status = "none" /\ run' = [run EXCEPT ![n] = c]
  BY DEF Creates, NextUnused, Unused
<1>2. run' \in [Run -> Rows] /\ ChainInv' /\ EachOnce'
  BY <1>1 DEF MsgInv, MsgTypeOK, ChainInv, EachOnce
<1>3. \A r \in Run : IF r = n THEN run'[r] = c ELSE run'[r] = run[r]
  BY <1>1 DEF MsgInv, MsgTypeOK
<1>4. c.status # "ended" /\ run[n].status # "ended"
  BY <1>1
<1>5. \A r \in Run : Ended(r) => run'[r] = run[r]
  BY <1>3, <1>4 DEF Ended
<1>6. \A r \in Run : run'[r] = run[r]
                      \/ (run[r].status = "none" /\ ~Ended(r)' /\ ~run'[r].returned)
  BY <1>1, <1>3, <1>4 DEF Ended
<1>7. \A r \in Run : Ended(r) /\ run[r].source.kind = "message" /\ ~run[r].returned
                      <=> \E i \in 1 .. Len(outstanding) : outstanding[i] = r
  BY DEF MsgInv, MsgTypeOK
<1>8. ASSUME NEW r \in Run
      PROVE  (Ended(r) /\ run[r].source.kind = "message" /\ ~run[r].returned)'
             = (Ended(r) /\ run[r].source.kind = "message" /\ ~run[r].returned)
  <2>1. CASE run'[r] = run[r]
    BY <2>1 DEF Ended
  <2>2. CASE run'[r] # run[r]
    BY <2>2, <1>3, <1>4 DEF Ended
  <2> QED
    BY <2>1, <2>2
<1>9. \A r \in Run : (Ended(r) /\ run[r].source.kind = "message" /\ ~run[r].returned
                      <=> \E i \in 1 .. Len(outstanding) : outstanding[i] = r)'
  BY <1>7, <1>8
<1> QED
  BY <1>2, <1>5, <1>6, <1>9

\* A slot that was free has no outcome to return.
LEMMA FreeHasNone ==
    ASSUME MsgInv, NEW r \in Run, run[r].status = "none",
           ~Ended(r)', ~run'[r].returned, autoOutcome'[r] = autoOutcome[r],
           returner'[r] = returner[r]
    PROVE  OutcomeOf(r)'
BY DEF MsgInv, MsgTypeOK, OutcomeInv, OutcomeOf, Ended

\* A message of a run at work, or a person's, which may have been sent by it.
LEMMA StartKeeps ==
    ASSUME MsgInv, NEW c \in Rows, RowChain(c), c.status = "active", ~c.returned,
           Creates(c), UNCHANGED <<outstanding, returner, autoOutcome, archived, faults>>,
           sent' \in [Run -> SUBSET (Bot \X {"request", "result", "fyi"})],
           \A r \in Run : sent'[r] = sent[r] \/ run[r].status = "active",
           handed' \subseteq Run
    PROVE  MsgInv'
<1>1. MsgTypeOK' /\ ChainInv' /\ EachOnce'
  BY CreatesKeeps DEF MsgInv, MsgTypeOK
<1>2. ASSUME NEW r \in Run
      PROVE  OutcomeOf(r)'
  <2>1. CASE run'[r] = run[r] /\ sent'[r] = sent[r]
    BY <2>1, OutcomeStays DEF MsgInv, OutcomeInv
  <2>2. CASE run'[r] = run[r] /\ run[r].status = "active"
    BY <2>2 DEF MsgInv, MsgTypeOK, OutcomeInv, OutcomeOf, Ended
  <2>3. CASE run[r].status = "none" /\ ~Ended(r)' /\ ~run'[r].returned
    BY <2>3, FreeHasNone
  <2> QED
    BY <2>1, <2>2, <2>3, CreatesKeeps
<1> QED
  BY <1>1, <1>2 DEF MsgInv, OutcomeInv

-----------------------------------------------------------------------------
(* Steps.                                                                  *)

\* A bot or a person starts a run.
LEMMA AskKeeps ==
    ASSUME MsgInv, NEW b \in Bot, NEW g \in BOOLEAN, PersonAsks(b, g)
    PROVE  MsgInv'
<1> DEFINE c == [Free EXCEPT !.status = "active", !.bot = b, !.group = g]
<1>1. /\ c.status = "active" /\ c.bot = b /\ c.group = g /\ c.source = NoSource
      /\ c.returned = FALSE /\ c.depth = 0
  BY DEF Free
<1>2. NoSource \in Sources /\ NoSource.hop = 0 /\ NoSource.kind = "none"
      /\ NoSource.intent = "none"
  BY BotMessagesAssumption DEF NoSource, Sources
<1>3. c \in Rows
  <2>1. Free \in Rows
    BY <1>2 DEF Free, Rows
  <2> QED
    BY <2>1 DEF Rows
<1> HIDE DEF c
<1>4. RowChain(c) /\ c.status = "active" /\ ~c.returned
  BY <1>1, <1>2, BotMessagesAssumption DEF RowChain
<1>5. Creates(c) /\ UNCHANGED <<outstanding, returner, autoOutcome, archived, faults, sent, handed>>
  BY DEF PersonAsks, c
<1> QED
  BY <1>3, <1>4, <1>5, StartKeeps DEF MsgInv, MsgTypeOK

LEMMA MessageKeeps ==
    ASSUME MsgInv, NEW r \in Run, NEW to \in Bot, NEW i \in {"request", "result", "fyi"},
           MessageBot(r, to, i)
    PROVE  MsgInv'
<1> DEFINE c == Woken(r, "message", to, i)
<1>1. c \in Rows /\ RowChain(c) /\ c.status = "active" /\ ~c.returned
  <2>1. NextHop(r, "message") <= MaxHop /\ ~run[r].group /\ run[r].status # "none"
    BY DEF MessageBot, hopAllows, senderMaySend
  <2>2. MaxHop + (IF i = "outcome" THEN 1 ELSE 0) = MaxHop
    BY BotMessagesAssumption
  <2> QED
    BY <2>1, <2>2, WokenIsRow
<1> HIDE DEF c
<1>2. /\ Creates(c) /\ run[r].status = "active"
      /\ UNCHANGED <<outstanding, returner, autoOutcome, archived, faults, handed>>
      /\ sent' = [sent EXCEPT ![r] = @ \cup {<<to, i>>}]
  BY DEF MessageBot, c, senderMaySend
<1>3. /\ sent' \in [Run -> SUBSET (Bot \X {"request", "result", "fyi"})]
      /\ \A x \in Run : sent'[x] = sent[x] \/ run[x].status = "active"
  BY <1>2 DEF MsgInv, MsgTypeOK
<1> QED
  BY <1>1, <1>2, <1>3, StartKeeps DEF MsgInv, MsgTypeOK

LEMMA HandoffKeeps ==
    ASSUME MsgInv, NEW r \in Run, NEW to \in Bot, Handoff(r, to)
    PROVE  MsgInv'
<1> DEFINE c == Woken(r, "handoff", to, "none")
<1>1. c \in Rows /\ RowChain(c) /\ c.status = "active" /\ ~c.returned
  <2>1. NextHop(r, "handoff") <= MaxHop /\ run[r].group /\ run[r].status # "none"
    BY DEF Handoff, hopAllows
  <2>2. MaxHop + (IF "none" = "outcome" THEN 1 ELSE 0) = MaxHop
    BY BotMessagesAssumption
  <2> QED
    BY <2>1, <2>2, WokenIsRow
<1> HIDE DEF c
<1>2. /\ Creates(c) /\ handed' = handed \cup {r}
      /\ UNCHANGED <<outstanding, returner, autoOutcome, archived, faults, sent>>
  BY DEF Handoff, c
<1> QED
  BY <1>1, <1>2, StartKeeps DEF MsgInv, MsgTypeOK

\* A run ends, and stands in the list if a message of a bot has started it.
LEMMA FinishKeeps ==
    ASSUME MsgInv, NEW r \in Run, NEW at \in {"look", "idle"}, Finish(r, at)
    PROVE  MsgInv'
<1>1. /\ run[r].status = "active" /\ ~Ended(r) /\ ~run[r].returned
      /\ run' = [run EXCEPT ![r] = [run[r] EXCEPT !.status = "ended"]]
  BY DEF Finish, MsgInv, MsgTypeOK, OutcomeInv, OutcomeOf, Ended
<1>2. run' \in [Run -> Rows] /\ \A x \in Run \ {r} : run'[x] = run[x]
  <2>1. run[r] \in Rows
    BY DEF MsgInv, MsgTypeOK
  <2>2. [run[r] EXCEPT !.status = "ended"] \in Rows
    BY <2>1, StatusIsRow
  <2> QED
    BY <1>1, <2>2 DEF MsgInv, MsgTypeOK
<1>3. /\ run'[r].status = "ended" /\ run'[r].source = run[r].source
      /\ run'[r].returned = run[r].returned /\ run'[r].depth = run[r].depth
      /\ run'[r].group = run[r].group /\ run'[r].bot = run[r].bot
  BY <1>1 DEF MsgInv, MsgTypeOK, Rows
<1>4. ChainInv'
  BY <1>1, <1>2, <1>3 DEF MsgInv, ChainInv, RowChain
<1>5. \A i \in 1 .. Len(outstanding) : outstanding[i] # r
  BY <1>1 DEF MsgInv, MsgTypeOK
<1>6. MsgTypeOK' /\ EachOnce'
  <2>1. CASE awaitsReturn(r)
    <3>1. outstanding' = Append(outstanding, r)
      BY <2>1 DEF Finish
    <3>2. /\ outstanding' \in Seq(Run) /\ Len(outstanding') = Len(outstanding) + 1
          /\ \A i \in 1 .. Len(outstanding) : outstanding'[i] = outstanding[i]
          /\ outstanding'[Len(outstanding')] = r /\ Len(outstanding) \in Nat
      BY <3>1 DEF MsgInv, MsgTypeOK
    <3>3. \A x \in Run : (\E i \in 1 .. Len(outstanding') : outstanding'[i] = x)
                          <=> x = r \/ \E i \in 1 .. Len(outstanding) : outstanding[i] = x
      BY <3>2
    <3>4. EachOnce'
      BY <3>2, <1>5 DEF MsgInv, EachOnce
    <3>5. \A x \in Run : (Ended(x) /\ run[x].source.kind = "message" /\ ~run[x].returned)'
                          <=> x = r \/ (Ended(x) /\ run[x].source.kind = "message" /\ ~run[x].returned)
      BY <1>1, <1>2, <1>3, <2>1 DEF awaitsReturn, Ended
    <3>6. \A x \in Run : (Ended(x) /\ run[x].source.kind = "message" /\ ~run[x].returned)'
                          <=> \E i \in 1 .. Len(outstanding') : outstanding'[i] = x
      BY <3>3, <3>5 DEF MsgInv, MsgTypeOK
    <3>7. returner' \in [Run -> [Returner -> {"idle", "look", "send", "mark", "bump"}]]
      BY DEF MsgInv, MsgTypeOK, Finish
    <3>8. UNCHANGED <<sent, autoOutcome, handed, archived, faults>>
      BY DEF Finish
    <3>9. MsgTypeOK'
      BY <1>2, <3>2, <3>6, <3>7, <3>8 DEF MsgInv, MsgTypeOK
    <3> QED
      BY <3>4, <3>9
  <2>2. CASE ~awaitsReturn(r)
    <3>1. outstanding' = outstanding
      BY <2>2 DEF Finish
    <3>2. \A x \in Run : (Ended(x) /\ run[x].source.kind = "message" /\ ~run[x].returned)'
                          <=> (Ended(x) /\ run[x].source.kind = "message" /\ ~run[x].returned)
      BY <1>1, <1>2, <1>3, <2>2 DEF awaitsReturn, Ended
    <3>3. returner' \in [Run -> [Returner -> {"idle", "look", "send", "mark", "bump"}]]
      BY DEF MsgInv, MsgTypeOK, Finish
    <3>4. UNCHANGED <<sent, autoOutcome, handed, archived, faults>>
      BY DEF Finish
    <3>5. MsgTypeOK'
      BY <1>2, <3>1, <3>2, <3>3, <3>4 DEF MsgInv, MsgTypeOK
    <3> QED
      BY <3>1, <3>5 DEF MsgInv, EachOnce
  <2> QED
    BY <2>1, <2>2
<1>7. ASSUME NEW x \in Run
      PROVE  OutcomeOf(x)'
  <2>1. CASE x = r
    <3>1. \A w \in Returner : returner[r][w] = "idle"
      BY <1>1 DEF MsgInv, MsgTypeOK, OutcomeInv, OutcomeOf
    <3>2. \A w \in Returner : /\ returner'[r][w] \in {"idle", "look"}
                              /\ returner'[r][w] = "look" => run[r].source.kind = "message"
      BY <3>1 DEF Finish, MsgInv, MsgTypeOK
    <3>3. ~(autoOutcome'[r] > 0)
      BY <1>1 DEF Finish, MsgInv, MsgTypeOK, OutcomeInv, OutcomeOf
    <3> QED
      BY <2>1, <1>1, <1>3, <3>2, <3>3 DEF OutcomeOf, Ended
  <2>2. CASE x # r
    BY <2>2, <1>2, OutcomeStays DEF Finish, MsgInv, MsgTypeOK, OutcomeInv
  <2> QED
    BY <2>1, <2>2
<1> QED
  BY <1>4, <1>6, <1>7 DEF MsgInv, OutcomeInv

\* Runs at work are cancelled.
LEMMA CancelKeeps ==
    ASSUME MsgInv, NEW R \in SUBSET Run, \A r \in R : run[r].status = "active",
           run' = [r \in Run |-> IF r \in R THEN [run[r] EXCEPT !.status = "cancelled"]
                                            ELSE run[r]],
           archived' \subseteq Bot,
           UNCHANGED <<sent, autoOutcome, handed, outstanding, returner, faults>>
    PROVE  MsgInv'
<1>1. /\ run' \in [Run -> Rows]
      /\ \A r \in Run \ R : run'[r] = run[r]
      /\ \A r \in R : /\ run'[r].status = "cancelled" /\ run'[r].source = run[r].source
                      /\ run'[r].returned = run[r].returned /\ run'[r].depth = run[r].depth
                      /\ run'[r].group = run[r].group /\ run'[r].bot = run[r].bot
  <2>1. \A r \in Run : [run[r] EXCEPT !.status = "cancelled"] \in Rows
    BY StatusIsRow DEF MsgInv, MsgTypeOK
  <2> QED
    BY <2>1 DEF MsgInv, MsgTypeOK, Rows
<1>2. \A r \in R : ~Ended(r) /\ ~Ended(r)' /\ ~run[r].returned
  BY <1>1 DEF Ended, MsgInv, OutcomeInv, OutcomeOf
<1>3. \A r \in Run : (Ended(r) /\ run[r].source.kind = "message" /\ ~run[r].returned)'
                    <=> (Ended(r) /\ run[r].source.kind = "message" /\ ~run[r].returned)
  BY <1>1, <1>2 DEF Ended
<1>4. MsgTypeOK' /\ ChainInv' /\ EachOnce'
  <2>1. MsgTypeOK'
    BY <1>1, <1>3 DEF MsgInv, MsgTypeOK
  <2> QED
    BY <1>1, <2>1 DEF MsgInv, ChainInv, RowChain, EachOnce
<1>5. ASSUME NEW r \in Run
      PROVE  OutcomeOf(r)'
  <2>1. CASE r \in R
    <3>1. ~(autoOutcome[r] > 0) /\ \A w \in Returner : returner[r][w] = "idle"
      BY <2>1, <1>2 DEF MsgInv, OutcomeInv, OutcomeOf
    <3>2. ~run'[r].returned
      BY <2>1, <1>1, <1>2
    <3> QED
      BY <3>1, <3>2 DEF OutcomeOf
  <2>2. CASE r \notin R
    BY <2>2, <1>1, OutcomeStays DEF MsgInv, MsgTypeOK, OutcomeInv
  <2> QED
    BY <2>1, <2>2
<1> QED
  BY <1>4, <1>5 DEF MsgInv, OutcomeInv

LEMMA StopKeeps ==
    ASSUME MsgInv, NEW r \in Run, StopRun(r)
    PROVE  MsgInv'
<1>1. /\ run[r].status = "active"
      /\ run' = [x \in Run |-> IF x \in {r} THEN [run[x] EXCEPT !.status = "cancelled"]
                                             ELSE run[x]]
  BY DEF StopRun, MsgInv, MsgTypeOK
<1> QED
  BY <1>1, CancelKeeps DEF StopRun, MsgInv, MsgTypeOK

LEMMA ArchiveKeeps ==
    ASSUME MsgInv, NEW b \in Bot, ArchiveBot(b)
    PROVE  MsgInv'
<1> DEFINE R == {r \in Run : run[r].bot = b /\ run[r].status = "active"}
<1>1. run' = [r \in Run |-> IF r \in R THEN [run[r] EXCEPT !.status = "cancelled"]
                                       ELSE run[r]]
  BY DEF ArchiveBot
<1>2. archived' \subseteq Bot
  BY DEF ArchiveBot, MsgInv, MsgTypeOK
<1> QED
  BY <1>1, <1>2, CancelKeeps DEF ArchiveBot

-----------------------------------------------------------------------------
(* The return of an outcome.                                               *)

\* Callers move on, and every outcome stays what it is.
LEMMA CallersKeep ==
    ASSUME MsgInv, UNCHANGED <<run, sent, autoOutcome, handed, archived, outstanding>>,
           returner' \in [Run -> [Returner -> {"idle", "look", "send", "mark", "bump"}]],
           faults' \in 0 .. MaxFault,
           \A r \in Run, w \in Returner :
              /\ returner'[r][w] # "idle" => Ended(r) /\ run[r].source.kind = "message"
              /\ returner'[r][w] = "send" => Delegated(r) /\ ~ToldResult(r)
              /\ returner'[r][w] = "mark" => (Delegated(r) => IsTold(r))
    PROVE  MsgInv'
<1>1. MsgTypeOK' /\ ChainInv' /\ EachOnce'
  BY DEF MsgInv, MsgTypeOK, ChainInv, EachOnce, Ended
<1>2. \A r \in Run : OutcomeOf(r)'
  BY DEF MsgInv, OutcomeInv, OutcomeOf, Ended, Delegated, ToldResult, IsTold
<1> QED
  BY <1>1, <1>2 DEF MsgInv, OutcomeInv

LEMMA ReconcileKeeps ==
    ASSUME MsgInv, Reconcile
    PROVE  MsgInv'
<1> DEFINE batch == {outstanding[i] : i \in 1 .. Len(outstanding) \cap 1 .. Batch}
<1>1. returner' = [r \in Run |-> IF r \in batch
                           THEN [returner[r] EXCEPT !["reconciler"] = "look"]
                           ELSE returner[r]]
  BY DEF Reconcile
<1>2. \A r \in batch : r \in Run /\ Ended(r) /\ run[r].source.kind = "message"
  BY DEF MsgInv, MsgTypeOK
<1> HIDE DEF batch
<1>3. returner' \in [Run -> [Returner -> {"idle", "look", "send", "mark", "bump"}]]
  BY <1>1 DEF MsgInv, MsgTypeOK, Returner
<1>4. \A r \in Run, w \in Returner :
         returner'[r][w] = returner[r][w] \/ (r \in batch /\ returner'[r][w] = "look")
  BY <1>1 DEF MsgInv, MsgTypeOK, Returner
<1>5. \A r \in Run, w \in Returner :
         /\ returner[r][w] # "idle" => Ended(r) /\ run[r].source.kind = "message"
         /\ returner[r][w] = "send" => Delegated(r) /\ ~ToldResult(r)
         /\ returner[r][w] = "mark" => (Delegated(r) => IsTold(r))
  BY DEF MsgInv, OutcomeInv, OutcomeOf
<1>6. \A r \in Run, w \in Returner :
         /\ returner'[r][w] # "idle" => Ended(r) /\ run[r].source.kind = "message"
         /\ returner'[r][w] = "send" => Delegated(r) /\ ~ToldResult(r)
         /\ returner'[r][w] = "mark" => (Delegated(r) => IsTold(r))
  BY <1>2, <1>4, <1>5
<1>7. faults' \in 0 .. MaxFault
  BY DEF Reconcile, MsgInv, MsgTypeOK
<1> QED
  BY <1>3, <1>6, <1>7, CallersKeep DEF Reconcile

\* One caller moves on.
LEMMA MoveKeeps ==
    ASSUME MsgInv, NEW r \in Run, NEW w \in Returner,
           NEW at \in {"idle", "send", "mark", "bump"}, Moves(r, w, at),
           UNCHANGED <<run, sent, autoOutcome, handed, archived, outstanding>>,
           faults' \in 0 .. MaxFault, returner[r][w] # "idle",
           at = "send" => Delegated(r) /\ ~ToldResult(r),
           at = "mark" => (Delegated(r) => IsTold(r))
    PROVE  MsgInv'
<1>1. \A x \in Run, v \in Returner :
         IF x = r /\ v = w THEN returner'[x][v] = at ELSE returner'[x][v] = returner[x][v]
  BY DEF Moves, MsgInv, MsgTypeOK
<1>2. returner' \in [Run -> [Returner -> {"idle", "look", "send", "mark", "bump"}]]
  BY DEF Moves, MsgInv, MsgTypeOK
<1>3. \A x \in Run, v \in Returner :
         /\ returner[x][v] # "idle" => Ended(x) /\ run[x].source.kind = "message"
         /\ returner[x][v] = "send" => Delegated(x) /\ ~ToldResult(x)
         /\ returner[x][v] = "mark" => (Delegated(x) => IsTold(x))
  BY DEF MsgInv, OutcomeInv, OutcomeOf
<1>4. \A x \in Run, v \in Returner :
         /\ returner'[x][v] # "idle" => Ended(x) /\ run[x].source.kind = "message"
         /\ returner'[x][v] = "send" => Delegated(x) /\ ~ToldResult(x)
         /\ returner'[x][v] = "mark" => (Delegated(x) => IsTold(x))
  BY <1>1, <1>3
<1> QED
  BY <1>2, <1>4, CallersKeep

\* The delivery of an outcome, which happens once.
LEMMA DeliverKeeps ==
    ASSUME MsgInv, NEW r \in Run, NEW w \in Returner, NEW at \in {"idle", "mark", "bump"},
           returner[r][w] = "send", DeliverOutcome(r),
           Moves(r, w, at), faults' \in 0 .. MaxFault,
           UNCHANGED <<sent, handed, archived, outstanding>>
    PROVE  MsgInv'
<1>1. Ended(r) /\ Delegated(r) /\ ~ToldResult(r)
  BY DEF MsgInv, OutcomeInv, OutcomeOf
<1>2. CASE outcomeSent(r)
  <2>1. UNCHANGED <<run, autoOutcome>>
    BY <1>2 DEF DeliverOutcome
  <2>2. IsTold(r)
    BY <1>2 DEF outcomeSent, IsTold, MsgInv, OutcomeInv, OutcomeOf
  <2> QED
    BY <2>1, <2>2, MoveKeeps
<1>3. CASE ~outcomeSent(r)
  <2> DEFINE c == Woken(r, "message", run[r].source.from, "outcome")
  <2>1. c \in Rows /\ RowChain(c) /\ c.status = "active" /\ ~c.returned
    <3>1. ~run[r].group /\ run[r].status # "none" /\ run[r].source.from \in Bot
      BY <1>1 DEF Delegated, Ended, MsgInv, ChainInv, RowChain
    <3>2. NextHop(r, "message") <= MaxHop + (IF "outcome" = "outcome" THEN 1 ELSE 0)
      <4>1. run[r].source.hop \in Nat
        <5>1. run[r] \in Rows
          BY DEF MsgInv, MsgTypeOK
        <5>2. run[r].source \in Sources
          BY <5>1 DEF Rows
        <5> QED
          BY <5>2, BotMessagesAssumption DEF Sources
      <4>3. run[r].source.hop <= MaxHop
        <5>1. RowChain(run[r]) /\ run[r].source.intent # "outcome"
          BY <1>1 DEF Delegated, MsgInv, ChainInv
        <5> QED
          BY <5>1, <4>1, BotMessagesAssumption DEF RowChain
      <4>2. NextHop(r, "message") = run[r].source.hop + 1
        BY <1>1 DEF Delegated, NextHop
      <4> QED
        BY <4>1, <4>2, <4>3, BotMessagesAssumption
    <3> QED
      BY <3>1, <3>2, WokenIsRow
  <2> HIDE DEF c
  <2>2. Creates(c) /\ autoOutcome' = [autoOutcome EXCEPT ![r] = @ + 1]
    BY <1>3 DEF DeliverOutcome, c
  <2>3. autoOutcome[r] = 0
    BY <1>3 DEF outcomeSent, MsgInv, MsgTypeOK
  <2>4. /\ autoOutcome' \in [Run -> Nat] /\ autoOutcome'[r] = 1
        /\ \A x \in Run \ {r} : autoOutcome'[x] = autoOutcome[x]
    BY <2>2, <2>3 DEF MsgInv, MsgTypeOK
  <2>5. /\ returner' \in [Run -> [Returner -> {"idle", "look", "send", "mark", "bump"}]]
        /\ \A x \in Run \ {r} : returner'[x] = returner[x]
        /\ \A v \in Returner : returner'[r][v] = IF v = w THEN at ELSE returner[r][v]
    BY DEF Moves, MsgInv, MsgTypeOK
  <2>6. MsgTypeOK' /\ ChainInv' /\ EachOnce'
    BY <2>1, <2>2, <2>4, <2>5, CreatesKeeps DEF MsgInv, MsgTypeOK
  <2>7. ASSUME NEW x \in Run
        PROVE  OutcomeOf(x)'
    <3>1. CASE x = r
      <4>1. run'[r] = run[r] /\ sent'[r] = sent[r]
        BY <1>1, <2>1, <2>2, CreatesKeeps
      <4>2. Ended(r)' /\ ~ToldResult(r)' /\ IsTold(r)' /\ Delegated(r)'
        BY <4>1, <1>1, <2>4 DEF Ended, ToldResult, IsTold, Delegated
      <4>3. \A v \in Returner : returner[r][v] # "idle" => run[r].source.kind = "message"
        BY DEF MsgInv, OutcomeInv, OutcomeOf
      <4> QED
        BY <3>1, <4>1, <4>2, <4>3, <1>1, <2>4, <2>5 DEF OutcomeOf, Delegated
    <3>2. CASE x # r /\ run'[x] = run[x]
      BY <3>2, <2>4, <2>5, OutcomeStays DEF MsgInv, MsgTypeOK, OutcomeInv
    <3>3. CASE x # r /\ run[x].status = "none" /\ ~Ended(x)' /\ ~run'[x].returned
      BY <3>3, <2>4, <2>5, FreeHasNone
    <3> QED
      BY <3>1, <3>2, <3>3, <2>1, <2>2, CreatesKeeps
  <2> QED
    BY <2>6, <2>7 DEF MsgInv, OutcomeInv
<1> QED
  BY <1>2, <1>3

\* The list without a run has no other fewer.
LEMMA WithoutKeeps ==
    ASSUME NEW s \in Seq(Run), NEW r \in Run,
           \A i, j \in 1 .. Len(s) : s[i] = s[j] => i = j
    PROVE  LET t == Without(s, r)
           IN  /\ t \in Seq(Run) /\ Len(t) \in Nat
               /\ \A i, j \in 1 .. Len(t) : t[i] = t[j] => i = j
               /\ \A x \in Run : (\E i \in 1 .. Len(t) : t[i] = x)
                                <=> x # r /\ \E i \in 1 .. Len(s) : s[i] = x
<1>1. CASE \A i \in 1 .. Len(s) : s[i] # r
  BY <1>1 DEF Without
<1>2. CASE \E i \in 1 .. Len(s) : s[i] = r
  <2> DEFINE k == CHOOSE i \in 1 .. Len(s) : s[i] = r
             t == Without(s, r)
  <2>1. k \in 1 .. Len(s) /\ s[k] = r /\ Len(s) \in Nat
    BY <1>2
  <2>2. t = SubSeq(s, 1, k - 1) \o SubSeq(s, k + 1, Len(s))
    BY <1>2 DEF Without, RemoveAt
  <2> HIDE DEF k, t
  <2>3. /\ t \in Seq(Run) /\ Len(t) = Len(s) - 1
        /\ \A i \in 1 .. Len(t) : t[i] = IF i < k THEN s[i] ELSE s[i + 1]
    <3> DEFINE a == SubSeq(s, 1, k - 1)
               b == SubSeq(s, k + 1, Len(s))
    <3>1. /\ a \in Seq(Run) /\ Len(a) = k - 1
          /\ \A i \in 1 .. k - 1 : a[i] = s[i]
      BY <2>1, SubSeqProperties
    <3>2. b \in Seq(Run) /\ Len(b) = Len(s) - k
      BY <2>1, SubSeqProperties
    <3>3. \A i \in 1 .. Len(s) - k : b[i] = s[k + i]
      BY <2>1, SubSeqProperties
    <3> HIDE DEF a, b
    <3>4. /\ a \o b \in Seq(Run) /\ Len(a \o b) = Len(a) + Len(b)
          /\ \A i \in 1 .. Len(a) + Len(b) : (a \o b)[i] =
                     IF i <= Len(a) THEN a[i] ELSE b[i - Len(a)]
      BY <3>1, <3>2, ConcatProperties
    <3>5. t = a \o b
      BY <2>2 DEF a, b
    <3>6. ASSUME NEW i \in 1 .. Len(t)
          PROVE  t[i] = IF i < k THEN s[i] ELSE s[i + 1]
      <4>1. CASE i < k
        BY <4>1, <3>1, <3>2, <3>4, <3>5, <2>1
      <4>2. CASE i >= k
        <5>1. i \in Int /\ k \in Int /\ i <= Len(a) + Len(b) /\ ~(i <= Len(a)) /\ 1 <= i
          BY <4>2, <3>1, <3>2, <3>4, <3>5, <2>1
        <5>5. t[i] = b[i - Len(a)]
          BY <5>1, <3>4, <3>5, <3>1, <3>2, <2>1
        <5>6. i - (k - 1) \in 1 .. Len(s) - k /\ i - Len(a) = i - (k - 1)
          BY <5>1, <3>1, <3>2, <2>1
        <5>2. t[i] = b[i - (k - 1)] /\ i - (k - 1) \in 1 .. Len(s) - k
          BY <5>5, <5>6
        <5>7. i - (k - 1) \in 1 .. Len(s) - k
          BY <5>2
        <5>8. b[i - (k - 1)] = s[k + (i - (k - 1))]
          BY <5>7, <3>3
        <5>9. k + (i - (k - 1)) = i + 1
          BY <5>1
        <5>3. b[i - (k - 1)] = s[k + (i - (k - 1))] /\ k + (i - (k - 1)) = i + 1
          BY <5>8, <5>9
        <5>4. ~(i < k)
          BY <5>1, <4>2
        <5> QED
          BY <5>2, <5>3, <5>4
      <4> QED
        BY <4>1, <4>2, <2>1
    <3>7. t \in Seq(Run) /\ Len(t) = Len(s) - 1
      BY <3>1, <3>2, <3>4, <3>5, <2>1
    <3> QED
      BY <3>6, <3>7
  <2>4. \A i, j \in 1 .. Len(t) : t[i] = t[j] => i = j
    <3> SUFFICES ASSUME NEW i \in 1 .. Len(t), NEW j \in 1 .. Len(t), t[i] = t[j]
                 PROVE  i = j
      OBVIOUS
    <3>1. \A m \in 1 .. Len(t) : \E x \in 1 .. Len(s) :
             t[m] = s[x] /\ x = IF m < k THEN m ELSE m + 1
      <4> SUFFICES ASSUME NEW m \in 1 .. Len(t)
                   PROVE  \E x \in 1 .. Len(s) : t[m] = s[x] /\ x = IF m < k THEN m ELSE m + 1
        OBVIOUS
      <4>1. m \in Int /\ (IF m < k THEN m ELSE m + 1) \in 1 .. Len(s)
        BY <2>1, <2>3
      <4> QED
        BY <4>1, <2>3
    <3>2. PICK x \in 1 .. Len(s) : t[i] = s[x] /\ x = IF i < k THEN i ELSE i + 1
      BY <3>1
    <3>3. PICK y \in 1 .. Len(s) : t[j] = s[y] /\ y = IF j < k THEN j ELSE j + 1
      BY <3>1
    <3>4. x = y
      BY <3>2, <3>3
    <3>5. i \in Int /\ j \in Int /\ k \in Int
      BY <2>1, <2>3
    <3> QED
      BY <3>2, <3>3, <3>4, <3>5
  <2>5. \A i \in 1 .. Len(t) : t[i] # r /\ \E j \in 1 .. Len(s) : s[j] = t[i]
    BY <2>1, <2>3
  <2>6. ASSUME NEW j \in 1 .. Len(s), s[j] # r
        PROVE  \E i \in 1 .. Len(t) : t[i] = s[j]
    <3>1. CASE j < k
      BY <3>1, <2>1, <2>3
    <3>2. CASE j > k
      <4>1. j - 1 \in 1 .. Len(t) /\ t[j - 1] = s[j]
        BY <3>2, <2>1, <2>3
      <4> QED
        BY <4>1
    <3> QED
      BY <3>1, <3>2, <2>1, <2>6
  <2> QED
    <3>1. \A x \in Run : (\E i \in 1 .. Len(t) : t[i] = x)
                         <=> x # r /\ \E i \in 1 .. Len(s) : s[i] = x
      BY <2>5, <2>6
    <3> QED
      BY <2>3, <2>4, <3>1 DEF t
<1> QED
  BY <1>1, <1>2

\* A caller marks the outcome as returned, and the run leaves the list.
LEMMA MarkKeeps ==
    ASSUME MsgInv, NEW r \in Run, NEW w \in Returner, Mark(r, w)
    PROVE  MsgInv'
<1>1. Ended(r) /\ run[r].source.kind = "message" /\ (Delegated(r) => IsTold(r))
  BY DEF Mark, MsgInv, OutcomeInv, OutcomeOf
<1>2. run' = [run EXCEPT ![r] = [run[r] EXCEPT !.returned = TRUE]]
  BY DEF Mark
<1>3. run' \in [Run -> Rows] /\ \A x \in Run \ {r} : run'[x] = run[x]
  <2>1. run[r] \in Rows
    BY DEF MsgInv, MsgTypeOK
  <2>2. [run[r] EXCEPT !.returned = TRUE] \in Rows
    BY <2>1, ReturnedIsRow
  <2> QED
    BY <1>2, <2>2 DEF MsgInv, MsgTypeOK
<1>4. /\ run'[r].returned = TRUE /\ run'[r].source = run[r].source
      /\ run'[r].status = run[r].status /\ run'[r].depth = run[r].depth
      /\ run'[r].group = run[r].group /\ run'[r].bot = run[r].bot
  BY <1>2 DEF MsgInv, MsgTypeOK, Rows
<1>5. ChainInv'
  BY <1>3, <1>4 DEF MsgInv, ChainInv, RowChain
<1>6. MsgTypeOK' /\ EachOnce'
  <2>1. outstanding' = Without(outstanding, r)
    BY DEF Mark
  <2>2. outstanding \in Seq(Run) /\ EachOnce
    BY DEF MsgInv, MsgTypeOK
  <2>3. /\ outstanding' \in Seq(Run) /\ EachOnce'
        /\ \A x \in Run : (\E i \in 1 .. Len(outstanding') : outstanding'[i] = x)
                         <=> x # r /\ \E i \in 1 .. Len(outstanding) : outstanding[i] = x
    <3> DEFINE t == Without(outstanding, r)
    <3>1. /\ t \in Seq(Run)
          /\ \A i, j \in 1 .. Len(t) : t[i] = t[j] => i = j
          /\ \A x \in Run : (\E i \in 1 .. Len(t) : t[i] = x)
                           <=> x # r /\ \E i \in 1 .. Len(outstanding) : outstanding[i] = x
      BY <2>2, WithoutKeeps DEF EachOnce
    <3>2. outstanding' = t
      BY <2>1
    <3> HIDE DEF t
    <3> QED
      BY <3>1, <3>2 DEF EachOnce
  <2>4. \A x \in Run : (Ended(x) /\ run[x].source.kind = "message" /\ ~run[x].returned)'
                        <=> x # r /\ (Ended(x) /\ run[x].source.kind = "message" /\ ~run[x].returned)
    BY <1>3, <1>4 DEF Ended
  <2>5. \A x \in Run : (Ended(x) /\ run[x].source.kind = "message" /\ ~run[x].returned)'
                        <=> \E i \in 1 .. Len(outstanding') : outstanding'[i] = x
    BY <2>3, <2>4 DEF MsgInv, MsgTypeOK
  <2>6. returner' \in [Run -> [Returner -> {"idle", "look", "send", "mark", "bump"}]]
    BY DEF MsgInv, MsgTypeOK, Mark, Moves
  <2>7. UNCHANGED <<sent, autoOutcome, handed, archived, faults>>
    BY DEF Mark
  <2>8. MsgTypeOK'
    BY <1>3, <2>3, <2>5, <2>6, <2>7 DEF MsgInv, MsgTypeOK
  <2> QED
    BY <2>3, <2>8
<1>7. ASSUME NEW x \in Run
      PROVE  OutcomeOf(x)'
  <2>1. \A v \in Returner : returner'[x][v] \in {returner[x][v], "idle"}
    BY DEF Mark, Moves, MsgInv, MsgTypeOK
  <2>2. CASE x = r
    <3>1. /\ Ended(r)' /\ Delegated(r)' = Delegated(r)
          /\ ToldResult(r)' = ToldResult(r) /\ IsTold(r)' = IsTold(r)
      BY <1>1, <1>4 DEF Ended, Delegated, ToldResult, IsTold, Mark
    <3>2. UNCHANGED autoOutcome /\ run'[r].source.kind = "message"
      BY <1>1, <1>4 DEF Mark
    <3> QED
      BY <2>1, <2>2, <3>1, <3>2, <1>1 DEF OutcomeOf, MsgInv, OutcomeInv
  <2>3. CASE x # r
    BY <2>1, <2>3, <1>3, OutcomeStays DEF Mark, MsgInv, OutcomeInv
  <2> QED
    BY <2>2, <2>3
<1> QED
  BY <1>5, <1>6, <1>7 DEF MsgInv, OutcomeInv

\* The reconciler puts a run behind the others.
LEMMA BumpKeeps ==
    ASSUME MsgInv, NEW r \in Run, Bump(r)
    PROVE  MsgInv'
<1>1. Ended(r) /\ run[r].source.kind = "message"
  BY DEF Bump, MsgInv, OutcomeInv, OutcomeOf, Returner
<1>2. UNCHANGED <<run, sent, autoOutcome, handed, archived, faults>>
  BY DEF Bump
<1>3. /\ outstanding' \in Seq(Run) /\ EachOnce'
      /\ \A x \in Run : (\E i \in 1 .. Len(outstanding') : outstanding'[i] = x)
                       <=> \E i \in 1 .. Len(outstanding) : outstanding[i] = x
  <2>1. outstanding \in Seq(Run) /\ EachOnce
    BY DEF MsgInv, MsgTypeOK
  <2>2. CASE run[r].returned
    BY <2>1, <2>2 DEF Bump, EachOnce
  <2>3. CASE ~run[r].returned
    <3> DEFINE t == Without(outstanding, r)
    <3>1. /\ t \in Seq(Run) /\ Len(t) \in Nat
          /\ \A i, j \in 1 .. Len(t) : t[i] = t[j] => i = j
          /\ \A x \in Run : (\E i \in 1 .. Len(t) : t[i] = x)
                           <=> x # r /\ \E i \in 1 .. Len(outstanding) : outstanding[i] = x
      BY <2>1, WithoutKeeps DEF EachOnce
    <3>2. outstanding' = Append(t, r)
      BY <2>3 DEF Bump
    <3> HIDE DEF t
    <3>3. /\ outstanding' \in Seq(Run) /\ Len(outstanding') = Len(t) + 1
          /\ \A i \in 1 .. Len(t) : outstanding'[i] = t[i]
          /\ outstanding'[Len(t) + 1] = r
      BY <3>1, <3>2
    <3>4. \A i \in 1 .. Len(t) : t[i] # r
      BY <3>1
    <3>5. EachOnce'
      BY <3>1, <3>3, <3>4 DEF EachOnce
    <3>6. \A x \in Run : (\E i \in 1 .. Len(outstanding') : outstanding'[i] = x)
                        <=> x = r \/ \E i \in 1 .. Len(t) : t[i] = x
      <4>1. \A i \in 1 .. Len(outstanding') : i = Len(t) + 1 \/ i \in 1 .. Len(t)
        BY <3>1, <3>3
      <4>2. \A i \in 1 .. Len(t) : i \in 1 .. Len(outstanding')
        BY <3>1, <3>3
      <4>3. Len(t) + 1 \in 1 .. Len(outstanding')
        BY <3>1, <3>3
      <4> QED
        BY <4>1, <4>2, <4>3, <3>3
    <3>7. \E i \in 1 .. Len(outstanding) : outstanding[i] = r
      BY <1>1, <2>3 DEF MsgInv, MsgTypeOK
    <3> QED
      BY <3>1, <3>3, <3>5, <3>6, <3>7
  <2> QED
    BY <2>2, <2>3
<1>4. returner' \in [Run -> [Returner -> {"idle", "look", "send", "mark", "bump"}]]
  BY DEF MsgInv, MsgTypeOK, Bump, Moves
<1>5. \A x \in Run : (Ended(x) /\ run[x].source.kind = "message" /\ ~run[x].returned)'
                      <=> \E i \in 1 .. Len(outstanding') : outstanding'[i] = x
  BY <1>2, <1>3 DEF MsgInv, MsgTypeOK, Ended
<1>6. MsgTypeOK' /\ ChainInv'
  BY <1>2, <1>3, <1>4, <1>5 DEF MsgInv, MsgTypeOK, ChainInv
<1>7. ASSUME NEW x \in Run
      PROVE  OutcomeOf(x)'
  <2>1. \A v \in Returner : returner'[x][v] \in {returner[x][v], "idle"}
    BY DEF Bump, Moves, MsgInv, MsgTypeOK
  <2> QED
    BY <2>1, <1>2, OutcomeStays DEF MsgInv, OutcomeInv
<1> QED
  BY <1>3, <1>6, <1>7 DEF MsgInv, OutcomeInv

\* A worker's step or the reconciler's.
LEMMA ReturnKeeps ==
    ASSUME MsgInv, NEW r \in Run, NEW w \in Returner, ReturnStep(r, w) \/ SendFails(r, w)
    PROVE  MsgInv'
<1>1. faults \in 0 .. MaxFault /\ GivenUp(w) \in {"idle", "bump"}
  BY DEF MsgInv, MsgTypeOK, GivenUp
<1>2. CASE Look(r, w)
  <2> DEFINE at == IF Delegated(r) /\ ~ToldResult(r) THEN "send" ELSE "mark"
  <2>1. at = "mark" => (Delegated(r) => IsTold(r))
    BY DEF IsTold
  <2> QED
    BY <1>1, <1>2, <2>1, MoveKeeps DEF Look
<1>3. CASE SendOutcome(r, w)
  BY <1>1, <1>3, DeliverKeeps DEF SendOutcome
<1>4. CASE NoAddressee(r, w)
  BY <1>1, <1>4, MoveKeeps DEF NoAddressee
<1>5. CASE Mark(r, w)
  BY <1>5, MarkKeeps
<1>6. CASE w = "reconciler" /\ Bump(r)
  BY <1>6, BumpKeeps
<1>7. CASE SendFails(r, w)
  <2>1. faults' \in 0 .. MaxFault
    BY <1>1, <1>7, BotMessagesAssumption DEF SendFails
  <2>2. CASE UNCHANGED <<run, autoOutcome>>
    BY <1>1, <1>7, <2>1, <2>2, MoveKeeps DEF SendFails
  <2>3. CASE DeliverOutcome(r)
    BY <1>1, <1>7, <2>1, <2>3, DeliverKeeps DEF SendFails
  <2> QED
    BY <1>7, <2>2, <2>3 DEF SendFails
<1> QED
  BY <1>2, <1>3, <1>4, <1>5, <1>6, <1>7 DEF ReturnStep

LEMMA DiesKeeps ==
    ASSUME MsgInv, NEW lost, Dies(lost)
    PROVE  MsgInv'
<1>1. \A r \in Run, w \in Returner : returner'[r][w] \in {returner[r][w], "idle"}
  BY DEF Dies
<1>2. returner' \in [Run -> [Returner -> {"idle", "look", "send", "mark", "bump"}]]
  BY DEF Dies, MsgInv, MsgTypeOK
<1>3. faults' \in 0 .. MaxFault
  BY BotMessagesAssumption DEF Dies, MsgInv, MsgTypeOK
<1>4. \A r \in Run, w \in Returner :
         /\ returner'[r][w] # "idle" => Ended(r) /\ run[r].source.kind = "message"
         /\ returner'[r][w] = "send" => Delegated(r) /\ ~ToldResult(r)
         /\ returner'[r][w] = "mark" => (Delegated(r) => IsTold(r))
  <2> SUFFICES ASSUME NEW r \in Run, NEW w \in Returner, returner'[r][w] # "idle"
               PROVE  /\ Ended(r) /\ run[r].source.kind = "message"
                      /\ returner[r][w] = "send" => Delegated(r) /\ ~ToldResult(r)
                      /\ returner[r][w] = "mark" => (Delegated(r) => IsTold(r))
    BY <1>1
  <2> QED
    BY <1>1 DEF MsgInv, OutcomeInv, OutcomeOf
<1> QED
  BY <1>2, <1>3, <1>4, CallersKeep DEF Dies

-----------------------------------------------------------------------------
(* Theorems about BotMessages.                                             *)

LEMMA MsgInitInv == MsgInit => MsgInv
<1> SUFFICES ASSUME MsgInit
             PROVE  MsgInv
  OBVIOUS
<1>1. Free \in Rows /\ RowChain(Free) /\ Free.status = "none" /\ Free.returned = FALSE
  BY BotMessagesAssumption DEF Free, NoSource, Rows, Sources, RowChain
<1>2. \A r \in Run : run[r] = Free
  BY DEF MsgInit
<1>3. outstanding = <<>> /\ Len(outstanding) = 0 /\ outstanding \in Seq(Run)
  BY DEF MsgInit
<1>4. MsgTypeOK
  BY <1>1, <1>2, <1>3, BotMessagesAssumption DEF MsgTypeOK, MsgInit, Ended
<1>5. OutcomeInv
  BY <1>1, <1>2 DEF MsgInit, OutcomeInv, OutcomeOf, Ended
<1> QED
  BY <1>1, <1>2, <1>3, <1>4, <1>5 DEF MsgInv, ChainInv, EachOnce

LEMMA MsgStepInv == MsgInv /\ [MsgNext]_msgVars => MsgInv'
<1> SUFFICES ASSUME MsgInv, [MsgNext]_msgVars
             PROVE  MsgInv'
  OBVIOUS
<1>1. CASE UNCHANGED msgVars
  <2> USE <1>1 DEF msgVars
  <2>1. MsgTypeOK'
    BY DEF MsgInv, MsgTypeOK, Ended
  <2>2. ChainInv' /\ EachOnce'
    BY DEF MsgInv, ChainInv, EachOnce
  <2>3. OutcomeInv'
    BY DEF MsgInv, OutcomeInv, OutcomeOf, Ended, Delegated, ToldResult, IsTold
  <2> QED
    BY <2>1, <2>2, <2>3 DEF MsgInv
<1>2. ASSUME NEW b \in Bot, ArchiveBot(b) \/ \E g \in BOOLEAN : PersonAsks(b, g)
      PROVE  MsgInv'
  BY <1>2, ArchiveKeeps, AskKeeps
<1>3. ASSUME NEW r \in Run, NEW to \in Bot,
             Handoff(r, to) \/ \E i \in {"request", "result", "fyi"} : MessageBot(r, to, i)
      PROVE  MsgInv'
  BY <1>3, HandoffKeeps, MessageKeeps
<1>4. ASSUME NEW r \in Run, \/ StopRun(r) \/ Dies({<<r, "worker">>})
                            \/ \E at \in {"look", "idle"} : Finish(r, at)
      PROVE  MsgInv'
  BY <1>4, StopKeeps, DiesKeeps, FinishKeeps
<1>5. ASSUME NEW r \in Run, NEW w \in Returner, ReturnStep(r, w) \/ SendFails(r, w)
      PROVE  MsgInv'
  BY <1>5, ReturnKeeps
<1>6. CASE Reconcile \/ Dies(Run \X {"reconciler"})
  BY <1>6, ReconcileKeeps, DiesKeeps
<1> QED
  BY <1>1, <1>2, <1>3, <1>4, <1>5, <1>6 DEF MsgNext

\* The inductive invariant of the messages between bots holds.
THEOREM MsgInvariant == MsgSpec => []MsgInv
BY MsgInitInv, MsgStepInv, PTL DEF MsgSpec

\* The types of the rows, and the reconciler's list is the outcomes that are owed.
THEOREM MsgTypesAreRight == MsgSpec => []MsgTypeOK
<1>1. MsgInv => MsgTypeOK
  BY DEF MsgInv
<1> QED
  BY <1>1, MsgInvariant, PTL

\* A bot that asked is told the outcome once (bot-messages.ts 349-405).
THEOREM AnOutcomeIsToldOnce == MsgSpec => []OutcomeOnce
<1>1. MsgInv => OutcomeOnce
  BY DEF MsgInv, MsgTypeOK, OutcomeInv, OutcomeOf, IsTold, OutcomeOnce
<1> QED
  BY <1>1, MsgInvariant, PTL

\* No chain of messages is longer than the limit (core bot-messages.ts 10-15).
THEOREM EveryChainEnds == MsgSpec => []ChainsEnd
<1>1. MsgInv => ChainsEnd
  BY DEF MsgInv, ChainInv, RowChain, ChainsEnd
<1> QED
  BY <1>1, MsgInvariant, PTL

-----------------------------------------------------------------------------
(* Routine.                                                                *)

NeverSetBack(d) == \A e \in 1 .. d : setBack[e] = 0

Fired(f, d) == fire[f].status # "none" /\ fire[f].date = d

\* A schedule that was never set back behind a date has passed each date that
\* has fired, and a wake that is about to claim its date will move it on.
Passed(d) == rt.next = NoDate \/ rt.next > d

FiredIsPassed ==
    \A d \in Date : NeverSetBack(d) =>
        /\ \A f \in Fire : Fired(f, d) => Passed(d)
        /\ \A f, g \in Fire : Fired(f, d) /\ Fired(g, d) => f = g

ClaimMovesOn ==
    \A w \in Wake : wake[w].at = "claim" =>
        wake[w].date \in Date /\ (wake[w].next = NoDate \/ wake[w].next > wake[w].date)

RtInv == RtTypeOK /\ FiredIsPassed /\ ClaimMovesOn

LEMMA AfterIsLater ==
    ASSUME NEW d \in 0 .. MaxDate
    PROVE  After(d) \in Date \cup {NoDate} /\ (After(d) = NoDate \/ After(d) > d)
BY RoutineAssumption DEF After, Date, NoDate

\* The schedule stays or goes to a date that counts as set back; no run is new.
LEMMA StoresKeeps ==
    ASSUME FiredIsPassed, RtTypeOK, rt'.next \in Date \cup {NoDate},
           Stores(rt'.next),
           \A f \in Fire : fire'[f].date = fire[f].date
                           /\ (fire[f].status = "none" => fire'[f].status = "none")
    PROVE  FiredIsPassed' /\ setBack' \in [Date -> Nat]
<1>1. setBack' \in [Date -> Nat] /\ \A d \in Date : setBack'[d] >= setBack[d]
  BY DEF Stores, RtTypeOK
<1>2. rt'.next \in Date /\ rt'.next # rt.next => setBack'[rt'.next] > 0
  BY RoutineAssumption DEF Stores, RtTypeOK, Date, NoDate
<1>3. ASSUME NEW d \in Date, NeverSetBack(d)'
      PROVE  /\ NeverSetBack(d)
             /\ Passed(d) => Passed(d)'
  <2>1. \A e \in 1 .. d : e \in Date /\ setBack[e] \in Nat /\ setBack'[e] \in Nat
    BY <1>1, RoutineAssumption DEF RtTypeOK, Date
  <2>2. NeverSetBack(d)
    BY <1>1, <1>3, <2>1 DEF NeverSetBack
  <2>3. rt'.next \in 1 .. d => rt'.next = rt.next
    BY <1>2, <1>3, <2>1 DEF NeverSetBack
  <2> QED
    BY <2>2, <2>3, RoutineAssumption DEF Passed, Date, NoDate, RtTypeOK
<1>4. \A f \in Fire, d \in Date : Fired(f, d)' => Fired(f, d)
  BY DEF Fired
<1> QED
  BY <1>1, <1>3, <1>4 DEF FiredIsPassed

LEMMA QueuedIsFire ==
    ASSUME NEW c \in Fires, NEW d \in Date
    PROVE  LET e == [c EXCEPT !.date = d, !.status = "queued"]
           IN  e \in Fires /\ e.date = d
BY ZenonT(30) DEF Fires

LEMMA BegunIsFire ==
    ASSUME NEW c \in Fires, NEW n \in 0 .. MaxDate
    PROVE  LET e == [c EXCEPT !.status = "begun", !.at = n]
           IN  e \in Fires /\ e.date = c.date
BY ZenonT(30) DEF Fires

LEMMA StatusIsFire ==
    ASSUME NEW c \in Fires, NEW s \in {"none", "queued", "begun"}
    PROVE  LET e == [c EXCEPT !.status = s]
           IN  e \in Fires /\ e.date = c.date /\ e.status = s
BY ZenonT(30) DEF Fires

LEMMA MovedIsWake ==
    ASSUME NEW c \in WakeLocals, NEW s \in {"enqueue", "rollback"}
    PROVE  LET e == [c EXCEPT !.at = s]
           IN  e \in WakeLocals /\ e.at # "claim"
BY ZenonT(30) DEF WakeLocals

LEMMA ClaimedIsWake ==
    ASSUME NEW c \in WakeLocals, NEW f \in Fire
    PROVE  LET e == [c EXCEPT !.at = "enqueue", !.run = f]
           IN  e \in WakeLocals /\ e.at # "claim"
BY ZenonT(30) DEF WakeLocals

LEMMA AsleepIsWake == Asleep \in WakeLocals /\ Asleep.at # "claim"
BY DEF WakeLocals, Asleep

\* One wake moves, and what it is about to claim is moved on.
LEMMA WakesMove ==
    ASSUME RtInv, NEW w \in Wake, NEW c \in WakeLocals, wake' = [wake EXCEPT ![w] = c],
           c.at = "claim" => c.date \in Date /\ (c.next = NoDate \/ c.next > c.date)
    PROVE  wake' \in [Wake -> WakeLocals] /\ ClaimMovesOn'
<1>1. wake' \in [Wake -> WakeLocals] /\ \A x \in Wake : wake'[x] = IF x = w THEN c ELSE wake[x]
  BY DEF RtInv, RtTypeOK
<1> QED
  BY <1>1 DEF RtInv, ClaimMovesOn

LEMMA RtInitInv == RtInit => RtInv
<1> SUFFICES ASSUME RtInit
             PROVE  RtInv
  OBVIOUS
<1> USE RoutineAssumption
<1>1. 1 \in Date /\ Asleep.at = "idle"
  BY DEF Date, Asleep
<1>2. rt \in Schedules /\ edit \in [at : Changes \cup {"none"}, saw : Schedules]
  BY <1>1 DEF RtInit, Schedules, NotEdit, NoDate
<1>3. fire \in [Fire -> Fires] /\ \A f \in Fire : fire[f].status = "none"
  BY DEF RtInit, Fires
<1>4. wake \in [Wake -> WakeLocals] /\ \A w \in Wake : wake[w].at = "idle"
  BY <1>1, AsleepIsWake DEF RtInit
<1>5. setBack \in [Date -> Nat] /\ now \in 0 .. MaxDate
  BY DEF RtInit
<1>6. RtTypeOK
  <2>1. once \in BOOLEAN /\ soon \in BOOLEAN
    BY DEF RtInit
  <2>2. edits \in 0 .. MaxEdit /\ failures \in 0 .. MaxFailure
    BY DEF RtInit
  <2> QED
    BY <1>2, <1>3, <1>4, <1>5, <2>1, <2>2 DEF RtTypeOK
<1> QED
  BY <1>3, <1>4, <1>6 DEF RtInv, FiredIsPassed, ClaimMovesOn, Fired

\* Time, a wake that reads, a claim that is lost, an enqueue: the schedule stays.
LEMMA ScheduleStays ==
    ASSUME FiredIsPassed, rt'.next = rt.next, UNCHANGED setBack,
           \A f \in Fire : fire'[f].date = fire[f].date
                           /\ (fire[f].status = "none" => fire'[f].status = "none")
    PROVE  FiredIsPassed'
BY DEF FiredIsPassed, NeverSetBack, Fired, Passed

LEMMA ClaimKeeps ==
    ASSUME RtInv, NEW w \in Wake, WakeClaims(w)
    PROVE  RtInv'
<1>1. PICK f \in Fire :
         /\ fire[f].status = "none"
         /\ fire' = [fire EXCEPT ![f].date = wake[w].date, ![f].status = "queued"]
         /\ wake' = [wake EXCEPT ![w].at = "enqueue", ![w].run = f]
  BY DEF WakeClaims, UnusedFire
<1>2. /\ wake[w].at = "claim" /\ rt.next = wake[w].date
      /\ rt' = [active |-> wake[w].next # NoDate, next |-> wake[w].next, last |-> TRUE]
      /\ UNCHANGED <<once, now, soon, edit, edits, failures, setBack>>
  BY DEF WakeClaims, stillDue
<1>3. rt.next \in Date /\ rt'.next = wake[w].next
      /\ (rt'.next = NoDate \/ rt'.next > rt.next)
  BY <1>2 DEF RtInv, ClaimMovesOn
<1>12. fire' = [fire EXCEPT ![f] = [fire[f] EXCEPT !.date = wake[w].date, !.status = "queued"]]
       /\ fire' \in [Fire -> Fires]
  <2>1. fire' = [fire EXCEPT ![f] = [fire[f] EXCEPT !.date = wake[w].date, !.status = "queued"]]
    BY <1>1
  <2>2. fire[f] \in Fires /\ wake[w].date \in Date
    BY <1>2, <1>3 DEF RtInv, RtTypeOK
  <2>3. [fire[f] EXCEPT !.date = wake[w].date, !.status = "queued"] \in Fires
    BY <2>2, QueuedIsFire
  <2> QED
    BY <2>1, <2>3 DEF RtInv, RtTypeOK
<1>13. wake' \in [Wake -> WakeLocals] /\ ClaimMovesOn'
  <2>1. wake' = [wake EXCEPT ![w] = [wake[w] EXCEPT !.at = "enqueue", !.run = f]]
    BY <1>1
  <2>2. wake[w] \in WakeLocals
    BY DEF RtInv, RtTypeOK
  <2>3. [wake[w] EXCEPT !.at = "enqueue", !.run = f] \in WakeLocals
        /\ [wake[w] EXCEPT !.at = "enqueue", !.run = f].at # "claim"
    BY <2>2, ClaimedIsWake
  <2> QED
    BY <2>1, <2>3, WakesMove
<1>4. RtTypeOK'
  <2>1. rt' \in Schedules
    <3>1. wake[w] \in WakeLocals
      BY DEF RtInv, RtTypeOK
    <3>2. wake[w].next \in Date \cup {NoDate}
      BY <3>1 DEF WakeLocals
    <3> QED
      BY <1>2, <3>2 DEF Schedules
  <2> QED
    BY <1>2, <1>12, <1>13, <2>1 DEF RtInv, RtTypeOK
<1>6. \A d \in Date : NeverSetBack(d)' = NeverSetBack(d)
  BY <1>2 DEF NeverSetBack
<1>7. \A x \in Fire \ {f} : fire'[x] = fire[x]
  BY <1>1 DEF RtInv, RtTypeOK
<1>8. \A d \in Date : Fired(f, d)' => d = rt.next
  <2>1. fire'[f] = [fire[f] EXCEPT !.date = rt.next, !.status = "queued"] /\ fire[f] \in Fires
    BY <1>2, <1>12 DEF RtInv, RtTypeOK
  <2>3. [fire[f] EXCEPT !.date = rt.next, !.status = "queued"].date = rt.next
    BY <2>1, <1>3, QueuedIsFire
  <2>2. fire'[f].date = rt.next
    BY <2>1, <2>3
  <2> QED
    BY <2>2 DEF Fired
<1>9. \A d \in Date : Passed(d) \/ d = rt.next => Passed(d)'
  <2>1. rt'.next \in Date \cup {NoDate}
    BY <1>4 DEF RtTypeOK, Schedules
  <2> QED
    BY <1>3, <2>1, RoutineAssumption DEF Passed, Date, NoDate
<1>10. ~Passed(rt.next)
  BY <1>3, RoutineAssumption DEF Passed, Date, NoDate
<1>11. ASSUME NEW d \in Date, NeverSetBack(d)
       PROVE  /\ \A x \in Fire : Fired(x, d)' => Passed(d)'
              /\ \A x, y \in Fire : Fired(x, d)' /\ Fired(y, d)' => x = y
  <2>1. /\ \A x \in Fire : Fired(x, d) => Passed(d)
        /\ \A x, y \in Fire : Fired(x, d) /\ Fired(y, d) => x = y
    BY <1>11 DEF RtInv, FiredIsPassed
  <2>2. \A x \in Fire \ {f} : Fired(x, d)' = Fired(x, d)
    BY <1>7 DEF Fired
  <2> QED
    BY <2>1, <2>2, <1>8, <1>9, <1>10
<1> QED
  BY <1>4, <1>13, <1>6, <1>11 DEF RtInv, FiredIsPassed

LEMMA RollbackKeeps ==
    ASSUME RtInv, NEW w \in Wake, WakeRollsBack(w)
    PROVE  RtInv'
<1>1. fire' \in [Fire -> Fires]
      /\ \A f \in Fire : fire'[f].date = fire[f].date
                         /\ (fire[f].status = "none" => fire'[f].status = "none")
  <2> DEFINE k == wake[w].run
             s == IF fire[k].status = "queued" THEN "none" ELSE fire[k].status
  <2>1. fire' = [fire EXCEPT ![k] = [fire[k] EXCEPT !.status = s]]
    BY DEF WakeRollsBack
  <2>2. CASE k \in Fire
    <3>1. fire[k] \in Fires /\ s \in {"none", "queued", "begun"}
      BY <2>2 DEF RtInv, RtTypeOK, Fires
    <3>4. s = "none" \/ s = fire[k].status
      OBVIOUS
    <3> HIDE DEF s, k
    <3>2. [fire[k] EXCEPT !.status = s] \in Fires
          /\ [fire[k] EXCEPT !.status = s].date = fire[k].date
          /\ [fire[k] EXCEPT !.status = s].status = s
      BY <3>1, StatusIsFire
    <3> QED
      BY <2>1, <2>2, <3>2, <3>4 DEF RtInv, RtTypeOK
  <2>3. CASE k \notin Fire
    <3> HIDE DEF s, k
    <3> QED
      BY <2>1, <2>3 DEF RtInv, RtTypeOK
  <2> QED
    BY <2>2, <2>3
<1>2. wake' \in [Wake -> WakeLocals] /\ ClaimMovesOn'
  BY AsleepIsWake, WakesMove DEF WakeRollsBack
<1>3. CASE claimStands(w)
  <2>1. rt' = [active |-> TRUE, next |-> wake[w].date, last |-> wake[w].last]
        /\ Stores(wake[w].date)
    BY <1>3 DEF WakeRollsBack
  <2>2. rt' \in Schedules /\ rt'.next = wake[w].date /\ rt'.next \in Date \cup {NoDate}
    <3>1. wake[w] \in WakeLocals
      BY DEF RtInv, RtTypeOK
    <3>2. wake[w].date \in Date \cup {NoDate} /\ wake[w].last \in BOOLEAN
      BY <3>1 DEF WakeLocals
    <3> QED
      BY <2>1, <3>2 DEF Schedules
  <2>3. FiredIsPassed' /\ setBack' \in [Date -> Nat]
    BY <1>1, <2>1, <2>2, StoresKeeps DEF RtInv
  <2> QED
    BY <1>1, <1>2, <2>2, <2>3 DEF WakeRollsBack, RtInv, RtTypeOK
<1>4. CASE ~claimStands(w)
  <2>1. UNCHANGED <<rt, setBack>>
    BY <1>4 DEF WakeRollsBack
  <2>2. FiredIsPassed'
    BY <1>1, <2>1, ScheduleStays DEF RtInv
  <2> QED
    BY <1>1, <1>2, <2>1, <2>2 DEF WakeRollsBack, RtInv, RtTypeOK
<1> QED
  BY <1>3, <1>4

LEMMA EditKeeps ==
    ASSUME RtInv, EditWrites
    PROVE  RtInv'
<1>1. editedNext \in Date \cup {NoDate} /\ editedActive \in BOOLEAN
  BY AfterIsLater, RoutineAssumption
     DEF editedNext, editedActive, RtInv, RtTypeOK, Schedules, Changes
<1>2. rt' \in Schedules /\ rt'.next = editedNext
  BY <1>1 DEF EditWrites, RtInv, RtTypeOK, Schedules
<1>3. UNCHANGED fire /\ Stores(rt'.next)
  BY <1>2 DEF EditWrites
<1>4. FiredIsPassed' /\ setBack' \in [Date -> Nat]
  BY <1>1, <1>2, <1>3, StoresKeeps DEF RtInv
<1>5. edit' \in [at : Changes \cup {"none"}, saw : Schedules]
  BY DEF EditWrites, NotEdit, Schedules, Changes, Date, NoDate
<1> QED
  BY <1>2, <1>4, <1>5 DEF EditWrites, RtInv, RtTypeOK, ClaimMovesOn

LEMMA ReadKeeps ==
    ASSUME RtInv, NEW w \in Wake, NEW d \in Date, WakeReads(w, d)
    PROVE  RtInv'
<1>1. nextRunAt(d) \in Date \cup {NoDate} /\ (nextRunAt(d) = NoDate \/ nextRunAt(d) > d)
  <2>1. (IF now > d THEN now ELSE d) \in 0 .. MaxDate /\ (IF now > d THEN now ELSE d) >= d
    BY RoutineAssumption DEF Date, RtInv, RtTypeOK
  <2> DEFINE m == IF now > d THEN now ELSE d
  <2>2. nextRunAt(d) = IF once THEN NoDate ELSE After(m)
    BY DEF nextRunAt
  <2> HIDE DEF m
  <2>3. m \in 0 .. MaxDate /\ m >= d
    BY <2>1 DEF m
  <2>4. After(m) \in Date \cup {NoDate} /\ (After(m) = NoDate \/ After(m) > m)
    BY <2>3, AfterIsLater
  <2> QED
    BY <2>2, <2>3, <2>4, RoutineAssumption DEF Date, NoDate
<1>2. wake' = [wake EXCEPT ![w] = [at |-> "claim", date |-> d, next |-> nextRunAt(d),
                                   last |-> rt.last, run |-> 0]]
  BY DEF WakeReads
<1>3. wake' \in [Wake -> WakeLocals] /\ ClaimMovesOn'
  <2> DEFINE c == [at |-> "claim", date |-> d, next |-> nextRunAt(d), last |-> rt.last, run |-> 0]
  <2>1. c \in WakeLocals /\ c.date \in Date /\ (c.next = NoDate \/ c.next > c.date)
    BY <1>1 DEF RtInv, RtTypeOK, Schedules, WakeLocals
  <2> HIDE DEF c
  <2>2. wake' = [wake EXCEPT ![w] = c]
    BY <1>2 DEF c
  <2> QED
    BY <2>1, <2>2, WakesMove
<1>4. FiredIsPassed'
  BY ScheduleStays DEF WakeReads, RtInv
<1> QED
  BY <1>3, <1>4 DEF WakeReads, RtInv, RtTypeOK

LEMMA RtStepInv == RtInv /\ [RtNext]_rtVars => RtInv'
<1> SUFFICES ASSUME RtInv, [RtNext]_rtVars
             PROVE  RtInv'
  OBVIOUS
<1> USE RoutineAssumption
<1>1. CASE UNCHANGED rtVars
  BY <1>1, ScheduleStays DEF rtVars, RtInv, RtTypeOK, ClaimMovesOn
<1>2. CASE TimePasses
  <2>1. now' \in 0 .. MaxDate /\ soon' \in BOOLEAN
    <3>1. CASE soon
      <4>1. now' = now + 1 /\ soon' = FALSE /\ now < MaxDate /\ now \in 0 .. MaxDate
        BY <1>2, <3>1, Zenon DEF TimePasses, RtInv, RtTypeOK
      <4>2. now + 1 \in 0 .. MaxDate
        BY <4>1, RoutineAssumption
      <4> QED
        BY <4>1, <4>2, Zenon
    <3>2. CASE ~soon
      <4>1. now' = now /\ soon' = TRUE /\ now \in 0 .. MaxDate
        BY <1>2, <3>2, Zenon DEF TimePasses, RtInv, RtTypeOK
      <4> QED
        BY <4>1
    <3> QED
      BY <3>1, <3>2
  <2>2. UNCHANGED <<once, rt, fire, wake, edit, edits, failures, setBack>>
    BY <1>2 DEF TimePasses
  <2> QED
    BY <2>1, <2>2, ScheduleStays DEF RtInv, RtTypeOK, ClaimMovesOn
<1>3. ASSUME NEW f \in Fire, RunBegins(f)
      PROVE  RtInv'
  <2>1. fire' \in [Fire -> Fires]
        /\ \A x \in Fire : fire'[x].date = fire[x].date
                           /\ (fire[x].status = "none" => fire'[x].status = "none")
    <3>1. fire' = [fire EXCEPT ![f] = [fire[f] EXCEPT !.status = "begun", !.at = now]]
      BY <1>3 DEF RunBegins
    <3>2. fire[f] \in Fires /\ now \in 0 .. MaxDate
      BY DEF RtInv, RtTypeOK
    <3>3. [fire[f] EXCEPT !.status = "begun", !.at = now] \in Fires
          /\ [fire[f] EXCEPT !.status = "begun", !.at = now].date = fire[f].date
      BY <3>2, BegunIsFire
    <3> QED
      BY <1>3, <3>1, <3>3 DEF RunBegins, RtInv, RtTypeOK
  <2> QED
    BY <1>3, <2>1, ScheduleStays DEF RunBegins, RtInv, RtTypeOK, ClaimMovesOn
<1>4. ASSUME NEW w \in Wake,
             WakeLoses(w) \/ WakeEnqueues(w) \/ EnqueueFails(w) \/ WakeDies(w)
      PROVE  RtInv'
  <2>1. wake' \in [Wake -> WakeLocals] /\ ClaimMovesOn'
    <3>1. wake[w] \in WakeLocals
      BY DEF RtInv, RtTypeOK
    <3>2. CASE wake' = [wake EXCEPT ![w] = Asleep]
      BY <3>2, AsleepIsWake, WakesMove
    <3>3. CASE wake' = [wake EXCEPT ![w] = [wake[w] EXCEPT !.at = "rollback"]]
      <4>1. [wake[w] EXCEPT !.at = "rollback"] \in WakeLocals
            /\ [wake[w] EXCEPT !.at = "rollback"].at # "claim"
        BY <3>1, MovedIsWake
      <4> QED
        BY <3>3, <4>1, WakesMove
    <3> QED
      BY <1>4, <3>2, <3>3 DEF WakeLoses, WakeEnqueues, EnqueueFails, WakeDies
  <2>2. UNCHANGED <<once, rt, now, soon, fire, edit, edits, setBack>>
        /\ failures' \in 0 .. MaxFailure
    BY <1>4 DEF WakeLoses, WakeEnqueues, EnqueueFails, WakeDies, RtInv, RtTypeOK
  <2> QED
    BY <2>1, <2>2, ScheduleStays DEF RtInv, RtTypeOK
<1>5. ASSUME NEW change \in Changes, EditReads(change)
      PROVE  RtInv'
  BY <1>5, ScheduleStays DEF EditReads, RtInv, RtTypeOK, ClaimMovesOn
<1> QED
  BY <1>1, <1>2, <1>3, <1>4, <1>5, ClaimKeeps, RollbackKeeps, EditKeeps, ReadKeeps
     DEF RtNext, WakeStep

\* The inductive invariant of the routine holds.
THEOREM RtInvariant == RtSpec => []RtInv
BY RtInitInv, RtStepInv, PTL DEF RtSpec

\* The row of the routine, its wakes and its runs have their types.
THEOREM RtTypesAreRight == RtSpec => []RtTypeOK
<1>1. RtInv => RtTypeOK
  BY DEF RtInv
<1> QED
  BY <1>1, RtInvariant, PTL

\* A date starts one run, unless a failed enqueue or an edit has set the schedule
\* back to it or to an earlier date: a rollback may restore a date whose run has
\* begun (executor.ts 1018-1048, 1067-1085).
THEOREM ADateFiresOnce == RtSpec => []DateFiresOnce
<1>1. RtInv => DateFiresOnce
  <2> SUFFICES ASSUME RtInv, NEW d \in Date, NEW f \in Fire, NEW g \in Fire,
                      Fired(f, d), Fired(g, d), f # g
               PROVE  \E e \in 1 .. d : setBack[e] > 0
    BY DEF DateFiresOnce, Fired
  <2>1. ~NeverSetBack(d)
    BY DEF RtInv, FiredIsPassed
  <2>2. \A e \in 1 .. d : setBack[e] \in Nat
    BY RoutineAssumption DEF RtInv, RtTypeOK, Date
  <2> QED
    BY <2>1, <2>2 DEF NeverSetBack
<1> QED
  BY <1>1, RtInvariant, PTL

-----------------------------------------------------------------------------
(* The settings in which TLC runs both.                                    *)

\* A step of a setting is a step of one of the two and leaves the other alone.
LEMMA SettingSteps ==
    [MCNext]_wakeVars => [MsgNext]_msgVars /\ [RtNext]_rtVars
<1> SUFFICES ASSUME [MCNext]_wakeVars PROVE [MsgNext]_msgVars /\ [RtNext]_rtVars
    OBVIOUS
<1>1. CASE Volley(MsgNext) \/ Relay(MsgNext) \/ Stage(MsgNext)
    <2>1. MsgNext /\ UNCHANGED rtVars
        BY <1>1 DEF Volley, Relay, Stage, In
    <2> QED
        BY <2>1
<1>2. CASE Dated(RtNext)
    <2>1. RtNext /\ UNCHANGED msgVars
        BY <1>2 DEF Dated, In
    <2> QED
        BY <2>1
<1>3. CASE UNCHANGED wakeVars
    BY <1>3 DEF wakeVars
<1> QED
    BY <1>1, <1>2, <1>3 DEF MCNext

\* What is proved of the bots' messages and of the routine holds in every setting,
\* however many bots, runs and dates it has: settings only leave behaviours out.
THEOREM SettingsOnlyRestrict ==
    MCSpec => /\ MsgInit /\ [][MsgNext]_msgVars
              /\ RtInit /\ [][RtNext]_rtVars
<1>1. MCInit => MsgInit /\ RtInit
    BY DEF MCInit
<1> QED
    BY <1>1, SettingSteps, PTL DEF MCSpec

\* Rows, sources, returns and wake-ups keep their types in every setting.
THEOREM WakesTypesAreRight == MCSpec => []WakesTypeOK
<1>1. MsgInv /\ RtInv => WakesTypeOK
    BY DEF MsgInv, RtInv, WakesTypeOK
<1> QED
    BY <1>1, SettingsOnlyRestrict, MsgInitInv, MsgStepInv, RtInitInv, RtStepInv, PTL

=============================================================================
