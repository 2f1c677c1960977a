------------------------------ MODULE EventFeed ------------------------------
(***************************************************************************)
(* What the event stream of a thread promises its subscribers.             *)
(*                                                                         *)
(* A thread is a log of numbered events.  A commit appends events at the   *)
(* end and may delete some of those before.  A subscriber is given events  *)
(* in the order of their numbers, each once, and never an event past one   *)
(* that is still in the log and has not been given.  A stream may begin at *)
(* any number, and only a closed stream may begin again.                   *)
(***************************************************************************)
EXTENDS Integers

CONSTANT Follower   \* the subscribers

VARIABLES
    next,   \* the number of the next event
    log,    \* the numbers of the events that are stored
    seen,   \* the last number each subscriber was given, or began at
    open    \* the subscribers whose stream is open

feedVars == <<next, log, seen, open>>

FeedInit == next = 0 /\ log = {} /\ seen = [f \in Follower |-> -1] /\ open = {}

Append ==
    /\ next' \in Int /\ next' > next
    /\ \E gone \in SUBSET log : log' = (log \ gone) \cup (next .. next' - 1)
    /\ UNCHANGED <<seen, open>>

Purge == (\E gone \in SUBSET log : log' = log \ gone) /\ UNCHANGED <<next, seen, open>>

Begin(f) ==
    /\ f \notin open /\ open' = open \cup {f}
    /\ \E c \in -1 .. next - 1 : seen' = [seen EXCEPT ![f] = c]
    /\ UNCHANGED <<next, log>>

Give(f) ==
    /\ f \in open
    /\ \E e \in 0 .. next - 1 :
         /\ seen[f] < e
         /\ \A l \in log : seen[f] < l => e <= l
         /\ seen' = [seen EXCEPT ![f] = e]
    /\ UNCHANGED <<next, log, open>>

End(f) == f \in open /\ open' = open \ {f} /\ UNCHANGED <<next, log, seen>>

FeedNext == Append \/ Purge \/ \E f \in Follower : Begin(f) \/ Give(f) \/ End(f)

FeedSpec == FeedInit /\ [][FeedNext]_feedVars

=============================================================================
