------------------------------ MODULE CloudAgent ------------------------------
(***************************************************************************)
(* One cloud agent: its row, the polls that reconcile the row with the     *)
(* provider, and the provider.                                             *)
(*                                                                         *)
(* The row is an outbox of intents: launch, follow up, cancel.  A poll     *)
(* reads the row, takes its lease by a compare-and-set on the version,     *)
(* marks the intent as dispatched, calls the provider and writes what it   *)
(* learnt under version and lease.  Calls and answers get lost, polls stop *)
(* in the middle, leases run out, users reply, cancel and clear the chat.  *)
(***************************************************************************)
EXTENDS Naturals, FiniteSets

CONSTANTS
    Poller,       \* executions of pollCloudAgent that may overlap
    NoPoller,     \* the null lease token
    MaxReply,     \* bound: follow-ups of the user
    MaxCancel,    \* bound: cancellations of the user
    MaxRun,       \* bound: runs the provider accepts
    MaxLoss       \* bound: requests or answers lost, and polls that die

ASSUME CloudAssumption ==
    /\ NoPoller \notin Poller
    /\ {MaxReply, MaxCancel, MaxRun, MaxLoss} \subseteq Nat /\ MaxRun > 0

VARIABLES
    ca,           \* the columns of cloud_agents the polls decide on
    caLease,      \* leaseToken: the poll that took it
    caLapsed,     \* leaseExpiresAt <= now
    attached,     \* the card, the membership and the bot are still there
    remote,       \* the provider's runs of the agent, by number
    poller,       \* per poll: where it is, the row it read, the answer it got
    woken,        \* history: runs queued to report each generation's end
    sentReplies,  \* history: follow-ups sent to the provider, by generation
    staleClaim,   \* history: a poll claimed a row that was not what it had read
    dropped,      \* history: a follow-up marked as dispatched never got out
    unheard,      \* history: the poll whose follow-up was refused could not say so
    cancels,      \* number of cancellations so far
    losses        \* number of losses so far

caVars == <<ca, caLease, caLapsed, attached, remote, poller, woken, sentReplies,
            staleClaim, dropped, unheard, cancels, losses>>

Generation == 0..MaxReply
RemoteRun  == 1..MaxRun

Fresh == [status |-> "running", remote |-> FALSE, latest |-> 0,
          request |-> TRUE, dispatched |-> FALSE, followup |-> FALSE, fdisp |-> FALSE,
          cancel |-> FALSE, poll |-> TRUE, gen |-> 0, woke |-> FALSE]

\* The columns a poll goes on with after it has read the row.
Seen(c) == [remote |-> c.remote, latest |-> c.latest, request |-> c.request,
            dispatched |-> c.dispatched, followup |-> c.followup,
            fdisp |-> c.fdisp, cancel |-> c.cancel, gen |-> c.gen]

NoAnswer == [run |-> 0, status |-> "none"]
Resting  == [at |-> "idle", saw |-> Seen(Fresh), cur |-> FALSE, gone |-> FALSE,
             got |-> NoAnswer]

\* cloud_agent_launch has written the row and its card.
CloudInit ==
    /\ ca = Fresh /\ caLease = NoPoller /\ caLapsed = FALSE /\ attached = TRUE
    /\ remote = [r \in RemoteRun |-> "none"]
    /\ poller = [p \in Poller |-> Resting]
    /\ woken = [g \in Generation |-> 0]
    /\ sentReplies = [g \in Generation |-> 0]
    /\ staleClaim = FALSE /\ dropped = FALSE /\ unheard = FALSE
    /\ cancels = 0 /\ losses = 0

\* The version column is compared for equality only: a write that increments
\* it makes what every poll holds old.
Bumped(ps) == [p \in Poller |-> [ps[p] EXCEPT !.cur = FALSE]]

Active(r)  == remote[r] \in {"running", "stopping"}
lastRun    == Cardinality({r \in RemoteRun : remote[r] # "none"})
statusOf(s) == IF s \in {"running", "stopping"} THEN "running" ELSE s

-----------------------------------------------------------------------------
(* The user and the bot (executeCloudAgentTool), and the provider.         *)

\* cloud_agent_reply, allowed once the agent has ended.
ReplyTool ==
    /\ ca.status # "running" /\ ~ca.followup /\ ~ca.cancel /\ ca.remote
    /\ ca.gen < MaxReply
    /\ ca' = [ca EXCEPT !.followup = TRUE, !.fdisp = FALSE, !.status = "running",
                        !.gen = @ + 1, !.woke = FALSE, !.poll = TRUE]
    /\ poller' = Bumped(poller)
    /\ UNCHANGED <<caLease, caLapsed, attached, remote, woken, sentReplies,
                   staleClaim, dropped, unheard, cancels, losses>>

\* cloud_agent_cancel, whatever the agent is doing.
CancelTool ==
    /\ cancels < MaxCancel
    /\ cancels' = cancels + 1
    /\ ca' = [ca EXCEPT !.cancel = TRUE, !.poll = TRUE]
    /\ poller' = Bumped(poller)
    /\ UNCHANGED <<caLease, caLapsed, attached, remote, woken, sentReplies,
                   staleClaim, dropped, unheard, losses>>

\* The chat is cleared, the member leaves, or the bot is archived.
Detach ==
    /\ attached /\ attached' = FALSE
    /\ UNCHANGED <<ca, caLease, caLapsed, remote, poller, woken, sentReplies,
                   staleClaim, dropped, unheard, cancels, losses>>

RemoteEnds(r, s) ==
    /\ \/ remote[r] = "running" /\ s \in {"finished", "failed"}
       \/ remote[r] = "stopping" /\ s = "cancelled"
    /\ remote' = [remote EXCEPT ![r] = s]
    /\ UNCHANGED <<ca, caLease, caLapsed, attached, poller, woken, sentReplies,
                   staleClaim, dropped, unheard, cancels, losses>>

-----------------------------------------------------------------------------
(* pollCloudAgent.                                                         *)

At(p, s) == poller[p].at = s
holds(p) == poller[p].cur /\ caLease = p       \* fence(agent)

Set(p, fields) == poller' = [poller EXCEPT ![p] = fields]
To(p, s) == Set(p, [poller[p] EXCEPT !.at = s])

\* findFirst; a row without nextPollAt is left alone.
ReadAgent(p) ==
    /\ At(p, "idle") /\ ca.poll
    /\ Set(p, [Resting EXCEPT !.at = "read", !.saw = Seen(ca), !.cur = TRUE])
    /\ UNCHANGED <<ca, caLease, caLapsed, attached, remote, woken, sentReplies,
                   staleClaim, dropped, unheard, cancels, losses>>

\* The claim compares the version and the lease.  What it goes on with is the
\* row it read; then it looks for the card, the member and the bot.
claimMatches(p) == poller[p].cur /\ (caLease = NoPoller \/ caLapsed)

ClaimAgent(p) ==
    /\ At(p, "read")
    /\ IF claimMatches(p)
         THEN /\ caLease' = p /\ caLapsed' = FALSE
              /\ Set(p, [poller[p] EXCEPT !.at = "claimed", !.gone = ~attached])
              /\ staleClaim' = (staleClaim \/ poller[p].saw # Seen(ca))
         ELSE /\ Set(p, Resting)
              /\ UNCHANGED <<caLease, caLapsed, staleClaim>>
    /\ UNCHANGED <<ca, attached, remote, woken, sentReplies, dropped, unheard, cancels,
                   losses>>

CloudLeaseLapses ==
    /\ caLease # NoPoller /\ ~caLapsed /\ caLapsed' = TRUE
    /\ UNCHANGED <<ca, caLease, attached, remote, poller, woken, sentReplies,
                   staleClaim, dropped, unheard, cancels, losses>>

Unwanted(p) == poller[p].gone \/ poller[p].saw.cancel

\* Mutant: the generation that was woken is not compared.
WakesAgain(terminal, detached) == terminal /\ ~detached

Wakes(terminal, detached) == terminal /\ ~detached /\ ~ca.woke

\* Mutant: an agent that is being cancelled is not looked at again.
PollUnlessCancelled(terminal, unwanted) == ~terminal /\ ~unwanted

PollAgain(terminal, unwanted) == ~terminal

\* finishPoll: one transaction, under the thread's lock, fenced.
Finish(p, data, gone) ==
    LET detached == gone \/ ~attached
        terminal == data.status # "running"
        wakes    == Wakes(terminal, detached)
    IN  IF holds(p)
          THEN /\ ca' = [data EXCEPT !.cancel = ~terminal /\ (detached \/ @
                                                    \/ poller[p].saw.cancel),
                                     !.poll = PollAgain(terminal, Unwanted(p)),
                                     !.woke = @ \/ wakes]
               /\ woken' = [woken EXCEPT ![ca.gen] = @ + IF wakes THEN 1 ELSE 0]
               /\ caLease' = NoPoller /\ caLapsed' = FALSE
               /\ poller' = Bumped([poller EXCEPT ![p] = Resting])
          ELSE /\ To(p, "finally")
               /\ UNCHANGED <<ca, woken, caLease, caLapsed>>

\* finishPoll writes the columns it names over the row as it is; while there
\* is no remote agent that includes the launch request, which is cleared.
Written(p, status, latest, sent) ==
    [ca EXCEPT !.request = @ /\ poller[p].saw.remote, !.status = status,
               !.latest = latest, !.cancel = FALSE,
               !.followup = IF sent THEN FALSE ELSE @,
               !.fdisp = IF sent THEN FALSE ELSE @]

\* Nothing was dispatched: an unwanted launch or follow-up ends here.
CancelLocally(p) ==
    /\ At(p, "claimed") /\ Unwanted(p)
    /\ \/ ~poller[p].saw.remote /\ ~poller[p].saw.dispatched
       \/ poller[p].saw.remote /\ poller[p].saw.followup /\ ~poller[p].saw.fdisp
    /\ Finish(p, Written(p, "cancelled", ca.latest, poller[p].saw.remote),
              poller[p].gone)
    /\ UNCHANGED <<attached, remote, sentReplies, staleClaim, dropped, unheard,
                   cancels, losses>>

\* Write the dispatch intent before the call.
Mark(p, column, call) ==
    IF holds(p) THEN ca' = [ca EXCEPT ![column] = TRUE] /\ To(p, call)
                ELSE To(p, "finally") /\ UNCHANGED ca

\* A request that was cleared does not parse: the poll fails and is retried.
MarkLaunch(p) ==
    /\ At(p, "claimed") /\ ~poller[p].saw.remote
    /\ ~(Unwanted(p) /\ ~poller[p].saw.dispatched)
    /\ Mark(p, "dispatched", IF poller[p].saw.request THEN "launch" ELSE "retry")
    /\ UNCHANGED <<caLease, caLapsed, attached, remote, woken, sentReplies,
                   staleClaim, dropped, unheard, cancels, losses>>

MarkReply(p) ==
    /\ At(p, "claimed") /\ poller[p].saw.remote /\ ~Unwanted(p)
    /\ poller[p].saw.followup /\ ~poller[p].saw.fdisp
    /\ Mark(p, "fdisp", "reply")
    /\ UNCHANGED <<caLease, caLapsed, attached, remote, woken, sentReplies,
                   staleClaim, dropped, unheard, cancels, losses>>

\* The calls that need no mark: cancel, observe a lost follow-up, or look.
ChooseCall(p) ==
    /\ At(p, "claimed") /\ poller[p].saw.remote
    /\ \/ /\ Unwanted(p) /\ (poller[p].saw.followup => poller[p].saw.fdisp)
          /\ To(p, "cancel")
       \/ /\ ~Unwanted(p) /\ (poller[p].saw.followup => poller[p].saw.fdisp)
          /\ To(p, "get")
    /\ UNCHANGED <<ca, caLease, caLapsed, attached, remote, woken, sentReplies,
                   staleClaim, dropped, unheard, cancels, losses>>

\* The run a call is about: the one the row names, or, while a follow-up is
\* ambiguous, the one the agent's metadata names, which may be an old one.
TargetRun(p) == IF poller[p].saw.fdisp THEN poller[p].saw.latest..lastRun
                                       ELSE {poller[p].saw.latest}

Got(p, r) == Set(p, [poller[p] EXCEPT !.at = "answered",
                        !.got = [run |-> r, status |-> statusOf(remote'[r])]])

\* The provider takes the request.  A launch has an idempotency key: when it is
\* repeated, the agent that is there already answers ...
ProviderLaunch(p) ==
    /\ At(p, "launch")
    /\ remote' = [remote EXCEPT ![1] = IF @ = "none" THEN "running" ELSE @]
    /\ Got(p, 1)
    /\ UNCHANGED <<ca, caLease, caLapsed, attached, woken, sentReplies, staleClaim,
                   dropped, unheard, cancels, losses>>

Sent(p) == sentReplies' = [sentReplies EXCEPT ![poller[p].saw.gen] = @ + 1]

\* ... a follow-up has none, and is only taken while no run is active.
ProviderReply(p) ==
    /\ At(p, "reply") /\ lastRun < MaxRun /\ \A r \in RemoteRun : ~Active(r)
    /\ Sent(p)
    /\ remote' = [remote EXCEPT ![lastRun + 1] = "running"]
    /\ Got(p, lastRun + 1)
    /\ UNCHANGED <<ca, caLease, caLapsed, attached, woken, staleClaim, dropped,
                   unheard, cancels, losses>>

\* The provider answers 400, 401, 403, 404, 409 or 422, whatever it has done
\* before: it may also refuse the repetition of a launch that it accepted.
ProviderRefuses(p) ==
    /\ \/ At(p, "launch") /\ UNCHANGED sentReplies
       \/ At(p, "reply") /\ Sent(p)
    /\ To(p, "refused")
    /\ UNCHANGED <<ca, caLease, caLapsed, attached, remote, woken, staleClaim,
                   dropped, unheard, cancels, losses>>

ProviderLooks(p, r) ==
    /\ At(p, "get") /\ r \in TargetRun(p)
    /\ UNCHANGED remote /\ Got(p, r)
    /\ UNCHANGED <<ca, caLease, caLapsed, attached, woken, sentReplies, staleClaim,
                   dropped, unheard, cancels, losses>>

ProviderCancels(p, r) ==
    /\ At(p, "cancel") /\ r \in TargetRun(p)
    /\ remote' = [remote EXCEPT ![r] = IF @ = "running" THEN "stopping" ELSE @]
    /\ Got(p, r)
    /\ UNCHANGED <<ca, caLease, caLapsed, attached, woken, sentReplies, staleClaim,
                   dropped, unheard, cancels, losses>>

Calls == {"launch", "reply", "get", "cancel"}

\* The request or its answer is lost, or the call times out.
LoseCall(p) ==
    /\ poller[p].at \in Calls \cup {"answered"} /\ losses < MaxLoss
    /\ losses' = losses + 1
    /\ dropped' = (dropped \/ At(p, "reply"))
    /\ To(p, "retry")
    /\ UNCHANGED <<ca, caLease, caLapsed, attached, remote, woken, sentReplies,
                   staleClaim, unheard, cancels>>

\* The process of a poll dies; its lease stays until it runs out.
PollDies(p) ==
    /\ ~At(p, "idle") /\ losses < MaxLoss
    /\ losses' = losses + 1
    /\ dropped' = (dropped \/ At(p, "reply"))
    /\ unheard' = (unheard \/ (At(p, "refused") /\ poller[p].saw.followup))
    /\ Set(p, Resting)
    /\ UNCHANGED <<ca, caLease, caLapsed, attached, remote, woken, sentReplies,
                   staleClaim, cancels>>

\* A follow-up the poll gave up on arrives after all.
LateReply ==
    /\ dropped /\ lastRun < MaxRun /\ \A r \in RemoteRun : ~Active(r)
    /\ dropped' = FALSE
    /\ remote' = [remote EXCEPT ![lastRun + 1] = "running"]
    /\ sentReplies' = [sentReplies EXCEPT ![ca.gen] = @ + 1]
    /\ UNCHANGED <<ca, caLease, caLapsed, attached, poller, woken, staleClaim,
                   unheard, cancels, losses>>

\* Mutant: whatever run the provider names answers for the follow-up.
NeverAmbiguous(p) == FALSE

\* An old run cannot settle a follow-up that may still be accepted.
StillAmbiguous(p) == poller[p].saw.fdisp /\ poller[p].got.run = poller[p].saw.latest

TakeAnswer(p) ==
    /\ At(p, "answered")
    /\ IF StillAmbiguous(p)
         THEN /\ To(p, "retry") /\ UNCHANGED <<ca, woken, caLease, caLapsed>>
         ELSE LET got  == poller[p].got
                  data == Written(p, got.status, got.run, poller[p].saw.followup)
              IN  Finish(p, [data EXCEPT !.remote = TRUE, !.cancel = Unwanted(p)],
                         poller[p].gone)
    /\ UNCHANGED <<attached, remote, sentReplies, staleClaim, dropped, unheard,
                   cancels, losses>>

\* A refused request ends the launch or the follow-up: without a look at the
\* agent, and only if the poll can still write.
TakeRefusal(p) ==
    /\ At(p, "refused")
    /\ Finish(p, Written(p, "failed", ca.latest, poller[p].saw.followup),
              poller[p].gone)
    /\ unheard' = (unheard \/ (poller[p].saw.followup /\ ~holds(p)))
    /\ UNCHANGED <<attached, remote, sentReplies, staleClaim, dropped, cancels, losses>>

\* retryPoll: fenced; the version stays what it was.
RetryPoll(p) ==
    /\ At(p, "retry")
    /\ IF holds(p) THEN /\ ca' = [ca EXCEPT !.poll = TRUE]
                        /\ caLease' = NoPoller /\ caLapsed' = FALSE
                   ELSE UNCHANGED <<ca, caLease, caLapsed>>
    /\ To(p, "finally")
    /\ UNCHANGED <<attached, remote, woken, sentReplies, staleClaim, dropped,
                   unheard, cancels, losses>>

\* finally: release the lease if it is still this poll's.
ReleaseLease(p) ==
    /\ At(p, "finally")
    /\ IF caLease = p THEN caLease' = NoPoller /\ caLapsed' = FALSE
                      ELSE UNCHANGED <<caLease, caLapsed>>
    /\ Set(p, Resting)
    /\ UNCHANGED <<ca, attached, remote, woken, sentReplies, staleClaim, dropped,
                   unheard, cancels, losses>>

PollStep(p) ==
    \/ ReadAgent(p) \/ ClaimAgent(p) \/ CancelLocally(p) \/ MarkLaunch(p)
    \/ MarkReply(p) \/ ChooseCall(p) \/ ProviderLaunch(p) \/ ProviderRefuses(p)
    \/ ProviderReply(p)
    \/ \E r \in RemoteRun : ProviderLooks(p, r) \/ ProviderCancels(p, r)
    \/ TakeAnswer(p) \/ TakeRefusal(p) \/ RetryPoll(p) \/ ReleaseLease(p)

CloudNext ==
    \/ \E p \in Poller : PollStep(p) \/ LoseCall(p) \/ PollDies(p)
    \/ \E r \in RemoteRun, s \in {"finished", "failed", "cancelled"} : RemoteEnds(r, s)
    \/ ReplyTool \/ CancelTool \/ Detach \/ CloudLeaseLapses \/ LateReply

\* The queue and reconcileCloudAgents deliver polls while nextPollAt is due;
\* leases run out; the provider's metadata catches up; a run it was told to
\* stop stops.  That a run ends by itself is not assumed.
LooksAtNewest(p) ==
    \E r \in RemoteRun : r = lastRun /\ (ProviderLooks(p, r) \/ ProviderCancels(p, r))

CloudFairness ==
    /\ \A p \in Poller : WF_caVars(PollStep(p)) /\ SF_caVars(LooksAtNewest(p))
    /\ WF_caVars(CloudLeaseLapses)
    /\ \A r \in RemoteRun : WF_caVars(RemoteEnds(r, "cancelled"))

CloudSpec == CloudInit /\ [][CloudNext]_caVars /\ CloudFairness

-----------------------------------------------------------------------------
(* Properties.                                                             *)

AgentStatus == {"running", "finished", "failed", "cancelled"}
AgentRow == [status : AgentStatus, remote : BOOLEAN, latest : 0..MaxRun,
             request : BOOLEAN, dispatched : BOOLEAN, followup : BOOLEAN,
             fdisp : BOOLEAN, cancel : BOOLEAN, poll : BOOLEAN, gen : Generation,
             woke : BOOLEAN]
ReadRow  == [remote : BOOLEAN, latest : 0..MaxRun, request : BOOLEAN,
             dispatched : BOOLEAN, followup : BOOLEAN, fdisp : BOOLEAN,
             cancel : BOOLEAN, gen : Generation]
PollRec  == [at : {"idle", "read", "claimed", "answered", "refused", "retry",
                   "finally"} \cup Calls,
             saw : ReadRow, cur : BOOLEAN, gone : BOOLEAN,
             got : [run : 0..MaxRun, status : AgentStatus \cup {"none"}]]

CloudTypeOK ==
    /\ ca \in AgentRow
    /\ caLease \in Poller \cup {NoPoller}
    /\ caLapsed \in BOOLEAN /\ attached \in BOOLEAN
    /\ staleClaim \in BOOLEAN /\ dropped \in BOOLEAN /\ unheard \in BOOLEAN
    /\ remote \in [RemoteRun -> {"none", "running", "stopping", "finished", "failed",
                                "cancelled"}]
    /\ poller \in [Poller -> PollRec]
    /\ woken \in [Generation -> Nat] /\ sentReplies \in [Generation -> Nat]
    /\ cancels \in 0..MaxCancel /\ losses \in 0..MaxLoss

\* The end of a launch or of a follow-up wakes its bot once, whatever polls
\* overlap, die and repeat (cloud-agent-poll.ts 296-325).
WokenOnce == \A g \in Generation : woken[g] <= 1

\* A launch the provider accepted was refused to a poll, which wrote "failed"
\* without a remote id: nothing will ever look at that agent again.
Disowned == ca.status = "failed" /\ ~ca.remote /\ remote[1] # "none"

\* A follow-up reaches the provider once ("Observe it; never resend the
\* mutation"), and a row that says the agent has ended is right: no run of it is
\* active at the provider, and the run the row reports is the newest there is -
\* unless a poll went on with columns that had changed under it, or the row
\* disowned a launch (cloud-agent-poll.ts 66-180).
FollowedToTheEnd ==
    staleClaim \/
       /\ \A g \in Generation : sentReplies[g] <= 1
       /\ ca.status # "running" /\ ~Disowned =>
             /\ \A r \in RemoteRun : ~Active(r)
             /\ ca.latest = lastRun

\* An agent that nobody wants any more is stopped at the provider and its row
\* ends, through every loss - unless a follow-up was marked and never sent, or
\* refused to a poll that could not write it, a poll went on with a stale row,
\* or the row disowned a launch (cloud-agent-poll.ts 106-137, 183-190).
UnwantedStops ==
    (ca.cancel \/ (~attached /\ ca.status = "running"))
      ~> \/ ca.status # "running" /\ \A r \in RemoteRun : ~Active(r)
         \/ dropped \/ unheard \/ staleClaim \/ Disowned
=============================================================================
