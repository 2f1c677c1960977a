# Negroni in TLA+

Negroni runs assistants ("bots") that work for a user: a message starts a *run*,
a worker claims the run and drives a language model with tools and a computer,
and everything that happens is appended to the *event log* of a thread, which
clients follow. The state is in Postgres; the API process and any number of
worker processes share nothing else. What makes it hard is that the same rows
are written by executions of jobs that may be duplicated, late or dead, by users,
by timers and by a reconciler, each in short transactions with `await`s between.

This directory models the core of that: who may write a run, where a user's
message goes when the bot is busy, how events reach subscribers, who has a computer
and its screen, what wakes a bot, and how the system acts on the world outside
without doing it twice.

## Inventory

| Component | State | Operations | What is hard | What makes it correct |
|---|---|---|---|---|
| **Run execution** (`packages/adapters/src/executor.ts`, `takeover-resume.ts`, `packages/db/src/events.ts`, `cancel-runs.ts`, `packages/core/src/run-state.ts`) | a `runs` row: status, lease owner, lease fence, expiry, checkpoint; an `attempts` row per execution | deliver, claim, start, renew, pause for input, pause for takeover, complete, fail, requeue, answer, release, stop, clear, archive | duplicated and late jobs, expiring leases, crashes, a requeue of three statements, plans computed from a stale read | one writer per run; finished runs stay finished; no run and no release of the screen is lost |
| **Steering** (`events.ts`, `apps/api/src/thread-target.ts`, `router.ts`) | `steering_messages`: message, run or null, `claimedAt`, origin | send, follow-up, claim, settle, release on failure, continuation, stop, clear | messages arriving at any point of a run's turn; routines and other bots' runs beside the conversation; failures; runs withdrawn | every message is taken in by one conversational run, none is stranded, answered twice, or mixed with another chat's |
| **Thread event stream** (`events.ts`, `packages/adapters/src/realtime.ts`) | `threads.nextEventSeq`, `events`; the LISTEN connection; a cursor and a latch per subscriber | append, commit, publish, connect, disconnect, read a batch, yield, wait | commits and publishes are two steps; NOTIFY is lost while disconnected; lost wakeups | in order, each once, nothing skipped; a waiting subscriber is woken |
| **Takeover of the screen** (`computer-control.ts`, `router.ts`) | control columns of `computers`: holder, lease, bot, run | request, take control, extend, release, expire, pre-empt | the release races the run's own steps; control of several bots on one computer | a release ends the wait of its run; a control ends by its own release, its time or a pre-emption, and does end |
| **Computer lifecycle** (`computer-lifecycle.ts`, `computer-idle.ts`) | `computers` state and fence, `computer_execution_leases` | provision, acquire, renew, release, reset, update, recover, boot, stop, idle stop | bots share a computer; replacing and stopping race acquisition | a run keeps its box while it holds its lease; no box is left behind; a run gets the computer whatever died |
| **Job queue and reconciler** (`job-reconciler.ts`, graphile-worker) | jobs; the leader's advisory lock | enqueue, deliver, retry; reconcile | enqueues lost after commit; a leader that lost its connection | whatever waits in the database is picked up again |
| **Routines** (`executor.ts` `wakeRoutine`) | `routines.nextRunAt`, `active` | wake, defer, claim, enqueue, roll back; edit | the claim of the date and the run are one transaction, the enqueue another; an edit writes what it read | each due date fires, and fires once |
| **Bot messages and hand-offs** (`bot-messages.ts`, `group-handoff.ts`) | delivery keys, `botOutcomeReturnedAt` | deliver, hand over, return the outcome | worker and reconciler return the same outcome, or nobody does; bots that answer each other | an outcome is returned, once; chains end |
| **Messaging apps, team chats** (`messaging-inbound.ts`, `team-chat-bridge.ts`) | delivery rows, mirrored marks | inbound, mirror, abandon | webhooks delivered twice; a routine that owns the same message | each message answered once, in its chat |
| **Teaching** (`taught-skills.ts`) | teaching sessions | start, stop, replay | cancels the bot's runs outside the thread's lock | no run works while the user teaches |
| **Bots and groups** (`child-bots.ts`, `packages/db/src/groups.ts`) | bots, members | create, archive, destroy | archiving reads runs before it cancels them | an archived bot has no run at work |
| **Approvals and external effects** (`approval-effect.ts`) | `external_effects.status`: intended, approved, executing, completed, uncertain, denied | gate, review, propose, approve, deny, claim, complete, settle | a run retried between the claim and the result; attempts whose gates disagree | an effect is executed at most once, and only when a user or the gate allowed it |
| **Messaging outbox** (`messaging-delivery.ts`) | outbound rows: pending, sent, failed; attempts; `agent_connections` | mirror, claim, send, retry, revoke | claimed as sent before it is sent; the provider's answer may be lost | at most once for invites, bounded retries for the rest |
| **Cloud agents** (`cloud-agent-poll.ts`, `cursor-cloud-agent.ts`) | version, lease token, launch dispatched, remote id | poll, launch, cancel, finish | leases that run out during a remote call; refusals after an acceptance | a follow-up sent once, one final report, an unwanted agent stopped |
| Runtimes, tools, sandboxes, compaction, clients, access | – | – | I/O | left out, see below |

Interaction: the API and the messaging bridges write messages, runs and steering rows
and enqueue `run.continue`; a worker's `continueRun` claims the run, acquires the
computer, and calls `claimSteering` before its first prompt and at turn boundaries;
`finalizeRun` ends the run and creates the continuation; `pauseRunForTakeover` hands
the screen to the user, whose release re-enqueues the run; all of them append events
in their transactions and publish a signal after the commit.

`PROJECT.json` lists the hazards with their lines.

## Modules

### `RunLease` – one run and the executions of its job

`status`, `owner`, `fence`, `expired` and `ckpt` are the columns of the row; each
execution (`Handler`) of `continueRun` has a program counter `pc` and its local
variables: the row it read (`seen`), its resume plan (`plan`), the fence it claimed
with (`token`) and its attempt (`att`). `WorkerOf` maps an execution to its process,
because `leaseOwner` is the pid: that two executions may be in one process is a
parameter, and it matters. The labels follow the code from read to claim, start,
attempt, set-up, held check, model, event loop, requeue and `finally`:

    idle -Deliver-> read -Claim-> claimed -Start-> started -Acquire-> setup
      -FinishSetup-> ready -HeldCheck-> open -OpenModel-> loop
      -AskPause, TakeoverPause, Complete, Fail-> finally -Finally-> idle
    started, setup, ready, open, loop -> requeue -> planned -> retried -> finally

Each action is one statement or one transaction of the code, so every `await` is a
point where another actor may step in. `Commit` is the fenced transaction shared by
`pauseRunForInput`, `pauseRunForTakeover` and `finalizeRun`. `Expire` lets a lease
run out at any time (clocks and slow processes), `Enqueue` may lose the job, `Crash`
forgets all executions of a process, `Nudge` and `Reconcile` deliver late
and duplicate jobs. The user's control of the screen is abstracted to `ctl`, as far as this
run is concerned: none, asked (the run has asked), user (a user holds the screen for it),
left (the computer's row has dropped the request and the run was not told: `DropRequest`, which
a dedicated computer does at every grant, and a grant to another bot, a stop or a lapsed
execution lease on a team computer). In "left" the run waits although no release will find it;
a later grant may find it again (`TakeControl`). Acquiring the computer's lease is abstracted to its
outcome (`Busy` or `Acquire`).

`CancelPaths` says which cancellations occur: `stop` (status only), `clear` (status,
lease and attempts), `archive` (read first, write by id later). They are separate
because they write different columns and only the last one is unguarded.

`RunLife` is what all this promises: a run that is open may be taken, also from the
execution that has it; only the one that took it last begins it, and only the one that
began it settles it, that is, makes it wait, requeues it or ends it; everyone else leaves.
It has no fence, lease, clock or process. `Life == INSTANCE RunLife WITH at <- Stage of
pc, holder <- the last claimant while the row is leased or running` maps the row to it:
"out" until the claim and from the commit of the outcome on, "taken" between the claim and
the start, "working" from there.

### `Steering` – messages to a bot that is working

One bot in one thread; runs are slots with status, trigger and source message;
`row`, `claimed` and `tagged` are the columns `runId`, `claimedAt` and
`originTrigger` of the steering rows; `shown` is `seenSteeringIds` of the running
attempt. The transactions that write rows lock the thread first, so each is one
action: `Send`, `sendUserMessage`, `GroupFollowUp`, `claimSteering`, `Complete` and
`Fail` (with `createSteeringContinuation` inside them), `stopThreadRuns`,
`clearThread`. Claim and start of a run, taken apart in `RunLease`, are one step
(`Begin`) here. Four constants switch on what the thread contains: `Chats`, runs that start beside the
conversation (`Parallel`), runs withdrawn without touching their steering
(`Withdrawals`), and `GroupThread`.

### `EventFeed` and `ThreadFeed` – the event stream

`EventFeed` is the promise: a log that commits append to and deletions thin out, and
subscribers that are given events in order, each once, none skipped that is stored.
`ThreadFeed` is the code: the counter of the thread row and its lock, commit and
publish as two steps, the LISTEN connection of a process that drops and reconnects,
and `followThreadEvents` with its batches, its latch and its catch-up timer.
`Feed == INSTANCE EventFeed WITH seen <- cursor, open <- ...` is the refinement.

### `Takeover` – who has the screen

`ctl` is the control columns of the computer's row (holder, lease id, whether the
lease is due, bot, run); `run` the status of each run that may wait for the user;
`execLease` the execution lease row of each bot, which is how a request learns which
run waits. A request (`req`) is the handler of `computer.takeover`, `computer.release`,
the teaching session, or the expiry job; each goes from read to provider call to a
write under the lease id it has read, one action per `await`:

    takeover: bind -> oust -> preempt -> reread -> expired -> ask -> grant -> schedule
    release:  revoke -> finalize          expiry: expire -> deny -> revoke -> finalize
    teaching: cancel -> extend, or seize

Pauses of runs, ends of runs and the passing of time come between any two of them; a run
that a message has set going without the screen (`held`) may pause again, be requeued or
end. What keeps two runs of a bot apart is only the execution lease (`MayTake`), which is
held for a waiting run for 24 hours and may then lapse (`Lapses`): another run of the bot
may take the row over while the first still waits. The
control that `RunLease` abstracts to `ctl` is taken apart here; a run's own lease is
abstracted there.

### `ComputerLifecycle` – the computer of one or of several bots

`comp` is the row: team or dedicated, state, provider reference, maintenance id.
Stamps (`updatedAt`) are not numbers: each operation knows whether the stamp it has
claimed under is still the row's (`cur`), and any other write of the row makes it
stale. `lease` is the execution lease of each bot with its fence, `box` what the
provider runs. An operation is a run that provisions, works, saves its workspace and
releases, or one of the requests boot, reset, update, recover, stop, or the idle stop;
all are sequences of reads, compare-and-sets and provider calls that may fail or be the
last thing their process does. `MCComputer` runs them two or three at a time, in
eleven settings.

### `ExternalEffect`, `MessagingOutbox`, `CloudAgent` – acting outside, once

Three small machines with the same difficulty: a claim in the database, a call that
cannot be taken back, and a crash, a lapse or a lost answer between the two.

`ExternalEffect` has the rows of `external_effects` for the tool calls of one run, the
approval card, and overlapping attempts which replay the calls from the start:
`RecordEffect`, `Review`, `ClaimEffect`, `Act`, `CompleteEffect`, `SettleUncertain`,
`AnswerAsk`. Whether a call asks is decided by each attempt for itself (`Plans`): a "plain"
call never asks, a "mandatory" one always, and a "ruled" one as the user's rules and review
preference, which may change between attempts, and a model's verdict say; a verdict is
stored in the row (`review`) and taken over by an attempt that finds it there. `passed`
keeps the calls that some attempt's gate let through, `allowed` those a user allowed. An
approved request is taken off the queue before its row is looked up (`Takes`, and
`TakeInVain` when its arguments no longer fit), so an attempt may have taken (`took`) what
it does not use; `Repeats` says which calls are occurrences of the same tool and arguments.
`MessagingOutbox` has drains that list rows, claim them by a compare-and-set, send and
count, and the invites that are sent under the lock of the connection's row.
`CloudAgent` has one row of intents (launch, follow up, cancel), polls that overlap, and
the provider as its adapter shows it: launches are idempotent, follow-ups are taken only
while no run is active, either may be refused at any time (`ProviderRefuses`: the adapter
makes the same error of six HTTP statuses, whatever was accepted before), and runs end when
they like. History variables record what goes wrong in ways the properties except:
`staleClaim`, a poll went on with a row that had changed since it was read; `dropped`, a
follow-up marked as sent never got out; `unheard`, the poll whose follow-up was refused could
not write it. `Disowned` is a row that failed on the refusal of a launch the provider has.

They share no row, so `MCDeliveries` lets each behaviour run one of them in one
setting; the states of the run are the sum of theirs, and the fairness of each is
stated within its settings.

### `BotMessages` and `Routine` – what else wakes a bot

`BotMessages` has runs that message other bots, hand a stage of a group's work on, and
end; `outstanding` is the reconciler's query (ended runs of bot messages with no
`botOutcomeReturnedAt`, oldest `updatedAt` first). `returnBotMessageOutcome` is executed
by the worker and by the reconciler, step by step: look, send under the key
`auto-outcome:<run>`, mark. Hops are kept as the source message keeps them, and
`depth`, which only counts, says how far a run is from a person. What happens to a run
between its start and its end is `RunLease`'s; archiving is one step here.

`Routine` has the row of one routine and the executions of `routine.wakeup`: a read
with the deferral of early jobs, the claim of the date together with the run, the
enqueue, its rollback. Dates are numbers; `soon` is the second of tolerance before a
date. `EditReads` and `EditWrites` are the two statements of `routines.update`.

`MCWakes` runs them in four settings: two bots that answer each other without end
(`volley`), a chain of requests whose workers all die (`relay`), a group (`stage`), and
a routine.

The MC modules name the model values, the settings and nothing else. Operators
commented "Mutant" are plausible mistakes in the code; each property fails when one of
them replaces the operator it is a mutation of.

## Runs

| Run | Instance | Shows |
|---|---|---|
| `RunLease_own` | 2 executions in 2 processes, 3 claims, 1 crash, stop and clear, requests for the screen dropped (2.66M states) | the fence: `OneWriter`; the promise of a run, `KeepsLife`; a release of the screen held for the run is not lost and ends its wait (`ReleaseReachesPlan`, `ReleaseEndsTheWait`) |
| `RunLease_live` | 2 executions in 1 process, 2 claims, 1 crash, archiving (657k) | `DueIsTakenUp`: no run is forgotten |
| `Steering_turns` | 4 run slots, 3 messages, 1 routine (510k) | `NoStrandedSteering`, `ConversationStartsAlone`, where no run is withdrawn and no other bot writes |
| `Steering_live` | 3 slots, 2 messages, 1 routine (168k) | `SteeringSettles` |
| `Steering_withdrawn` | everything switched on (1.2M) | `TypeOK`, `ClaimedIsShown`: what a completion settles was shown to the attempt that completed |
| `ThreadFeed` | 2 transactions, 1 subscriber, 3 events, batches of 2, 2 faults (288k) | `KeepsFeed`, `NoLostWakeup`, `EveryEventGiven` |
| `Deliveries` | 2 attempts and 3 claims of a run that makes two of four calls; 2 drains, a message, 2 invites, 1 crash; 2 polls, a follow-up, a cancellation, a loss, refusals (436k) | `ConsequentialOnce`, `ActedWasAllowed`, `CompletedDidAct`, `AskCanBeAnswered`, `NoApprovalForgotten`; `CopyIsExplained`, `InviteOnlyWhilePending`, `RowsSettle`; `WokenOnce`, `FollowedToTheEnd`, `SoleUnwantedStops` |
| `Computer` | 2 bots, 2 runs and 6 requests, 2 or 3 at a time, 4 boxes, 1 death, 2 faults (204k) | `RunKeepsBox`, `LostIsOwed`, `LoneRunGetsComputer` |
| `Takeover` | team computer, 2 bots, one with 2 runs, 2 requests at a time, 3 leases, 1 refusal, in 6 settings (355k) | `ActiveControlKept`, `ControlEnds` |
| `Wakes` | 3 bots, 5 runs, 2 hops, batches of 1, 1 fault; 2 wakes, 2 dates, an edit, a failure (369k) | `OutcomeOnce`, `ChainsEnd`, `RelayReturns`; `DateFiresOnce`, `DatedGetsRun` |
| `Computer_stop` | a user's stop on a team computer | finding 1 |
| `Takeover_dedicated` | a computer of one bot | finding 2 |

Bounds. `RunLease`: two executions are enough for every race of one claim with one
stale execution; three claims let an old execution be two fences behind, and `LeaseInv`
and `FenceInv` below remove the bound for the safety properties.
`Steering`: three messages are one in the run, one pending and one arriving, and
four slots are a conversation, a routine, a continuation and its successor; slots of
ended runs are used again, and no end of a run is blocked by a lack of slots.
`ThreadFeed`: a batch of two and three events give a full batch, a full batch that is
the last, and a remainder; `ThreadFeed_proofs` removes these bounds for safety.
`ExternalEffect`: three claims are an attempt, its successor while the first is still
inside the call, and one that replays after the answer; the calls are the three policies and
a repetition, made by a run alone or in pairs (`Together`); the attempts differ by name only,
so the first is `a1`'s. `MessagingOutbox`: two attempts per row and a cap of one reach both limits.
`CloudAgent`: three provider runs are the launch, the follow-up and one that the provider
started without telling; where polls overlap, its runs finish and do not fail, and calls are
not lost (one poll at a time meets failures, losses, deaths and cancellations).
`ComputerLifecycle`: four boxes are the row's, one being made
by each of two operations, and one lost; every pair of operations that may race is in a
setting, with a run where it matters. In `Computer` fences need not be told apart
(`MaxFence` 1); `Computer_stop` tells three apart. `Takeover`: a third lease is the one a
request still remembers while the second is given away; a second run of one bot is there
for the lapse of an execution lease, in the setting that has lapses. `BotMessages`: with two hops and
five runs a chain reaches the limit, goes back, and is refused; `Room` admits a request
only while every outcome still owed has a row left, so no return is blocked by the bound.
A batch of one makes an outcome that cannot be returned stand before all others.
`Routine`: three run slots for two dates, since a failure may start one date again. An edit
that needs a date after the last one does not happen.
Deadlock is checked in `ThreadFeed`. Everywhere else the bounds, or the end of the runs,
requests and polls that a behaviour has, really end it.

Fairness. `RunLease`: the reconciler's timer fires, a job in the queue is delivered,
and a handler continues its bookkeeping (not the model's turn, and not users). A
crash forgets the handler, so its fairness asks nothing of a dead process.
`Steering`: a queued run begins, its runtime makes its first claim, the user answers
an ask, and an attempt that runs again and again at last ends (strong fairness,
since yields interrupt it). That runs do not yield for ever and that asks are
answered are assumptions about the world, not about the code; the rest is what
`RunLease_live` shows. `ThreadFeed`: the subscriber's loop runs, its catch-up timer
fires, and a client reopens its stream; nothing is assumed of signals, connections or
publishers, which is the point. `MessagingOutbox`: time passes, a drain is started while
a row is due and goes on. `CloudAgent`: polls are started and go on, leases lapse, the
provider answers about the newest run again and again if it is asked again and again, and
a run that it was told to stop stops; that a run ends by itself is not assumed.
`ComputerLifecycle`: operations go on and provider calls return, a dead owner's lease
and claim grow old; nothing makes a user ask or an operator act. `Takeover`: requests go
on, leases fall due, and the expiry of a due lease is enqueued again and again (strong
fairness: the reconciler looks for it every interval, and jobs in between may find other
work). `BotMessages`: only the reconciler is fair, workers owe nothing. `Routine`: time
passes, a due date is woken by the reconciler's query, a wake that lives goes on, and a
queued run begins.

## Findings

1. **A stop forgets the fence** (`Computer_stop`). `computer.stop` deletes the bot's
   execution lease row (router.ts:1967, and 1375 when a bot is moved), so the next
   acquisition starts from fence 1. computer-lifecycle.ts:559 says why the row is kept
   everywhere else.
2. **On a dedicated computer a release resumes nothing** (`Takeover_dedicated`). There is
   no execution lease row from which the grant could learn the waiting run, so it
   overwrites the `controlRunId` that `pauseRunForTakeover` has set with null
   (router.ts:2190), and the run stays in `waiting_takeover`. On a team computer a pause
   that falls between the look at the lease and the grant (milliseconds) does the same, and so
   does a grant after the execution lease of the waiting run has lapsed and another run of its
   bot has taken the row (TLC finds it in `Takeover`, where `TakeoverFindsRun` fails without
   `HoldsLast`). `RunLease` has the runs that wait so as `ctl` = "left".

## Observations

Seen with TLC on other instances of these modules, or while translating; no run keeps
them.

*Runs and messages.* The claim of a run compares status and checkpoint but not the fence
it read (executor.ts:1118): two executions in one process can hold the same owner and
fence, which is why `OneWriter` is stated for executions in different processes.
`archiveBot` reads the active runs and cancels them by id later (child-bots.ts:287,
and `destroyBot` alike), so a run that ended in between is rewritten. A reclaimed run
forgets that the user holds the screen (takeover-resume.ts:48). A steering row released
by a failed run keeps `claimedAt`, and the next claim may show it without taking it
(events.ts:529); a group's follow-up steers a routine (router.ts:1788); a direct chat and a
channel whose rows were attached to a busy run are answered together (events.ts:444).
`NoStrandedSteering` holds only while no run is withdrawn, and where no run of another
bot writes in the thread. `run-state.ts` does not list running to queued, which every
requeue does. `cancelSupersededQueuedRuns` cancels nothing where it is called.

*Cloud agents.* The claim of a poll compares version and lease, but marking a follow-up as
dispatched and `retryPoll` do not raise the version: a poll that goes on with a row it read
before that may send a follow-up a second time (cloud-agent-poll.ts:28). Its property
`FollowedToTheEnd` excepts exactly these behaviours (`staleClaim`). A follow-up marked and
never sent leaves the agent running (`dropped`), and so does one that was refused when the
poll could not write the refusal, dead or overtaken by a cancellation (`unheard`): the mark
stays, and the agent is polled for ever. So is a cancelled launch that the provider refused.
When the answer to a launch is lost, the poll repeats it; a 400, 401, 403, 404 or 422 to the
repetition becomes `CloudAgentRequestRejected` (cursor-cloud-agent.ts:204), although adapter-kit
defines that error as "rejected a request before starting remote work" (cloud-agents.ts:1),
and the poll writes "failed" without a remote id (cloud-agent-poll.ts:92): the agent works on,
and nothing follows or cancels it. `FollowedToTheEnd` and `UnwantedStops` except exactly this
(`Disowned`).

*Approvals.* Two attempts of a run may decide differently about one call, since each reads
rules and preference for itself and a review is a model's: one pauses with a card, the other,
let through, takes the row, and nobody can answer the card (events.ts:617).
`AskCanBeAnswered` excepts exactly the calls that some gate let through. An approved request
is taken off the queue before its arguments are checked and before its occurrence is counted
(executor.ts:2012), so `assertDrained` lets a run complete over an approval that nothing used;
`NoApprovalForgotten` says that this happens in no other way.

*Outbox.* A crash between claim and send loses the message, which stays "sent". The
reconciler does enqueue drains for due rows, though messaging-delivery.ts:434 says that
none reclaims them. The cap on unanswered messages is compared in a statement of its own.
That the provider answers within the 20 s of the invite's transaction is assumed.

*Computer.* A user's stop writes back the state it read before its claim and stops the box
whose reference it read then (router.ts:1961), so `RunKeepsBox` speaks of the time before
one (`NoStop`), and `LifeTypeOK` promises a running row a box only where no stop of one bot
meets a run of another (`StopsAlone`). The claim of reset, update and recover
compares the state but not the reference: of two resets of a dedicated computer, the second
may claim the row that the first has given a new box, and forget that box; and a reset
may do so beside a boot and a user's stop. `LostIsOwed` therefore holds in the settings of
`Computer`, where two replacements meet only on a team computer, whose execution leases keep
them apart, and not in general. Two runs that both find an abandoned suspending row
may block each other's reclaim with their retry leases for ever, hence
`LoneRunGetsComputer`. The idle stop may suspend a dedicated computer under a run that
waits for the user. Boots, resets and stops that take longer than five minutes are
assumed not to happen.

*Screen.* An expiry that has read a due lease denies it by its id only, so a lesson that
extended the lease in between loses its control (computer-control.ts:205):
`ActiveControlKept` names that step. A release that races a pause finalizes nothing and
answers ok. Teaching keeps another bot's `controlRunId`.

*Routines and bots.* An edit that races a firing writes back the date it read
(router.ts:2612, 2686): that date fires again, and a one-shot that has run is armed again. A
rollback restores a date whose run the reconciler may have begun (executor.ts:1067), and
re-activates a one-shot that was paused or whose bot was archived in between.
`DateFiresOnce` says that nothing else makes a date fire twice. The outcome of a delegated
run that is stopped or archived is not returned.

## Proofs

Every invariant, every refinement and every action property that a run checks is also
proved, for all values of the constants; `LostIsOwed` needs a condition on the behaviour,
as does `TakeoverFindsRun`, which no run checks, and the properties of the findings are false. Each proof is of one inductive
invariant, which TLC has checked before; the lemmas follow the steps, with one case per
kind of step.

**`RunLease_proofs`**, for any number of executions, processes and claims. `LeaseInv`
(types, `LeaseOwnership`, the plan of a handler that has read the row is the plan of what
it read, a handler at work whose attempt is not running belongs to a cancelled run) is
inductive with no assumption about processes. `ReadPlan` is needed because a claim resumes
with a plan made before it, `AttemptInv` because the commits match the attempt. From it
`TypeCorrect`, `LeaseOwnershipHolds`, `AttemptAvailableHolds`, `ReleaseReachesPlanHolds`
and, without the archive path, `TransitionsHold` and `TerminalStableHolds`. `FenceInv` adds
that the owner of a leased row is the process of the last claimant and that no release has
answered the request of a held run. It is inductive when overlapping executions are in different processes
(`DistinctProcesses`), which is necessary, since the claim does not compare the fence it
read (executor.ts:1118); then "owner is my process" already identifies the execution. From
it `OneWriterHolds`, `OnlyClaimantWritesHolds` and `ReleaseEndsTheWaitHolds`: after the
release a run waits for the screen only if it has asked anew, whatever plan an old execution
still carries. (That somebody can release a run that waits is not true: finding 2.)
`ImplementsLife` is the refinement `KeepsLife`: with `DistinctProcesses` and no archive
path (`NoArchive`: then no run is ever cancelled by an old read), each step of an execution
is a step of `RunLife` or none, whatever stands beside it. The argument is about the
steps that write the status: a claim takes, a start begins (`CanStart` finds the fence of
the claim, and `FenceInv` says whose that is), a fenced commit settles, and all others
leave the status alone and move executions outwards (`OnlyLeaving`, `QuietStage`). Both
conditions are necessary: TLC finds the promise broken by two executions of one process,
and by an archive that cancels a run which has ended.

**`Steering_proofs`**, for any number of runs, messages and routines. Types hold in every
setting. `ConversationsStartAlone` needs only that no run of another bot or of a team chat
starts beside the conversation; it is proved step by step, without an invariant besides the
types. `ASettledRowWasShown` holds in every setting, by `ShownInv`: a claimed row is of a
kind and a chat from which its run takes steering (`TakenAgain`), so that a next attempt
that forgot what it was shown finds it again before it completes.
`NoSteeringIsStranded` is for a bot in its own thread (`OwnThread`: no group, no team
channel, no run of another bot, nothing withdrawn). Its invariant `KeptInv` says that a row
has a living conversation, or is pending while some run lives, or has been given to its one
second run; that there is one conversation (`OneConversation`); and that a row left pending
beside a conversation is of the other origin, which is why the end of that conversation
continues it (`PendingIsForAnother`). Each part of `OwnThread` is necessary: in each of the
settings it excludes TLC finds a row that is left behind.

**`ThreadFeed_proofs`**, for any transactions, subscribers and batch size: types and the
refinement of `EventFeed`. `FeedInv` says that the holder of the row's lock has consecutive
numbers from the committed counter on (`Numbered`) and that what a subscriber has read
misses no stored event before its end (`BatchInv`); `FirstIsPrefix` is the fact about the
first `Batch` elements of a set of numbers. `NoWakeupIsLost` adds `WakeInv`: a subscriber
that has observed its generation either finds it changed, or has a wake-up still to come
(a signal due or on the wire, a connection that is down or a signal that was lost: the timer
then is what wakes it), or what it has read and been given is everything that is stored.

**`ExternalEffect_proofs`**, for any calls, policies, attempts and claims. `EffectInv`:
types, `OneDoes` (a consequential call is in the hands of one attempt, and nothing has
happened before it acts), `ResultsAreReal` (who stores a result has acted) and `GateHolds`
(what is asked about is not plain, what is not asked
about has passed a gate, and the mandatory never passes one, however the gates decide). From it
`HappensOnce`, `OnlyAllowedHappens` and `ResultsTellTheTruth`. `AskInv` says that whoever is
about to ask has a row that is open to be answered or that another gate let through, and that
a call which acts without a claim has passed a gate: `CardsCanBeAnswered`. `ReplayInv` says
that an attempt that holds the run owes each approved call (`Owes`): it has its request before
it or has taken it, and has not come past its row: `ApprovalsAreUsed`.

**`Takeover_proofs`**, for any runs, requests and leases, team and dedicated computers
alike. `TakeInv`: types and, for each request, `Sound`: what it is aimed at, that an ousting
takeover holds a lease of another bot, that a denial comes after a due read and a
finalization after a denial or from the bot's own release. From it `ControlIsKept`.
`ATakeoverFindsItsRun` is the counterpart of finding 2: on a team computer a takeover that
looks at the execution lease while a run of its bot waits is not refused, and goes on to a
grant for that run. Its condition on the behaviour, `HoldsLast`, says that the execution
lease of a run that waits or was steered has not lapsed; without it another run of the bot
takes the row, and the theorem is false. `Named` is what it gives: the lease row of a bot
names the run that waits, since no other run may take a live row.

**`ComputerLifecycle_proofs`**, for any bots, operations, deaths, faults and boxes.
`LifeTypes` adds to the types that one operation holds a stamp that is still the row's
(`OneHolder`), what an operation has read at each place (`Fit`), and that a replacement
which will give the row back claimed one that has a box (`GivesBack`):
`LifeTypesAreRight`. `KeptInv` holds until a user stops the computer. An operation between
its claim and its last write still has the row's stamp (`HolderOK`), which makes it the only
one: `OneOwnerOfTheRow`. While a run is at work, that operation is a boot which reconnects
to the run's own box, the run's own save, or a replacement that is about to give the row
back; its later steps, those that destroy, stop or vacate, are reached only when nobody
works. Whoever waits to take a claim over (`LookerOK`) knows a row that no live operation
holds and on which nobody works: a stamp grows old in the hands of a live operation only if
it is a run's slow boot, and that run is seen. Then a run at work has the row's box, and it
is up (`WorkerOK`): `WorkingRunsKeepTheirBox`, whether or not the run's execution lease is
still live. `LostIsOwedHolds` proves `LostIsOwed` under two conditions on the behaviour: no
user stops the computer (`NoStop`), and a replacement that has claimed the row knows its box
(`ClaimsKnowTheBox`), which the code's claim does not check (computer-lifecycle.ts:653); the
observations show that it is needed. `OwedInv` counts the loose boxes, those which neither
the row nor a boot has in hand: a boot that made a new box has lost the old one, a
replacement vacates the row whose box it destroyed, and each step that makes a box loose
counts a death or a fault. So that claim is the only way in which reset, update, recover,
boot and idle stop forget a box. `FencesFallByStopsOnly` is the counterpart of finding 1: of
the operations modelled, the user's stop is the only one that lowers a fence.

**`Deliveries_proofs`**. Of the outbox, for any rows, drains and limits, `OutInv`: at most
one drain is on a row (`Alone`), which has been delivered no more often than failures
explain before it is sent (`RowOK`, `WorkOK`), and an invite goes out under the lock of a
pending connection: `EveryCopyIsExplained`, `InvitesAreNotStale`. Of cloud agents, for any
polls and runs of the provider: `WakeInv` (no generation is reported before it exists, and
a reported one is marked in the row until the follow-up that starts the next) gives
`WakesOnce`. `CloudInv` gives `EndedAgentsHaveEnded`: the row names the provider's newest
run, or the one before it while a follow-up is dispatched (`Following`); one poll sends
that follow-up (`Sending`); and a poll that holds the lease knows the row as it is, but for
what it has marked itself (`Knows`), and, if it was refused a follow-up, that the provider
has started nothing for it (`RefusalOK`), until a stale claim breaks this. A disowned launch
is the other exception the theorem names. `SettingsOnlyRestrict`
says that `MCDeliveries` adds no behaviour to the three machines: each of them takes steps of
its own specification or none. With it their types hold in every setting
(`DeliveriesTypesAreRight`).

**`Wakes_proofs`**. Of bot messages, for any bots, hops and runs, `MsgInv`: the hop of a
run's source counts the whole way from a person, since chains inside a group are hand-offs
and chains outside are messages (`ChainInv`); an outcome is told by the bot or returned
for it, not both, and marked as returned only then, whoever is in the middle of returning
it (`OutcomeInv`); none is listed twice (`EachOnce`). From it `EveryChainEnds` and
`AnOutcomeIsToldOnce`. Of routines, for any wakes and dates, `RtInv`: a date
that has fired is behind the schedule, unless a rollback or an edit has set the schedule
back to it or before it, which a rollback may do although the date's run has begun
(`FiredIsPassed`), and a wake at its claim moves the schedule past
the date it claims (`ClaimMovesOn`): `ADateFiresOnce`. The settings of `MCWakes` only
restrict the two machines as well (`SettingsOnlyRestrict`, `WakesTypesAreRight`).

Assumptions of the proofs are the named ASSUMEs of the modules (`WorkerOf` maps
executions to processes, null values are not processes or rows, bounds are naturals,
calls have one of the three policies and repeat calls of the run, a dedicated computer has one bot) and the conditions
named above. `LeaseOwnership`, `AttemptAvailable`, `TransitionsKept`, `TerminalStable`,
`OnlyClaimantWrites`, `OneOwnerOfTheRow`, `OnlyStopsLowerFences` and `TakeoverFindsRun` are
proved and no run keeps them.

Only model-checked: that `LostIsOwed` holds in the settings of `Computer` without its
second condition, and all liveness (`DueIsTakenUp`, `SteeringSettles`,
`EveryEventGiven`, `RowsSettle`, `SoleUnwantedStops`, `LoneRunGetsComputer`,
`ControlEnds`, `RelayReturns`, `DatedGetsRun`), which rests on fairness and ENABLED and is
out of the prover's reach.

## Not modelled

Model runtimes, tools, sandboxes, browsers and clients are I/O: what the executor
sees of them is a nondeterministic choice. History compaction is one compare-and-set.
Access, billing, configuration and localisation are data and checks of single requests.
Left out of modelled components: the reconciler's leadership, which only limits how often
it runs; inbound deduplication of messaging apps; the recording and replay of taught
skills; a bot's move between its own and the team computer; secrets asked for by a tool
call; webhook, GitHub and message triggers of routines. Contents of messages, prompts and
payloads play no role in any property. Most lines of the repository belong to these
parts: clients, adapters of providers, and pages.

## Plan

1. The bot's move between computers, which couples `ComputerLifecycle` with `Takeover`.
2. Inbound messages of the messaging apps with their delivery rows and mirrors.

`RunLife` has no counterpart for the screen: an abstract control of one screen would say
less than `ActiveControlKept` does, which speaks of the rows themselves.

The runs stay few: modules that share no row share a run in settings of its own, and a
finding whose code is settled keeps its paragraph above and gives up its run.
