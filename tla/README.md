# A TLA+ verification of ferrule

ferrule is a personal agent: a Rust workspace in which a model-driven agent
loop, a tree of sub-agents, a chat gateway, a scheduler, a trust layer and a
set of tools run as tokio tasks in one or several processes over a few SQLite
files. This directory holds the TLA+ modules of the parts whose correctness is a
matter of *interleaving*: what is checked by TLC on small instances, what is
proved by TLAPS for all instances, and what the plan still has ahead.

All paths below are relative to the repository; `PROJECT.json` names for every
definition the lines it translates.

## 1. Inventory

Each entry: the state a part keeps; what changes it; whom it interacts with;
what is hard about it; what makes it correct.

### Agents (crates/ferrule-agents)

| part | state | operations | correct when |
|---|---|---|---|
| supervisor (`supervisor.rs`, `lifecycle.rs`) | per process: `Live` (stop flag, join handle, inbox) of each agent, `spawn_lock`, the `finishing` counter, the root's waker | `spawn`, `place`, `start`, `finished`/`report`, `wake_root`, `wait`, `resume`, `close_tree`, `busy` | limits hold, an agent runs once at a time, every end is recorded once and heard once, a close reaches everything |
| store (`store.rs`) | `agents` table (status, parent, depth, owner, workspace, usage); owner lock files | `insert`, `set_status`, `finish`, `claim_process`, `mark_interrupted`, `running_elsewhere` | a row says running only while somebody will end it; dead processes are recovered, live ones left alone |
| task list and board (`board.rs`) | `work`, `work_deps`, `board` tables | `add_task`, `claim`, `finish_task`, `release_claims`, `post`, `read_board` | one holder per task, dependencies first, failed holders release |
| repo copies (`worktree.rs`) | a git worktree or snapshot per agent | create, diff, remove | the copy exists while its agent runs, and is tidied after |
| tools, prompts, fork, fence, shared mounts | none beyond the call | argument checks around the supervisor | refusals are told to the model |

Interaction: a parent's tool calls run inside its own task and call the
supervisor; a child's run is a task of its own that ends in `finished`, which
writes the row and then puts a notice in the parent's inbox; the parent's agent
loop reads the inbox before each model call (`deliver_inbox`), and an idle root
is woken through a `Waker` (a lane of the gateway, or the channel of `ferrule
run`'s loop). The dashboard and `ferrule agents close` close subtrees. Every
SQLite statement is one critical section; only `spawn` and `resume` hold a lock
across several.

### Agent loop (crates/ferrule-core)

`agent.rs` (messages, iteration and token limits, tool batches, inbox delivery,
compaction), `failure.rs` and `stuck.rs` (retry classification, repeated-call
detection), `routing.rs` (model tiers and escalation), `transcript.rs` (JSONL).
State is that of one conversation and is used by one task, whose every await may be
cut by the owner's guard and whose tool calls run side by side; what is hard is the
order of its history and transcript under cancellation, compaction and crashes
(every tool call has its result, a resume continues where the run was), the finish
that checks and hooks send back, and the bounds that end a run.

### Gateway (crates/ferrule-gateway)

`router.rs` keeps one *lane* per chat (queue, `LaneState`, turn guard, steering,
turn marker), used by the dispatcher of `gateway.rs`, by the scheduler
(`dispatch_and_wait`), by the supervisor's wake-ups, by `/stop`, `/new`, model
changes (`retire`) and by a stop of the bot (`drain`). Hard: a lane is looked up
under one lock and used after it is released; a turn is started, armed, run and
finished in steps that `stop`, `reset`, `retire` and `drain` fall between; a
crash leaves a turn marker that the next start offers again. Correct when a
chat's messages keep their order, none is lost silently, two agents never share
a transcript, and an interrupted turn is neither lost nor run a third time.
`scheduler/` executes due tasks one after the other, beside `ferrule tasks run-now`
in a process of its own and the dashboard's edits: correct when runs of a task do
not overlap, a missed backlog is one run, and what is due is run. `resume.rs`
keeps the marker of a running turn. `health.rs` restarts channels with a back-off;
`channels/` are protocol clients; `stream.rs` edits a reply in place.

### Trust (crates/ferrule-trust)

`hub.rs`, `approval.rs`, `guard.rs`, `grants.rs`, `plan.rs`: approvals that wait
for an owner, expire and are answered late; `meter.rs` and `kill.rs`: caps
checked before a call and charged after it, and a switch that ends every run;
`classify.rs`: a pure function over command text. Correct when an answer is used
once and for the question it answers, and when spend exceeds a cap by at most
the calls in flight.

### The rest

Providers and subscription engines (one request at a time), built-in tools,
memory and embeddings, MCP client, skills and hooks, extensions, WebAssembly
plugins, learning loop, evaluation harness, connections, sandbox and proxy, SSH,
telemetry and media, code map, the command line with dashboard, setup and
self-update. They are listed one by one in `PROJECT.json` with the reason why
they are not modelled: mostly I/O, text processing or third-party protocols;
three (MCP request table, extension install, self-update) have a small state
machine of their own and are at the end of the plan.

### What is hard to test

`PROJECT.json` lists the hazards at their lines. The recurring shapes are: a row
read before a lock and acted on under it; a walk over a tree that still grows; a
flag set by one task and reset by another that had not started yet; a counter
and a table read one after the other; a notice put where the reader has just
looked; a file that exists before it is locked; a clean-up that the abort of a
task cuts in half.

## 2. Modules

| module | what it models |
|---|---|
| `Supervisor` | the supervisor of one process: rows, tasks, reports, inboxes, waits, resumes, closes, the root's driver |
| `AgentOwners` | the owner lock files, restart recovery and liveness probes of several processes over one store |
| `Router` | the lanes of one chat: queue, merging, steering, wake-ups, stop, retire, reset, drain |
| `ChatMailbox` | what the router promises the person: one mailbox, read in order; the abstract specification `Router` implements |
| `TurnMarkers` | the marker of a running turn, its offer after a stop or a crash, `/continue`, and what `/new` removes of both |
| `AgentLoop` | one agent's loop: model calls, tool batches, gates, checks, hooks, compaction, transcript, halts and crashes |
| `Approvals` | the approval gates of one run tree: questions, codes, grants, refusals, kill switch |
| `Caps` | the ledger of several processes, their meters, and the caps of a run, a day and a task |
| `Scheduler` | the task table and its runs: tick loop, `run-now`, edits, deaths |
| `SupervisorProofs`, `AgentOwnersProofs`, `RouterProofs`, `TurnMarkersProofs`, `AgentLoopProofs`, `ApprovalsProofs`, `CapsProofs`, `SchedulerProofs` | of each, the inductive invariants and the theorems (section 5) |
| `MC...` | the instances: symmetry, and constants that are functions |

`Router` composes with `Supervisor` through the wake-up of an idle root (an abstract "may
refuse" there, `Wakes` here), with `AgentLoop` through the inbox (`GoesOn` there,
`TurnReads` here), and with `TurnMarkers`, which has the same lanes, their queue and the
joining of its jobs reduced to what the marker depends on. `Approvals`, `Caps` and
`AgentLoop` share the guard: what the first two decide is the signal `halted` of the
third.

### Supervisor

*State.* The columns of the `agents` table are functions on the agents (`status`,
`parent`, `depth`, `copy`; `run` numbers the runs of an agent and is history).
`task`, `stop`, `handle` and `inbox` are an agent's `Live` entry and its task.
`rep`, `out` and `hand` say where the report of a run stands, how the run ended,
and which items `wake_root` has taken from the root's inbox. `op` is each
caller's supervisor call in progress with its locals (`child`, `ids`, `got`,
`tidy`): an agent makes its calls one after the other, so one record per agent
is enough, and the owner at the dashboard is one more caller. `root` and `woken`
are the root's driver; `claim` and `disk` what a close or report touches outside
the supervisor. `heard`, `told`, `refused` and `revived` (the agents a resume set
running after a close) are history.

*Steps.* An action is one critical section: one SQLite statement, one locked
section, one access to an atomic. So `spawn` is `SpawnRow` (the count and the
insert, under `spawn_lock`), `Place` (the copy of the repo), `StartResets` and
`StartLaunches` (or `StartFails`); `resume` is `ResumeReads` (before the lock)
and `ResumeRow`; the end of a run is `RunEnds` followed by the steps of
`report` (`ReportClears` .. `ReportDone`), the wake-up of an idle root included;
`wait` is `WaitBegins`, `WaitReadsRows`, `WaitChecks`, `WaitForgets` in a loop;
`close_tree` is `CloseBegins` (the walk), then `CloseMarks`, `CloseHalts` and
`CloseDrops` for every agent from the leaves up, then `CloseJoins` or, after the
grace period, `CloseAborts`, and `CloseTidies`. The grace period is a choice:
any agent may outlive it. The dashboard first asks, agent by agent, whether it
runs elsewhere (`OwnerAsks`, `OwnerAsksNext`); since the store it asks has
claimed no process, an agent that runs here refuses the close, as the code does
(section 4, seen while modelling). `RootEnds` .. `RootLeaves` are the loop of `ferrule run`
(`run_root`) or a chat's lane as far as the supervisor sees it.

*Abstraction.* Texts, results, prompts, models and token counts are left out; a
notice is the pair of a child and a run. Statements on the store succeed, except
that it may refuse the end of a run (`ReportRefused`). The
set of tool calls an instance makes is the constant `Tools`, so each run pays
only for the interleavings its question is about.

### AgentOwners

*State.* `pc` is where a process's start stands; `file` the lock files in
`agents.owners/`; `held` who holds each file's lock (its owner, or somebody's
probe: `alive_elsewhere` takes the lock to find out whether it is taken);
`status` and `owner` the rows; `todo`, `gone`, `probe` the locals of
`mark_interrupted`; `ask` a `running_elsewhere` question in progress. `runs`,
`dead`, `masked` and `overlapped` are history.

*Steps.* `Creates` and `Locks` are `claim_process` (the file exists unlocked in
between); `ReadsRows`, `Probes`, `ProbeDrops`, `Marks`, `ListsFiles`, `Removes`
are `mark_interrupted`; `Runs` and `Ends` write rows; `Dies` ends a process at
any of these steps and frees its locks (the operating system's part, marked
external); `Asks` and `Answers` are a question from a short-lived store.

### Router

*State.* `cur` is the chat's entry in the router's map of lanes. Per lane: `w`,
`job`, `held`, `late` are its task's place in `run_lane` and its locals; `queue`
the channel; `queued`, `busy`, `retired`, `stale` the `LaneState`; `open` and
`waiting` the `Steering`; `stopped` the `TurnGuard`. `call` is what the dispatcher
and the dashboard are in the middle of, `waker` a wake-up of the supervisor,
`phase` how far a stop of the bot is. `accepted`, `read`, `cut` and `told` are
history.

*Steps.* The dispatcher either steers a message (`Steers`, one step under the
router's lock) or offers it: `OfferFinds` (`lane_for`, which may spawn a lane, or
`OfferRefused`), `OfferCounts`, `OfferSends`, each a critical section of its own.
A lane goes through `Receives`, `ChecksRetired`, `MergesNext`, `Starts`, `Arms`,
`Opens`, `TurnReads` (`deliver_inbox`), `TurnEnds`, `Finishes`. `Stops`, `Retires`
and the three steps of `reset` are `/stop`, a model change and `/new`; a chat's
commands run in the dispatcher itself, the dashboard's beside it (`Beside`).
`Closes` .. `Drained` are the bot's stop: the dispatcher is dropped at one of its
awaits, what waits is dropped, the running turn gets its grace and is ended.

*Abstraction.* Messages are numbered as they were sent; all of them come from one sender,
and any may be one that never steers (a voice note). Voice notes, photos, typing,
streaming and the reply's text are left out; so are the scheduler's `dispatch_and_wait`
and the turn markers (`TurnMarkers`). A task that outlives `RESET_WAIT` is aborted at
once. `wake` counts and sends in one step: it holds the router's lock, and a lane's own
steps in between lead to the same states, with one exception left out: a wake-up that
passed the closing check, counts after `close` cleared the count, and is refused by a full
queue once the lane has started, takes one off a count of zero.

### ChatMailbox, and the refinement

`ChatMailbox` has a mailbox `mail`, what was `seen` of it, and `clearing`. A message
comes in at the end (`Accept`), a turn takes some of the front (`Take`), and only
while the chat is being cleared may anything be dropped. `Router!IsAMailbox` is
`Mailbox!Spec` under this mapping: `mail` is, for each lane that is not gone, the job
it took and has not started, then what steered too late, what waits for the running
turn, the held jobs and the queue, the person's messages only; `seen` is what turns have
read; `clearing` holds during a `/new` and after the bot's stop began. So a counted
message that a full queue refused, a lane that is replaced, a merge and a steer are
all either a step of the mailbox or none. The fairness of the mailbox (what waits is
taken) is implied by the router's.

### TurnMarkers

*State.* `turnFile` and `offerFile` are the two files of a chat in `resume.rs`. `queue`
holds the jobs of the chat's lane, each with the messages it stands for and whether it is
a second try. `lane` has two slots, the `current` lane and one that `/new` has put
`aside`: where its turn is, its marker in memory (`mark`), the turn's changing tool call,
the unread event about it, and how the turn ended. `reset` is where a `/new` is, `taking`
the turn `take_up` has yet to tell the chat about, `resuming` where the resumer and the
chat's `/continue` are in `resume`. The rest is history: `joined` counts how often a
message's second try was joined to another message, `settled` holds the messages that
were answered or given up.

*Steps.* `Takes` is `run_lane` taking the jobs of its next turn. A person's message is
joined by the jobs that wait behind it, a second try among them, for `resume` queues it as
a person's; only the first job's flag is looked at, so the turn they make is no second try
(`Marked`). How many are joined is left open: a job that is no person's ends the joining
early, and held jobs keep it from starting. `Begins` writes the marker; `Calls` sends the
event, `Changes` is the tool's effect, `Notes` the drain's `Marker::called`, each on its
own because two tasks do them; `Returns`, `DrainEnds`, `MarkerEnds`, `Replies` end the
turn in the code's order. `resume` is `ReadsOffer`, `FindsLane`, `QueuesTurn`,
`RemovesOffer`; a sender taken from the map before a `/new` leads to the lane put aside
(`stray`). `Router::reset` is `ResetRetires` (the lane out of the map, retired, its turn
stopped), `ResetEnds` (its task has ended or is aborted, the marker is removed) and
`ResetLetsGo` (the offer is removed): meanwhile the resumer, or after the dashboard's new
conversation (`dashboard/chat.rs:450`) the chat itself, may build a new lane, whose marker
is the same file. The process ends at any step (`Ends`) or is stopped (`Closes`, which may
cut a waiting `/new` short, and `StopsForRestart`), and `Starts` renames what it finds. A
write of the marker may fail.

*Abstraction.* A message is its number; one chat; one changing call per turn stands
for the first, since `acted` never goes back. What steers a running turn is in `Router`
only: the marker does not have it. The chat's own `/new` holds its dispatcher until it is
done and the dashboard's does not; the module allows both. A second `/new` waits here
until the first one's lane and its drain are gone.

### AgentLoop

*State.* `history` is `Agent::messages`, `disk` and `torn` the transcript; a message is
its role and the ids of the calls it makes or answers. `pc`, `iter`, `final` and the
counters are the locals of `run_inner`; `calls`, `at`, `gated`, `ran` an answer's calls
and the segment that is gated and run side by side; `halted` is the guard (kill
switch, caps, a stopped turn), `stopped` the flag of a sub-agent; `spent` the token
budget. `announced`, `dirty`, `lost`, `unlogged` and `ids` are history.

*Steps.* One await is one step, since a halt can cut the loop only there. `GoesOn`
delivers the inbox; `Sends` and `TooLong` fold the history (`Folded`, then
`FoldLogged`, with the await of the event in between) and send the request; the model
`AnswersCalls`, `AnswersGarbled`, `AnswersText`, `AnswersStatus` or `Fails`; a call is
announced, gated, waits for its serial group and a slot, and ends
(`Announces` .. `CallEnds`), the segment's results are taken in order (`Takes`), and a
halt or a stop anywhere in between settles what is left (`AbandonHalted`,
`AbandonStopped`, `RunCut`, `PostHalts`). `ChecksPass`, `ChecksFail`, `StopHookBlocks`
and `Finishes` are the finish, `WrapsUp` the status answer. `Dies` may tear the line
being written; what follows a torn line is lost with it, and the next process starts
from `Replayed(disk)`. `Paired` is what a request is made of.

*Abstraction.* One token a call; texts and the system prompt are left out, and so is
what a tool does beyond changing a file or not. Retries of a failed model call and
the mode that truncates instead of summarising end in `Fails` or in the call itself.

### Approvals

*State.* Per agent: where its gated call is, and the question it waits for; the
tree's `RunState` (`granted`, `streak`, `total`, `escalated`); `standing` grants and the
stop file, which outlive the process; of `Approvals`: every question opened, and which
are pending, expired or used, with the answer their channels hold; `shown` are the
messages in the owner's chat. `word` (what the owner meant for a question) and `basis`
(on what a call went ahead) are history.

*Steps.* `Asks` is `TrustGuard::ask` up to its first await; a question is opened,
delivered, sent or not, answered, timed out and withdrawn in the code's critical
sections; the timer that fired and the withdrawal are two steps (`TimesOut`,
`TimedOut`), because an answer can come between them. The owner taps a button of any
message ever shown, says a bare word, or decides on the dashboard; somebody else may
tap too. `Restarts` forgets the questions and keeps the messages.

*Abstraction.* Which calls are gated is not modelled here: agents make gated calls
only. A code is a model value; codes age out at any time (`Aged`).

### Caps

*State.* `ledger` is the file, whole rows and torn halves; `meter` each process's
incremental count with its offset and day; `spend` a tree's spend in memory; per agent
where its model call is, and whether it was over a cap when the call began.

*Steps.* `Stops` or `Passes` is `check`; `Calls`, `Looks` and `Cuts` are `halted`, racing
the call; `Answers` charges, `Records` writes the row (whole, torn or not at all), in two
steps as the sink does. `NextDay`, `Flips` (kill switch, the file's permissions) and
`Dies` happen at any time.

*Abstraction.* Tokens and dollars are one unit. The day of a row is its stamp. Warnings
near a cap, a change of the caps and the ledger's rotation are left out.

### Scheduler

*State.* The columns of `tasks` and `runs`; per process the row it read (`job`), where
its `execute` is, and how the agent's turn ended; the tick's list; whether the gateway
is up and held by the kill switch. `served`, `recovered` and `left` are history.

*Steps.* One SQL statement each: `Ticks` reads the due rows, `TakesNext` takes one as it
was read, `Starts` is the guarded insert, `Wakes` the gate, turn and delivery,
`Finishes` (or `FinishRefused`) and `Records` the two writes after it. `GatewayStarts` calls
every running row interrupted. `Adds`, `CliRuns`, `RunNow`, `SetSchedule`, `SetEnabled`,
`Deletes` and `Holds` are the owner's.

*Abstraction.* A cron schedule is a period on an integer clock, `NextOccurrence` its
next instant strictly after another; what a run does is its outcome.

## 3. Runs

| run | instance | shows |
|---|---|---|
| `supervisor_close` | a worker and a verifier with copies, that close and are closed by the owner; the store may refuse an end | `RunningHasRunner`, `CopyUnderRun` |
| `supervisor_gateway` | a chat's root with two children, one resumed, waits and claims, a waker that may refuse | `TypeOK`, `EndIsHeard`, `NoticeDropped`, `ChildrenWithinLimit`, `SingleRun`, `RecordsOwnRun` |
| `supervisor_loop` | `ferrule run`'s loop with waits, deadlines, closes | `LoopExitComplete`, `NoStrandedNotice`; fair: `LoopEnds` |
| `owners_start` | two starts of the gateway and a `ferrule run`, deaths at any step, questions | `LeftAloneBySingleStarts`, `DeadMarked` |
| `router_chat` | three messages, a sub-agent's news, two lanes, a queue of one | `OneAgent`, `NothingLost`, `QueueCounted`, `DroppedAreTold`; fair: `IsAMailbox` |
| `approvals_owner` | two agents, two commands, two chats, two runs, a restart | `OnTheOwnersWord`, `PendingIsAwaited` |
| `approvals_ends` | two agents, every route, both ways to turn the switch on | fair: `QuestionEnds`, `RefusalsStopTheRun`, `StopStops` |
| `scheduler_tasks` | a cron task and a one-shot, two processes, an edit, a death | `NoOverlap`, `OneCatchUp`, `RunningIsAlive`; fair: `DueIsRun` |
| `markers_restart` | two messages, a queue of two, two troubles: stops, deaths, refused writes or `/new`s | `AgainOnce`, `NothingForgotten`, `AskedAfterAChange`; fair: `PickedUp` |
| `agent_loop` | two runs of up to three steps, answers of two reads and a write, a fold, and one halt, stop, message or crash | `AnsweredInOrder`, `RequestPaired`, `ReplaysToHistory`, `AnnouncedFinished`, `FinishedIsChecked`; fair: `RunEnds` |
| `caps_spend` | a task in the gateway and a `ferrule run`, two days, three calls, a torn or failed write or a death | `MeterIsLedger`, `SpendBounded`; fair: `CapEndsRuns` |
| `close_breaks_promise` | a worker and a verifier under an owner's close | the finding of section 4 |

What each property says is in the comment above it. The less obvious ones:
`OnTheOwnersWord` relates a call that runs to a word the owner gave earlier, through
codes, chats, runs and restarts; `NothingForgotten` follows a request across two ends of
the process or a `/new`, and lists the steps at which the code lets it go;
`FinishedIsChecked` compares the end of a run with its last change, however often it was
sent back in between; `OneCatchUp` compares the time a run was due with the end of the
last one that was recorded; `MeterIsLedger` compares an incremental reader with one that
reads everything, and `SpendBounded` is what the check before a call is worth when others
were let through by the same count.

*Bounds.* Two children are the least that make a second level, a competing
sibling, or a closer above and below a starter; two runs are the least at which
a report can be late for a newer run; a limit of one running child makes every
second spawn and resume meet the limit. Three processes are the least with a
dead one, a live one and one that starts. The properties relate at most two
agents and two runs, and the theorems of section 5 have no bound. One case is left
to the theorems alone, because it is too large for a run: a resume that overtakes a
close beside copies (`supervisor_close` resumes nobody).
Three messages are the least with one in a turn, one waiting and one that could
overtake it; a queue of one is full as soon as one waits; a second lane is what a
`/new`, a model change or a dead lane leads to. Two questions are the least with
one that goes and one that comes, two chats with one that fails, two runs with an
`always` that comes too late; three codes leave one to draw. Three instants hold an
occurrence before, at and after the end of a run, and three runs one that is
interrupted, one in its place and one more. Two ends of the process are the least at
which a turn could be run again twice, two messages the least at which one
interruption meets the offer of another, and a queue of two the least in which a second
try waits behind a message it can be joined to. Three steps of the loop hold a finish that a
Stop hook sends back, a change after it and the finish again; two reads of one serial
group and a write make a batch with a queue, a segment's end and a change; a second
run starts from what a crash or a fold left. Two processes and two days are the least
for a shared count and a midnight inside it.
Symmetry is used in runs without liveness only, over children of one kind
and over codes.

*Deadlock* is checked in the supervisor runs except `supervisor_loop`, whose
loop really ends. Elsewhere the system may stop: there are no more processes to
start, messages, runs or troubles, or the bot is down.

*Type predicates.* Each module has a `TypeOK`. A theorem states it of every module
but `ChatMailbox`, and a run checks it for `Supervisor`; the other runs
spend their invariants on the properties above.

*Fairness.* Nothing is ever assumed of a person, the owner, a crash, the clock or a
midnight. What is assumed:

- supervisor (`LoopEnds`): a call or report in progress goes on, since none of its steps
  waits for anything but a lock held for one step, the join (bounded by the grace
  period), or a wait whose children end. A run ends: `max_iterations` bounds it, and a
  model or tool call has a time-out; this is strong fairness because a supervisor call of
  the agent's own suspends it. The loop polls.
- router (`IsAMailbox`): the dispatcher finishes an offer it began, a lane's task goes on,
  a turn ends (its iterations are bounded, and `max_turn_minutes` ends it otherwise), a
  reset goes on.
- approvals: each agent goes on: model calls and tools end, a message is sent or not, the
  timer fires, the switch is polled. Nobody at a terminal has to answer.
- scheduler: both processes' executions go on, and the gateway's service starts it again.
- markers: the tasks of the process go on, a turn ends, the service starts the bot again.
- agent loop: a model call returns or fails, a tool or a hook ends or is cut.
- caps: the runtime polls its tasks, and a model call answers or fails.

*Mutants.* Every property is paired in `PROJECT.json` with an operator that
changes one action the way a plausible bug would (a guard dropped, a swapped
order, a step forgotten) and makes the property fail in the same run.

## 4. Findings

**`close_tree` does not keep its word against calls in progress**
(`close_breaks_promise`). It walks the children once before it stops anyone,
and `spawn` does not look at the caller's status: a child spawned after the
walk is never closed. The same run, with the other conjuncts of
`CloseKeepsItsWord` alone, shows a stop flag reset by `start` after the
close set it, a task claimed after its claims were released, and a copy made
after the row was read and never removed.

Seen while modelling and not stated as runs; each is a behaviour of the model, and
where a property would meet it, the property's comment names the exception.

Supervisor and store:
- a closed agent is set running again by a `resume` that read its row before the lock
  (`supervisor.rs:1005`), and the row may then say running for ever;
- what a closed agent still starts before it stops may run on after `ferrule run` has
  left its loop, since `busy` counted before it began (`LoopExitComplete`, `UnderClosed`);
- a resume that fails to start keeps the claims of the earlier run
  (`docs/m12-multi-agent.md:226` says a failed agent's tasks are released); the report of a
  failed run releases the claims of the agent, not of the run, so it may free a task that a
  resumed run has just claimed, and it discards the snapshot named in the row it read,
  which a resume may have replaced;
- two starts that overlap can mark a live process's agents interrupted: the lock file
  exists unlocked between `File::create` and `try_lock` (`store.rs:205`);
- the dashboard's Close refuses an agent that runs in its own process: the store it opens
  does not know its own process's owner id (`agents.rs:358`);
- an end that SQLite refuses leaves a row that says running: its parent's wait for it runs
  into the deadline, and `ferrule run` stays in its loop (`busy`) until it is killed
  (`supervisor.rs:843`; `supervisor_loop` is run without it);
- a wait that runs into its deadline may return an end whose notice still arrives.

Router and markers:
- a message that steered a turn too late is in no count while the reply is sent; a stop of
  the bot then drops it without a word (`router.rs:1471`);
- the dashboard's new conversation takes the lane out of the map before its task has
  ended: a message starts a second agent beside the first (`router.rs:1061`,
  `Beside = TRUE`);
- a stop between `start` and `arm` is answered with yes and forgotten by `arm`; a wake-up
  that passed the closing check before `close` is accepted and dropped with the queue;
- a second try that waits behind a person's message is joined to it, and the turn of the
  two begins as no second try, with nothing noted (`router.rs:1325`-`1352`): after a crash
  it is run again unasked once more, even if it had changed something before. `resume.rs:7`
  says that a turn that crashes the process can't loop, and `router.rs:1323` that a resumed
  request stays the request it was; `AgainOnce` and `AskedAfterAChange` except the joined
  second try (`joined`) and show that there is no other way;
- a `/new` removes the chat's marker after it has waited for the old lane, and that lane
  may write it until then: the marker of a turn that a new lane has begun meanwhile is
  removed or overwritten, and after a crash that turn is forgotten; a resumer that read
  the offer before queues the put-aside request into the new conversation
  (`router.rs:1083` says that it belongs to the one put aside); a stop that cuts a `/new`
  short leaves both files, and the next start takes the request up again;
- a tool's effect may come before `acted` is on disk: a crash in between runs the turn
  again unasked; `take_up` and `/continue` may both queue one turn; a second interruption
  overwrites an offer nobody answered; an offer is removed when its turn is queued, so a
  crash before the turn begins loses it, and so does a lane that a stop has just
  retired; the marker is removed before the reply is sent; "picking it up" is said
  before the queue turns out to be full.

Agent loop:
- a halt at the await of the `Compacted` event leaves the fold in memory only
  (`agent.rs:2590`-`2605`): a resume replays the folded past, where
  `transcript.rs:229` says it is not resurrected; `ReplaysToHistory` excepts it until the
  next fold is logged;
- a call cut in the middle is recorded as "not run" though it may have acted, and a halt in
  a PostToolUse hook records the rest of a finished segment the same way.

Trust:
- a bare yes may approve a question not yet on the owner's screen, when the one it was
  meant for has just expired; an answer between the timer and the withdrawal is told
  "Approved" while the call is refused; codes may be drawn again after a restart.

Scheduler:
- a gateway that dies, or can't write, between the end of a run and `record_execution`
  (`scheduler/mod.rs:241`-`284`) leaves the task due as before: a one-shot or a slot that
  has run, perhaps with its failure told to the chat, is run again, against "always gets
  exactly one run" (`scheduler/mod.rs:31`); `OneCatchUp` excepts it (`unrecorded`);
- an edit of a schedule during a run is overwritten at its end, from the copy read before;
  a one-shot listed by a tick and run by `run-now` first is run twice; a gateway that
  starts beside a live `run-now` marks it failed and lets a second run start; a dead
  `run-now`, or a refused write of a run's end, keeps its task waiting until the gateway's
  next start; the late end of a `run-now` sets a time that was already served.

## 5. Theorems

Every safety property a run checks is a theorem as well; the theorems hold for every
value of the constants.

| module | theorem | states |
|---|---|---|
| `SupervisorProofs` | `TypeCorrect` | `TypeOK` |
| | `RunsOnce`, `RunningLimit` | `SingleRun`, `ChildrenWithinLimit` |
| | `ReportsOwnRun` | `RecordsOwnRun` |
| | `RowsHaveRunners` | `RunningHasRunner` |
| | `EndsAreHeard`, `NoticesDropped`, `NoNoticeStranded` | `EndIsHeard`, `NoticeDropped`, `NoStrandedNotice` |
| | `CopiesKept` | `CopyUnderRun` |
| | `LoopExits` | `LoopExitComplete` |
| `AgentOwnersProofs` | `TypeCorrect`, `LeftAlone`, `DeadAreMarked` | `TypeOK`, `LeftAloneBySingleStarts`, `DeadMarked` |
| `RouterProofs` | `TypeCorrect`, `CountIsExact`, `OneAgentWorks`, `NoneLost` | `TypeOK`, `QueueCounted`, `OneAgent`, `NothingLost` |
| | `DropsTold` | `DroppedAreTold`, where the dashboard does not interfere |
| `ApprovalsProofs` | `TypeCorrect`, `Awaited`, `OwnersWord` | `TypeOK`, `PendingIsAwaited`, `OnTheOwnersWord` |
| `SchedulerProofs` | `TypeCorrect`, `RunsApart`, `CaughtUpOnce`, `RunningAlive` | `TypeOK`, `NoOverlap`, `OneCatchUp`, `RunningIsAlive` |
| `TurnMarkersProofs` | `TypeCorrect`, `RunAgainOnce`, `AskedFirst`, `NoneForgotten` | `TypeOK`, `AgainOnce`, `AskedAfterAChange`, `NothingForgotten` |
| `AgentLoopProofs` | `TypeCorrect` | `TypeOK` |
| | `AnnouncedAreFinished`, `FinishedAreChecked` | `AnnouncedFinished`, `FinishedIsChecked` |
| | `EveryCallAnswered`, `RequestsArePaired`, `ReplayedIsHistory` | `AnsweredInOrder`, `RequestPaired`, `ReplaysToHistory` |
| `CapsProofs` | `TypeCorrect`, `MeterCounts`, `SpendIsBounded` | `TypeOK`, `MeterIsLedger`, `SpendBounded` |

### Assumptions

Each module's `...Assumption` and nothing else, with one exception: `DropsTold` assumes
`~Beside`, since with the dashboard's new conversation the property is false (section 4).
They say that names are distinct, that bounds and limits are natural numbers (a
capacity, a kept tail, a run or a caller's calls behind a check at least one), that the
agents are finitely many where they are counted (`Supervisor`, `Caps`), and that the
tasks are (`Scheduler`, whose tick lists them). No bound on their number, and none on
the shape of a tree.

### The inductive invariants

None of the properties is inductive as it stands. What each needs, and why:

*Supervisor: runs.* A resume starts a run on the strength of a status it read before
the lock. What makes it safe is that only the parent's own calls start a child, so
between `ResumeReads` and `ResumeRow` the row can at most be closed. `IInv` is `TypeOK`
and `CallsOK` (a call in progress is about a child of its caller that has a row; waits
and closes go through agents that have run), `OneRun` (while a run's task lives or its
end is not recorded, the row is running or closed, the two exclude each other, and that
end is of the present run), `Vacant` (a call about to start a child finds no task and no
unrecorded end of it, a resume that has only read included) and `Numbered` (who was ever
started has a run number). `SingleRun` then is a cardinality argument;
`ChildrenWithinLimit` holds because only `SpawnRow` and `ResumeRow` add a running child,
both after counting under `spawn_lock`; `RecordsOwnRun` follows from `OneRun`.

*Supervisor: the rest.* On top of `IInv`, one invariant per question. A parent has
begun before its children (`BegunOK`), and a close holds only what was closed
(`ClosingOK`), so nobody is aborted or tidied away who was not. Behind a running row are
a call, a task or an unrecorded end (`BehindOK`), or the store refused that end and
nobody is about to write it (`RefusedOK`). Reports hold items of the inbox only while
they send them, and only the driver's own turn makes calls for the root (`NewsOK`); a
waiting parent resumes nobody meanwhile, so what it read of a child's end stays so
(`WaitsOK`), and what it returned is never announced again (`ToldOK`). A snapshot is
discarded by a report only once its end is recorded, hence never under the first run
(`CopiesOK`). For `LoopExitComplete`, `busy` reads the rows and then the counter:
`QuietOK` and `CountedOK` say what those two reads have excluded for good, which holds
because parents never change (a subtree only grows) and an agent in a call has a task
(`Alive`).

*AgentOwners.* `LocksOK` ties a lock to where its holder stands, `ListsOK` a start's
lists to its step, `RowsOK` puts an agent where its process sits, and no two live
processes there. Only while starts do not overlap does `SingleOK` hold: what is about to
be probed, marked or removed belongs to a process that is gone, or nobody else can run
it. `MarksOK` follows a dead process's row through a start: still to be probed, to be
marked, or masked by somebody's probe.

*Router.* `CountsOK`: `queued` is exactly what waits in the lane, in the task's
hands and in an offer under way; a count of zero is what lets a lane be replaced.
`MessagesOK` and `LanesOK` say where a message can be at each step of a turn. Without the
dashboard `SoloOK` holds: one lane at most is not idle, and until a stop drops what waits
(`UpOK`), a message that was accepted is cut, read, or in a lane that will take it.

*Approvals.* A code remembered is of one question (`CodesOK`); an answer in a channel
reaches no further than the owner's word for that question (`AnswersOK`, by `Covers`),
and that word is settled once the question is no longer pending; so a grant of the run
and a standing one have a word behind them (`GrantsOK`), and so has what a call went
ahead on (`BasisOK`), whatever run or chat it is looked up from.

*Scheduler.* A process at work on a run has a row that is on, unless its task was deleted
or a gateway's start recovered it (`JobsOK`, `RunsOK`); what a tick listed, and the time a
task is next due, lie after the end of its last recorded run, one row a task, or that
task's last run is unrecorded or on its way to be recorded (`TimesOK`), which is why a
backlog is one run.

*TurnMarkers.* `LaneOK` and `PhaseOK` relate a turn, its marker in memory and the phase
of the process; `OfferOK` says that an offer in somebody's hands is the one on disk, or it
is gone; `BegunOK` that whatever stands for a turn stands for one that began, `JobsOK` that
a job that is no second try is of a message that nothing else stands for, `TookOK` that a
turn taken on a message that had begun is a second try or has lost its mark in a join.
`FileOK`: the file is the current lane's turn's, or of what is settled, as everything is
that `/new` has put aside; this is what the lane put aside can trample on. `OnceOK` counts:
a message about to be run again, or of a turn that a start would find unmarked, was run
again no more often than it was joined, and less often if it is both. `NotedOK`: a change
its file does not know is in the events' channel, or its note was lost, or the mark.
`KeptOK`: what is left of a request when its process ends is a file, or it is settled.

*AgentLoop.* Which calls are announced and unfinished is a function of where the loop is
and how much of the segment is gated or run (`AnnouncedOK`, with `CallsOK`: the ids of
an answer's calls differ, and `SegmentOK`); a change since the last check is known as
long as the run goes on (`ChecksOK`). `StoreOK` is about the history and the transcript
together, as long as no line was lost: outside of a batch each of the two is `Whole`
(every call answered in place), within one it is `Open` (the last message's calls are
answered up to the one the loop is at), and they are equal, or, between a fold and its
line, end alike. That they end alike is what makes the fold's `kept` right when it is
logged, and `FoldPoint` never being at a result is what keeps a folded history whole.
`RequestPaired` has no such premise: after a torn line the history may be any list of
messages, and `Pending` is what `paired` keeps of any list it has read in part.

*Lists of any length.* What `Replayed` and `Paired` yield is an induction over a list.
Both are recursive functions on positions; `ReadingExists` and `PairingExists` show that
such a function exists, and `AllNumbers` (a set of numbers with 0 that is closed under
adding one has them all, from the well-foundedness of `<`) takes a property of a
position through it, as the set of the positions that have it.

*Caps.* The meter's property is inductive with `OffsetsOK` (what it reads next begins a
line) and `DaysOK` (no row of a day to come). The bounds are not: that spend passes a cap
by the calls in flight needs an account of them. `DayOK`, `TasksOK` and `RunsOK` bound
the spend by the cap less one plus the calls behind the agents' last checks that were
made or can no longer be made (`Used`, `Charged`); the check compares the count with the
cap, and only a call behind a check can move it.

In the modules themselves, each action of `Next` has its lemma, `NextIInv` combines
them, and lemmas on lists, counts and the largest of a set of numbers come first.

### What only TLC checks

- Liveness under fairness (`LoopEnds`, `QuestionEnds`, `RefusalsStopTheRun`, `StopStops`,
  `DueIsRun`, `PickedUp`, `RunEnds`, `CapEndsRuns`): out of the prover's reach.
- The refinement `IsAMailbox`: its mapping flattens lists of lists with a fold, so each
  step needs what the fold yields for every list, and it also implies the fairness of the
  mailbox.
- Each `...Proofs` module is about one module: nothing is proved of two modules at once.

## 6. Plan

1. Done: `Supervisor`, its runs, `SupervisorProofs`; `AgentOwners`; `Router`.
2. Done: `ChatMailbox` and the refinement, `TurnMarkers`, `Approvals`, `Scheduler`,
   `AgentLoop`, `Caps`.
3. Done: every safety property that a run checks proved, of all eight modules. Left: the
   safety part of the refinement, step by step.
4. `WorkList`: tasks with dependencies, authors and holders; an abstract
   one-holder-per-task specification that the `claim` action of `Supervisor`
   abstracts.
5. Retry policy and stuck detector as operators with reference definitions; model
   tiers and escalation.
6. MCP request table, extension install, self-update.

## 7. Not modelled

In the parts that are modelled: `ferrule agents close` run in another process (it closes
only rows nobody runs); the tree's token budget; errors of SQLite and the file system
other than those named above (so a resume of an agent that fails after it marked the row,
`supervisor.rs:1028` and `1033`, is not in `Supervisor`); `/new` in the REPL; the
scheduler's jobs in a lane, other senders of a group chat; the texts of notices; the graph
the dashboard draws; plans and secret handling of the trust hub; warnings near a cap and
changes of the caps. What learning passes, searches and media cost enters the day's count
without the check before a model call (`meter.rs:27`, `54`): `Caps` bounds what the
checked calls spend. In its run one model call is behind a check (`PerCheck`), in the
theorem any number.

The rest of the repository, most of its lines, is not modelled: command-line parsing,
the dashboard's pages and API, setup and doctor, configuration, channels and providers
(third-party protocols over HTTP), built-in tools, memory and embeddings, the learning
loop, evaluation, connections, the sandbox, skills, plugins and telemetry. They are
sequential code over text, files and requests: what could go wrong in them is in the data,
which these models abstract, and not in the order of steps. `PROJECT.json` gives the
reason part by part.
