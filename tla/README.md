# Owner Operator: TLA+ verification project

Owner Operator is a local daemon that watches the coding-agent sessions on one
machine, runs scheduled prompts, and delegates work to child agents over ACP.
It is one Node process over one synchronous SQLite database; every client (the
`oo` CLI, the Operator's own Pi session, the desktop widget) speaks to it over a
loopback HTTP Gateway with an event stream.

This directory holds TLA+ modules of that program, TLC configurations that
model-check them on small instances, and TLAPS proofs of the properties that
should hold for every instance. `PROJECT.json` is the index: which definition
models which lines, which run checks which property, which mutation of the code
each property would notice, which theorems are proved.

    tlc -workers 2 -config AgentRuns.cfg MCAgentRuns
    tlc -workers 2 -config Scheduler.cfg MCScheduler
    tlapm AgentRunsProofs.tla
    tlapm SchedulerProofs.tla

Every other run is `tlc -config X.cfg MCX`, by the table in section 3; the
proofs are the modules whose names end in `Proofs`.

## 1. The system

| Part | State it keeps | Operations | Module |
| --- | --- | --- | --- |
| Agent-run rules (`packages/core/src/agent-runs.ts`) | none (pure) | retry, resume, turn-intent eligibility | `AgentRunLedger` |
| State: `agent_runs` (`src/state`) | the ledger of delegated runs and one event log per run | insert, claim, activity, finish, interrupt, sweep; append, evict, stream | `AgentRunLedger`, `RunEventLog` |
| State: migrations | the columns and rows of a database an older program wrote | ten migrations, statement by statement | `StateMigrations` |
| Delegated-run executor (`src/agent-runs/executor.ts`) | the active-turn map with abort intents, `stopping`, the draining chain | launch, cancel, retry, resume, tick, settle, start, stop | `AgentRuns` |
| Views of runs (`agent-state.ts`, `agent-state-projection.ts`) | none (pure) | which controls a row offers | `AgentRunView` |
| ACP launcher (`acp-launcher.ts`) | a session and a leased process tree per turn | validate the saved record, ensure the session, select model and effort, run the turn | `AgentRuns`, `DelegatedLaunch`, `ProcessLeases` |
| Launch defaults and observations (`launch-config.ts`, `delegated-baselines.ts`, `harness-details*.ts`) | one baseline file per harness | approve, observe, propose; the snapshot of all harnesses and accounts | `DelegatedLaunch`, `HarnessSnapshot` |
| Process leases (`process-lease.ts`) | lease files on disk | create, capture, terminate, reap at startup | `ProcessLeases` |
| Parent run session (`parent-run-session.ts`) | a client's view of its runs, delivered completions | coalesced refetch, regress filter, delivery with retry | `ParentRunSession` |
| Scheduler (`src/scheduler`) | one execution queue, the running set, needs-you changes; three tables | create, update, delete, tick, run now, flush, stop | `Scheduler` |
| Session monitor (`src/session-monitor`) | watchers, pending files, enrichment queue, thread rows | poll, incremental scan, record, enrich, stop | `SessionMonitor`, `TranscriptScan` |
| Session search (`src/session-search`) | none | which transcripts are read and which ids answered | `TranscriptScan` |
| Daemon (`src/daemon`) and the client's `ensure` | the discovery record, the port | start, ready, close; a client replaces a stale daemon, replays what it may | `DaemonLifecycle` |
| Gateway client (`src/gateway/client.ts`) | the shared connection of a long-lived process, its requests and streams | connect, send, replay, subscribe | `GatewayClient` |
| Worktrees (`src/worktrees`) | registered worktrees, one selection per thread | create, select, resolve; the terminal that rebinds | `Worktrees` |
| Onboarding, settings, privacy (`src/agent`, `packages/core`) | marker, settings, `blacklist.json`, `session_sources.json` | eight setup steps, catalog review, permission policy | `OwnerHome`, `OwnerSetup` |
| Skill links (`src/shared/skill-links.ts`) | links, backups, a manifest | install, uninstall | `SkillLinks` |
| Desktop widget (`desktop`) | rows, hidden rows, previewed titles, one stream | refresh, hide, rename, rebuild | `SessionPanel` |
| Evaluations, prompts and skills of the Operator, read-only SQL, presentation | single-user files or nothing | | not modelled (section 7) |

**What is hard.** Nothing inside the daemon runs in parallel, so a handler is
atomic up to its first `await`. What interleaves is everything across awaits:
requests, the callbacks and settlement of turns, timers, the stop sequence,
model calls whose results arrive late, clients that retry. Between processes
nothing is atomic but a SQLite transaction and a rename. The daemon crashes and
restarts over durable rows; writes fail one by one; folders, records and
processes disappear under it. What must survive is a set of promises in
`docs/delegated-runs.md`, `docs/scheduler.md`, `docs/daemon.md`,
`docs/architecture.md`. `hazards` in `PROJECT.json` lists, line by line, where
each can go wrong and which properties would notice.

## 2. Modules

A module's comment says what it abstracts; this section says how its state and
actions correspond to the code, and states the assumptions a reader should know.

### The executor: `AgentRunLedger`, `AgentRunView`, `AgentRuns`

`AgentRunLedger` is the `agent_runs` table and the pure rules over it, as
constant-level operators of one value `db` of the table, so that a handler that
makes several SQL calls in one turn of the event loop is a composition of them
and stays one action.

| TLA+ | Code |
| --- | --- |
| `Row`, `Blank`, `Insert`, `SetStatus` | the table, `createAgentRun`, `finishAgentRun`, the interrupt and lost updates |
| `Heads`, `Latest`, `Kids`, `Delivered`, `ActiveParents` | the maps at the top of `reconcileNestedCompletions` |
| `RetryAllowed`, `ResumeAllowed`, `TurnIntentAccepts` | `agentRunRetryError`, `agentRunResumeError`, `resumeCwdError`, `agentRunTurnIntent` |
| `Claimable` | the loop of `pump` over `claimNextPendingAgentRun` |
| `Due`, `Continuing`, `Reconciled` | the walk of `reconcileNestedCompletions` |
| `AutoRetries`, `FollowUpsRetried` | `retryInterruptedNestedFollowUps` |
| `canRetry`, `canResume`, `ActiveIn` (`AgentRunView`) | `deriveRunView`, `deriveParentAgentState` |

`AgentRuns`: `runs`, `saved` (ACP records on disk), `gone` (removed folders) and
`closed` (saved conversations that refuse to be continued) survive a crash; `live`
and `intent` are the active map and do not. Every handler
ends as the code does: `Pumped` is the claim loop and runs inside the action,
`Settled` is the reconcile pass followed by the pump. `Launch`, `CancelLive`,
`CancelQueued`, `Retry`, `Resume` are the requests; `SaveRecord`, `Identify`,
`Submit`, `Deadline`, `TurnEnds`, `FinishThrows` the points of a turn between
awaits; `Tick`, `SweepThrows` the interval; `Stop`, `Exit`, `Crash`, `Start`,
`RemoveCwd`, `CloseConversation` the process and its surroundings.

Rows are never deleted and `created_at` and `rowid` grow with them, so a row's
number is its id and its order (a clock that steps back between two inserts is
not modelled). A conversation is named by the run that opened it. Whether an OpenCode
child can be continued is not in its row: `openCodeContinuationError`
(`agent-state-projection.ts:75-99`) reads the child's saved record before a retry or
resume (`executor.ts:232-235`, `290-291`) and before a view offers one, and refuses a
child whose agent advertised neither `session/load` nor `session/resume`, or whose
record is missing or damaged. `closed` is that refusal; any saved conversation may
be closed, at once or later, since the model does not tell harnesses apart. A folder
or record that comes back is not modelled: it would be continued at the next pass. Age in
the sweep is a nondeterministic choice of rows, and a deadline may fire at any
moment. A turn that reports completion has reported its identity, and the record
of a fresh conversation is on disk before that (`runAcpTurn`, `ensureSession`).

### The event log of a run: `RunEventLog`, `RunLogPromise`

`log`, `lastSeq` and `status` are SQLite; `cache` is the daemon's byte count of
the log; `stream` is the Gateway's response with what the socket still holds, and
`reader` the CLI that follows. A record is appended and the stream is woken by a
microtask, so `AppendEvent`, `FinishRun` and `Recover` pump inside the action
(`Woken`, `Sent`). `WriteFails` is a rolled-back savepoint; `StartDaemon` gives a
log without a counter one; `Discover`, `Connect`, `Drain`, `ReadFrame`, `ReadEnd`,
`Break` are the follower and its connection. A follower may fail: an agent's
(`byAgent`) only connects and gives up when it finds no daemon (`GiveUp`;
`operation.ts:160-176`, `docs/cli.md:60`), and a daemon that was replaced between the
discovery and the request for the log answers 401 (`Unauthorized`), which
`streamRunLog` rethrows (`runs.ts:96`). A request that meets no daemon at all is
tried again (`ConnectFails`). `RunLogPromise` is what a follower is promised:
records in order, none twice, none skipped that is kept, the result once and
last.

### Opening an older database: `StateMigrations`

Each migration reads the columns (`ReadColumns`) and then runs its statements as
separate steps, by several processes (`Opener`) that may throw or die between any
two; only `RebuildRelations` and `RebuildChecks` are transactions. `Claim` is the
port: `startDaemon` opens State before it. Columns that one migration adds
together are one column. An opener that failed may try again: a client starts a
daemon again.

### Scheduler: `Scheduler`

`schedules`, `rows` and `watermark` survive a crash; the queue, the running set,
the loops and the buffer of changes do not.

| TLA+ | Code |
| --- | --- |
| `CreateSchedule`, `UpdateSchedule`, `DeleteSchedule`, `RunNow` | the owner's requests; a manual run holds its schedule from the request on |
| `Elapse`, `Message`, `Reoffer` | `next_run_at` passes; what monitor, enrichment, snoozes and runs do to a thread's needs-you projection |
| `Tick`, `TickFrom`, `FlushNeedsYou` | `tick` with `reconcileNeedsYouInputs`, `flushNeedsYou` |
| `Proceed` | one turn of either loop: a claim, then `enqueue` |
| `BeginRefused`, `BeginWork`, `BeginStopped`, `WorkEnds`, `FinishThrows` | `execute`, cut where it awaits |
| `Stop`, `Exit`, `Crash`, `Start` | the process; `Start` interrupts running rows and ticks |

A loop awaits the execution of the row it queued and then goes on with the list
it had read, so several are in flight at once, keyed in `loops` by the row each
waits for. Promise callbacks run before the next timer or request: the loop goes
on in the step that settles its row, and nothing else happens while a queued
execution has not begun (`Idle`). The clock is reduced to `next`, which is
nothing, in the future, or due; due times and names can be edited, so the lists
come in any order. Prompts, commands, intervals and outputs are left out.

### Parent run session: `ParentRunSession`, `CompletionDelivery`

`outcome` is the rows in State, `copies` what the transcript says of each child,
`waiting` Pi's follow-up queue and `queued` the adapter's in-memory guard over it;
`session` holds one `ParentRunSession` per generation of the extension.

| TLA+ | Code |
| --- | --- |
| `Open`, `Shutdown`, `Resolve`, `ResolveFails`, `RetryStart`, `GivenUp` | `registerAgentRunDelivery`: the two handlers and `start` between its awaits |
| `Answer`, `Receive`, `ListFails`, `ListDone`, `FirstListDone` | a list: the daemon reads the rows in `Answer`, the session applies them in `Receive` |
| `Connect`, `Event`, `StreamBreaks` | `subscribe` with the session's listener; an event is one pending bit |
| `Merged`, `Accepts`, `Reply` | `reconcile`, `acceptsTransition`, `reconcileOne` |
| `Deliver`, `Confirmed`, `Retried`, `RetryDelivery`, `FlushBatch` | `deliver` with its continuations, the retry timer, the success batch |
| `Persist`, `QueueDropped`, `AgentSettled`, `Quit` | Pi (external, but for `agent_settled`) |

Every terminal status but `completed` is `failed`: the session tells apart only
whether a completion is batched. The order of messages in Pi's queue is left out.
`CompletionDelivery` is the promise: a child finishes, and a set of finished
children is told of, each once.

### From transcripts to rows: `SessionMonitor`, `TranscriptScan`

`SessionMonitor` is time: the watcher and its debounce, one poll at a time, the
tick, enrichment passes whose answers come late, the owner's Done, restarts. Before
setup (`onboarded`, `FinishSetup`) a scan answers with no row, no watcher is armed
and no pass runs. A message is its position; `disk` runs ahead of `threads`; a call carries the
`basis` it was asked with, and `Accepts` decides whether its answer still counts.
`TranscriptScan` is content: what a full or a partial poll makes of Claude, Codex
and Pi files (`parseSession`), what State records and purges (`recordScan`,
`purgeBlacklisted`) while the owner edits the privacy files, and what the search
reads of the same files. `consent` is what `isOnboarded` reads for each poll
(`scanTranscripts`, `armWatchers`): the marker is completed while the daemon runs, or
cannot be read just then because it is rewritten in place. `PollFails` is a scan or a
recording that throws, half way through the rows or before them; what a partial poll
took is lost with it, as it is in the code, until the next full poll. An `errand` is a
chat's stamp of a call by an agent or the scheduler, which makes the chat automated
until its owner speaks again. A store or watcher that existed does not vanish. Paths
carry ids, the files of one session are in one store, and the activity window's cutoff is not modelled. What the code takes from the
layout of the stores is the assumption `SessionsLieTogether`: transcripts that carry
one id lie in one directory or below it, so they have one store, format and starting
directory; an Owner Operator chat has one file; a session's own file is named after it.

### Daemon and clients: `DaemonLifecycle`, `GatewayClient`, `HarnessSnapshot`

`record` is the discovery file, `port` who listens, `phase` each daemon's, `pc` and
`view` each client's walk through `ensureDaemon` (`ProbeHealth`, `ProbeReady`,
`JudgeUnreachable`, `RequestStop`, `AwaitRelease`, `StartDaemonProcess`, `Connect`);
`Listen`, `Publish`, `NoticeStale`, `StopExecutor`, `ReleasePort`, `ReadRecord`,
`RemoveRecord` are the daemon's start and `close`, cut where they await.
`SendWrite`, `ExecuteWrite`, `Answer`, `LoseWrite` are a request that is not a read.

`GatewayClient` is what one client process makes of its connections while daemons
replace each other: `memo` is the promise all callers share, `targetInfo` the daemon a
connection addresses, `call` a request with the connection it runs on, `feed` an event
subscription with the target it was told of. `Resolve`, `Probe`, `Opens` and `Rejects` are
`resolveBackend` between its awaits, `CallAnswered`, `TransportFails` and `Unauthorized`
what a request meets (`AskNext` sends it again to the daemon of the record; a `Post` only
after a 401, which says that nothing was done),
`Listens` the loop of a subscription. A daemon that serves accepts every stream.

`HarnessSnapshot` is one request to `readHarnessDetails`: an observation per
harness with its deadlines and its session to discard, an account each (Codex's
app server, Cursor's two commands), and the report put together from them with
the list of what is unknown. A `cursor-agent` is assumed to end at the SIGTERM of
its timeout.

### Turns and processes: `DelegatedLaunch`, `ProcessLeases`

`DelegatedLaunch` is what a delegated run really runs as: `Approve` and `Resolve`
(baseline and pins), `Ensure` with `LoadedHandle` (the conversation), `Initial`,
`Set`, `Confirm` (the selection as applied to, and read back from, the session),
and the disposable sessions that observe a harness (`Observe` … `Discard`).
`asked` is the row's model and effort as resolved at the launch, `job.model` what the
turn is confirmed on: the same, or, for a row without a model, the one the session
reports (`Choose`), which no row keeps. `Continue` is a retry or resume: it carries
what the row before it asked for (`Carried`), so a continuation of a row without a
model chooses again. `approveDelegatedBaseline` writes a file of its own and renames
it, so an approval takes place or not. The harness may change, ignore, refuse or never
answer. `unpinned = "ask"` is reduced to the refusal it leads to.

`ProcessLeases` is the lease of a turn, its wrapper and tree, and pids that the
operating system reuses at any time except while a cleanup is between its listing
and its last signal.

### Worktrees: `Worktrees`

A path is a worktree's name, since two repositories of one base name share the
folder. `Create`, `AddBranch`, `AddWorktree`, `Inspect`, `Register` are
`WorktreeService.create` between its awaits, `Select`, `Choose` the selection;
`Edit` the owner's own Git commands, `Restart` a daemon that ends while Git goes
on. `Settle` and `Rebind` are the terminal's `agent_settled` handler around its
`await`, after which the code looks at the session only; `Switch` is `/new`, `/resume`
or `/fork`. Each announces a replacement (`Announce`), so the owner's and the handler's
may overlap, end in either order (`Resolve`, `Complete`) or be given up by Pi before
they begin (`Abandon`), which takes nothing back. `was`, `excused` and `abandoned` are
history variables.

### The owner's files and the widget: `OwnerHome`, `OwnerSetup`, `SkillLinks`, `SessionPanel`

`OwnerHome` has the verdicts over `blacklist.json` and `session_sources.json`: the
scan's lexical one and the file tools' by real path. `OwnerSetup` runs the eight
steps in several terminals that may be cancelled, closed or die between two
writes; one core function's read-modify-write of one file is atomic. The machine is
a Mac: elsewhere the always-on step asks nothing, saves nothing and is marked
(`onboarding.ts:226-238`). A review hides a store by its folder's name, `NameOf`
(`basename(root)`, `source-detection.mjs:83`), not by its repository.
`SkillLinks` runs `oo skill install` and `uninstall` one file operation at a time;
one command runs at a time, the owner edits only between commands, a link
identical to a recorded one counts as ours, and a crash mid-write leaves the
manifest empty. `SessionPanel` is the widget's client (refresh, stream, heartbeat,
hides, previews) against the daemon's rows; the main actor runs from one await to
the next.

### Composition

`AgentRuns` composes ledger, views and executor; `CompletionDelivery` and
`RunLogPromise` are abstract specifications that `ParentRunSession` and
`RunEventLog` implement by `INSTANCE … WITH`. `OwnerSetup` and `TranscriptScan`
share `OwnerHome`. `MCRunRecords`, `MCDaemon` and `MCHome` put components that
do not touch each other into one run: a variable `part`, chosen initially, says
which of them moves, and the others rest in an initial state.

## 3. Runs

| Run | Module | Bounds | What it shows |
| --- | --- | --- | --- |
| `agent_runs` | `MCAgentRuns` | 4 rows, depth 3, cap 1, 1 fault, `SmallOrFamilies` | `LedgerMatchesTurns`, `ConversationsAreSound`, `FollowUpNotMissed`, `EndsAreFinal` |
| `run_records` | `MCRunRecords` | ledger: 2 rows, 2 faults; log: budget 4, sizes 1, 2, 5, 5 records, 3 failures; store: 2 openers, 4 rows, 2 crashes | `RunsEnd`, `AbortWins`; `LogIsKept`, `FollowerSeesTheLog`, `FollowerIsTold`; `UpgradePreserves`, `StoreOpens` |
| `scheduler` | `MCScheduler` | 4 schedules, 1 thread, 2 messages, 3 rows, 2 edits, 1 fault, `TimersOrHandoffs` | `ClaimsAreSound`, `ClaimsAreExecuted`, `QueueDrains`, `HandoffsAreTold` |
| `parent_session` | `MCParentRunSession` | 2 children, 2 sessions, 2 attempts, 1 control, 1 fault, `ChildrenOrReloads` | `ToldOnce`, `ViewNeverRegresses`, `SessionsCatchUp` |
| `sessions` | `MCSessionMonitor` | 1 transcript, 2 stores, its own there or appearing late beside the other, setup done or not, 2 messages, 2 events | `AnswerIsCurrent`, `DoneHolds`, `RowsCatchUp` |
| `daemon` | `MCDaemon` | 4 daemons, 3 clients, one of another checkout; one snapshot of three harnesses; 3 daemons, 2 connections, 2 requests, 1 subscription, `OneAwaited` | `OneExecutor`, `WritesRunOnce`; `SnapshotIsTrue`; `ConnectionsAreSound`; `ClientsAreServed` |
| `process_leases` | `MCProcessLeases` | 3 pids, 1 lease, 2 daemons, 2 faults | `LeasesAreSound`, `OrphansAreReaped` |
| `worktrees` | `MCWorktrees` | 2 repositories, names, sessions and requests, 2 replacements at once, 1 trouble | `RowsNameTheirWorktrees`, `RetriedCreatesSucceed`, `SelectionIsFollowed` |
| `delegated_launch` | `MCDelegatedLaunch` | 2 models, 1 effort, 5 listings, 2 launches, 1 probe, 1 trouble, `Pairs` | `TurnsAreTheOnesAsked`, `ConfirmationsHold`, `ConversationsKeepIdentity` |
| `home` | `MCHome` | 2 terminals, 1 crash; 4 transcripts, 4 writes, any number of polls that fail and of changes of consent, `ShortLogs`; 3 folders, 2 checkouts, 1 fault, 2 edits | `SetupIsKept`; `RowsFollowTranscripts`; `SkillsAreKept` |
| `session_panel` | `MCSessionPanel` | 2 rows, 2 actions, 1 change, 1 trouble, `Few` | `ShownInPlace`, `ChangesAreSeen`, `PanelCatchesUp` |
| `two_openers` | `MCRunRecords` | 2 openers of a database from before the split | expected violation of `RowsArePreserved` (section 4) |

**Why these bounds are enough to be interesting.** Four rows of `agent_runs` are a
parent, a child, a follow-up and what continues it, or a run, its continuation
and a rival; one fault is a crash, a failed write, a lost folder or a closed
conversation at any moment.
Three schedule rows are an execution at work, one waiting, and one claimed by a
loop that goes on. Two children make a batch, two attempts are exhausted by two
refusals. Five records of sizes 1, 2, 5 under a budget of 4 evict one, several or
the appended record itself. Two openers and two crashes let one die between
statements and the other decide on what it read before. Four daemons are one that
is replaced, two started at once by two clients, and one more after a crash. Two
connections and three daemons let one connection be given up while requests still run
on it and the next one meet a replacement as well. `ClientsAreServed` is the liveness of
the three parts: clients connect, snapshots return, and in the end a subscription is
attached to the daemon that stays. Three
pids are a wrapper, a child and a reused pid. Two requests are a create and what
comes in its way; the strengthened invariant of the proof was checked with two troubles as well.

**Constraints** say which behaviours a run is for; they are stated in the MC
modules. `SmallOrFamilies`: small tables with every request, abort, fault and
restart; or families of four rows without faults, in a quiet daemon or across
graceful stops, and of three rows in which a folder is lost or a conversation
closed. It is also a guard of `MCSpec`, so that TLC computes little
beyond it. `TimersOrHandoffs` keeps timer and needs-you schedules apart: they
meet only in the queue, where both are rows. `ChildrenOrReloads`: several
children of one session, or one child of several. `Pairs`: a run and an observation,
or a run and a later one that asks for the same pins, so that it may continue the
first; two other runs have nothing in common but the baseline. Once something was
disturbed, sessions are asked one after the other: they meet in the harness only,
which changes between any two steps of each. `OneAwaited`: one request is under way beside
the stream (no proof depends on it). `ShortLogs`: transcripts of several sessions
are written to twice, those of one four times, the third and fourth time in one
configuration; more than one write comes only while consent holds, and the fourth
once a full scan was recorded or is on its way. `Few`, `TwoUnderWay`, `TwoAreShort` bound how much is under
way at once. Where a run also checks
liveness, a constraint prunes only requests, creations and faults, never a step a
fairness condition is about; what a bound can suppress the property excuses by
name (`Unused(rows) # {}`, a scan that failed, a completion given up).

**Fairness.** What the code's own scheduling guarantees, and no more:

- executor: deadlines fire, an aborted turn settles (acpx honours the signal),
  the interval runs until every orphan is past its grace window, `stop` returns.
  Nothing makes a healthy turn finish or a stopped daemon start;
- event log: an owner's CLI starts a daemon it finds down each time it connects (an
  agent's does not), its requests are answered or fail, turns end by the deadline,
  sockets deliver what they took;
- migrations: every opener keeps trying, as clients start daemons again;
- scheduler: the interval and the immediate fire, promise callbacks run, an
  execution ends since its timeout aborts it;
- parent session: the Gateway answers, timers fire, Pi drains its queue, in any
  order (one condition on everything pending);
- monitor: the debounce, the tick and a pass that was started run; the model
  answers or fails;
- daemon: a daemon that starts or ends goes on, a client goes on; snapshot: only
  the code's own deadlines and terminations, never an answer of a harness;
- leases: a daemon is started when none runs, a cleanup goes on;
- worktrees: handlers and replacements come to an end; widget: its own timers,
  the daemon's restart and answers.

## 4. Findings and disagreements

**`two_openers`, checked.** `migrateAgentRunRelationships` decides on columns it
reads before `rebuildAgentRunsTable` takes its write lock (`database.ts:547`), and
`startDaemon` opens State before it claims the port (`runtime.ts:66`). Two
daemons starting on one old database can both decide to split the column; the
second rebuild reads `resume_of_run_id` of rows that are split already and drops
every retry relationship. The comment at `database.ts:545-546` says that the
rebuild "preserves every row, exact self-reference, and documented index".

The rest was met while modelling, and is stated here with its lines. The model
does what the code does in each case; where a property would fail on it, the
property excuses exactly that case.

Delegated runs and scheduling:

1. *A parent can be resumed before its child is.* `docs/delegated-runs.md`
   promises the follow-up "when its nested child conversations finish". The pass
   walks conversations newest run first and skips a parent whose child it has
   already taken (`executor.ts:398`). When the parent's newest run is younger than
   the child's, both are resumed in one pass.
2. *A child that cannot be continued strands the grandparent.* The child is put in
   `continuingSessions` before its resume is attempted (`executor.ts:400`); if its
   folder is gone, or it is an OpenCode child that refuses continuation, the resume is
   refused in every pass and the parent skipped in every pass.
   `docs/delegated-runs.md:354-363` says that such a refusal leaves no new row, not
   that the conversations above it wait for ever. `FollowUpNotMissed` excuses a parent
   of such a child only if the child has children of its own (`PassedOver`).
3. *A claimed run is abandoned.* A timer claim enters `running` only when its
   execution begins, so `runNow` is accepted meanwhile; the claim then throws
   before its `try` (`scheduler.ts:305`), its row says `running` while the daemon is
   up, and the rest of that tick's list is dropped (`docs/scheduler.md:58`:
   failures are inspectable in `schedule_runs`). `ClaimsAreExecuted` excuses it.
4. *A stop leaves a claimed row behind.* The loop whose execution `stop` interrupts
   commits its next claim before `enqueue` refuses it (`scheduler.ts:262`;
   `docs/scheduler.md:51` says the queue is drained before State closes).
5. *A disabled schedule is triggered.* `flushNeedsYou` tests `enabled` on the list
   it read before it awaited the previous execution (`scheduler.ts:420`, against
   `docs/scheduler.md:52`).
6. A recurring schedule's occurrences queue up behind a claim that waits
   (`scheduler.ts:251`; `docs/scheduler.md:46`: recurring jobs skip backlog).
7. A failed or interrupted run that was resumed, not retried, keeps demanding
   attention with neither control offered (`agent-state.ts:115-118`;
   `agent-state.test.ts:206`: "an unresumed failure still demands attention"). A
   view offers cancel for a running row whose turn is over, where it does nothing
   until the sweep.

Daemon, follower, leases, worktrees:

8. A second SIGTERM kills a daemon that is stopping (`runtime.ts:245-249`;
   `docs/daemon.md`: "exits it gracefully"). Reading and removing the discovery
   record are two steps (`runtime.ts:218-223`), so an old daemon can remove its
   replacement's record, which `docs/daemon.md` says it leaves intact.
9. Health and readiness probes can be answered by two daemons, a spurious identity
   failure; a client of another checkout that waits for a replacement errors.
10. A lease file outlives an orphan tree that exits on its own, against
    `docs/delegated-runs.md:325-328`; a crash between close and terminate loses the
    captured pids; processes forked after the capture are not tracked.
11. Between a crash in `migrateThreadLink`'s ALTER and its UPDATE
    (`database.ts:468-469`) old Codex links stay NULL; a second migrating process can
    write back a stale schedule payload (`migrateRetiredScheduleTools`).

Sessions and widget:

12. Watchers are armed once, by the first poll that finds a store, and not for one that
    is selected or created later (`monitor.ts:140`); the interval scans only while no
    watcher is armed (`:127`). A store created while another is watched is therefore
    read by a restart or the owner's poll only, where `docs/architecture.md:105-108`
    has the watcher name every file that changes. The files of a partial scan that
    fails, or that reads the consent marker while it is rewritten, are lost until the
    next full scan (`monitor.ts:45`, `:161-163`). `RowsCatchUp` (`Overlooked`, `failed`)
    and `RowsFollowTranscripts` (`settled`) excuse these cases. A `POST /poll` during a
    partial poll returns without a full scan.
13. A quiet session reads as idle where `resolve.mjs:11` says otherwise; a needs-you
    answer without an account is reset by the next scan of the same message; an
    interrupted Claude turn reads "working" for 30 minutes, the Codex or Claude
    session of a killed agent for ever.
14. A snooze or Done that lands after an unseen newer message swallows it. A title
    may settle on an older one (`Model.swift:1-2`, `DaemonClient.swift:253-254`).

Configuration:

15. The standard store inside a blacklisted tree is hidden from review
    (`source-detection.mjs:83`) yet scanned; `grep`, `find` and `ls` over a parent
    ignore repositories blocked only by name (`privacy-tools.ts:116-128`,
    `blacklist.mjs:2,10`); the scan matches the blacklist lexically, the tools by
    real path; the scan takes the last `cwd` of a Codex file, the search the first
    (`session-cwd.mjs:4-5`); newly blacklisted rows stay shown while watchers idle.
16. `onboarded.json` and `settings.json` are rewritten in place: a torn
    `settings.json` reads as read-only, and the next save drops the mode
    (`onboarding.mjs:99-101`).
17. An install into an unreadable folder, a crash while `skill-links.json` is
    rewritten in place, or two commands at once leave a link uninstall does not know
    about (`skill-links.ts:195-196`: "a failure can never leave" one).
18. A failing registry provenance rejects the whole snapshot
    (`harness-details.ts:150-151`); a `cursor-agent` that ignores SIGTERM holds it up.
    A proposal's `approved` can be stale, and the baseline effort of another model
    is used when only the model is pinned.

Follower and terminal, the rest:

19. *A replaced daemon ends a follow.* A follower that found one daemon and asks the
    next one for the log gets a 401 and exits (`runs.ts:96`, `client.ts:221-228`);
    the comment at `runs.ts:67-70` says that "reconnecting resumes after the last
    sequence number seen". `FollowerIsTold` names the case.
20. *A rebind can nest in the owner's replacement.* The comment at
    `worktree-runtime.ts:48-49` says that `InteractiveSessionReplacement` "prevents a
    settling outgoing turn from starting a nested replacement". It is asked before the
    `await` of `resolveCwd` only (`:89-93`), so a `/new` announced meanwhile overlaps a
    rebind; the run shows that the terminal follows the selection of the session it
    ends with all the same. A replacement that is announced and given up leaves the
    mark set (`complete` is called by the replacement's end only), and every later
    `agent_settled` of that session is ignored until a replacement comes;
    `SelectionIsFollowed` excuses this (`abandoned`).

## 5. Proofs

Every theorem is for all values of the constants that satisfy the named
assumptions of its module: bounds are naturals, sets that are counted are finite
and non-empty, and distinguished values are distinct (`Nobody` is no process or
client, processes are no clients, Codex is not Cursor, `None` is no repository or
name). No assumption restricts an order of events. Each invariant was an
invariant of a TLC run before it was proved.

**`AgentRunsProofs`** (`LedgerStaysMatched`, `CapHolds`, `LiveTurnsNeverReclaimed`,
`TerminalRowsNeverChange`; `ConversationsStaySound`, `EndsStayFinal`;
`FollowUpsAreNotMissed`, `AbortsWin`). The inductive
`IInv` is types, the cap, "`live` is part of the running rows" and "a process that is
down holds no turn". The cap needs the claim's two counts; the claim needs `live` to be
running, since a turn that was not counted could be claimed; `Start` needs `live = {}`
to interrupt every running row. Lemmas follow the helpers: `InsertGrows`,
`ReconcileGrows`, `ClaimWithinCap`, `PumpIsSound`, `SettleIsSound`, then one per action.

The executor's promises about conversations rest on `TalkInv`, in five parts, each
needed by another: `PredecessorsHold` (a follow-up comes after its predecessor and
speaks to the same conversation), `SessionsAreSaved` (a turn that reported its identity
left a record, so a retry finds it), `TalkGoesOn` and `Unbranched` (a run has one
continuation, and only the newest run of a conversation can be continued; without
it two turns could hold one conversation), `SentAgainOnRetry` (what a retry
carries is what its predecessor was to say; this is why evidence is neither lost
nor delivered twice). The guard on busy conversations in the code turns out to be
implied. `EndsStayFinal` is about steps: a restart's pass is taken apart by
`SettleShape`, `Tail`, `InsertPlacesAll` and `OwedIsRetried`, which say that what it
appends is exactly one retry per lost follow-up and what the follow-up pass adds
after them.

`FollowUpsAreNotMissed` has `PassInv`: nobody waits for a follow-up while the daemon is
up, every row's turn is live and the table has room (`Waiting` is empty), and a row is
told of rows only (`ToldOfRuns`). The walk of a pass is over a finite list of
conversations, newest first; `PassTakes` says that a parent it could resume and did not
has a child conversation it did take, and `PassLeavesNoneWaiting` that the child is then
running again, so nothing is due, or was refused, and then is barred on disk and has
delegated itself (`PassedOver`). Being barred only grows, so an excuse stays one. Every
handler after which somebody could begin to wait
ends in such a pass. `AbortsWin` is about two states far apart: from the abort on, a run
is `Doomed` to one of the ends its intent allows (its turn is still to settle under that
intent, or left its row running behind it, or the row has ended so), every action keeps
it doomed, and what a restart or a sweep reports is among those ends.

**`SchedulerProofs`** (`ClaimsStaySound` and its parts, `ClaimsAreNotLost`). The
invariant has three parts. *Types*. *The claims ledger*: a timer row carries a
revision below the schedule's present one (`Spent`: a stale reading can never
claim again), a handled message lies at or below its watermark, a watermark is at
most the thread's version. *The hold of the queue*: queued rows are distinct,
exist and run, and the running set is exactly the schedules of the execution at
work and of the queued manual runs. `ProceedClaims` states once what a loop's step
does to the tables.

**`ParentRunProofs`** (`CompletionsToldOnce`, `ViewsNeverRegress`, `SessionTypes`).
`Spec => ToldOnce` is a refinement: every step is a step of `CompletionDelivery` or
a stutter. `Sane`: every end a session has heard of, in a list or a reply in flight
or its view, has happened. `QueueSound`: what waits in Pi's queue is about ended
children, is not in the transcript, is guarded, and names each child in one
message only. `deliver` sends messages of children that are neither persisted nor
guarded, so whatever subset Pi persists, queues or refuses keeps all of that.

**`DaemonHomeProofs`** (`OneExecutorHolds`, `WritesStaySingle`, `SnapshotStaysTrue`;
`SetupStaysTrue`, `SetupStaysKept`; `SkillsStayKept`; `ConnectionsStaySound`;
`RowsStayFaithful`).
`DaemonInv` says that the port is held by who listens (`PortIsHeld`), that who runs
the executor listens (`ExecutorsListen`; two executors would be two holders), and
that a client's SIGTERM is aimed at the process its record named. `WriteInv` ties a
write's execution to the one request in flight for it: a client replays only what
was refused. `SnapshotInv` says, at every step of an answer under construction,
that what a row or account tells was said by its source (`RowsAreSaid`,
`AccountsAreSaid`), where the app server's child is (`ServerIsKept`) and that a
candidate fits its row; `SnapshotIsTrue` is read off when the report returns.

`SetupInv` is what the setup's terminals owe each other, and the theorem is about
`SetupHolds` under `SetupSpec`, for any number of terminals, screens and crashes;
`SetupStaysKept` carries it to the composition the run `home` explores
(`HomeSpec => []SetupIsKept`). `DueIsDone`: a terminal
that stands before the marking of a step has its answer in the file it belongs to,
which no other terminal can take out again, because values are only replaced by values,
what is installed stays, and folders and blacklist only grow. `ReviewsAreNarrow`: a
review that nobody edited authorizes nothing beyond what was read when it opened and
what is declared, and `SavedIsAuthorized` shows that a save reads back as exactly what
its screen authorized. `GuardKeepsOut` needs no invariant: it follows from the guard
judging both sides by real path, and never opens how directories are nested. The one
assumption on the initial files is that a marker with the catalog's version was written
after the host folders, which is the order of `runOnboarding`.

`SkillInv` is about the links to the skill. `TurnHolds`: the folder whose turn it is has
its record before its link, nothing is in the way where the link will be, and the
shared root already points at this checkout. `NothingElseIsOwned`: a command owns no
link it can see that is not on record, so a cut-short or failed command can neither
replace nor remove one. `ArrivalsHold`: a folder reported as linked is one whose links
lead to the checkout, and `ArrivalStays` shows that no later turn of the command undoes
it. The attempt corrected the model: `OwnersEntriesStay` once spared every link the
owner made, and the invariant failed for one equal to the record. An installation that
is cut short between the record and the link, in a folder it could not search, leaves a
record that fits a link the owner had there; a later command takes that link for its own
(skill-links.ts:196 plans for the reverse only, a record without its link, "simply already gone"). The property now says
what the header of skill-links.ts says, that a link is replaced or removed only while it
points where the record does, and the owner may make such links in the model too.

`ConnInv` is about the Gateway client. `MemoIsFresh`: the shared connection never met a
daemon it cannot use. `OpenOnes`: requests and streams run on open connections.
`NewOnesAreUnspoilt` and `StreamsLookAhead`: a connection that is not open yet has met
nobody, and a stream's target never lies behind the one it began with. The steps are
then one lemma per group of actions; that a connection is given up only on account of
its own failure, and that targets only move on, are read off the steps.

`ScanInv` is about the rows of the monitor. `ConsentComesFirst` is the part that says
that nothing was watched, noted, read or recorded before setup. `TranscriptsFit`: a
transcript begins with its head, an Owner Operator chat has its stamps, and a Codex log's
last turn record tells how its turn stands. `RowsFit`, `NoneIsAhead`: there is one row of
a session, and whoever stands for the session now has spoken no earlier than the row
tells; without it `recordScan` would drop a newer reading as a stale one, also when a poll
fails after some of its rows (`FailingKeeps`). `NothingIsMissed` is the core: a
session that was scanned and of which no watched file is still to be read (`Settles`) has
its thread in the table or in the poll on its way, and a poll on its way has nothing else
of it. A full poll that fails takes nothing away: the files it would have read are still
noted or already recorded, which is why `settled` survives it. It rests on three facts
about scans: a partial scan reads a session with all of
its transcripts (`ChangedAreWhole`), at most one of them stands for it (`OneIsBest`), and
a write to any of them in a watched store makes the session owed again. What the reader
computes from a sequence of records is stated by position (the latest record of a kind,
the first with a directory), so `KindsJoined` says once what an appended piece changes.

**`WorktreeProofs`** (`RowsStayTrue`, `RetriedCreatesStaySucceeding`). The first
needs `SeenWas`: whoever's worktree is at a path, or was seen there by a request
that has not registered yet, was there. The second holds only between the owner's
own edits, so its invariant is `Undisturbed => Calm`: every path was created here
and stays, what a request saw is still what is there (`LooksAreFresh`), a create
nobody else disturbed has its path for itself (`CreatesAreAlone`), and a failure is
barred for good, in particular because nobody is left to add a worktree for a
branch without one (`FailuresAreBarred`). `ExcusedGrows` carries it over the owner's
edits.

**`RunRecordProofs`** (`LogStaysInOrder`, `LogsAreKept`, `FollowersSeeTheLog`; `LeasesStaySound`;
`UpgradesPreserve`).
What a run leaves on disk. `FollowersSeeTheLog` is a
refinement: every step of the log, the daemon, the socket and the CLI is a step of
`RunLogPromise` or a stutter. `LogInv` has two parts. `LogOk`: numbers rise and stay
at or below the counter, and a result is the last record of a run that ended. `Fits`:
the socket holds what comes next for the CLI (`FrameFits`), and every record that the
log still keeps between the CLI's position and the stream's is among it (`Covers`;
without it the CLI could read past a record that is still there). Three facts carry
the proof: an eviction leaves an end of the log, whatever the byte counts say
(`EvictionLeavesAnEnd`), a daemon that lost its counter takes it from the log before
it answers anybody, and a socket takes a beginning of what it is offered.

`LogsAreKept` is about bytes: after every append to a running log it fits its budget, and
what was evicted would not have fit with the new record. `CountIsExact` ties the
cached count to the sum over the log, or to nothing after a restart. The sum is a
recursive function, and its equations come from the existence of partial sums
(`TallyExists`), by a least counterexample instead of an induction rule; the rest is that
sums of parts add up (`BytesOfParts`) and grow with the log (`TallyGrows`).

`LeasesStaySound` has its invariant, `LeaseInv`, from the operating system: a process's
parent lives and shares its lease (`ProcessesOk`), so a tree below a wrapper is one
turn's (`TreesShareTheLease`); a wrapper hangs under its turn's daemon until that is
dead (`WrapperHangs`), so an orphan is a dead daemon's, which is what makes reaping by
parentage safe next to a daemon still at work; a turn at work has a running daemon,
and before its wrapper is spawned nothing runs under its lease (`TurnOk`). Nothing comes
to life under a pid that is aimed at (`PidTaken`), and what dies only shrinks the aims
(`DyingStep`). `LeasesAssumption` keeps pids, daemons and the distinguished values apart.

`UpgradesPreserve` is about every set of rows, schedules, openers and databases found,
and has one hypothesis about the latter, `Upgradable`: what has no column yet has no
value, and a database whose table must still be rebuilt, or whose schedules must still
be rewritten, is opened by one process at a time. Without that the claim is false
(`two_openers`); an up-to-date table may be opened by any number of processes. TLC
evaluates `Upgradable` on the databases of the run (`DatabasesAssumption`). `StoreInv`
says what a passed stage left behind (`Passed`), which no later step of anyone takes
back (`Forward`, `PassedStays`); that what a process has read is still so when it acts
on it, as far as it matters (`ReadHolds`), which is `Upgradable`'s last line carried
along (`Modern`: nothing is left to rebuild, or nobody else is there); and that a row
before the split still says what the split will make of it (`RowsHold`). `StoreAssumption`
keeps the absent run apart from rows and processes.

**`LaunchProofs`** (`TurnsStayAsAsked`, `ConfirmationsStayGood`, `IdentityIsKept`).
`AsksForPins` carries the caller's pins and its conversation from the request to the
turn; `TurnConfirmed` and `ProbeConfirmed` say that what was confirmed is what was
asked, as the session last reported it. `ConfirmationsHold` speaks only of a harness
that behaves the same (`calm`), so its invariant follows the calm jobs: their
sessions are what the harness gave them up to one setting (`CalmSession`), and
whether one is confirmed depends on nothing but the harness's listing and the asked
effort (`Confirmable`). A setting keeps the options' ids, values and number
(`SettingKeepsSelectors`), so the option that was set is the one the confirmation
looks at. `IdentityIsKept` is about two jobs: rows of one conversation ask for the
same model and effort (`RowsAgree`), since a continuation copies its predecessor's row and
a fresh conversation is nobody else's, and what a turn runs on is what its row asks for;
approvals and reconfigurations in between touch no row (`RowsAreKept`).
`LaunchAssumption` fixes the shape of a listing (finite options, each with
an id, a category and values) and tells the absent model and effort from the rest.

**`MonitorProofs`** (`AnswersStayCurrent`, `DoneStays`; `RowsComeBackInPlace`,
`ChangesAreNotMissed`). `MonitorInv`: a row has seen no
more than its transcript holds and its state rests on at least what it has seen
(`RowsRest`), a poll holds readings of what was there (`PollReads`), and a call that has
read its transcript rests on at least the message it was made for (`CallsRest`). An
answer is accepted only for the message its row shows, so it rests on no less than the
row. `ObservedRow` and `AssessedRow` say this once of the two ways a row changes, and
that only a newer message takes a row out of done.

`PanelInv` is about the widget that shows those rows. `HidesHold`: the counter of a row
is the number of its writes in flight (a cardinality: overlapping writes of one row are
what a flag would lose). `PlacesHold`: a write that waits has a read before it that has
not begun, or one on its way that was read after the write; what a settled write leaves
behind is at most as new as the rows shown and as those on their way. `SeenHolds`: rows
on their way to a client that has no frame waiting are current. Nothing depends on how
sessions are nested, so `Ancestors` is never opened.

**What stays with TLC.** Liveness (`RunsEnd`, `QueueDrains`, `HandoffsAreTold`,
`SessionsCatchUp`, `FollowerIsTold`, `StoreOpens`, `RowsCatchUp`, `ClientsAreServed`,
`OrphansAreReaped`, `SelectionIsFollowed`, `PanelCatchesUp`): the prover does not reach
fairness or ENABLED. Every other property that a passing run checks is the statement of
a theorem.

## 6. Plan

Modelled: everything section 1 names a module for. Next: a composition of the
executor with a parent session, whose `outcome` is the executor's `runs`.

## 7. Not modelled

Presentation (CLI rendering, elapsed times, widget layout, labels and ordering of
views); the Operator's prompts, tools and skill texts, assembled once per session;
the guarded read-only SELECT in its own process; evaluations, which are offline;
transcript formats other than Claude, Codex and Pi, git diffs and attribution
beyond host folders; the vendored search engine's ranking; routing of the
Gateway, which is request and response; acpx, Git, Pi and the harnesses, which are
external and appear as what they may do.
