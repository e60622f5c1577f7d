# dsh-worker: specification and proofs

dsh-worker runs coding assignments ("tickets") with external model workers. A
controller prepares a git worktree per ticket, runs a worker in it, verifies
what the worker delivered with commands of its own, and records the verdict of
an external reviewer. This directory is a TLA+ development of that program:
modules translated from `src/packages`, TLC configurations that model-check
them, and theorems proved with TLAPS.

Contents: [Inventory](#inventory), [Modules](#modules),
[Actions and code](#actions-and-code), [Abstractions](#abstractions),
[Runs](#runs), [Findings](#findings), [Observations](#observations),
[Fairness](#fairness),
[Proofs](#proofs), [Plan](#plan), [Not modelled](#not-modelled).

## Inventory

| Component | State | Operations | What is hard | What makes it correct |
|---|---|---|---|---|
| Controller (`core/controller.ts`) | one durable `TicketRecord` per ticket; in memory the `operations` map (abort handle and promise of the closure running for a ticket) and `closing` | prepare, run, instruct, cancel, verify, review, recover, archive; a fence at startup | closures that interleave at every `await`; a crash between any two transactions while detached worker processes survive; late notifications; explicit recovery of whatever was left | one writer per worktree; capacity; no evidence without proof; nothing sent twice; every fenced ticket recoverable |
| Review coordinator (`core/review-coordinator.ts`) | durable pools, review runs, scheduled operations; in memory `live`, `admitted`, `pumping`, `queuedPump` | configure, request, schedule, cancel, recover, kick/pump | queue order against direct calls; wake-ups; limits that drain; recovery after restart | a review owns its ticket while it runs; limits; no lost wake-up; acceptance bound to a report |
| Store (`core/store.ts`) | SQLite: tickets, revisions, events, object tables | transaction, update, save, revision, event | a crash between transactions | atomic updates, immutable revisions |
| Service and its lock (`server/plugin.ts`, `core/controller-lock.ts`) | `controller.lock`, its lock database, `service.json`; startup and disposal | start, dispose, crash | a second service on the same home; a successor that starts while its predecessor stops | one service has the store open; the discovery file names it |
| Git (`core/git.ts`) | worktrees with an owner mark, checkout baseline, file cache, snapshot artifacts | createWorktree, capture | edits during a capture; index flags, conversions, a staged file put back | no change is missed, none invented, nothing stale |
| Snapshot reader (`core/snapshot-reader.ts`, `snapshot-worker.ts`) with `pollStatus` | worker thread, cache, pending requests | read, close, poll | a record saved during the capture; shared and cached captures; thread death | an answer no older than the record it comes with; every poll answered |
| Retention (`core/retention.ts`) | run homes on disk | prune | a pending answer needs a home | keeps what recovery or an answer needs |
| Runtime adapter (`runtime/adapter.ts`) | child process, IPC channel, pending receipts, timers, process scan | execute, instruct | timeouts against late answers, abort, a child that dies | a clean exit is reported only when every process is gone; each receipt settles once |
| Runner (`runtime/runner.ts`) | one harness session, input channel | start, instruct, cancel | a message after the turn ended | receipts only for admitted text |
| Process ownership and commands (`shared/process.ts`, `core/commands.ts`) | process table, markers, timers | discover, terminate, execute, runCommands | pid reuse, forks during a scan, cleanups that overlap | no survivor is missed, no stranger is hit but by a pid that changes hands between look and kill, a command ends |
| Delivery parsing, policy, plugins, coding tools, credentials, redaction | none of its own | pure functions and configuration | - | - |
| Trajectory (`server/trajectory.ts`, `web/trajectory.ts`) | projection of agents with its cursor; a panel with a window of the journal | activity, page; poll, load more, start again | a projection carried on while attempts come and sessions are resumed; answers that arrive late | carried on and rebuilt agree; a window without gaps |
| Live page (`server/http.ts`, `web/app.ts`) | event stream and its cursor; overview, dialog, requests in flight | connect, refresh, open, act | lost and cut-off connections, one shared refresh, answers out of order | every event handled once; the page catches up |
| Rest of the server, CLI, review pages | connections, forms | transport and views of the API | - | - |

The controller is the centre. The HTTP server and the CLI call
`Controller.execute`; the controller calls the runtime adapter, which forks a
runner, and is called back with notifications and process lists; every change
of a ticket is one `store.update` transaction with a named journal event; the
coordinator shares the ticket's `activeOperation` with it and calls `run` and
`verify` from its queue; snapshots of the worktree, taken with git, tie an
attempt, its verification, its review and its continuation together.

## Modules

| Module | Models |
|---|---|
| `TicketRecord` | the durable record and, one operator per journal event, what each transaction does to it |
| `Controller` | EXTENDS `TicketRecord`: one action per request handler, asynchronous step, callback and failure path; crash and restart; processes and worktree edits |
| `WorktreeLease` | the abstract promise: who may write to a worktree, how many leases there are, what a crash does to them |
| `ControllerProperties` | the properties, and the refinement mappings to `WorktreeLease` and `TicketView` |
| `MCController` | the instance TLC runs (symmetry set) |
| `ControllerProofs` | ownership: inductive invariant, safety theorems, refinement of `WorktreeLease` |
| `ControllerEvidenceProofs` | EXTENDS `ControllerProofs`: what a review, an acceptance, a continuation and an instruction rest on |
| `ControllerViewProofs` | EXTENDS `ControllerEvidenceProofs`: refinement of `TicketView` |
| `TicketView` | tickets as the review coordinator sees them: an abstraction of `Controller`, and the base of the next module |
| `ReviewQueue` | EXTENDS `TicketView`: pools, the durable queue, the pump, review runs, their recovery and the fence; every action of a ticket with what the coordinator adds to it |
| `ReviewQueueProperties` | what the coordinator guarantees |
| `MCReviewQueue` | the instances TLC runs: symmetry, initial states with work in progress |
| `ReviewQueueProofs` | inductive invariant and theorems, for any number of tickets, pools and entries |
| `RuntimeContract` | the abstract promise of a runtime: receipts, results, living processes |
| `RuntimeSession` | one attempt in adapter and runner: both processes, the channel between them, every timer, signal and death |
| `RuntimeSessionProperties` | the refinement mapping to `RuntimeContract`, and when things end |
| `RuntimeSessionProofs` | inductive invariant, and the refinement of `RuntimeContract` |
| `SessionHistory` | EXTENDS `Controller`: the session histories on disk, and `prune` |
| `ServiceLifetime`, `ServiceLifetimeProperties` | services that contend for a home: lock, startup, work, disposal, crash |
| `ServiceLifetimeProofs` | inductive invariant and theorems, for any number of services |
| `WorktreeCapture`, `WorktreeCaptureProperties` | a worktree from its creation on, and `capture()` step by step against edits |
| `WorktreeCaptureProofs` | inductive invariant and theorems, for any paths and number of edits |
| `SnapshotPolling`, `SnapshotPollingProperties` | `pollStatus()` over the snapshot reader and its worker threads |
| `CommandCleanup`, `CommandCleanupProperties` | a list of commands, `execute()`, `discover()` and `terminate()` over a process table |
| `Trajectory`, `TrajectoryProperties` | the journal of a ticket's execution, the server's projection and pages of it, the panel |
| `LiveView`, `LiveViewProperties` | the event stream and the page that follows it |
| `MCComponents` | the instances TLC runs of the last seven components |
| `ComponentsProofs` | theorems about histories, polls, cleanups, the trajectory and the live page, and the types of them all |

`Controller` and `ReviewQueue` share tickets, and their product is far too large
to check. They meet in `TicketView`: the controller refines it (checked as
`ImplementsTicketView`), and the coordinator is composed with it. So what
`ReviewQueue` says of tickets holds for anything a ticket of `Controller` can do
without reviews, and an owner of kind review is added on top.

`RuntimeSession` meets the controller in `RuntimeContract`: the session refines
it (`ImplementsContract`), and what `Controller` leaves open about `execute()` and
`instruct()` (below, *Runtime*) is no less than the contract allows.
`SessionHistory` is a true composition with `Controller`. The six other
components beside the controller are connected to it by a value, not by shared
steps: a capture gives the digest that `Controller` treats as the worktree's
content, a cleanup gives the survivors it treats as exact, polls, trajectory and
page read what it has stored. They are checked on their own.

`MCComponents` checks them in one run. They share no variable, so a behaviour
picks a component (`part`) and moves only that one; the others stay in their
initial states. The state space is the sum of theirs and not the product. An
invariant of one component holds of the others' behaviours by holding of its
initial states, so each is checked exactly on the behaviours of its component.

State and code: `record` is the `tickets` table. `operations` is the map of
the same name, with the data its closures captured (`queued`, `runtimeEntered`,
the continuation). `processes[t]` is the set of operation markers that have at
least one living OS process. `worktree[t]` is the digest `capture()` would
return. `awaiting[t]` holds the instructions whose `runtime.instruct()` promise
is pending. `handed` is a history variable: how often the text of an
instruction was given to a runtime.

In `TicketView`, `ticket[t]` is the part of a record the coordinator's decisions
depend on; `live` says that the `operations` map has the ticket, `unchanged` that
`capture()` gives the snapshot of the current attempt. In `ReviewQueue`, `pools`
is the `review_pools` table and `entries` the `review_runs` and
`scheduled_operations` tables: both take their sequence number from the journal,
so one sequence in queue order holds them. `binding` is the ticket's
`reviewPoolId`. `reviewing[e]` is the entry of `this.live` and where the body of
`execute()` stands, `recovering[e]` counts the `recover` calls awaiting
`terminate()`, `processes` holds the reviews whose marker a process carries, and
`pump` is `idle`, `queued` (`queuedPump`) or `pumping`.

In `RuntimeSession`, the service's side is `phase` (where `execute()` is), the
locals of the call (`termination`, `scanFailed`, `outcome`) and the map of
waiting receipts; the runner's side is `runner` and its flags; `toRunner` and
`toService` are the two directions of the IPC channel, which keeps order; `others`
holds the living processes beside the runner. In `ServiceLifetime`, `holder` is
who is inside the exclusive SQLite transaction, `marker` whom `controller.lock`
names, `discovery` whom `service.json` names, `remaining[s]` what is left of a
disposal. In `SnapshotPolling`, `version` stands for `updatedAt`, `requests` for the
promises of `pending`, `replies` and `deaths` for events of worker threads that
the event loop has not handled. In `WorktreeCapture`, a path has its bytes and a
stamp (what `lstat` tells), its staged blob and a hidden flag; `files` is the file
cache. In `CommandCleanup`, a process is its identity (pid and start time);
`reuses[s]` is whose pid a stranger has got, and `Holders(p)` who has the pid of `p`.
`polling` is a scan between its two reads, and `scan` a synchronous one between them,
or a round of signals: the processes left to look at, and the pid the next signal
is aimed at. `closer[c]` are the two calls of `terminate()` of a command: the one its
timeout or cancellation starts, and the final one; `struck` is a history variable:
whom the last signal reached. In `Trajectory`, `agents` is the projection, `panel` the panel. In
`LiveView`, `looks[t]` is what `version()` made of a ticket after each change of it (the
length counts the changes), `journal` is the event table, `stream` what the server has flushed and
what is in flight, `reading`, `clicks` and `acts` the requests in flight.

Attempts and verifications are identified by their position, which is what a
fresh `uid()` gives each of them: a name nobody else has. `activeOperation` is
an owner of kind attempt, verification, recovery or uncertain.

Definitions whose comment starts with "Fault:" are plausible bugs of the code
next to them. No specification uses them. `PROJECT.json` pairs each with the
definition it would replace and the property that then fails.

## Actions and code

Lines are of `src/packages/core/src/controller.ts`; `PROJECT.json` has the full map.

| Action | Code |
|---|---|
| `PrepareRevision`, `PrepareRevisionBlocked` | `prepare` 393-509: reservation and outcome are two transactions of one synchronous call |
| `PrepareAgain`, `PrepareAgainBlocked` | `prepare` with the content already stored, 422-430 then 481-507 |
| `Archive` | 289-295, archive and restore |
| `Run` | `run` 510-680, up to attempt.started; `ContinuationBinds` is 537-576 |
| `SetupPassed`, `BlockOnSetup`, `BaselineDone` | `prepareEnvironment` 997-1153 |
| `EnterRuntime` | 686-731: the frozen snapshot check and the call of `runtime.execute` |
| `ObserveReceipt`, `ObserveConsumption` | notification callback 734-842 |
| `Settle`, `RunFails` | attempt.settled 856-935, attempt.failed 936-951, and the `finally` |
| `Cancel`, `CancelIfUnconsumed` | `cancel` 1154-1208 |
| `Verify`, `VerifySettles`, `VerifyFails` | `verify` 1209-1357 |
| `RecordReview` | `review` 1358-1412 |
| `Recover`, `RecoverySettles`, `RecoveryFails` | `recover` 1432-1605 |
| `QueueInstruction`, `SendInstruction`, `SendReceived`, `SendUncertain` | `instruct` 310-392: up to the `await`, and the two ways it continues |
| `Restart`, `RestartInPrepare` | the process dies; the constructor 76-138 of the next one |
| `EditWorktree`, `ProcessesExit` | environment: anyone edits the checkout, processes end |

Lines of `src/packages/core/src/review-coordinator.ts`:

| Action of `ReviewQueue` | Code |
|---|---|
| `Configure` | `configure` 200-288 |
| `RequestReview`, `Schedule` | `request` 322-390, `schedule` 391-442 |
| `CancelScheduled`, `CancelReview` | 443-454, 935-954 |
| `PumpStart`, `PumpEnd` | `pump` 521-540 and 577-579 |
| `StartReview`, `DispatchOperation`, `AdmissionFails` | the loop of `pump` 538-576 and `start` 581-616 |
| `ReviewEnters`, `ReviewReports`, `ReviewThrows`, `ReviewEnds`, `ReviewEndsUncertain` | `execute` 617-870, the last two with the `finally` of `start` 608-612 |
| `RecoverReview`, `RecoverReviewEnds`, `RecoverReviewFails` | `recover` 955-988, up to its `await` and the two ways it continues |
| `DirectRun`, `DirectVerify` | `Controller.run` and `verify` behind `beforeOperation` 469-481 |
| `Prepare`, `PrepareAgain`, `Recover`, `OperationEnds`, `Edit` | the controller's handlers through `TicketView`; `OperationEnds` includes the `kick()` of each `finally` |
| `Decide` | `review` of the controller with `validateAcceptance` 871-931 |
| `Restart` | the constructor's fence 69-86, then the controller's 107-132 |
| `RestartInDispatch`, `RestartInPrepare` | a crash between the two transactions of one synchronous call |

Of `RuntimeSession` (`runtime/adapter.ts`, then `runtime/runner.ts`):

| Action | Code |
|---|---|
| `Begin`, `Abort`, `Instruct`, `ReceiptTimeout` | `execute` 67-131, the abort listener 161-165, `instruct` 48-131 |
| `ScanFails`, `DeadlinePasses`, `Tick`, `TickKills` | the interval 166-199: scan, deadline, watchdog |
| `OnReady`, `OnInstructionResult`, `OnOutcome`, `NotificationFails` | the message handler 201-238 |
| `NoticeDisconnect`, `Exit`, `Return` | 112-115; the exit 240-263; scan, terminate and result 264-297 |
| `ServiceDies` | the service crashes; runners are detached and survive |
| `RunnerReady`, `ReadStart`, `ReadCancel`, `ReadInstruction` | runner 277-314, 192-209 |
| `PreflightFails`, `RunStarts`, `RunRefused`, `InboxSpliced`, `PromptSettles`, `RunEnds`, `HarnessCloses`, `RunnerExits` | the body of the run 48-274 and its exit 310-312 |
| `OrphanNotices` | the runner's `disconnect` listener 315-318 |
| `HarnessTakes`, `ToolStarts`, `ProcessEnds` | external: the harness and what its tools leave behind |

Of the components in `MCComponents`:

| Module | Action | Code |
|---|---|---|
| `SessionHistory` | `RunnerOpens`, `Prune`, `FindsHistory` | runner.ts 86-141; retention.ts 14-47; controller.ts 1490-1494 |
| `ServiceLifetime` | `Contend`, `CheckMarker`, `CreateMarker` | controller-lock.ts 16-46 |
| | `OpenStore`, `Listen`, `Announce` | controller.ts 91-138; plugin.ts 65-80 |
| | `Dispose`, `Disconnect`, `Withdraw`, `AbortWork`, `SettleWork`, `Unmark`, `Release` | plugin.ts 49-64, controller.ts 1613-1619, controller-lock.ts 47-53 |
| | `WorkBegins`, `WorkEnds`, `Die` | an operation's entry in `operations`; a crash anywhere |
| `SnapshotPolling` | `Ask`, `Continue`, `Fails` | `pollStatus` controller.ts 187-217, before and after its `await` |
| | `OnReply`, `OnDeath`, `CacheExpires`, `Close` | snapshot-reader.ts 18-79 |
| | `Capture`, `WorkerDies`, `Save`, `Edit` | the worker thread; the record; the checkout |
| `WorktreeCapture` | `AddWorktree`, `MarkOwner`, `RecordBaseline`, `PrepareFails` | git.ts 94-122, 247-277; controller.ts 478-509 |
| | `BeginCapture`, `ReadIndex`, `ReadOthers`, `ReadDiff`, `StatFile`, `ReadFile` | the awaits of `capture` git.ts 322-494 |
| | `Edit`, `Stage`, `Hide`, `Reconfigure` | external: anybody in the worktree |
| `CommandCleanup` | `Spawn`, `Expires`, `Exits`, `CleansUp`, `Settles` | `execute` process.ts 249-361 |
| | `PollStarts`, `PollEnds` | its periodic scan 137-192, 305-319 |
| | `ReadTable`, `ReadMarkers` | `discover` and `terminate` 67-134, 193-214: the two reads of a scan, and what follows from them |
| | `CheckAlive`, `Kill`, `SignalsEnd` | `terminate` 199-206: `alive(p)` and the signal to its pid, one process after the other |
| | `Fork`, `End`, `PidReused` | external: the operating system |
| `Trajectory` | `Start`, `Happens`, `Ends`, `Recover` | what writes the journal: controller.ts 581-951, 1555-1584 |
| | `ActivityRead`, `PanelAnswered`, `ServiceRestarts` | http.ts 175-233 with server/trajectory.ts 99-230 |
| | `Mount`, `Tick`, `LoadMore`, `StartAgain`, `PanelShows`, `PanelFails` | web/trajectory.ts 95-252 |
| `LiveView` | `Happens`, `Flush`, `Drop`, `Connect`, `HandleEvent` | store.ts 128-141; http.ts 150-172; app.ts 1183-1224 |
| | `Open`, `Timer`, `AnswerOverview`, `ShowOverview`, `ShowFresh`, `ReadFails` | `refresh` app.ts 253-308, 1225-1230 |
| | `Click`, `AnswerClick`, `ShowClicked`, `Close` | `showDetail` 485-498, closing 1046-1050 |
| | `Act`, `ActAnswered`, `ActShown` | actions of the dialog 472-477 |

`pump()` is synchronous, so while it runs only its own steps and a crash are
possible (`~Pumping` guards everything else); its transactions are steps of
their own so that the crash may fall between them.

One Node process runs the controller and the coordinator on one event loop, so the code between two
`await`s is one action and nothing interleaves with it except a crash. A crash
can fall between any two transactions. `prepare` has two in one synchronous
call, hence `RestartInPrepare`; every other transaction is an action of its
own, so `Restart` before or after it is the same. In the other modules a step
ends wherever the code awaits, and wherever another process or thread may act
between two system calls (the two reads of a process scan, the look at a process
and the signal to its pid, the Git commands and file reads of a capture, the files
of a startup).

## Abstractions

- **Digests.** `Snapshots` is the set of contents a worktree can have,
  `OutOfScope` those whose capture reports violations. The scope of a ticket
  does not change with its revision.
- **Commands.** Setup, baseline and verification commands are each one span of
  processes with one result. A verification has one settling transaction; the
  progress writes in between change nothing the properties read.
- **Processes.** A marker is in `processes[t]` from the action that starts the
  first process until `ProcessesExit`. `discover()` and `terminate()` are exact
  about marked processes, so "terminate found nobody" is the guard that the
  marker is not there. A process that loses its marker is outside the model.
- **Runtime.** `execute()` may return any outcome (with or without receipt,
  completion, clean exit, provider error, delivery), may throw, may report
  receipts and consumption at any time. An abort does not force an outcome.
  Pending `instruct()` promises settle before `execute()` does: the adapter
  rejects them when the child exits (`adapter.ts` 241-256) and only then waits,
  terminates and resolves.
- **Setup of a run.** `prepareEnvironment` reads the worktree after each
  phase; `EditWorktree` may change it at any point in between.
- **Notifications.** The callback's early returns are summarised by the guard
  that the run is in its runtime stage. The callback (controller.ts 734-842) has no
  check of its own that the current attempt is still the one it was made for; it
  needs none, because notifications come from inside `execute()`: the adapter settles
  every receipt before `execute()` resolves, and `Settle` follows that. Whether a
  native message matches an instruction's text is nondeterministic.
- **Continuations.** `pendingAnswer` and `pendingDelivery` are one field,
  because recover and run always clear both. The existence of a session
  directory, `checkOwnership`, `cleanEnv`, the dispatch switch and archiving of
  files can only refuse more and are left out.
- **Reviews.** The last review is kept: nothing reads an earlier one.
- **Sending.** `handed` counts a live send when it is attempted, which is an
  upper bound on what the runtime got.
- **Fence.** The startup loop over tickets is one action. It is idempotent per
  ticket, so a crash inside it equals a crash after it.
- **The end of a blocked setup.** `block()` releases ownership in its
  transaction and the `finally` clears `operations` some microtasks later; no
  request can run in between, so they are one action.

Of the review coordinator:

- **Tickets.** Verification evidence, instructions, baselines and continuations
  stay in `Controller`; `TicketView` leaves every outcome they decide open.
- **Pools and policy.** A ticket is under two-level review exactly when it names
  a pool; an unbound ticket is reviewed externally. `expectedVersion`, batch
  binding, skills and execution settings can only refuse a request or are
  handed through. A pool's limit comes from `Limits`.
- **Snapshots.** A request names ticket, revision, attempt and digest; the digest
  is that of the attempt's frozen snapshot, so it is determined by the attempt.
- **Reports.** A report is conclusive (acceptance may rest on it, dispositions
  included) or not. Report and input files are immutable and are assumed intact.
- **Focused mode.** `priorRunId` selects the prompt and is left out.
- **Admission.** `AdmissionFails` covers every reason to refuse: revision, state,
  scope, a missing environment variable, an archived ticket. It is always
  possible, which only adds behaviours; the entry leaves the queue.
- **Ends.** The transaction that ends an operation or a review and the `kick()`
  of its `finally` are some microtasks apart and no request runs in between, so
  they are one action; a crash there is the crash after it, for both lose the
  wake-up.
- **Closing.** `close()` aborts the live reviews and waits: it is
  `CancelReview` for each of them and a later `Restart`.

Of the runtime session: request files, logs and prompt contents are left out;
an instruction is an id. `terminate()` in `Return` leaves some survivors or none,
and there and in `TickKills` it may throw. The harness may take an instruction at any time after it was
given to it, may refuse, hang or fail to close; what it does else is external.

Of the components in `MCComponents`:

- **Service.** The operating system ends a SQLite transaction with its process;
  files stay. A torn marker is one created and not written. Port and token are
  left out.
- **Polling.** One ticket; the cache may expire at any time. A capture reads the
  content once: what an interleaved one gives is `WorktreeCapture`'s question.
- **Capture.** Contents are a few values, Git's clean filter maps converted bytes
  to the base. Scope rules, the diff's text and artifact files are left out.
- **Commands.** Only the first command forks descendants. A descendant may be started
  without the marker. The first signal dooms a process or is ignored; SIGKILL is
  not ignored. A stranger may take the pid of any process of the commands that
  was reaped: a descendant at any moment after its death, a root once Node has seen
  it exit (`Exits`). Identities (pid and start time) are exact. Left out: a process
  of the commands that gets a used pid, a zombie, `EPERM` from a kill, and a `ps`
  that fails.
- **Trajectory.** An event has a kind and a session. A query's filters are left
  out.
- **Live page.** A ticket's version is the number of its changes, with an event or
  without one (an edit of the worktree, a cache that expires); an answer holds the
  versions of the moment it is made. `version()` gives each a look, a member of a
  small set: a change may leave it as it was, or bring back an earlier one. The
  overview shows what it was given; the dialog is compared by look. Rendering and
  forms are left out.

Bounds, all CONSTANTs: `MaxRevision`, `MaxAttempts`, `MaxVerifications` stop
`prepare`, `run` and `verify` from growing the history. In `Controller` nothing else is
bounded. `ReviewQueue` bounds requests and schedulings together (`MaxEntries`) and
the concurrent recoveries of one run (`MaxRecoveries`). Crashes, restarts, edits,
archives, re-preparations and reconfigurations happen any number of times.
`RuntimeSession` needs no bound. `MaxEdits` bounds what happens to a worktree,
`MaxSaves` and `MaxDeaths` the saves of a record and the deaths of worker threads,
`MaxRuns` and `MaxLog` the attempts and the journal of a trajectory, `MaxEvents` the
journal of the page and the changes of each ticket on it, `MaxClicks` the clicks, `ListLength`,
`Scans` (the code has 20 per signal) and `MaxEarly` the commands, the scans of a
cleanup and the commands that are ended early. `Limit` and `Window` are a page of
the journal and the panel's window (the code has 100 and 300).

## Runs

| Run | Instance | Checks |
|---|---|---|
| `ControllerLifecycle` | 1 ticket and a spare slot (ownership alone keeps writers out), 2 revisions, 2 attempts, 1 verification, one clean and one violating digest | `TypeOK`, `SingleWriter`, `CleanWhenFree`, `FencedIsRecoverable` |
| `ControllerEvidence` | 1 ticket, 2 attempts, 2 verifications, two digests | `PromotedEvidence`, `AcceptedEvidence`, `ContinuationLineage`, `EvidenceFrozen`, `ImplementsTicketView` |
| `ControllerCapacity` | 2 tickets, 1 slot, 1 attempt and 1 verification each | `ImplementsLease` |
| `ControllerInstructions` | 1 ticket, 1 instruction, 2 revisions, 2 attempts | `HandedOnce` |
| `ReviewOwnership` | 1 ticket and slot, in or outside 1 pool, 2 revisions, 2 attempts, 2 entries, 2 recoveries at once, fair pump | `SlotIsOwnership`, `ReviewedStaysPut`, `AcceptedOnReport`, `ClosedPoolQuiet`, `SettledIsFinal`, `QueueDrains` |
| `ReviewOrder` | 2 prepared tickets, 1 slot, 2 entries | `CapacityShared`, `NoLostWakeup`, `NoOvertaking` |
| `ReviewLimits` | 2 delivered tickets, 2 slots, limits 1 and 2, 2 entries | `ReviewLimitHolds` |
| `RuntimeSession` | 1 attempt with 1 instruction, fair timers | `TerminationIsTrue`, `ImplementsContract`, `ExecuteEnds`, `OrphanEnds` |
| `Components` | 3 services; a ticket with 2 attempts; 3 paths and 3 edits; 2 polls, 2 contents, 2 saves, 1 death; 2 runs, 4 events, page 1, window 2; a page of 1 ticket with 2 looks, 2 events, 2 clicks; 2 commands, 1 descendant, 1 stranger, 2 scans | `ComponentsTypeOK`, `HistoryAwaited`, `SoleOwner`, `EveryChangeCounts`, `NothingStale`, `RebuildAgrees`, `WindowIsTail`, `SeesJournal`, `StrangersSpared`, `AnswerIsCurrent`, `EmptyMeansGone` |
| `ComponentsProgress` | polling, trajectory, page and cleanup of the above with 1 content, 1 save, 3 journal events, 1 click, 1 command, no stranger, 1 scan; fair | `PollsEnd`, `PanelFollows`, `PageConverges`, `CommandEnds` |
| `FindingSending`, `FindingObsoleteRunning` | smallest instance with the behaviour | one documented statement each, violated |

Why these bounds are enough. Two attempts are needed for a continuation and
what it continues, and for a process of an old attempt to meet a new one; two
revisions for a baseline, an instruction or an attempt that belongs to an older
one; two verifications for "the newest decides". Two clean digests are needed
for "changed" to differ from "out of scope". Two tickets and one slot are the
smallest instance where capacity can be exceeded; tickets share nothing else,
so the other runs have one. `TicketSymmetry` is sound there: tickets are
interchangeable in the specification and the properties checked under it, and
no liveness is checked. What holds for every size is proved (see below).

For the coordinator, two revisions and two attempts let a ticket leave a report
behind; two entries are the smallest queue with an order; two recoveries race
after one released the slot. Two tickets are needed for order, for shared
capacity and for a limit that is exceeded. There the behaviours start at states
every longer one passes through: a pool enabled with some limit and both tickets
prepared (`PreparedSpec`), or also run to a clean delivery (`DeliveredSpec`).
`ReviewLimits` explores a behaviour until a ticket leaves `awaiting_review`
(constraint `InReview`): reviews exist only before that, and requests,
reconfigurations, crashes and recoveries all keep it.

One instruction meets every timer, death and delay of a session; instructions
settle independently of each other. Three services are one that stops, one that
takes over and one that contends meanwhile. The three paths are one committed
and converted, one new and one ignored; an edit to a file, its staging and its
putting back take three. Two polls share a capture, two saves make the first
answer stale twice. A page of one entry makes every reading stop short, a window
of two forgets; a resumed session needs two runs. Two events are needed for one
to arrive during the refresh the other started, two looks for changes that look alike
or not, two clicks for answers out of order, two commands for the late cleanup of one to meet the next. Two scans give
a signalled process the chance to end between them. One descendant and one stranger
are a pid that changes hands at any moment. The liveness instance is
smaller, as liveness costs more: it keeps two polls, a resumed session, two
events on the page, and a command with a descendant.

`CHECK_DEADLOCK FALSE` stands where a behaviour really stops: an attempt ends, a
list of commands ends, and the bounded components run out of edits or events.

What the properties say:

- *Ownership.* `SingleWriter`: at most one operation has processes in a
  worktree, and while one has, the ticket is owned, across crashes, fences and
  failed recoveries. `CleanWhenFree`: a free ticket has no operation whose
  cleanup is unproven, and every living process belongs to an operation that
  recovery will look at. `FencedIsRecoverable`: every owned ticket without a live
  operation is in a state that `recover` accepts; a slot is never lost.
- *Evidence.* `PromotedEvidence`: whatever path leads to `awaiting_review`.
  `AcceptedEvidence`: what an acceptance rests on, long after it was given.
  `EvidenceFrozen`: an attempt or verification changes only while it owns the
  ticket, and the one baseline of a revision only while its run sets it up.
  `ContinuationLineage`: what an answer or delivery-only attempt continues.
- *Instructions.* `HandedOnce`: to at most one runtime, whatever was lost.
- *Refinement.* `ImplementsLease`: every step is a step of `WorktreeLease` or
  leaves leases and occupancy alone. `ImplementsTicketView`: every step is one
  the coordinator's model allows. `ImplementsContract`: every step of a session is
  one the runtime's contract allows.
- *Reviews.* `SlotIsOwnership`: the run's `slotHeld` and the ticket's
  `activeOperation` agree in every state, and living processes hold a slot.
  `ReviewedStaysPut`: nothing happens to a ticket under review, across restarts
  too. `AcceptedOnReport`: a two-level acceptance rests on a completed, released
  and conclusive review of exactly that attempt.
- *Queue.* `NoOvertaking`: neither a direct call nor the pump passes an older
  executable entry. `NoLostWakeup`: if an entry can start, a pump is on its way;
  with a fair pump, `QueueDrains`. `SettledIsFinal`: an entry leaves the queue
  once, whatever restarts and re-enabled pools do. `CapacityShared`,
  `ReviewLimitHolds`, `ClosedPoolQuiet`.
- *Session.* `TerminationIsTrue`: "completed" is earned by a runner that
  succeeded, closed its harness and left by itself, and no abort is lost.
  `ExecuteEnds`: the call returns, unless the watchdog's `terminate()` threw, which
  it does not repeat. `OrphanEnds`: a runner without its service ends, unless it
  had just reported a harness it cannot close.
- *Home.* `SoleOwner`; `HistoryAwaited`: prune takes no history that an answer
  still needs.
- *Evidence of a worktree.* `EveryChangeCounts`: no edit hides behind an index
  flag, a staged file put back or a changed configuration, and no conversion of
  the checkout counts as one. `NothingStale`: an entry of a snapshot was in the
  worktree since the capture began. `AnswerIsCurrent`: the record of a poll's
  answer is the current one, and its snapshot from after the last save.
- *Cleanup.* `StrangersSpared`: a process of somebody else is hit only where it got a
  descendant's pid between `alive()` and the signal; one that was there when
  `alive()` looked never is, and the pid of a root never leads to one.
  `EmptyMeansGone`: "nothing remains" is true but for what was forked between the
  two reads of the scan, or has neither the marker nor been seen before.
  `CommandEnds`: an ended command leaves `execute()`, unless a process no scan can
  find holds its output open.
- *Watching.* `RebuildAgrees`: a projection carried on over new attempts and
  resumed sessions is the one a restart would build. `WindowIsTail`,
  `PanelFollows`: the panel shows a gapless end of the journal and reads on.
  `SeesJournal`: every event once and in order. `PageConverges`: the
  overview catches up with every change and the dialog with what `version()` tells
  apart, although refreshes share one request, answers cross and a ticket may look
  again as it did.

`NoLostWakeup` and `QueueDrains` speak of entries of their ticket's current
revision; for an older one they fail (see Observations).

## Findings

Two statements of the documentation that the code does not keep. Neither breaks
one of the safety properties above.

1. **Instructions left `sending`** (`FindingSending`). If `runtime.execute()`
   rejects after it was entered, attempt.failed leaves the instructions of the
   prompt at `sending`; only the startup fence and attempt.settled turn such
   instructions into `uncertain`. After `recover` the ticket is ready, nobody
   awaits a receipt, and the instruction says `sending` for good. The skill
   documentation says that `sending` means awaiting a receipt. It stays out of
   later prompts, so nothing is sent twice; but it also keeps a delivery-only
   recovery of that revision, and an answer to that attempt, refused.
2. **An agent shown running for good** (`FindingObsoleteRunning`). attempt.failed
   and the startup fence give an attempt no `endedAt`, and `recover` makes the
   record ready again. The label of its agents then falls back to the stored
   `running` (server `trajectory.ts` 187-212). The architecture document says that
   ownership teardown and crash fencing override obsolete running labels; they do
   only until the recovery. The dual: a resumed session stays bound to the old,
   ended attempt (`trajectory.ts` 127-135), so an attempt at work shows `ended`.

## Observations

What the models have and no property claims, because neither code nor
documentation promises it, or because the properties had to make an exception
for it. A reader of the code may want to know.

- **Blocked without a way back** (controller.ts 495-502, 1452). Preparing the same
  content of a prepared ticket again, while its checkout has violations, blocks
  it. If it never had an attempt, `recover` fails with `attempt_missing`, and another
  `prepare` does not restore `ready`. A new revision is the only way on.
- **A stale entry wakes nobody** (review-coordinator.ts 503, controller.ts 477). A
  scheduled operation takes its pool from its ticket. A new revision that names
  another, enabled pool can make an operation queued for the old one executable,
  and `prepare` does not kick. It waits for an unrelated event; meanwhile direct
  calls on any ticket are refused with `capacity_reserved`.
- **An attempt outside its pool's count** (review-coordinator.ts 117). An attempt
  that throws or ends without a clean exit keeps its ticket owned, but `counts()`
  does not see it; the pool admits one more. Global capacity is kept.
- **A pending limit after a crash** (review-coordinator.ts 529) waits for the next
  wake-up: only the pump applies it and the constructor does not kick.
- **A second dispatch** (review-coordinator.ts 573). After a crash between
  `host.run()` and the write of `started`, the entry is still queued; when the
  ticket is recovered and the pool enabled again, it is dispatched again.
- **A late cleanup meets the next command** (process.ts 320-325, controller.ts
  970-979, 1284-1298). The `terminate()` a timeout starts is not awaited; commands
  of a list share the marker, so it may signal the next command's processes.
- **A pid between look and kill** (process.ts 200-202). `alive(p)` is a run of `ps` and
  `process.kill(p.pid)` a later call that names the pid alone. A descendant is reaped
  by its parent or by init, so that its pid may belong to a stranger by then, who
  gets the signal. `StrangersSpared` excepts exactly that; without the exception TLC
  finds it violated. A root is safe: Node reaps it on the event loop, which stands still.
- **Start times in seconds** (process.ts 46-62). `ps lstart` has a resolution of one
  second: a pid used again within the second its former owner was started in counts
  as the same process. The model's identities are exact.
- **An unfindable process holds the output** (process.ts 351-358): `await closed`
  then never resolves, although the scan found nothing. `CommandEnds` excepts it.
- **A torn marker** (controller-lock.ts 28). A crash between creating
  `controller.lock` and writing it leaves a file that stops every later start.
- **An unmarked worktree** (git.ts 104-118). A crash between `worktree add` and the
  owner mark makes the ticket's next `prepare` fail.
- **A lost baseline** (controller.ts 482-487). A crash before ticket.baseline leaves
  a ticket without recorded conversions; captures then compare raw blobs, hence
  `recorded` in `EveryChangeCounts`.
- **A mixed snapshot** (git.ts 366-494). A capture under edits may put together
  files that never were in the worktree at once; `NothingStale` speaks of each
  path alone.
- **File stamps** (git.ts 457). The cache of files trusts `lstat`: device, inode, mode,
  size, and the kernel's mtime and ctime. A kernel whose clock for them is coarse may
  give two writes of one tick the same stamp, and `capture` then keeps the bytes of
  the first. In the model every write leaves a stamp of its own, so `NothingStale`
  holds as far as stamps tell writes apart.
- **What the dialog does not follow** (app.ts 150-164, 272-276, 1025-1028). An open
  dialog is read again when `version()` of the overview's ticket differs. That has
  eleven fields and no verifications: one that began and ended between two reads of
  the overview, or a verification.command (controller.ts 1314), leaves it equal, and
  the dialog's list of verifications stays as it was until something else changes.
  `PageConverges` promises of the dialog only what `version()` tells apart.
- **Millisecond keys** (snapshot-reader.ts 20). The cache key has `updatedAt` in
  milliseconds; the model gives every save a version of its own.
- **Answers after an error** (controller.ts 209-215). A poll whose capture fails
  returns the record it read before the `await`; `AnswerIsCurrent` speaks of
  answers with a snapshot.
- **`immutable()`** (util.ts 72-94) does not create its file atomically; a crash may
  leave a partial one, which a retry then rejects as changed.

## Fairness

Safety properties are checked without fairness where their run states none, and
the abstract specifications (`WorktreeLease`, `TicketView`, `RuntimeContract`) have
none. Nothing is ever assumed of requests, reviewers, operators or of how long
work takes.

- **`QueueDrains`**: `WF_vars(PumpStep)`. `kick()` queues a microtask, and the event
  loop runs a queued microtask to its end before anything else; a crash resets
  it. It says that no entry stays startable for ever, not that an entry ever runs.
- **`ExecuteEnds`, `OrphanEnds`** (`RuntimeSession!Fairness`): Node's timers fire (the
  scan interval, the deadline, receipt timeouts), exit events are delivered, a
  process that `terminate()` keeps signalling ends, and a runner that lost its
  service goes on winding up, since its harness is told to close and is given
  grace periods only. The harness, tools and the model owe nothing.
- **`PollsEnd`** (`PollingFairness`): worker threads that live compute, their events
  are delivered, promise continuations run. Threads may die, `MaxDeaths` times.
- **`PanelFollows`** (`TrajectoryFairness`): the panel's timer fires, weakly. Requests
  may fail but not every time: strong fairness of being answered and shown.
- **`PageConverges`** (`ViewFairness`): the three second timer and the replies to
  actions, weakly; strong fairness of answering and showing the overview and the
  fresh details, for a connection or request may fail, but not always. The event
  stream need not work at all: the timer suffices.
- **`CommandEnds`** (`CleanupFairness`): a process that got SIGKILL ends; delays,
  scans and events of `terminate()` and `execute()` come. That a command ever exits
  by itself is not assumed.

## Proofs

### Controller

`ControllerProofs` proves, for every finite set of tickets, every capacity of at
least one and every value of the other constants:

| Theorem | Statement |
|---|---|
| `InductiveInvariant` | `Spec => []IInv` |
| `TypeCorrect` | `Spec => []TypeOK` |
| `SingleWriterTheorem` | `Spec => []SingleWriter` |
| `CleanWhenFreeTheorem` | `Spec => []CleanWhenFree` |
| `CapacityTheorem` | `Spec => []CapacityRespected` |
| `RunningIsLiveTheorem` | `Spec => []RunningIsLive` |
| `FencedIsRecoverableTheorem` | `Spec => []FencedIsRecoverable` |
| `ImplementsLeaseTheorem` | `Spec => ImplementsLease` |

Assumptions: `SnapshotAssumption` (out-of-scope digests are digests, the null
snapshot is none), `BoundAssumption` (the bounds are naturals),
`CapacityAssumption` (finitely many tickets, a positive capacity; the
constructor enforces 1..32). TLC evaluates them in every run of the controller.

**The inductive invariant.** None of the safety properties is inductive. That a
free ticket has no unclean operation follows only if one knows what an *owned*
ticket looks like: which operation owns it, that every other operation is
clean, and in which state it was left. `IInv` is `TypeOK`, `CapacityRespected`
and, for each ticket, `TicketInv(record, kind of the live operation,
processes)`: a free ticket is entirely clean and not running; a run or a
verification owns the ticket under its own name, is the last of its list and
the only unclean operation; a recovery owns it as `Recovery` in a restartable
state; an owned ticket without a live operation is restartable; processes
belong to unclean operations, at most one of them.

**The argument.**
1. Typing: one lemma per transaction of `TicketRecord` (it maps typed records to
   typed records).
2. Preservation: one lemma per transaction (`...Keeps`) says that it takes
   `TicketInv` under the operation kind before it to `TicketInv` under the kind
   after it. The lemmas on `UncleanOps` say what each transaction does to that
   set.
3. Steps: one lemma per action (`...Step`). A step of one ticket changes at most
   that ticket's lease and counts at most one more owner, which its guard
   admits (`OneTicketStep`, `CapacityStep`); it is a legal change of the
   abstract lease (`OneTicketLease`). A restart changes all tickets at once
   (`RestartedStep`).
4. `InitInv`, `StutterInv`, `StepInv` and the temporal theorems.

Capacity counts a set whose size a step changes by at most one; that is where
`FiniteSetTheorems` is used. The refinement needs the same invariant: a release
must find the worktree empty, an acquire must find it free and unoccupied.

### Services in one home

`ServiceLifetimeProofs` proves, for any set of services, finite or not:

| Theorem | Statement |
|---|---|
| `LifeInvariant` | `LifeSpec => []LifeInv` |
| `SoleOwnerTheorem` | `LifeSpec => []SoleOwner` |
| `DiscoveryTheorem` | `LifeSpec => []DiscoveryIsCurrent`: `service.json` names the service that serves |
| `RefusalTheorem` | `LifeSpec => RefusedForAnOwner`: a start is refused only for another service that holds the home |

Assumption: `NoServiceAssumption` (the null values are no services).

`SoleOwner` is not inductive: that a service with work holds the home follows only
if its disposal still has that work to settle before it releases the lock.
`LifeInv` says, for each service: it lives exactly while it holds the home; it has
steps left exactly while it disposes; if it works, it is open or its settling is
ahead; if it serves, the discovery file names it; and before it has looked at
the marker, the marker does not name it. The last makes refusals right, the
fourth needs that only the holder writes or withdraws the file. `PlanSteps` is the
fact about the order of disposal: what is left is a tail of it, settling comes
before release, release comes last. Then one lemma per group of steps
(`StartKeeps`, `WorkKeeps`, `DoesKeeps`, `DisposalKeeps`, `DeathKeeps`), each reduced to
one service by `OneService`, and the temporal theorems.

### Evidence

`ControllerEvidenceProofs` proves of the same specification, under the same
assumptions:

| Theorem | Statement |
|---|---|
| `EvidenceInvariant` | `Spec => [](IInv /\ EvidenceInv)` |
| `PromotedEvidenceTheorem` | `Spec => []PromotedEvidence` |
| `AcceptedEvidenceTheorem` | `Spec => []AcceptedEvidence` |
| `ContinuationLineageTheorem` | `Spec => []ContinuationLineage` |
| `HandedOnceTheorem` | `Spec => []HandedOnce` |
| `EvidenceFrozenTheorem` | `Spec => EvidenceFrozen` |

A review finds what a run, a verification or a recovery left, which may be many
steps and a crash ago. `EvidenceInv` therefore says what each of them still knows
of the current attempt: a live run, that its attempt has no result yet; a live or
interrupted verification, which snapshot it checks; a recovery and what waits
after it, that the attempt it continues ended as its kind requires. It needs
`IInv`: only because nobody else owns the ticket is what was read at the start of
an operation still true at its end. `HandedInv` puts the text of an instruction
in one place at a time: the queue, a batch before its runtime, or a runtime.
There is one lemma per transaction for the evidence (`...Follows`, which also shows
what it leaves frozen) and one for the hand-overs (`...Hands`); one per action
(`...Evidence`) puts them together. Before the proof
TLC checked `EvidenceInv` as an invariant on instances of two revisions, attempts
and verifications (3,935,454 states) and of two digests in scope (1,516,866).

### Tickets the coordinator sees

`ControllerViewProofs` proves `ImplementsTicketViewTheorem`:
`Spec => ImplementsTicketView`, under the same assumptions. What the coordinator
reads of a ticket is a function of three values: its record, the kind of its
operation and the digest of its worktree (`ViewValue`). `LegalView` states the
actions of `TicketView` about such values. One lemma per action (`...View`) shows
which of them it is, or that it leaves the view alone, given what `IInv` and `EvidenceInv`
say it finds; `TicketView` admits a promotion only of a received, clean and
submitted attempt, which is where the evidence is needed. With it, what is proved
of `ReviewQueue` rests on the controller's behaviour and not on a description of it.

### Review queue

`ReviewQueueProofs` proves, for every finite set of tickets, any pools, capacity,
bound on the queue and limits:

| Theorem | Statement |
|---|---|
| `QueueInvariant` | `Spec => []QueueInv` |
| `SlotIsOwnershipTheorem` | `Spec => []SlotIsOwnership` |
| `ReviewedStaysPutTheorem` | `Spec => []ReviewedStaysPut` |
| `CapacitySharedTheorem` | `Spec => []CapacityShared` |
| `ReviewLimitTheorem` | `Spec => []ReviewLimitHolds` |
| `ClosedPoolTheorem` | `Spec => []ClosedPoolQuiet` |
| `NoLostWakeupTheorem` | `Spec => []NoLostWakeup` |
| `AcceptedOnReportTheorem` | `Spec => []AcceptedOnReport` |
| `SettledIsFinalTheorem` | `Spec => SettledIsFinal` |
| `NoOvertakingTheorem` | `Spec => NoOvertaking` |

Assumptions: `PoolAssumption` (no pool is the null pool) and `QueueAssumption`
(finitely many tickets; capacity and the bound are naturals; a limit is at least
one, as the schema in `contracts/src/index.ts` line 47 requires).

`QueueInv` is `QueueTypes`, the six invariants above, and for each entry `EntryInv`:
its slot is the ownership of its ticket, its body has not left before its slot is
released, processes have a slot, a queued entry has neither slot nor report, a
recovery meets no body, and the ticket is not behind the entry's revision; for
each ticket, that a reviewer who owns it is the run that holds the slot
(`OwnerInv`); and a number nobody has used is free of remains. An action is a move
of one ticket (`TicketMove`), of one entry (`EntryMove`), of both (`JointMove`) or
appends an entry; one lemma per kind of move shows the invariant kept from a few
conditions, and one per action that it satisfies them. Capacity and limits count
sets that a move changes by at most one member, with `FiniteSetTheorems`. The pump
starts the first executable entry; that there is a first one is well-foundedness
of the numbers. TLC checked `QueueInv` before the proof (714,837 states of one
ticket and two entries; more than 11 million of two tickets).

### Runtime session

`RuntimeSessionProofs` proves, for any set of instructions, finite or not, and
channels of any length:

| Theorem | Statement |
|---|---|
| `SessionInvariant` | `Spec => []SessionInv` |
| `TerminationIsTrueTheorem` | `Spec => []TerminationIsTrue` |
| `ImplementsContractTheorem` | `Spec => ImplementsContract` |
| `ResolvedIsSettledTheorem` | `Spec => []ResolvedIsSettled`: once `execute()` has resolved nobody waits for a receipt, a received instruction was taken, and after a clean result nothing of the attempt is alive |
| `ReceiptsFinalTheorem` | `Spec => ReceiptsFinal`: a receipt never changes again |

It assumes nothing of the constants. `Delivered` says that an instruction is in
one place: on its way to the runner, at the harness, or answered, and that a
positive answer is only under way of one the harness has taken. `NoneWaits`: no
promise is pending before the runner is there or once its exit was handled.
`LetGoFirst`, `ReportsTrue`, `NoAbortLost` and `CompletedTrue` relate what the adapter
believes to what the runner did, over messages that wait in a channel while either
side dies. The refinement maps the adapter's phase and receipts to the contract's;
each action is a step of the contract or a stutter. TLC checked the invariant
with two instructions before (12.3 million states).

The last two theorems are what `Controller` takes for granted of a runtime, and no
run checks them: its `Settle` has the guards `awaiting[t] = {}` and
`o.cleanExit => ~HasProcesses(t, op)`, and takes an instruction off `awaiting` once.
They follow from the contract's steps (`ContractKeepsReceipts`, `ContractKeepsEnd`,
with `SettledInv` as the invariant); only that nobody waits is taken from the
session's own `NoneWaits`.
That nothing is alive *later*, and not only when `terminate()` looked, rests on every
process of an attempt coming from another one. TLC checked both with two
instructions.

### Captures

`WorktreeCaptureProofs` proves, for any paths, conversions, ignored paths and
number of edits:

| Theorem | Statement |
|---|---|
| `CaptureInvariant` | `CaptureSpec => []CaptureInv` |
| `NothingStaleTheorem` | `CaptureSpec => []NothingStale` |
| `EveryChangeCountsTheorem` | `CaptureSpec => []EveryChangeCounts` |

Assumption: `PathsAssumption` (a path is committed or added, not both, and only
committed files are converted). The cache is right because `lstat` comes before the
read (`StatFirst`) and every write leaves a stamp of its own (`CacheTrue`): bytes kept
under the stamp a file has now are its bytes. `HeldNow` and `EntriesHeld` say that
what was taken was in the worktree since the capture began. `CountsSoFar` says, of
a worktree nobody touches, what the set of changes is at each phase, with the
paths left to look at.

### Histories, polls, cleanups, trajectory and page

`ComponentsProofs` proves of the components of `MCComponents`:

| Theorem | Statement | Invariant |
|---|---|---|
| `EachComponent` | `Components` implies the specification of each component | - |
| `HistoryAwaitedTheorem` | `HistorySpec => []HistoryAwaited` | `HistoryInv` |
| `AnswerIsCurrentTheorem` | `PollingSpec => AnswerIsCurrent` | `PollInv` |
| `StrangersSparedTheorem` | `CleanupSpec => []StrangersSpared` | `CleanupInv`, `SignalInv` |
| `EmptyMeansGoneTheorem` | `CleanupSpec => EmptyMeansGone` | `CleanupInv` |
| `RebuildAgreesTheorem` | `TrajectorySpec => []RebuildAgrees` | `WatchInv` |
| `WindowIsTailTheorem` | `TrajectorySpec => []WindowIsTail` | `WatchInv`, `PanelInv` |
| `SeesJournalTheorem` | `ViewSpec => []SeesJournal` | `StreamInv` |
| `OverviewOnlyAdvancesTheorem` | `ViewSpec => OverviewOnlyAdvances` | `ViewTyped`, `OverviewInv` |
| `ComponentsTypeOKTheorem` | `Components => []ComponentsTypeOK` | one of types per component |

`EachComponent` carries these, `SoleOwner` and the theorems on captures over to
`Components`, the specification TLC checks.

- *Histories.* `SessionHistory` is composed with the controller, and the proof uses
  the controller's `IInv`: whoever runs or recovers owns the ticket, and prune
  passes owned tickets by. `HistoryInv` adds that the history is there for an
  answer that waits, for the recovery that asks for it and for the run that takes
  it up. Each step of the controller either leaves the attempts' number, what
  waits and the operation's kind alone, or starts the next attempt (`Carries`,
  `Advances`). It follows that the check with which `run` refuses an answer
  without a history never refuses while only prune deletes them.
- *Polls.* What a poll waits for may be another's capture or the cache's. `PollInv`
  relates both to the record: as long as its version has not moved, the capture is
  from after the last save. Assumption: `ContentsAssumption` (no content is the
  null value or an error).
- *Cleanups.* Everything a cleanup remembers is the command's own (a stranger has
  no marker and no parent among them), and what a scan's table lacks was born
  since its first read. `SignalInv` says what a round of signals may aim at: whoever has
  the pid that is aimed at is the process itself or has got the pid since the look,
  which needs that a stranger's pid was free when it got it, and that a root whose
  exit Node has not seen keeps its own.
- *Trajectory.* A projection is a fold of the journal. `WatchInv` says that what was
  read so far, with the sessions registered next, is the fold of the same entries
  over all sessions registered today: registering a session later commutes with
  the entries before it, because none of them names it (`LogInv`). Assumption:
  `RunsAssumption` (the bound on attempts is a natural).
- *Panel.* A page is the visible numbers after a cursor up to another (`UptoPrefix`),
  and the window before it is the end of those up to the first cursor, so that the
  two join without gap (`UptoSplits`, `TailGrows`). `PanelInv` says this of a page in
  flight too; it holds because the panel starts again only at rest, and because the
  journal only grows, so that what is visible stays so (`StaysVisible`). Assumption:
  `PanelAssumption` (a page has at least one entry, the window's size is a natural).
- *Page.* What was handled and what is in flight are the events from the first on.
- *Overview.* No run checks `OverviewOnlyAdvances`: what the page shows of a ticket never
  gives way to something older. `OverviewInv`: a request is answered with nothing
  older than what was shown when it was asked for, and nothing newer is shown before
  it, because the callers of `refresh()` share one request. The dialog has no such
  property: replies to actions and refreshes meet there in any order, and
  `PageConverges` says what remains.
- *Types.* No type is inductive alone. `PollTypes` and `CaptureTypes` come with `PollInv` and
  `CaptureInv`; `LifeTypes` knows the steps a disposal has left, `WatchTyped` that no
  cursor passes the journal, `ViewTyped` that the stream does not run ahead of the
  journal, `CleanupTyped` whom signals and scans know. Assumption: `BoundsAssumption` (the
  bounds on edits, saves, events and commands are naturals).

The fold, and the filter that builds pages, are recursive functions. What one computes is shown by induction over
its domain: the set of numbers for which a statement holds contains zero and is
closed under successor, hence contains every number (`NatSet`, from the
well-foundedness of `<`). The library's induction theorems, which take the
statement as an operator, cannot be used.

### Only model-checked

- **Liveness** (`QueueDrains`, `ExecuteEnds`, `OrphanEnds`, `PollsEnd`, `PanelFollows`,
  `PageConverges`, `CommandEnds`): fairness and ENABLED are out of the prover's reach.
- The two **findings**, which are violated.

## Plan

Done: the controller with its lease, its evidence and the tickets the coordinator
sees; the coordinator; the runtime session and its contract; contending services;
session histories; captures; polls; cleanups; the trajectory and the live page.
Every safety property and every action property that a passing run checks is
proved, for every value of the constants. Left:

- `Controller` composed with `RuntimeContract` in place of its open runtime. What
  `Controller` takes for granted of a runtime is proved of the contract; the
  composition would show it as a step of both.

## Not modelled

- **CLI**: a client of the HTTP API that keeps no state; every request it makes is
  an action that any step may take.
- **HTTP routing, authentication, static files**: no protocol state. The reads and
  the event stream of a page are modelled.
- **Review manager, labels, forms and rendering of the Web**: presentation.
- **Evidence views**: they select and truncate fields of a record.
- **Policy files, plugins, coding tools, prompts**: configuration around an external
  harness. The harness itself is external.
- **Credentials and redaction**: text.
- **Store revisions, object tables and migrations**: writes of one transaction that
  nothing else interleaves with.
- **Review runs' clones and input files, the projection of `status()`, focused mode,
  pool versions and batch binding**: they can only refuse a request or are handed
  through.
- **Utilities and build information**, scripts and tests.
