# exp-scheduler: a TLA+ verification project

exp-scheduler runs commands on the GPUs of one server: a FastAPI process with one asyncio
event loop, an SQLite database, child processes on PTYs, and services for file transfers,
backups and interactive terminals next to the task scheduler. The modules here model its
own core logic from the source under `src/exp_scheduler_app/` (S = `scheduler.py`,
D = `database.py` below) and the logic of its page, `frontend/src/App.tsx`, a program of
its own with requests, polls, event streams and drafts under way at the same time. TLC
checks small instances of the modules, and TLAPS proves, for every value of their constants,
nearly all the safety properties that the runs check: of the lifecycle, the restarts, the
database, the GPU policy, the transfers, the backups and three of the pages.

`PROJECT.json` lists components, runs, mutants, the definition-to-source map, findings,
hazards and theorems. All line numbers are of the modelled commit.

## 1. Inventory

All services live in one event loop. Code between two suspension points is atomic, so the
interleavings are those of coroutines at `await asyncio.to_thread(...)`, `asyncio.sleep`,
a contended `asyncio.Lock` (the scheduler's `_lock` is FIFO), `await reader_task` and
`asyncio.gather`. `events.publish` and `_record_operation` do not suspend unless the
broker's lock is contended, and no one suspends while holding that. Child processes,
SQLite commits and the wall clock are the outside world.

| Component | State | Operations | Hard behaviour | What makes it correct |
|---|---|---|---|---|
| Task lifecycle (S 445-763, 1500-1925, 2364-2409, 2613-2642) | `tasks` rows, `_running`, `_watchers`, ladder coroutines, kill cooldowns | create, move, delete, requeue, cancel, preempt, interrupt, launch, watch | overlapping stop requests, a ladder that outlives its attempt, the cleanup of one attempt racing the launch of the next, descendants that keep a PTY open | one watcher per running row, final outcomes, no leaked registry entry, stops complete |
| Startup, shutdown, crash (S 124-168, 2364-2401; D 2666-2723; `web.py` 310-325) | what survives: rows and processes | startup requeue, ordered shutdown, crash | ticks in flight at shutdown, crash between `Popen` and commit | every running row is taken over, outcomes survive, the shutdown ends |
| Queues and dependencies (D 400-453, 1232-1516, 2374-2841, 2989-3184) | `tasks`, `task_dependencies` | every write of status, queue, rank and edges | ranks given out at both ends; cycle check over chains; deletes | ranks implement queues, unique; edges acyclic, between existing tasks; satisfied stays satisfied |
| GPU policy (S 765-1022, 1156-1498, 1927-2362, 2644-3071; `gpu.py`) | ready counts, recently released GPUs, memory reservations, allowed list, due schedule, leases, pause | tick of the loop, immediate ticks, settings requests | payload older than the launch, due schedule written back after an await, budgets planned in one tick, helper processes that outlive their handle | fresh payloads are launched from rightly; budgets fit; no helper is left behind; due entries take effect |
| Transfers (`transfer.py`; App.tsx 4387-5700) | jobs, slots, handles, ports; the page's lists, form and route plan | create, dispatch, cancel, fallback, delete, settings, shutdown; retry, probe, choose a route | cancel in the preparation window, stale plans, lost events, late answers | cancel reaches the process, slots bounded, forms wait for their own answers, the page comes to show the jobs |
| Backups (`backup.py`; App.tsx 8061-8530) | jobs, runs, watchers; list and form | schedule check, manual trigger, create, update, delete, startup | any rsync blocks every schedule, one that outlives its watcher does not, run rows left over by a crash, a stale form | scheduled runs of a job do not overlap, no schedule is lost, what is due runs |
| Interactive terminals (`interactive_terminal.py`, `tmux_utils.py`; App.tsx 6926-7618) | registry, rows, tmux sessions, readers; the page's cards, ticks, input queues | create, attach, close, archive, reconcile; type, broadcast, reconnect, merge | failing sends, lists that overtake closes, panels replaced under their input | input in order and without gaps, broadcast only to what is shown |
| Terminal streaming, nvitop (`terminal.py`, `system_terminal.py`; App.tsx 3520-4170) | log, subscribers' queues; decoder, screen, log viewer | subscribe, append, disconnect, exit; decode, poll, select, delete | chunks cut anywhere, slow subscribers, the task ending under the viewer | the screen shows the output, the viewer the log |
| Nodes, keys, probes (`nodes.py`) | nodes, edges, probe times | probe, sweep, delete | debounce across awaits, delete against transfers | no dangling references |
| Event broker (`events.py`) | one bounded queue per subscriber | publish | drops the oldest event | whoever misses one reloads |
| HTTP API, dashboard (`web.py`; App.tsx 57-2600, 2959-3352) | lists, console, dialog, drag, batch choice, GPU draft, settings form | refresh by timer, event and click; submit, edit, reorder, delete, pause, apply | overlapping refreshes, handlers that go on with what they read before an await | what is shown and asked for fits what it is about, drafts are spared, the page catches up |
| Config, CLI, lease script; conda, profile and file inventories | files read | parse, list | | |

The scheduler's parts interact through three things only: the database rows, the registry
`_running` and the ticks. Requests change rows or set a handle's `stop_reason` and start a
ladder; the watcher of a process turns its end into a row and then starts a tick; a tick
turns queued rows into processes, handles and watchers. Transfers use nodes; web routes
call every service; every service publishes events. The page holds copies: it learns of
changes by an event stream that may drop events or close, by timers, and by reading again
after its own requests, and it decides from its copies what to ask for.

## 2. Modules

| Module | Models | Composes |
|---|---|---|
| `TaskLifecycle` | tasks while one service is up | |
| `MCTaskLifecycle` | model values for TLC | `TaskLifecycle` |
| `ServiceLifecycle` | several lives of the service: shutdown, crash, startup | `TaskLifecycle` |
| `MCServiceLifecycle` | model values | `ServiceLifecycle` |
| `Lifecycle_proofs` | theorems about both: the service's invariant rests on the lifecycle's | `ServiceLifecycle` |
| `TaskQueues` | abstract: three queues as orders, without ranks | |
| `QueueStore` | the tables, one action per write of `Database`; the refinement mapping | `TaskQueues` |
| `MCQueueStore` | instances | `QueueStore` |
| `GpuPolicy` | which task is launched on which GPU and when: ticks, settings, reservations | |
| `MCGpuPolicy` | tasks with and without budgets | `GpuPolicy` |
| `TaskBoard`, `MCTaskBoard` | the dashboard over the service's lists | |
| `PageFeed`, `MCPageFeed` | refreshes, event source, timer, GPU draft, settings form, pause | |
| `LogStream`, `MCLogStream` | a task's output from its terminal to the screen and the log viewer | |
| `TerminalPage`, `MCTerminalPage` | the page of interactive terminals over the registry of sessions | |
| `TransferService` | the transfer service | |
| `TransferPage`, `MCTransferPage` | the transfers page | `TransferService` |
| `Backups`, `MCBackups` | the backup service and its page | |
| `QueueStore_proofs`, `GpuPolicy_proofs`, `TaskBoard_proofs`, `TerminalPage_proofs`, `TransferPage_proofs`, `Backups_proofs` | inductive invariants and theorems | the module they are named for |
| `Page_proofs` | theorems about both; the decoder of a console | `PageFeed`, `LogStream` |

**TaskLifecycle.** `row[t]` is the tasks row (status, queue, attempt count, and whether
`next_retry_at` is in the future), `att[t][n]` the n-th launch of t: its process, its
`ProcessHandle` and its watcher in one record, `running[t]` the attempt that
`_running[t]` is the handle of. Ladder coroutines of a task differ only in how far they
are, so `first[t]` and `second[t]` count those in their first and second sleep. They are
not tied to an attempt because the code's are not: `_escalate_process_stop(task_id)` looks
the handle up again after each sleep. A watcher's phases are the stretches between its
awaits: waiting for the process (`alive`), for its terminal (`lingering`), before the
write of the outcome (`exited`), between that write and the removal of the handle
(`recorded`; `_close_terminal_session` and the lock can both suspend there), `done`.
Every request, launch, ladder step, exit and watcher stretch is one action with the
code's guards. Which ready task a tick offers which GPU is left open: any queued, due task
may be launched on any GPU. A tick decides that on a payload (S 1355-1370) that it reads
before it has `_lock` (1194), which another tick may hold over the half second of a
reservation (2214); occupancy, cooldowns and what a stale payload makes of them are in
`GpuPolicy`. A task may be launched again while the watcher of its earlier attempt has its
cleanup still to do; `HandleIsSafe` says when no such cleanup can remove its handle.

**ServiceLifecycle** extends it by the mode of the server process. Requests stop before
the shutdown starts (the ASGI server drains them first); the loop's ticks are cancelled
by it, an immediate tick of a watcher that is past its check of `_stop_event`
(`ticking`) is not. The shutdown names the handles it finds, signals them with SIGINT,
SIGTERM and SIGKILL by identity, and gathers the watchers there are then. A crash keeps
rows and processes only; one between `Popen` and the commit leaves a process of a row
that still waits. Startup requeues running rows as `queued`, whatever their queue.

**QueueStore** has the rows' status, queue and rank, the dependency edges, and the order
of `started_at` among running rows (`before`). A `Database` method is one transaction
under its lock and one action; one that raises changes nothing and is no step.
`Ancestors` says what the search of `_would_create_cycle` collects without its worklist:
what every dependency-closed superset has. Watchers write outcomes to running rows only;
that is a property of `TaskLifecycle` (`RunningRowsHaveOneWatcher`, proved), here a guard.
`TaskQueues` knows no ranks: of a queue it has which tasks wait and who is ahead of whom,
and of the running tasks who was started earlier. A task is enqueued behind all others, a
launch takes it out of any place, a stopped task returns before all others, a restart puts
all that ran before the rest in the order in which they were started.
`RanksImplementQueues` says the tables do this: `Ahead`, the order of
`list_queue_tasks` (by rank, then by id), goes through the steps of that order.

**GpuPolicy** looks at the same ticks as coroutines. `tick[k]` is where a `_tick` is (the
loop's or one of others that watchers and requests start) and what it has read: both
settings of `_apply_due_gpu_schedule`, or the payload it brings to `_lock`. With an empty
schedule a tick reads nothing before its query, so its beginning is no step. `lock` is the
tick that holds `_lock` over an await (the half second of `_start_memory_reservation`, or
the end of a helper process), `waiting` the ticks in its FIFO; other holders of the lock do
not suspend, they act whenever it is free. `Placed` is the loop over a plan up to the next
await; `Match` the greedy matching as an assignment in which every task has the first GPU
that has room beside those the tasks before it got. The queue's order is any order. `used`
is memory in use by anything but reservations; zero stands for below `gpu_idle_memory_mb`
with no processes. A reservation is a handle (`reservation`) and a process (`helpers`, and
`ending` once it was told to end), and the two part: `_sync_memory_reservations` drops the
handle after SIGTERM without waiting (S 2147-2152), when its task has left the queue, when
its process died and when the reservation of the waiting task was switched off or set to
another amount (`reserving`, `outdated`); the release before a launch drops it and
swallows the timeout of its wait (2346). A process in `ending` holds its memory until
`HelperEnds`, which may be never; what any of the processes have allocated by the time of
a query is any subset. How much is reserved, the budgets and the requested GPU are
constants: an edit of the amount is followed as "the handle is for another amount than
is set". `ready` counts consecutive checks up to the required number. Times are
what they make true: an entry of the schedule comes due, a disabled GPU was idle for long,
a cooldown or a lease ends. The settings that `get_settings` reads go through the same
`_apply_due_gpu_schedule`: that is a tick which never gets an answer to its query
(`QueryFails` covers it). A task ends in one step; the time between the outcome and the
removal of the handle is what `TaskLifecycle` is about. Memory and handles are sampled in
one step, although nvidia-smi runs in a thread just before.

The number of tasks that come is bounded by `MaxEvents`, like requests: with a bound on
requests only, an unbounded stream of arrivals would do what no request may.

**TaskBoard** has the service's lists, the copy the page shows, and what the user works on:
tab, dialog, drag, batch choice and the selected task of the console. A handler is an async
function; `calls` holds those that wait, each with the requests it has sent, those it sends
next, and what it does to the dialog or the choice when it goes on. `Serve` executes one
request in the service, `CallProceeds` and `CallSucceeds` are what follows an answer,
`CallFails` the catch, after which requests already sent are still served (`OrphanEnds`). A
list is a sequence without repetition, so that `RemoveFirst` is the code's filter by id.
`answers` are those of `refreshAll` under way: each has the lists of one moment and is
applied at another, in any order. `Launch` and `Leaves` are what the scheduler does by
itself. Clicks are guarded by what is on the screen (tab, dialog, batch mode).

**PageFeed** looks at the same `refreshAll` from the other side: what starts it (timer,
event, filter, the end of a handler), what may fail, and what it writes. Of the service it
has what the page both shows and changes: the pause, the allowed GPUs, and the settings of
the scheduler, of which `schedulerSettings` is what was shown last (null at first) and
`schedulerSettingsDraft` what is entered. Fields are named by their key; a value is a number
or "off", the page's zero. Saving, or switching one field, sends every field: what is
entered, else what was shown, else the page's own defaults (App.tsx 826-838); the answer
replaces what is shown and clears what is entered (901-902). The request for the settings
is the only one of a refresh that may fail by itself. Two refreshes asked for with
different filters overlap. `DraftFlagIsTrue` relates the flag in a ref, by which a refresh
spares the user's choice of GPUs, to the comparison of two React states by which the page
offers to apply it.

**LogStream** follows bytes: `AppendBytes` writes some of the output and puts a chunk in
the subscriber's queue, or tells a subscriber whose queue is full to connect again;
`Connects` subscribes and shows the snapshot of the log; chunks go through
`decodeTerminalBytes`, whose state is carried from chunk to chunk. An output is a sequence
of bytes named by what they do (printed, CR, LF, ESC sequence). `TaskLogViewer` takes over
when the page learns that the task has ended: its effect owes a load, a load is answered
and applied, deleting a log goes on with the values of the render that started it.

**TerminalPage** has the page's sets (cards, minimized, lost, ticked, AI terminals), the
panel in front, and `inputQueuesRef`: per session what is being sent and what is pending. A
piece that fails is put back before what was typed since. Keys are numbered per session, so
that `InputArrivesInOrder` can say that none is overtaken or skipped by what arrived;
repeated input is allowed, since a request that fails may have been served. Lists of
sessions and answers of create, reconnect and close arrive at any later time.

**TransferService** has one record per row, and `work` for where the watcher of a running job
is: begun, preparing, with a process, ended. What a handler does between two real waits is
one step (`publish` and `_record_operation` never suspend, so a dispatch is atomic). Cancel
and shutdown set `cancel_requested` and signal what there is to signal; the steps of the
watcher test the flag where the code does. A preparation that fails after a cancel was
accepted ends in failed (`transfer.py` 1467), and a transfer cancelled after its process
has exited is recorded as cancelled although it copied everything: both are modelled.
**TransferPage** extends it by the lists, the form with its route plan (asked for by a
timer after the ends change, applied whatever the ends are by then) and the requests; the
two reads of `GET /api/transfers` are one step. A submission is served or refused when its
form may have been closed and another opened: `own` says that it is of the form that is
there, whose button waits for it. The form may be open at first on a failed job, with a
submission of an earlier form under way that has the same values.

**Backups** has the jobs' schedule as one of none, future and due, the runs with a watcher
and where it is (created, with a process, after SIGTERM, process ended), rsyncs whose
watcher has given them up (`outlived`: the ten seconds after SIGTERM were not enough, or
`wait` raised; `backup.py` 415-429 pops the handle and records the run as failed all the
same), and `left`: jobs with a run row
that stays "running" for good, after a crash, a shutdown, or a node resolver that raises.
Final run rows are history. `Busy` is `_is_job_running`, which does not look at the job it
is asked about. A tick takes all due jobs at once, since nothing it does before its end
changes what it asks about the next; a minute passes only after watchers have begun. Of the
form's fields only the two that decide on the schedule are kept; they may hold anything,
because the user may have edited them. An answer is applied when its event is taken: until
then the page shows what it showed, which is the same staleness.

## 3. Runs

| Run | Instance | Shows |
|---|---|---|
| `lifecycle` | 2 tasks, one of them launched once, 1 GPU, 1 retry, 2 launches of the other, 1 ladder each, lingering terminals | the safety of the lifecycle, also of an attempt launched beside the cleanup of the one before |
| `service` | 1 task, 1 GPU, 2 launches, also over restarts, 2 ladders, no lingering, fair | restarts keep what they must; a shutdown ends; a stop request ends in `done` |
| `queues` | 3 tasks, ranks -1 to 3 | ranks are unique and implement the queues |
| `dependencies` | 3 tasks with any prerequisites, ranks 0 to 3 | edges stay sound; satisfied stays satisfied |
| `policy` | 3 tasks (one without budget, one that reserves), 1 GPU, 2 ticks, 2 checks, 3 events, fair | fresh launches have room, plans stay valid over awaits, no helper is left behind, no idle GPU or due entry is forgotten |
| `board` | 3 ids, 2 tasks that wait or run at first, 2 refreshes or handlers at a time, 2 clicks, 1 step of the scheduler | the console fits what is shown, the history page deletes no work, drops land where they were let go |
| `feed` | 1 GPU, 2 filters, 2 settings (one off), 2 refreshes, 1 outside change, 2 clicks, 2 failures, fair | the draft's flag is right, the page catches up |
| `stream` | 3 outputs of up to 6 bytes, 2 columns, queue of 2, 3 clicks, 2 failures, fair | the screen shows the output, an ended task its log |
| `terminals` | 2 sessions (symmetric), 2 keys, 3 clicks, 2 failures | input in order; ticked terminals have cards |
| `transfers` | 2 jobs, 2 pairs of ends, 2 routes, 2 ports, limits to 2, event queue of 2, 1 crash or shutdown, 2 clicks, 2 lists, fair | cancels, forms and slots are right; the page shows the jobs |
| `backups` | 2 jobs, one of them made on the page, 2 runs and 1 request at a time, 2 clicks, 1 restart, fair | scheduled runs do not overlap unless one outlived its watcher, no schedule is lost, due backups run |

Bounds. `MaxAttempts` cuts histories at the launches of one task: two let a ladder, a
watcher or a cleanup of one attempt meet the next attempt, in one life or over a restart.
`Once` names tasks of which one launch is enough: in `lifecycle` the second task is there to
be met in the queues and in requests to all. `MaxLadders` bounds the ladders of one task at
a time: `service`, where they must end a process, has the two that overlap; for the safety
of `lifecycle`, which signals do not decide, one is enough to outlive its attempt. The proofs
carry the same invariants to any number of all of these. Three
tasks are needed for a cycle through a chain and for a rank between two others; one rank
below zero, the block written at startup and a reorder all occur within -1 .. 3. Deadlock
is not checked: the bounds stop every history in the end, and a scheduler with nothing
queued really does nothing.
For `policy` one GPU makes every task contend; two
budgets and the headroom exceed its memory together; two checks are the least that is not
one; two ticks let a stale payload wait at the lock. `MaxEvents` counts requests, arrivals
of tasks, kills, deaths of helpers and growth of what others use; with three an entry is
scheduled and another setting changed while a tick asks for the GPUs, and a task with a
reservation comes, is edited and replaced. The end of such use, leaving, ends of tasks and of
helpers, failing queries and ticks are not bounded. Matching with several GPUs is
part of the module but not of this run.

For the page, two clicks with one of them under way are the least in which one handler meets
another, and one change from outside is what makes a copy stale. In `board` the instance
that starts with two running tasks has one click fewer. `MaxBusy` lets two
answers, two handlers or one of each be under way: two answers can overtake each other, and
`feed`, where refreshes carry filters, has a handler beside two of them. The outputs of `stream` are a progress
line that has wrapped, a line end that chunks may cut, a coloured line; a queue of 2 fills.
In `transfers` one pair of ends has a route that the other has not, so that a plan can be
wrong for the ends it is used with. In `backups` the number of steps is not bounded: ends of
runs free their place, and a job comes due again and again; `RunsLeft` keeps a place free
for whatever is due, so that the bound on runs never holds a schedule back.

Fairness. `FairServiceSpec` assumes weak fairness of the shutdown coroutine, the watchers
after the exit and the ladders while the server is up (asyncio resumes every coroutine whose
await is over), and that a process that got SIGKILL dies. It assumes nothing of a process
that was sent less, or of requests, launches and clocks; a crash may come at any time.
`FeedSpec` assumes that the timer fires and that refreshes are answered in the end, of the
event source nothing. `StreamSpec` assumes that the page learns by its timer that a task has
ended and that requests are answered or fail a bounded number of times. `PageSpec` assumes
the poll of 15 s and the answers to it, of events and of the service's restart nothing.
`BackupSpec` assumes that the loop ticks every minute, that watchers are resumed and none
waits longer than `RSYNC_TIMEOUT` and then ten seconds; that an rsync ends is not assumed.
That manual runs do not keep every tick from seeing a quiet moment comes from the bound on
clicks, and nothing in the code guarantees it. `GpuPolicy!Spec` assumes that the loop goes
on (`_scheduler_loop` catches every exception of a tick), that a tick whose await is over is
resumed, and that not every query fails (strong fairness of its answers). It assumes nothing
of the other ticks before they reach the lock, or of tasks, requests and time.

One run ends in a violation, with its finding in `PROJECT.json`: `cancel_kept` refutes
README 435 (a task cancelled by the user is not run again automatically). Interrupting all
running tasks overwrites the stop reason of one that was just cancelled, and its watcher
puts it back in its queue.

Known behaviours. The models do what the code does also where it may surprise; these are
facts of the code that no property above contradicts:

- A ladder of an earlier attempt looks its task up again after each sleep (S 2383) and can
  signal a later attempt that nobody stopped.
- The cleanup of one attempt pops `_running` by task id (S 1842) and can remove the handle
  of a later one, which then runs unregistered: it cannot be cancelled, a ladder that
  looks for it ends while it lives (README 433 promises SIGKILL after ten seconds), and a shutdown does not signal it and may end with
  its row running. `StopsComplete` and `ShutdownCompletes` speak of processes whose handle
  nobody else can remove (`HandleIsSafe`); both runs reach the other case.
- Between a tick's payload (S 1355-1370) and its launches others may launch: it waits for
  `_lock` (1194) while a reservation sleeps (2214), or sleeps itself. Two tasks without a
  budget can be put on one card, which README 6 says a task has to itself, or a task on a
  GPU that was leased meanwhile. `FreshLaunchesHaveRoom` is of ticks that found nobody at
  the lock.
- A process that reserves memory may go on after SIGTERM, and nobody asks again: the handle
  was dropped with the signal (S 2147-2152) or when the wait ran out (2346). The task it held
  the memory for can be launched beside it. `NoHelperIsForgotten` is of the others.
- An rsync that lives on ten seconds after SIGTERM, or whose wait raised, has no handle and a
  recorded run (`backup.py` 415-429), so that the next schedule starts beside it.
  `ScheduledRunsDoNotOverlap` allows that and nothing else.
- With a descendant that keeps the PTY open, the ladder ends with the group leader (S 2384)
  and the watcher waits (S 1664): a cancelled task stays running as long as the descendant.
- An immediate tick past its check of `_stop_event` (S 3163) can launch a task after the
  shutdown's snapshot of what runs; nothing signals it.
- A tick that applies a due GPU schedule writes back what it read before its query (S 1239)
  and erases an entry accepted meanwhile. `DueEntriesAreApplied` says what is left: an entry
  that every tick which is asking for the GPUs has read leaves only with its change made.
- Of a batch deletion in which one request is refused the others are done, and the batch
  mode stays (App.tsx 1203). A task that was chosen on the queue page stays chosen when it has
  run and ended, and its record is deleted with the others, unseen (1191-1194). On the history
  page that cannot happen to a task that waits or runs (`HistoryDeletionsAreOfEndedTasks`).
  The submit button of the task dialog is not disabled while a
  request is under way (970): a second click makes a second task. The answer to a form
  closes whatever dialog is open by then (805, 4940, 8282).
- GPUs ticked, or settings entered, while the PUT for earlier ones is awaited are lost with
  its answer (946, 902). Saving one setting sends all of them as shown, or, before any were
  shown, the page's defaults (826-838): what another page changed since is put back.
- A plan for other ends is offered in the transfer form until the next answer (5254); the
  service checks the route again and refuses what does not fit (`transfer.py` 952-964).
- The terminals page can show the card of a closed session again, from a list asked for
  before (7004). Closing a card throws its input queue away while a piece may be on its way (7050).
- A manual backup starts whatever runs (`backup.py` 221); two jobs that come due in one tick
  start together. The page's PATCH sends source and destination paths, which the request
  model ignores (`web.py` 222), and reports success. A run that goes on is shown as failed (8221).
  Saving a form that was opened before another page disabled the job enables it again (8345).

## 4. Proofs

The theorems hold for any sets and any bounds that satisfy the named ASSUMEs of the modules,
which TLC evaluates in every run. They say no more than that bounds are naturals (ranks
integers), that budgeted tasks are tasks, that `None` is none of the tasks, sessions, ends
or jobs, that prerequisites, routes and GPUs that are offered are sets of what exists, that
outputs are sequences of bytes (strings that name them), that the settings form has numbers
and a filter to choose and "off" is no number, that tasks are finitely many
(`TaskAssumption`; `QueueStore` and `TransferService` number theirs), and that the lists the
dashboard starts with have no task twice (`StartsAreLists`). Each proof module states an
inductive invariant, has one lemma per group of actions with a step per conjunct that they
can disturb, and derives the listed properties. The invariants, with what they add to the
properties and why:

| Module | Invariant | Beyond the properties | Theorems |
|---|---|---|---|
| `Lifecycle_proofs` | `IInv` | the registry has no attempt that its row does not count yet (`RegistryFollowsRows`): else a launch could take the slot of an attempt whose handle is still there | the invariants of run `lifecycle`, `OutcomesAreFinal` |
| | `ServiceIInv` | in a life `IInv`; between two lives no handle and no watcher with something left to record (`NothingInMemory`), which is what lets the startup restore `IInv` by requeueing the running rows | `WatchedInEveryLife`, `StagedTasksStayAcrossRestarts`, `OutcomesSurviveRestarts` |
| `QueueStore_proofs` | `StoreIInv` | running rows are strictly ordered by their start (`StartsAreOrdered`): else the block of ranks written at startup could give one rank twice | the invariants of runs `queues` and `dependencies`, `DependenciesStaySatisfied`, `RanksImplementQueues` |
| `GpuPolicy_proofs` | `PolicyIInv` | only the tick with the lock is in the middle of a plan (`PlansAreLocked`), with each task once (`PlansAreApart`); queued tasks have no handle in `_running`, running ones none of a reservation (`RunningTasksHoldNothing`); a process that was not told to end is that of a handle (`HelpersHaveHandles`); what is launched after a release has no handle of a reservation left (`HandlesFitThePlan`); others use no more of a GPU than it has (`MemoryInUse`) | `PlannedTasksStayQueued`, `NoHelperIsForgotten`, `FreshLaunchesHaveRoom` |
| `TransferPage_proofs` | `TransferIInv` | running rows and only they have a handle while the service is up, and only a handle is asked to stop (`HandlesFollowRows`); a closed form waits for nothing | `CancelReachesTheProcess`, `FormsWaitForTheirOwn`, `LaunchesWithinLimit` |
| `Backups_proofs` | `BackupIInv` | a job is not due while a run its schedule started has not begun (`FreshRunsAreNotDue`): `Busy` does not see such a run, which the first part (`RunsApart`) counts with the others whose watcher goes on | `ScheduledRunsDoNotOverlap`, `NoScheduleIsLost` |
| `TerminalPage_proofs` | `TerminalIInv` | every queue holds consecutive keys, also after a card was closed (`QueuesAreInOrder`); what has left it for good has arrived (`KeptInputArrives`); the card in front exists; a session is asked for once (`NewSessionsAreApart`) | `InputArrivesInOrder`, `TickedTerminalsHaveCards` |
| `Page_proofs` | `DraftFlagIsTrue` | nothing, it is inductive: each handler that writes the flag or one of the two choices writes what they have in common | the same |
| | `StreamIInv` | the queue holds numbers; what is written and what is shown are beginnings of the output (`ChunksMayBeCut` does the rest) | `ScreenShowsTheOutput` |
| | `ViewerIInv` | an answer that has not been applied yet is of the attempt selected, or will select its own (`AnswerFits`) | `ViewerShowsTheSelected`, which no run lists; TLC found `ViewerIInv` to hold on the instance of `stream` |
| `TaskBoard_proofs` | `BoardIInv` | no list, of the service, of the page or of an answer under way, has a task twice (`ListsFit`); an order that a request asks for is a list (`CallsFit`); whatever a history, of the service, of the page or of an answer under way, shows has ended, and so has what is chosen on the history page (`EndingsFit`): it stays ended, since ids are not used again and a task is requeued under a new one | `ConsoleShowsARunningTask`, `HistoryDeletionsAreOfEndedTasks`, `DropsLandBesideTheirRow` |

`OutcomesAreFinal` follows from `IInv`: a watcher with something left to record has a running
row, so the database operations without a status guard never meet a final one. That is also
the guard `QueueStore` gives those operations.

Acyclic dependencies. `Ancestors` is the least dependency-closed set (`AncestorsAreClosed`,
`AncestorsAreLeast`). `AcceptedEdgesStayAcyclic` shows that new edges of t, none of whose
ends has t among its ancestors, leave t out of its own and everybody else out of theirs:
for each candidate it names a closed set that leaves it out. Nothing is said of paths, so
no induction over their length is needed, and the code's order (check, then remove the old
edges) only makes the check stricter than it must be.

The refinement `RanksImplementTheQueues`. With unique ranks the order of a queue is that of
its ranks alone (`OrderedByRank`). A step that changes one row leaves the others in their
order (`OthersKeepTheirOrder`); where the row goes is `LeavingARow` or `PlacingARow`, the
latter given that its new rank is above or below all of the queue, which `EndsAreFree`
derives from `MAX + 1` and `MIN - 1`. Two operations write many rows: a reorder gives the
places 1 .. n of a permutation (`ReorderIsAnOrder`), and the startup writes a block below
the lowest rank, in which the place of a row is the number of those started before it
(`PlacesAreDistinct`, `QueueAfterRestart`). Each action is then a step of `TaskQueues!Next`
or leaves its variables as they are (`QueuesStep`).

Lists on the page. `TaskBoard_proofs` first says what `InsertAt` and `RemoveAt` return, and
that putting a task into a list and taking it out again gives the list back; what a drop
asks for (`ArrangedIsPlaced`) is then about one insertion. `LaunchesWithinLimit` rests on
counting (`LaunchesFillTheSlots`): the number of older pending jobs tells the launched
ones apart, and each such number is less than the number of free slots.

Memory on a GPU. The sum of the budgets on a GPU is a fold over a set, defined by a recursive
function on finite sets. `GpuPolicy_proofs` first says what it is without the library's
induction rules: sums of all subsets exist and are unique because a smallest set for which
they did not cannot exist (`LeastSetOfTasks`, `SumsExist`, `SumsAreUnique`), and any member
can be the one taken out first (`SumFromAny`). The matching checks each pair of a plan given
the pairs before it (`MatchesHaveRoom`); so the last task that a launched beginning of the
plan brings to a GPU has room beside all the others there (`TogetherTheyHaveRoom`), and a
task without a budget that is not the first finds the GPU occupied by them.
`OnlyPlansLaunch` shows that a step which finds `_lock` free and takes a task from the queue,
and launches it, is the placing of a plan made from what the query returned just then.

The console. `ScreenShowsTheOutput` compares a screen that was fed chunk by chunk with one
that is fed all at once, so it rests on `ChunksMayBeCut`: decoding `s` and then `c` is
decoding `s \o c`. The loop over the bytes is a recursive function. That it exists is shown
without induction rules, by the least position up to which there is none (`LoopsExist`), and so is
that two loops which agree at one position and read alike from there agree at the end
(`LoopsAgree`). The loop over the whole is then the loop over `s` followed by that over `c`
(`LoopInPieces`); the cut matters in one place only, a carriage return at the end of `s`,
which the decoder keeps (`cr`), and which gives the same once the first byte of `c` has come
as it gives inside the whole. Neither the width of the line nor the state of an escape
sequence needs a case of its own, because both are part of what is carried over. The sum
`Bytes` of a queue is a recursive function too; `BytesOfMore` and `BytesOfLess` say what
appending and taking the first do to it.

What the proofs found in the models: two definitions of `TaskBoard` were CASEs with arms
that overlap, of which TLC takes the first and TLA+ any; they are conditionals now. The
abstract queues were sequences, and the mapping to them sorted rows by a recursion that no
prover here can follow; as orders they say the same and can be proved about. The decoder's
loop was a RECURSIVE operator, which keeps a module out of reach of the proofs; as a function
from positions to states it follows the code more closely.

Only model-checked is liveness, which is out of this prover's reach: `StopsComplete`,
`ShutdownCompletes`, `NoGpuIsLeftIdle`, `DueEntriesAreApplied`, `PageCatchesUp`,
`EndedTaskShowsItsLog`, `PageShowsTheJobs`, `DueBackupsRun`.

## 5. Not modelled, and the plan

`requested_gpu`, budgets, readiness counts, pause, leases and due GPU schedules are
abstracted from `TaskLifecycle` by letting any due task launch; they are in `GpuPolicy`,
which leaves out a `Popen` that fails, dependencies, the release of reservations at
shutdown, and edits of budgets, of the requested GPU and of a reservation's size (that
there was one is modelled). Three behaviours of it no property speaks of: a plan that goes on after a
reservation does not look at leases, the allowed list or the pause again; the memory of a
task's own reservation counts as free for it before the helper has allocated it; and a
task without a budget that reserves memory waits for as long as its helper lives, since
the helper keeps the GPU from being idle. Columns without effect on
control (names, logs, notes, profiles, attempt history), terminal output and operation
logs are left out. Processes that outlive a crash (`orphans`) are modelled but nothing is
claimed of them: the code cannot see them, and a task whose launch was cut off before
the commit runs twice. Requeueing a failed task clones it without its dependencies under
a new id, so tasks that depend on the failed one wait until it is deleted; that is modelled
(`CloneTaskForRequeue`), and no document says otherwise.

Of the page, these parts load, show and send, and keep nothing that another step reads:
nodes, keys and links, conda and profiles, the directory browser, the transfer log dialog,
the run and log dialogs of backups, the activity log, the nvitop page. `static/assets` is
the built bundle of `App.tsx`; `static/app.js` is an older page that `static/index.html`
does not load.

Of the services: tmux backing sessions, their readers, archives and reconciliation at
startup (process and file I/O around one registry); the shared nvitop process, whose last
unsubscribe gives up the lock before it stops the process; nodes and their SSH probes (a
node that transfers use cannot be deleted, `nodes.py` 492; one that only backups use can,
and their next run raises, which `Backups` has as an outcome); rsync and transfer processes
that outlive a crash, which startup at most sends SIGTERM; configuration, CLI and
inventories, which are sequential.

Next, in this order: an instance of `GpuPolicy` with two GPUs; dependencies in `GpuPolicy`, where a plan can hold a
task that has become blocked.
