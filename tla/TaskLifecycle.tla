--------------------------- MODULE TaskLifecycle ---------------------------
(* The life of tasks while one SchedulerService is up: the rows of the       *)
(* tasks table, the processes launched for them, the in-memory registry      *)
(* _running, the watcher coroutine of every process and the coroutines of    *)
(* the stop ladder.  One action per handler, or per stretch of a coroutine   *)
(* between two points where asyncio can run something else.  Which ready     *)
(* task a tick offers which GPU (occupancy, readiness counts, cooldowns,     *)
(* dependencies, pause) is left open here: any queued, due task may be       *)
(* launched on any GPU.  A tick decides that on what it read before it got   *)
(* the lock, which may be old by then (GpuPolicy).                           *)
EXTENDS Integers, FiniteSets

CONSTANTS Task,         \* task ids; an id is never used again after a delete
          Gpu,          \* GPU indices
          MaxRetries,   \* config.auto_retry_max_retries
          MaxAttempts,  \* bound: launches of one task
          Once,         \* bound: the tasks that are launched once only
          MaxLadders,   \* bound: stop-ladder coroutines of one task at a time
          MayLinger     \* whether a descendant can keep a task's PTY open

ASSUME BoundsAssumption == MaxRetries \in Nat /\ MaxAttempts \in Nat /\ MaxLadders \in Nat
ASSUME MayLingerAssumption == MayLinger \in BOOLEAN

VARIABLES row,      \* row[t]: what the tasks table holds of task t
          att,      \* att[t][n]: the n-th launch of t: process, handle and watcher
          running,  \* running[t]: the attempt that _running[t] is the handle of, or 0
          first,    \* first[t]: _escalate_process_stop(t) coroutines in their first sleep
          second    \* second[t]: those that have sent SIGTERM and sleep again
vars == <<row, att, running, first, second>>

Number == 1 .. MaxAttempts
Queue == {"normal", "urgent", "staged"}
Final == {"succeeded", "failed", "cancelled"}
Status == {"absent", "queued", "staged", "running", "deleted"} \cup Final
NoQueue == "none"
Row == [status : Status, queue : Queue, attempts : 0 .. MaxAttempts, delayed : BOOLEAN]

\* The watcher of an attempt waits for the process ("alive"), then for the end
\* of its terminal output ("lingering"), then writes the outcome ("exited"),
\* then cleans up under the lock ("recorded"), then it is gone ("done").
Phase == {"unused", "alive", "lingering", "exited", "recorded", "done"}
Unrecorded == {"alive", "lingering", "exited"}
Exit == {"none", "ok", "error", "oom", "signal"}
Attempt == [phase : Phase, gpu : Gpu \cup {"none"},
            stop : {"none", "cancel", "preempt", "interrupt"},
            requeueTo : Queue \cup {NoQueue},
            exit : Exit,
            signalled : {"none", "int", "term", "kill"}]
Blank(p) == [phase |-> p, gpu |-> "none", stop |-> "none", requeueTo |-> NoQueue,
             exit |-> "none", signalled |-> "none"]
Launched(g) == [Blank("alive") EXCEPT !.gpu = g]
InPhase(a, p) == [a EXCEPT !.phase = p]
\* Why it was stopped and how it ended is not looked at again once that is recorded.
Recorded(a) == [Blank("recorded") EXCEPT !.gpu = a.gpu]

TypeOK == /\ row \in [Task -> Row]
          /\ att \in [Task -> [Number -> Attempt]]
          /\ running \in [Task -> 0 .. MaxAttempts]
          /\ first \in [Task -> Nat]
          /\ second \in [Task -> Nat]

NoRow == [status |-> "absent", queue |-> "normal", attempts |-> 0, delayed |-> FALSE]

Init == /\ row = [t \in Task |-> NoRow]
        /\ att = [t \in Task |-> [n \in Number |-> Blank("unused")]]
        /\ running = [t \in Task |-> 0]
        /\ first = [t \in Task |-> 0]
        /\ second = [t \in Task |-> 0]

StatusForQueue(q) == IF q = "staged" THEN "staged" ELSE "queued"
Waiting(t) == row[t].status \in {"queued", "staged"}
Ready(t) == row[t].status = "queued" /\ ~row[t].delayed
Registered(t) == running[t] # 0
Handle(t) == att[t][running[t]]

-----------------------------------------------------------------------------
(* The database operations on one row.  R is the row before, and the result  *)
(* the row after; each keeps the WHERE clause of its UPDATE.                 *)

Enqueued(R, q) == [R EXCEPT !.status = StatusForQueue(q), !.queue = q, !.delayed = FALSE]

\* mark_task_running and mark_task_launch_failed count the attempt.
Attempted(R, s) == [R EXCEPT !.status = s, !.attempts = @ + 1]

\* finish_task: no WHERE on the status, but a deleted row is not there.
Finished(R, s) == IF R.status \in {"absent", "deleted"} THEN R ELSE [R EXCEPT !.status = s]

\* Mutant: the status an earlier version of the program wrote.
RetryInterrupted(R) == [R EXCEPT !.status = "interrupted", !.delayed = TRUE]

\* schedule_task_retry: back to its own queue, with next_retry_at in the future.
RetryScheduled(R) ==
    IF R.status \in {"absent", "deleted"} THEN R
    ELSE [R EXCEPT !.status = "queued", !.delayed = TRUE]

\* Mutant: whatever the queue, the row is queued.
RequeuedAsQueued(R, q) ==
    IF R.status # "running" THEN R
    ELSE [Enqueued(R, IF q = NoQueue THEN R.queue ELSE q) EXCEPT !.status = "queued"]

\* preempt_running_task_to_queue_head and requeue_running_task_to_queue_head.
RequeuedFromRunning(R, q) ==
    IF R.status # "running" THEN R
    ELSE Enqueued(R, IF q = NoQueue THEN R.queue ELSE q)

-----------------------------------------------------------------------------
(* Requests on rows.                                                         *)

CreateTask(t, q) ==
    /\ row[t].status = "absent"
    /\ row' = [row EXCEPT ![t] = Enqueued(@, q)]
    /\ UNCHANGED <<att, running, first, second>>

\* requeue_task clones the finished task s as a new row t in the same queue.
RequeueTask(s, t) ==
    /\ row[s].status \in {"failed", "cancelled"}
    /\ row[t].status = "absent"
    /\ row' = [row EXCEPT ![t] = Enqueued(@, row[s].queue)]
    /\ UNCHANGED <<att, running, first, second>>

\* Mutant: without the check of the current status.
MoveAnyTaskToQueue(t, q) ==
    /\ row[t].status \notin {"absent", "deleted", "running"}
    /\ row' = [row EXCEPT ![t] = Enqueued(@, q)]
    /\ UNCHANGED <<att, running, first, second>>

MoveTaskToQueue(t, q) ==
    /\ Waiting(t)
    /\ row' = [row EXCEPT ![t] = Enqueued(@, q)]
    /\ UNCHANGED <<att, running, first, second>>

DeleteTask(t) ==
    /\ row[t].status \notin {"absent", "deleted", "running"}
    /\ row' = [row EXCEPT ![t] = [NoRow EXCEPT !.status = "deleted"]]
    /\ UNCHANGED <<att, running, first, second>>

\* The clock passes next_retry_at.
RetryComesDue(t) ==
    /\ row[t].delayed
    /\ row' = [row EXCEPT ![t].delayed = FALSE]
    /\ UNCHANGED <<att, running, first, second>>

-----------------------------------------------------------------------------
(* Launching.  Nothing here asks whether the GPU is free, or whether the     *)
(* cleanup of an earlier attempt of the task is still to come.               *)

Launchable(t) == /\ Ready(t)
                 /\ row[t].attempts < MaxAttempts /\ (t \in Once => row[t].attempts = 0)

LaunchTask(t, g) ==
    LET n == row[t].attempts + 1 IN
    /\ Launchable(t)
    /\ row' = [row EXCEPT ![t] = Attempted(@, "running")]
    /\ att' = [att EXCEPT ![t][n] = Launched(g)]
    /\ running' = [running EXCEPT ![t] = n]
    /\ UNCHANGED <<first, second>>

\* Popen raises (a missing cwd, no more processes): mark_task_launch_failed.
LaunchFails(t) ==
    LET n == row[t].attempts + 1 IN
    /\ Launchable(t)
    /\ row' = [row EXCEPT ![t] = Attempted(@, "failed")]
    /\ att' = [att EXCEPT ![t][n] = Blank("done")]
    /\ UNCHANGED <<running, first, second>>

-----------------------------------------------------------------------------
(* Stop requests on running tasks.  Each sets the handle's stop_reason,      *)
(* sends SIGINT to the process group and starts a ladder coroutine.          *)

CanStop(t) == first[t] + second[t] < MaxLadders

\* A stop request without a queue of its own leaves the one an earlier one chose.
Marked(a, reason, requeue) ==
    [a EXCEPT !.stop = reason,
              !.requeueTo = IF requeue = NoQueue THEN @ ELSE requeue,
              !.signalled = IF @ = "none" /\ a.phase = "alive" THEN "int" ELSE @]

\* Mutant: the row goes back to its queue with the request, not with the exit.
StopRequeuesAtOnce(S, reason, requeue) ==
    /\ \A t \in S : CanStop(t)
    /\ row' = [t \in Task |-> IF t \in S THEN RequeuedFromRunning(row[t], requeue) ELSE row[t]]
    /\ att' = [t \in Task |->
                 IF t \in S
                 THEN [att[t] EXCEPT ![running[t]] = Marked(Handle(t), reason, requeue)]
                 ELSE att[t]]
    /\ first' = [t \in Task |-> IF t \in S THEN first[t] + 1 ELSE first[t]]
    /\ UNCHANGED <<running, second>>

Stop(S, reason, requeue) ==
    /\ \A t \in S : CanStop(t)
    /\ att' = [t \in Task |->
                 IF t \in S
                 THEN [att[t] EXCEPT ![running[t]] = Marked(Handle(t), reason, requeue)]
                 ELSE att[t]]
    /\ first' = [t \in Task |-> IF t \in S THEN first[t] + 1 ELSE first[t]]
    /\ UNCHANGED <<row, running, second>>

CancelTask(t) == Registered(t) /\ Stop({t}, "cancel", NoQueue)

PreemptTask(t) ==
    /\ Registered(t)
    /\ \E u \in Task : Ready(u) /\ row[u].queue = "urgent"
    /\ Stop({t}, "preempt", "normal")

InterruptTaskToStaged(t) == Registered(t) /\ Stop({t}, "interrupt", "staged")

\* interrupt_running_tasks_to_queue_head: pause with stop, a lease or a disabled
\* GPU with stop.  It picks the handles whose process is still there.
InterruptRunningTasks(G) ==
    LET S == {t \in Task : Registered(t) /\ Handle(t).gpu \in G /\ Handle(t).phase = "alive"}
    IN S # {} /\ Stop(S, "interrupt", NoQueue)

\* A ladder coroutine of t wakes: it signals whatever process _running holds for
\* t now, or ends when there is none or its leader has exited.
Escalates(t) == Registered(t) /\ Handle(t).phase = "alive"
Signalled(a, s) == [a EXCEPT !.signalled = IF @ = "kill" THEN @ ELSE s]
Signal(t, s) ==
    att' = IF Escalates(t)
           THEN [att EXCEPT ![t][running[t]] = Signalled(Handle(t), s)] ELSE att

\* Mutant: the coroutine ends after SIGTERM.
EscalateToTermOnly(t) ==
    /\ first[t] > 0
    /\ first' = [first EXCEPT ![t] = @ - 1]
    /\ Signal(t, "term")
    /\ UNCHANGED <<row, running, second>>

EscalateToTerm(t) ==
    /\ first[t] > 0
    /\ first' = [first EXCEPT ![t] = @ - 1]
    /\ second' = IF Escalates(t) THEN [second EXCEPT ![t] = @ + 1] ELSE second
    /\ Signal(t, "term")
    /\ UNCHANGED <<row, running>>

EscalateToKill(t) ==
    /\ second[t] > 0
    /\ second' = [second EXCEPT ![t] = @ - 1]
    /\ Signal(t, "kill")
    /\ UNCHANGED <<row, running, first>>

-----------------------------------------------------------------------------
(* The processes, and the watcher of each.                                   *)

\* The group leader exits (what it was sent no longer matters then); a descendant
\* that still holds the PTY keeps the terminal reader, and with it the watcher,
\* waiting.
Ended(a, p, e) == [a EXCEPT !.phase = p, !.exit = e, !.signalled = "none"]
ProcessExits(t, n, e) ==
    /\ att[t][n].phase = "alive"
    /\ \E p \in {"exited"} \cup (IF MayLinger THEN {"lingering"} ELSE {}) :
         att' = [att EXCEPT ![t][n] = Ended(att[t][n], p, e)]
    /\ UNCHANGED <<row, running, first, second>>

TerminalReaches(t, n) ==
    /\ att[t][n].phase = "lingering"
    /\ att' = [att EXCEPT ![t][n] = InPhase(att[t][n], "exited")]
    /\ UNCHANGED <<row, running, first, second>>

Retries(n, a) == a.exit = "oom" /\ MaxRetries > 0 /\ n - 1 < MaxRetries

\* The branch of _watch_process: by the stop reason first, the exit code after.
Outcome(n, a, R) ==
    CASE a.stop = "preempt"   -> RequeuedFromRunning(R, a.requeueTo)
      [] a.stop = "cancel"    -> Finished(R, "cancelled")
      [] a.stop = "interrupt" -> RequeuedFromRunning(R, a.requeueTo)
      [] a.stop = "none" /\ a.exit = "signal" -> RequeuedFromRunning(R, a.requeueTo)
      [] a.stop = "none" /\ a.exit = "ok"     -> Finished(R, "succeeded")
      [] a.stop = "none" /\ a.exit \notin {"ok", "signal"} ->
            IF Retries(n, a) THEN RetryScheduled(R) ELSE Finished(R, "failed")

WatcherRecords(t, n) ==
    LET a == att[t][n] IN
    /\ a.phase = "exited"
    /\ row' = [row EXCEPT ![t] = Outcome(n, a, @)]
    /\ att' = [att EXCEPT ![t][n] = Recorded(a)]
    /\ UNCHANGED <<running, first, second>>

\* Mutant: the handle stays in _running when the row is no longer running.
CleansUpRunningRowsOnly(t, n) ==
    /\ att[t][n].phase = "recorded"
    /\ running' = [running EXCEPT ![t] = IF row[t].status = "queued" THEN 0 ELSE @]
    /\ att' = [att EXCEPT ![t][n] = Blank("done")]
    /\ UNCHANGED <<row, first, second>>

\* The finally block: closing the terminal session and taking the lock can both
\* let other coroutines run first.  _running.pop goes by the task id alone.
WatcherCleansUp(t, n) ==
    /\ att[t][n].phase = "recorded"
    /\ running' = [running EXCEPT ![t] = 0]
    /\ att' = [att EXCEPT ![t][n] = Blank("done")]
    /\ UNCHANGED <<row, first, second>>

-----------------------------------------------------------------------------
Requests ==
    \/ \E t \in Task, q \in Queue : CreateTask(t, q) \/ MoveTaskToQueue(t, q)
    \/ \E s, t \in Task : RequeueTask(s, t)
    \/ \E t \in Task : \/ DeleteTask(t) \/ CancelTask(t) \/ PreemptTask(t)
                       \/ InterruptTaskToStaged(t)
    \/ \E G \in SUBSET Gpu : InterruptRunningTasks(G)

Tick == \E t \in Task : LaunchFails(t) \/ \E g \in Gpu : LaunchTask(t, g)

Escalate(t) == EscalateToTerm(t) \/ EscalateToKill(t)

Watch(t, n) == TerminalReaches(t, n) \/ WatcherRecords(t, n) \/ WatcherCleansUp(t, n)

Next ==
    \/ Requests
    \/ Tick
    \/ \E t \in Task : Escalate(t) \/ RetryComesDue(t)
    \/ \E t \in Task, n \in Number :
         \/ Watch(t, n)
         \/ \E e \in Exit \ {"none"} : ProcessExits(t, n, e)

Spec == Init /\ [][Next]_vars

\* A process that got SIGKILL dies.  Nothing is promised of one that was sent less,
\* nor of a descendant that outlives its group leader.
ProcessDies(t, n) ==
    att[t][n].signalled = "kill" /\ \E e \in Exit \ {"none"} : ProcessExits(t, n, e)

-----------------------------------------------------------------------------
(* Properties.                                                               *)

\* A row says "running" exactly while one watcher has still to write its
\* outcome, and that watcher is of the attempt the row counts last: no task has
\* two processes, no late watcher of an earlier attempt can overwrite the row
\* (finish_task and schedule_task_retry do not look at the status), and no row
\* is left running with nobody to finish it.
RunningRowsHaveOneWatcher == \A t \in Task :
    /\ row[t].status = "running" <=> \E n \in Number : att[t][n].phase \in Unrecorded
    /\ \A n \in Number : att[t][n].phase \in Unrecorded => n = row[t].attempts

\* A task that was recorded as succeeded, failed or cancelled never runs again
\* and never changes its outcome, whatever stops, ladders and watchers of it are
\* still going on: its row can only be deleted.
OutcomesAreFinal ==
    [][\A t \in Task : row[t].status \in Final => row'[t].status \in {row[t].status, "deleted"}]_vars

\* Every handle in _running has a watcher that will still remove it: no entry
\* outlives its process for good, which would keep its GPU occupied for ever, also
\* when the cleanup of an earlier attempt removed the handle of a later one.
RegistryIsBacked == \A t \in Task :
    Registered(t) => Handle(t).phase \in Unrecorded \cup {"recorded"}

\* A task in the staged queue is neither launched nor due for a launch, however
\* it got there (README: it is not scheduled automatically): the database keeps
\* queue and status apart, and only some of its writes derive one from the other.
StagedTasksDoNotRun == \A t \in Task :
    row[t].queue = "staged" => row[t].status \notin {"queued", "running"}

\* The handle in _running is that of attempt n, and no cleanup of an earlier attempt
\* is still to come, which would remove it (scheduler.py:1842).
HandleIsSafe(t, n) ==
    /\ running[t] = n
    /\ \A m \in Number : att[t][m].phase # "recorded"

\* A stop request on a running process ends in the process being gone, its
\* outcome recorded and its handle removed, also when it ignores SIGINT and
\* SIGTERM (README: SIGINT, SIGTERM after 5 s, SIGKILL after 5 s more).  It says
\* so of a process whose handle nobody else can remove: the ladder looks the task
\* up again after each sleep, and without a handle it ends with the process alive.
StopsComplete == \A t \in Task, n \in Number :
    (att[t][n].phase = "alive" /\ att[t][n].stop # "none" /\ HandleIsSafe(t, n))
        ~> (att[t][n].phase = "done")

\* A cancelled attempt is not turned into an interrupted one, which would run
\* again, unless the user sends it to the staged queue (README: a cancelled task
\* is not retried automatically).
CancelSurvivesInterrupts ==
    [][\A t \in Task, n \in Number :
          att[t][n].stop = "cancel" /\ att'[t][n].stop = "interrupt"
            => att'[t][n].requeueTo = "staged"]_vars
=============================================================================
