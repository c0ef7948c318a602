----------------------------- MODULE QueueStore -----------------------------
(* The tables tasks and task_dependencies, one action per operation of the   *)
(* Database that writes them.  An operation is one transaction under the     *)
(* database's lock, so it is one step; one that raises changes nothing and   *)
(* is no step.  When the scheduler calls which one is the subject of         *)
(* TaskLifecycle; here only the WHERE clauses guard them.                    *)
EXTENDS Integers, FiniteSets

CONSTANTS MaxTask,         \* bound: tasks ever created; ids are 1, 2, ...
          MinRank,         \* bound: the lowest rank
          MaxRank,         \* bound: the highest rank
          Prerequisites    \* the sets of task ids offered as dependencies

Task == 1 .. MaxTask
ASSUME StoreBounds == MaxTask \in Nat /\ MinRank \in Int /\ MaxRank \in Int
ASSUME PrerequisitesAssumption == Prerequisites \subseteq SUBSET Task

VARIABLES row,     \* row[t]: status, queue and queue_rank of task t
          deps,    \* deps[t]: the depends_on_task_id of its rows in task_dependencies
          before   \* <<t, u>>: both run and started_at of t is the earlier one
storeVars == <<row, deps, before>>

Queue == {"normal", "urgent", "staged"}
Final == {"succeeded", "failed", "cancelled"}
Status == {"absent", "queued", "staged", "running", "deleted"} \cup Final
NoRank == 0  \* NULL; no query looks at the rank of a row that does not wait
Row == [status : Status, queue : Queue, rank : Int]

StoreTypeOK == /\ row \in [Task -> Row]
               /\ deps \in [Task -> SUBSET Task]
               /\ before \subseteq Task \X Task

StoreInit == /\ row = [t \in Task |-> [status |-> "absent", queue |-> "normal", rank |-> NoRank]]
             /\ deps = [t \in Task |-> {}]
             /\ before = {}

-----------------------------------------------------------------------------
StatusForQueue(q) == IF q = "staged" THEN "staged" ELSE "queued"
Exists(t) == row[t].status \notin {"absent", "deleted"}
Waiting(t) == row[t].status \in {"queued", "staged"}
Running(t) == row[t].status = "running"
Members(q) == {t \in Task : row[t].status = StatusForQueue(q) /\ row[t].queue = q}
Ranks(S) == {row[t].rank : t \in S}
Highest(R) == CHOOSE r \in R : \A s \in R : s <= r
Lowest(R) == CHOOSE r \in R : \A s \in R : r <= s

\* Mutant: the number of waiting tasks for their highest rank.
RankByCount(q) == Cardinality(Members(q)) + 1

\* _next_queue_rank and _head_queue_rank.
NextQueueRank(q) == IF Members(q) = {} THEN 1 ELSE Highest(Ranks(Members(q))) + 1
HeadQueueRank(q) == IF Members(q) = {} THEN 1 ELSE Lowest(Ranks(Members(q))) - 1

\* Mutant: the status does not follow the queue.
EnqueuedAsQueued(q, r) == [status |-> "queued", queue |-> q, rank |-> r]

\* A row that waits in queue q at rank r; the bounds cut longer histories off.
Enqueued(q, r) == [status |-> StatusForQueue(q), queue |-> q, rank |-> r]
InBounds(r) == r \in MinRank .. MaxRank
ToTail(t, q) == InBounds(NextQueueRank(q)) /\ row' = [row EXCEPT ![t] = Enqueued(q, NextQueueRank(q))]

NoLongerRuns(t) == before' = {p \in before : t \notin {p[1], p[2]}}

\* The ids that _would_create_cycle collects: all that d depends on, directly or
\* through others, that is what every set closed under deps around deps[d] has.
Ancestors(d) ==
    {a \in Task : \A S \in SUBSET Task :
        (deps[d] \subseteq S /\ \A s \in S : deps[s] \subseteq S) => a \in S}

\* Mutant: only the direct dependencies of the new prerequisites.
AcceptsShallowly(t, D) ==
    /\ t \notin D
    /\ \A d \in D : Exists(d) /\ t \notin deps[d]

\* _replace_dependencies raises unless: nothing depends on itself, the ids are
\* there, and t is not among the ancestors of a new prerequisite.
Accepts(t, D) ==
    /\ t \notin D
    /\ \A d \in D : Exists(d) /\ t \notin Ancestors(d)

-----------------------------------------------------------------------------
(* Requests.  AUTOINCREMENT hands out the ids in order and none twice.       *)

NextId(t) == row[t].status = "absent" /\ \A u \in Task : u < t => row[u].status # "absent"

CreateTask(t, q, D) ==
    /\ NextId(t)
    /\ Accepts(t, D)
    /\ ToTail(t, q)
    /\ deps' = [deps EXCEPT ![t] = D]
    /\ UNCHANGED before

\* clone_task_for_requeue passes no dependencies on.
CloneTaskForRequeue(s, t) ==
    /\ row[s].status \in {"failed", "cancelled"}
    /\ NextId(t)
    /\ ToTail(t, row[s].queue)
    /\ UNCHANGED <<deps, before>>

MoveTaskToQueue(t, q) ==
    /\ Waiting(t)
    /\ IF t \in Members(q) THEN UNCHANGED row ELSE ToTail(t, q)
    /\ UNCHANGED <<deps, before>>

\* update_queued_task with dependencies; without, it writes what a move writes.
UpdateQueuedTask(t, q, D) ==
    /\ Waiting(t)
    /\ IF t \in Members(q) THEN UNCHANGED row ELSE ToTail(t, q)
    /\ Accepts(t, D)
    /\ deps' = [deps EXCEPT ![t] = D]
    /\ UNCHANGED before

\* replace_dependencies looks at no status: also of a task that runs or is done.
ReplaceDependencies(t, D) ==
    /\ Exists(t) /\ Accepts(t, D)
    /\ deps' = [deps EXCEPT ![t] = D]
    /\ UNCHANGED <<row, before>>

\* reorder_queue takes all ids of the queue and numbers them from 1.
ReorderQueue(q) ==
    /\ Cardinality(Members(q)) <= MaxRank
    /\ \E place \in [Members(q) -> 1 .. Cardinality(Members(q))] :
          /\ \A t, u \in Members(q) : place[t] = place[u] => t = u
          /\ row' = [t \in Task |-> IF t \in Members(q)
                                    THEN [row[t] EXCEPT !.rank = place[t]] ELSE row[t]]
    /\ UNCHANGED <<deps, before>>

\* Mutant: the dependency rows in which the task is the prerequisite stay.
DeleteTaskOnly(t) ==
    /\ Exists(t) /\ ~Running(t)
    /\ row' = [row EXCEPT ![t] = [status |-> "deleted", queue |-> "normal", rank |-> NoRank]]
    /\ deps' = [deps EXCEPT ![t] = {}]
    /\ UNCHANGED before

DeleteTask(t) ==
    /\ Exists(t) /\ ~Running(t)
    /\ row' = [row EXCEPT ![t] = [status |-> "deleted", queue |-> "normal", rank |-> NoRank]]
    /\ deps' = [u \in Task |-> IF u = t THEN {} ELSE deps[u] \ {t}]
    /\ UNCHANGED before

-----------------------------------------------------------------------------
(* The scheduler's operations.                                               *)

\* are_dependencies_satisfied joins with the tasks that are there.
Satisfied(t) == \A d \in deps[t] : row[d].status \in {"succeeded", "absent", "deleted"}

MarkTaskRunning(t) ==
    /\ row[t].status = "queued"
    /\ row' = [row EXCEPT ![t].status = "running", ![t].rank = NoRank]
    /\ before' = before \cup ({u \in Task : Running(u)} \X {t})
    /\ UNCHANGED deps

MarkTaskLaunchFailed(t) ==
    /\ row[t].status = "queued"
    /\ row' = [row EXCEPT ![t].status = "failed", ![t].rank = NoRank]
    /\ UNCHANGED <<deps, before>>

\* Mutant: a watcher that finishes a row whatever its status has become.
FinishAnyTask(t, s) ==
    /\ Exists(t)
    /\ row' = [row EXCEPT ![t].status = s]
    /\ NoLongerRuns(t)
    /\ UNCHANGED deps

\* Watchers call finish_task and schedule_task_retry for running rows only
\* (RunningRowsHaveOneWatcher in TaskLifecycle), though neither looks.
FinishTask(t, s) ==
    /\ Running(t)
    /\ row' = [row EXCEPT ![t].status = s]
    /\ NoLongerRuns(t)
    /\ UNCHANGED deps

\* Mutant: the rank of the head of the queue itself, not the one before it.
ReturnBesideHead(t, q) ==
    /\ InBounds(HeadQueueRank(q))
    /\ row' = [row EXCEPT ![t] =
                 Enqueued(q, IF Members(q) = {} THEN 1 ELSE Lowest(Ranks(Members(q))))]
    /\ NoLongerRuns(t)
    /\ UNCHANGED deps

ReturnToHead(t, q) ==
    /\ InBounds(HeadQueueRank(q))
    /\ row' = [row EXCEPT ![t] = Enqueued(q, HeadQueueRank(q))]
    /\ NoLongerRuns(t)
    /\ UNCHANGED deps

\* It writes 'queued' whatever the queue, which a running row does not have staged.
ScheduleTaskRetry(t) ==
    LET q == row[t].queue IN
    /\ Running(t) /\ InBounds(HeadQueueRank(q))
    /\ row' = [row EXCEPT ![t] = [status |-> "queued", queue |-> q, rank |-> HeadQueueRank(q)]]
    /\ NoLongerRuns(t)
    /\ UNCHANGED deps

PreemptRunningTaskToQueueHead(t) == Running(t) /\ ReturnToHead(t, "normal")
RequeueRunningTaskToQueueHead(t, q) == Running(t) /\ ReturnToHead(t, q)

\* Mutant: the status that clone_task_for_requeue still accepts from old databases.
InterruptRunningTasks ==
    /\ \E t \in Task : Running(t)
    /\ row' = [t \in Task |-> IF Running(t) THEN [row[t] EXCEPT !.status = "interrupted"]
                             ELSE row[t]]
    /\ before' = {}
    /\ UNCHANGED deps

\* At startup, for every queue: the running tasks in the order of started_at, on
\* the ranks just below the lowest (or from 1 when nothing is queued).
RequeueRunningTasksToQueueHead ==
    LET Back(q) == {t \in Task : Running(t) /\ row[t].queue = q}
        Queued(q) == {t \in Task : row[t].status = "queued" /\ row[t].queue = q}
        Base(q) == IF Queued(q) = {} THEN 1
                   ELSE Lowest(Ranks(Queued(q))) - Cardinality(Back(q))
        Offset(t) == Cardinality({u \in Back(row[t].queue) : <<u, t>> \in before})
        NewRank(t) == Base(row[t].queue) + Offset(t)
    IN /\ \E t \in Task : Running(t)
       /\ \A t \in Task : Running(t) => InBounds(NewRank(t))
       /\ row' = [t \in Task |->
                    IF Running(t)
                    THEN [row[t] EXCEPT !.status = "queued", !.rank = NewRank(t)]
                    ELSE row[t]]
       /\ before' = {}
       /\ UNCHANGED deps

-----------------------------------------------------------------------------
StoreNext ==
    \/ \E t \in Task, q \in Queue, D \in Prerequisites :
         CreateTask(t, q, D) \/ UpdateQueuedTask(t, q, D)
    \/ \E t \in Task, D \in Prerequisites : ReplaceDependencies(t, D)
    \/ \E s, t \in Task : CloneTaskForRequeue(s, t)
    \/ \E t \in Task, q \in Queue :
         MoveTaskToQueue(t, q) \/ RequeueRunningTaskToQueueHead(t, q)
    \/ \E q \in Queue : ReorderQueue(q)
    \/ \E t \in Task : \/ DeleteTask(t) \/ MarkTaskRunning(t) \/ MarkTaskLaunchFailed(t)
                       \/ ScheduleTaskRetry(t) \/ PreemptRunningTaskToQueueHead(t)
    \/ \E t \in Task, s \in Final : FinishTask(t, s)
    \/ RequeueRunningTasksToQueueHead

StoreSpec == StoreInit /\ [][StoreNext]_storeVars

-----------------------------------------------------------------------------
(* Properties.                                                               *)

\* ORDER BY queue_rank, id: the order in which list_queue_tasks has the tasks of a queue.
AheadOf(t, u) == \/ row[t].rank < row[u].rank
                 \/ row[t].rank = row[u].rank /\ t < u
Ahead == UNION {{p \in Members(q) \X Members(q) : AheadOf(p[1], p[2])} : q \in Queue}
QueueMembers == [q \in Queue |-> Members(q)]
QueueRunners == [q \in Queue |-> {t \in Task : Running(t) /\ row[t].queue = q}]

Queues == INSTANCE TaskQueues WITH waiting <- QueueMembers, ahead <- Ahead,
                                   running <- QueueRunners, earlier <- before

\* The rows and their ranks implement the queues as orders: an operation puts a task
\* where the abstract operation does, and leaves the others in their order.
RanksImplementQueues == Queues!Spec

\* No two waiting tasks of a queue have the same rank, so that the order a user
\* or a requeue gave them never falls back to the order of their ids: ranks are
\* handed out at both ends, by a reorder and by the restart, each time from what
\* is waiting then.
RanksAreUnique == \A q \in Queue : \A t, u \in Members(q) :
    row[t].rank = row[u].rank => t = u

\* A row waits in its queue with the status of that queue: no task is stranded
\* in the staged queue as "queued", where reorder and move do not find it.
WaitingRowsAreMembers == \A t \in Task :
    Waiting(t) \/ Running(t) => (row[t].queue = "staged" <=> row[t].status = "staged")

\* No task is, through any chain of prerequisites, its own prerequisite: such
\* tasks would wait for each other for ever.  The check looks at the edges there
\* are before the old ones of the task are replaced.
DependenciesAreAcyclic == \A t \in Task : t \notin Ancestors(t)

\* Every dependency is between tasks that are there (an edge to a deleted id
\* would count as satisfied in one query and be listed by another).
DependenciesExist == \A t \in Task : \A d \in deps[t] : Exists(t) /\ Exists(d)

\* What a task was waiting for is never undone: with its prerequisites satisfied
\* it stays satisfied until a request gives it new ones, whatever is deleted,
\* requeued, cloned or restarted.
DependenciesStaySatisfied ==
    [][\A t \in Task : Exists(t) /\ Satisfied(t) /\ deps'[t] \subseteq deps[t]
          => Satisfied(t)']_storeVars
=============================================================================
