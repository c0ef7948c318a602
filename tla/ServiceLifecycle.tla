-------------------------- MODULE ServiceLifecycle --------------------------
(* Tasks over several lives of the service: the lifecycle of TaskLifecycle   *)
(* while a SchedulerService is up, its orderly shutdown, a crash of the      *)
(* server process, and the startup that takes over the database.  What was   *)
(* in memory is gone after the first two: _running, the watchers, the ladder *)
(* coroutines.  Task processes are sessions of their own and survive a       *)
(* crash; nothing knows them then ("orphans").                               *)
EXTENDS TaskLifecycle

VARIABLES mode,     \* up; stopping, int, term, kill, gathering of a shutdown; stopped; crashed
          ticking,  \* a tick that a watcher started is past its check of _stop_event
          named,    \* <<t, n>> of the handles that the shutdown interrupts
          awaited,  \* <<t, n>> of the watchers that the shutdown waits for
          orphans   \* <<t, n>> of processes that outlived the service that started them
allVars == <<vars, mode, ticking, named, awaited, orphans>>
service == <<mode, ticking, named, awaited, orphans>>

AttemptId == Task \X Number
Live == mode \notin {"stopped", "crashed"}

ServiceInit == /\ Init /\ mode = "up" /\ ticking = FALSE
               /\ named = {} /\ awaited = {} /\ orphans = {}

AttemptsIn(phases) == {id \in AttemptId : att[id[1]][id[2]].phase \in phases}
Handles == {<<t, running[t]>> : t \in {u \in Task : Registered(u)}}

-----------------------------------------------------------------------------
(* While the server is up or shutting down.                                  *)

\* Requests reach the service only before its shutdown begins.
ServeRequest == mode = "up" /\ Requests /\ UNCHANGED service

\* The ticks of _scheduler_loop end when the shutdown cancels it; a tick of
\* _trigger_immediate_schedule that is under way is not cancelled.
LaunchInTick == (mode = "up" \/ (Live /\ ticking)) /\ Tick /\ UNCHANGED service

TickEnds == /\ Live /\ ticking
            /\ ticking' = FALSE
            /\ UNCHANGED <<vars, mode, named, awaited, orphans>>

\* The last step of a watcher starts a tick unless _stop_event is set.
WatcherEnds == /\ Live
               /\ \E t \in Task, n \in Number : WatcherCleansUp(t, n)
               /\ ticking' = (ticking \/ mode = "up")
               /\ UNCHANGED <<mode, named, awaited, orphans>>

WatcherProceeds ==
    /\ Live
    /\ \E t \in Task, n \in Number : TerminalReaches(t, n) \/ WatcherRecords(t, n)
    /\ UNCHANGED service

ProcessEnds == /\ Live
               /\ \E t \in Task, n \in Number, e \in Exit \ {"none"} : ProcessExits(t, n, e)
               /\ UNCHANGED service

LadderProceeds == Live /\ (\E t \in Task : Escalate(t)) /\ UNCHANGED service

TimePasses == /\ Live
              /\ \E t \in Task : RetryComesDue(t)
              /\ UNCHANGED service

-----------------------------------------------------------------------------
(* Shutdown.                                                                 *)

\* _stop_event is set and the loop cancelled; the reservations are released.
BeginShutdown == /\ mode = "up"
                 /\ mode' = "stopping"
                 /\ UNCHANGED <<vars, ticking, named, awaited, orphans>>

Interrupted(a) == Marked(a, "interrupt", NoQueue)

\* _interrupt_running_tasks: every handle there is gets the reason "interrupt",
\* whatever it was stopped for before, and SIGINT; without one, nothing is slept.
InterruptRunning ==
    /\ mode = "stopping"
    /\ att' = [t \in Task |->
                 IF Registered(t)
                 THEN [att[t] EXCEPT ![running[t]] = Interrupted(Handle(t))] ELSE att[t]]
    /\ named' = Handles
    /\ mode' = IF Handles = {} THEN "kill" ELSE "int"
    /\ UNCHANGED <<row, running, first, second, ticking, awaited, orphans>>

\* Mutant: the second signal of the shutdown is sent, the last one is not.
SignalNamedOnce(from, to) ==
    /\ mode = from
    /\ att' = IF to = "kill" THEN att
              ELSE [t \in Task |-> [n \in Number |->
                 IF <<t, n>> \in named /\ att[t][n].phase = "alive"
                 THEN Signalled(att[t][n], to) ELSE att[t][n]]]
    /\ mode' = to
    /\ UNCHANGED <<row, running, first, second, ticking, named, awaited, orphans>>

\* Five seconds later each: the processes of those handles, by identity.
SignalNamed(from, to) ==
    /\ mode = from
    /\ att' = [t \in Task |-> [n \in Number |->
                 IF <<t, n>> \in named /\ att[t][n].phase = "alive"
                 THEN Signalled(att[t][n], to) ELSE att[t][n]]]
    /\ mode' = to
    /\ UNCHANGED <<row, running, first, second, ticking, named, awaited, orphans>>

\* gather waits for the watchers there are now.
GatherWatchers == /\ mode = "kill"
                  /\ awaited' = Handles
                  /\ mode' = "gathering"
                  /\ UNCHANGED <<vars, ticking, named, orphans>>

\* The end of the server process, in order or not: only rows and processes remain.
MemoryLost(to, alsoAlive) ==
    /\ mode' = to
    /\ att' = [t \in Task |-> [n \in Number |->
                 IF att[t][n].phase = "unused" THEN att[t][n] ELSE Blank("done")]]
    /\ running' = [t \in Task |-> 0]
    /\ first' = [t \in Task |-> 0]
    /\ second' = [t \in Task |-> 0]
    /\ ticking' = FALSE /\ named' = {} /\ awaited' = {}
    /\ orphans' = orphans \cup AttemptsIn({"alive"}) \cup alsoAlive
    /\ UNCHANGED row

Stopped == /\ mode = "gathering"
           /\ awaited \cap AttemptsIn(Unrecorded \cup {"recorded"}) = {}
           /\ MemoryLost("stopped", {})

Crash == Live /\ MemoryLost("crashed", {})

\* Between Popen and the commit of mark_task_running: the process is there and
\* the row still waits, so that the next launch uses the same attempt number.
CrashInLaunch ==
    /\ mode = "up" \/ (Live /\ ticking)
    /\ \E t \in Task : /\ Launchable(t)
                       /\ MemoryLost("crashed", {<<t, row[t].attempts + 1>>})

-----------------------------------------------------------------------------
(* Startup, and the processes nobody watches.                                *)

\* Mutant: the tasks that were running are left for an operator to requeue.
StartupOnly ==
    /\ ~Live
    /\ mode' = "up"
    /\ UNCHANGED row
    /\ UNCHANGED <<att, running, first, second, ticking, named, awaited, orphans>>

\* Mutant: every row without an outcome is queued.
StartupRequeuesStaged ==
    /\ ~Live
    /\ mode' = "up"
    /\ row' = [t \in Task |-> IF row[t].status \in {"running", "staged"}
                            THEN [row[t] EXCEPT !.status = "queued"] ELSE row[t]]
    /\ UNCHANGED <<att, running, first, second, ticking, named, awaited, orphans>>

\* Mutant: a task whose process ended with the service counts as cut off.
StartupRequeuesFailed ==
    /\ ~Live
    /\ mode' = "up"
    /\ row' = [t \in Task |-> IF row[t].status \in {"running", "failed"}
                            THEN [row[t] EXCEPT !.status = "queued"] ELSE row[t]]
    /\ UNCHANGED <<att, running, first, second, ticking, named, awaited, orphans>>

\* requeue_running_tasks_to_queue_head: back to the queue the task came from, as
\* "queued" whatever that queue is.
Startup ==
    /\ ~Live
    /\ mode' = "up"
    /\ row' = [t \in Task |->
                 IF row[t].status = "running"
                 THEN [row[t] EXCEPT !.status = "queued", !.delayed = FALSE] ELSE row[t]]
    /\ UNCHANGED <<att, running, first, second, ticking, named, awaited, orphans>>

OrphanExits == /\ \E id \in orphans : orphans' = orphans \ {id}
               /\ UNCHANGED <<vars, mode, ticking, named, awaited>>

ShutdownStep == \/ InterruptRunning
                \/ SignalNamed("int", "term") \/ SignalNamed("term", "kill")
                \/ GatherWatchers \/ Stopped

ServiceNext ==
    \/ ServeRequest \/ LaunchInTick \/ TickEnds
    \/ WatcherEnds \/ WatcherProceeds \/ ProcessEnds \/ LadderProceeds \/ TimePasses
    \/ BeginShutdown \/ ShutdownStep
    \/ Crash \/ CrashInLaunch \/ Startup \/ OrphanExits

ServiceSpec == ServiceInit /\ [][ServiceNext]_allVars

\* asyncio resumes every coroutine that can go on: the shutdown, the watchers and the
\* ladders.
ProcessKilled == /\ Live
                 /\ \E t \in Task, n \in Number : ProcessDies(t, n)
                 /\ UNCHANGED service
ServiceFairness == /\ WF_allVars(ShutdownStep) /\ WF_allVars(ProcessKilled)
                   /\ WF_allVars(WatcherProceeds) /\ WF_allVars(WatcherEnds)
                   /\ \A t \in Task : /\ WF_allVars(Live /\ EscalateToTerm(t) /\ UNCHANGED service)
                                      /\ WF_allVars(Live /\ EscalateToKill(t) /\ UNCHANGED service)
FairServiceSpec == ServiceSpec /\ ServiceFairness

-----------------------------------------------------------------------------
(* Properties.                                                               *)

\* In every life of the service a running row has the one watcher that will
\* record its outcome, also for the tasks a crash cut off in any phase: startup
\* must leave no row running, and must not be late for one.
WatchedInEveryLife == Live => RunningRowsHaveOneWatcher /\ RegistryIsBacked

\* No outcome recorded in one life is taken back in another, by the requeueing
\* at startup or by a shutdown that interrupts what a watcher has just recorded.
OutcomesSurviveRestarts ==
    [][\A t \in Task : row[t].status \in Final =>
          row'[t].status \in {row[t].status, "deleted"}]_allVars

\* Startup writes status "queued" without looking at the queue: no staged task
\* may become due that way.
StagedTasksStayAcrossRestarts == StagedTasksDoNotRun

\* A shutdown comes to its end with every task recorded or back in its queue,
\* whatever ladders, cancels and stubborn processes there are (README: a task is
\* put back when the service stops), if it begins while no immediate tick is under
\* way and no running task can lose its handle to the cleanup of an earlier attempt:
\* a process without a handle, or launched after the snapshot, is not signalled.
ShutdownCompletes ==
    (/\ mode = "stopping" /\ ~ticking
     /\ \A t \in Task : row[t].status = "running" => HandleIsSafe(t, row[t].attempts)) ~>
        \/ mode = "crashed"
        \/ mode = "stopped" /\ \A t \in Task : row[t].status # "running"
=============================================================================
