--------------------------- MODULE TransferService ---------------------------
(* The transfer service (transfer.py): rows of jobs, dispatch up to a limit,   *)
(* one watcher and at most one rsync process per running job, port retries and *)
(* fallback to another route, cancelling, deleting, shutdown, crash, restart.  *)
(* All handlers run on one event loop and publish() never suspends, so what a  *)
(* handler does between two real waits is one step.  Commands, agents, logs    *)
(* and byte counts are left out.                                               *)
EXTENDS Naturals, Sequences, FiniteSets

CONSTANTS MaxJobs,      \* bound: rows
          Ends,         \* pairs of a source and a destination
          Route,        \* routes by which rsync can be run
          Possible,     \* the routes the auths and probed links allow at first
          MaxPorts,     \* MAX_PORT_ATTEMPTS
          MaxLimit,     \* bound: concurrent transfers in the settings
          QueueSize,    \* capacity of a subscriber's queue
          MaxFaults     \* bound: crashes and shutdowns

Job == 1..MaxJobs
Finals == {"succeeded", "failed", "cancelled", "interrupted"}

ASSUME TransferBounds == MaxJobs \in Nat /\ MaxPorts \in Nat /\ MaxLimit \in Nat
                         /\ QueueSize \in Nat /\ MaxFaults \in Nat
ASSUME PossibleRoutes == Possible \in [Ends -> SUBSET Route]

VARIABLES
    row,        \* status in the database, "none" before a job is created
    job,        \* what the row says of the route
    feasible,   \* the routes the link matrix allows now
    limit,      \* max_concurrent_transfers
    work,       \* where the watcher of a handle is, "none" without a handle
    asked,      \* handles with cancel_requested
    signal,     \* the last signal sent to the job's process
    ports,      \* bridge ports tried on this route
    life,       \* up, stopping, down
    events,     \* of the page's subscription, not yet read
    faults

transfers == <<row, job, feasible, limit, work, asked, signal, ports, life, events, faults>>

Unrouted == [ends |-> CHOOSE e \in Ends : TRUE, route |-> "auto", auto |-> TRUE, fell |-> FALSE]

\* The first job has failed on the route its user chose; or it has just been launched on
\* the route the service chose, and the others wait behind it.
TransferInit ==
    /\ \E failed \in BOOLEAN, e \in Ends : \E r \in Possible[e] :
         LET first == [ends |-> e, route |-> r, auto |-> ~failed, fell |-> FALSE]
         IN IF failed
            THEN /\ row = [j \in Job |-> IF j = 1 THEN "failed" ELSE "none"]
                 /\ job = [j \in Job |-> IF j = 1 THEN first ELSE Unrouted]
                 /\ work = [j \in Job |-> "none"]
            ELSE /\ row = [j \in Job |-> IF j = 1 THEN "running" ELSE "pending"]
                 /\ job = [j \in Job |-> first]
                 /\ work = [j \in Job |-> IF j = 1 THEN "started" ELSE "none"]
    /\ feasible = Possible /\ limit = 1
    /\ asked = {} /\ signal = [j \in Job |-> "none"] /\ ports = [j \in Job |-> 1]
    /\ life = "up" /\ events = <<>> /\ faults = 0

-----------------------------------------------------------------------------
List == [type |-> "list", job |-> 0]
Progress(j) == [type |-> "progress", job |-> j]

\* A full queue loses its oldest event.
Publish(event) ==
    events' = IF Len(events) < QueueSize THEN Append(events, event)
              ELSE Append(Tail(events), event)

Having(rows, status) == {j \in Job : rows[j] = status}

\* Mutant: every pending job has a slot of its own.
LaunchesAny(rows, most) ==
    {j \in Having(rows, "pending") :
       Cardinality({k \in Having(rows, "pending") : k < j}) < most}

\* The pending jobs, oldest first, for which there is a slot.
Launches(rows, most) ==
    {j \in Having(rows, "pending") :
       Cardinality({k \in Having(rows, "pending") : k < j})
         + Cardinality(Having(rows, "running")) < most}

\* _dispatch at the end of a handler that leaves these rows and handles.
Dispatch(rows, works) ==
    \E go \in {IF life' = "up" THEN Launches(rows, limit') ELSE {}} :
       /\ row' = [j \in Job |-> IF j \in go THEN "running" ELSE rows[j]]
       /\ work' = [j \in Job |-> IF j \in go THEN "started" ELSE works[j]]

-----------------------------------------------------------------------------
(* The watcher of a job (_run_job).                                            *)

\* _finalize, then the handle is dropped and the next job dispatched.
WatcherEnds(j, status) ==
    /\ UNCHANGED <<job, feasible, limit, life, faults>>
    /\ Dispatch([row EXCEPT ![j] = status], [work EXCEPT ![j] = "none"])
    /\ asked' = asked \ {j}
    /\ signal' = [signal EXCEPT ![j] = "none"] /\ ports' = [ports EXCEPT ![j] = 1]
    /\ Publish(List)

\* Mutant: a cancel that came while there was no process is not looked for.
SpawnsUnasked(j) ==
    /\ work' = [work EXCEPT ![j] = "process"]
    /\ signal' = [signal EXCEPT ![j] = "none"]
    /\ Publish(Progress(j))
    /\ UNCHANGED <<row, asked>>

\* Popen; a cancel that came while there was no process is carried out now.
Spawns(j) ==
    /\ work' = [work EXCEPT ![j] = "process"]
    /\ signal' = [signal EXCEPT ![j] = IF j \in asked THEN "INT" ELSE "none"]
    /\ Publish(Progress(j))
    /\ UNCHANGED <<row, asked>>

\* The agent of a route between two nodes is started.
Prepares(j) ==
    /\ work' = [work EXCEPT ![j] = "preparing"]
    /\ UNCHANGED <<row, asked, signal, events>>

WatcherBegins(j) ==
    /\ work[j] = "started"
    /\ \/ WatcherEnds(j, "failed")        \* a node or its key is gone
       \/ j \in asked /\ WatcherEnds(j, "cancelled")
       \/ /\ j \notin asked
          /\ Spawns(j) \/ Prepares(j)
          /\ UNCHANGED <<job, feasible, limit, ports, life, faults>>

Prepared(j) ==
    /\ work[j] = "preparing"
    /\ \/ WatcherEnds(j, "failed")        \* the agent does not start
       \/ j \in asked /\ WatcherEnds(j, "cancelled")      \* a bridge looks before it spawns
       \/ Spawns(j) /\ UNCHANGED <<job, feasible, limit, ports, life, faults>>

\* Progress is printed while rsync runs.
Progresses(j) ==
    /\ work[j] = "process" /\ Publish(Progress(j))
    /\ UNCHANGED <<row, job, feasible, limit, work, asked, signal, ports, life, faults>>

\* _stop_ladder, and the kill at the end of shutdown.
LadderSignals(j) ==
    /\ work[j] = "process" /\ signal[j] \in {"INT", "TERM"}
    /\ signal' = [signal EXCEPT ![j] = IF @ = "INT" THEN "TERM" ELSE "KILL"]
    /\ UNCHANGED <<row, job, feasible, limit, work, asked, ports, life, events, faults>>

\* By itself, by a signal, or because it has not connected in time.
ProcessExits(j) ==
    /\ work[j] = "process"
    /\ work' = [work EXCEPT ![j] = "exited"]
    /\ UNCHANGED <<row, job, feasible, limit, asked, signal, ports, life, events, faults>>

\* A bridge whose port is refused takes another.
TriesPort(j) ==
    /\ ports[j] < MaxPorts
    /\ ports' = [ports EXCEPT ![j] = @ + 1]
    /\ Spawns(j)
    /\ UNCHANGED <<job, feasible, limit, life, faults>>

\* A route that was chosen automatically and fails to connect is blamed in the matrix,
\* and once in a job another feasible one takes its place.
FallsBack(j) ==
    /\ job[j].auto /\ ~job[j].fell /\ life = "up"
    /\ feasible' \in {feasible, [feasible EXCEPT ![job[j].ends] = @ \ {job[j].route}]}
    /\ \E r \in feasible'[job[j].ends] \ {job[j].route} :
         job' = [job EXCEPT ![j] = [@ EXCEPT !.route = r, !.fell = TRUE]]
    /\ ports' = [ports EXCEPT ![j] = 1]
    /\ Spawns(j) \/ Prepares(j)
    /\ UNCHANGED <<limit, life, faults>>

WatcherGoesOn(j) ==
    /\ work[j] = "exited"
    /\ IF j \in asked THEN WatcherEnds(j, "cancelled")
       ELSE \/ \E status \in {"succeeded", "failed"} : WatcherEnds(j, status)
            \/ TriesPort(j)
            \/ FallsBack(j)

Watch ==
    \E j \in Job : \/ WatcherBegins(j) \/ Prepared(j) \/ Progresses(j) \/ LadderSignals(j)
                   \/ ProcessExits(j) \/ WatcherGoesOn(j)

-----------------------------------------------------------------------------
(* Requests.                                                                   *)

\* The routes a job between these ends may be created with.
Admits(e, wanted) == IF wanted = "auto" THEN feasible[e] ELSE feasible[e] \cap {wanted}

create_job(e, wanted) ==
    /\ life = "up"
    /\ UNCHANGED <<feasible, limit, asked, signal, ports, life, faults>>
    /\ \E j \in Having(row, "none"), r \in Admits(e, wanted) :
         /\ \A k \in Having(row, "none") : j <= k
         /\ job' = [job EXCEPT ![j] = [ends |-> e, route |-> r, auto |-> wanted = "auto", fell |-> FALSE]]
         /\ Dispatch([row EXCEPT ![j] = "pending"], work)
    /\ Publish(List)

\* A pending job is cancelled at once; a running one is asked, and its process, if there
\* is one that nothing was sent to, gets the first signal of the ladder.
cancel_job(j) ==
    /\ life = "up"
    /\ \/ /\ row[j] = "pending"
          /\ row' = [row EXCEPT ![j] = "cancelled"] /\ Publish(List)
          /\ UNCHANGED <<asked, signal>>
       \/ /\ row[j] = "running"
          /\ asked' = asked \cup {j}
          /\ signal' = [signal EXCEPT ![j] = IF work[j] = "process" /\ @ = "none" THEN "INT" ELSE @]
          /\ UNCHANGED <<row, events>>
    /\ UNCHANGED <<job, feasible, limit, work, ports, life, faults>>

delete_job(j) ==
    /\ life = "up" /\ row[j] \in Finals \cup {"pending"}
    /\ row' = [row EXCEPT ![j] = "deleted"] /\ Publish(List)
    /\ UNCHANGED <<job, feasible, limit, work, asked, signal, ports, life, faults>>

update_settings(most) ==
    /\ life = "up" /\ limit' = most
    /\ UNCHANGED <<job, feasible, asked, signal, ports, life, faults>>
    /\ Dispatch(row, work)
    /\ IF row' = row THEN UNCHANGED events ELSE Publish(List)

-----------------------------------------------------------------------------
(* The end of the service's process and the next one.                          *)

Interrupted == [j \in Job |-> IF row[j] = "running" THEN "interrupted" ELSE row[j]]
Forgets == /\ work' = [j \in Job |-> "none"] /\ asked' = {}
           /\ signal' = [j \in Job |-> "none"] /\ ports' = [j \in Job |-> 1]
           /\ events' = <<>>

\* The processes outlive a crash; what startup sends them is not followed.
Crash ==
    /\ life # "down" /\ faults < MaxFaults /\ faults' = faults + 1
    /\ life' = "down" /\ Forgets
    /\ UNCHANGED <<row, job, feasible, limit>>

shutdown ==
    /\ life = "up" /\ faults < MaxFaults /\ faults' = faults + 1
    /\ life' = "stopping"
    /\ asked' = {j \in Job : work[j] # "none"}
    /\ signal' = [j \in Job |-> IF work[j] = "process" THEN "TERM" ELSE signal[j]]
    /\ UNCHANGED <<row, job, feasible, limit, work, ports, events>>

\* After at most eight seconds the watchers that still run are cancelled.
ShutdownEnds ==
    /\ life = "stopping" /\ life' = "down"
    /\ row' = Interrupted /\ Forgets
    /\ UNCHANGED <<job, feasible, limit, faults>>

startup ==
    /\ life = "down" /\ life' = "up"
    /\ UNCHANGED <<job, feasible, limit, asked, signal, ports, faults>>
    /\ Dispatch(Interrupted, work)
    /\ Publish(List)

Lives == Crash \/ shutdown \/ ShutdownEnds \/ startup

-----------------------------------------------------------------------------
\* A cancel that was accepted reaches the job's process, also one that is started after
\* it (by the preparation of the route, a port retry, a fallback, a shutdown).
CancelReachesTheProcess ==
    \A j \in asked : work[j] = "process" => signal[j] # "none"
=============================================================================
