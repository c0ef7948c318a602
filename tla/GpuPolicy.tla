------------------------------ MODULE GpuPolicy ------------------------------
(* Which queued task is launched on which GPU and when: the ticks of the     *)
(* scheduler loop and those that watchers and requests start, each with the  *)
(* GPU payload it read, the lock they place tasks under, the readiness       *)
(* counts, the memory budgets and reservations, and what decides whether a   *)
(* GPU is open: the allowed list, its schedule, leases, pause, cooldowns and *)
(* the restoring of idle GPUs.  An action is a stretch of code between two   *)
(* awaits that suspend.  How tasks end is the subject of TaskLifecycle.      *)
EXTENDS Integers, FiniteSets, SequencesExt

CONSTANTS Task,            \* tasks, whose dependencies are satisfied
          Gpu,             \* GPU indices
          Loop, Immediate, \* _tick coroutines: of the loop, of watchers and requests
          Wants,           \* Wants[t]: the requested GPU of t, or all of them
          Budget,          \* Budget[t]: gpu_memory_budget_mb, 0 for none
          Reserve,         \* Reserve[t]: gpu_memory_reservation_mb, 0 for never one
          Memory,          \* memory of a GPU
          Headroom,        \* GPU_MEMORY_BUDGET_HEADROOM_MB
          Usage,           \* bound: what of it may be in use; 0 is an idle GPU
          RequiredChecks,  \* config.gpu_idle_required_checks, at least 1
          MaxEvents        \* bound: requests, tasks that come, kills and deaths from
                           \* outside, growth of what others use

Tick == {Loop} \cup Immediate
ASSUME GpuAssumption == Gpu \subseteq Nat /\ Wants \in [Task -> SUBSET Gpu]
ASSUME MemoryAssumption == /\ Memory \in Nat /\ Headroom \in Nat /\ Usage \subseteq 0 .. Memory
                           /\ Budget \in [Task -> 0 .. Memory] /\ Reserve \in [Task -> 0 .. Memory]
ASSUME ChecksAssumption == RequiredChecks \in Nat \ {0} /\ MaxEvents \in Nat

None == "none"
NoGpu == -1        \* None as a gpu_id
ASSUME TaskAssumption == IsFiniteSet(Task) /\ None \notin Tick
VARIABLES queued,       \* the tasks in status queued that are due
          on,           \* on[t]: the GPU of t's handle in _running, or NoGpu
          used,         \* used[g]: memory in use on g by anything but reservations
          allowed,      \* the allowed_gpu_ids of the database
          schedule,     \* schedule[g]: the entry of the gpu_schedule of the database
          leased,       \* the GPUs of active leases
          paused,
          cooldown,     \* the GPUs in the cooldown after an external kill
          ready,        \* ready[g][b]: consecutive checks with room for budget b; 0: idle
          recent,       \* _recently_released_gpu_ids
          idle,         \* idle[g]: how long a disabled GPU was idle
          reserving,    \* the tasks whose reservation is set now
          reservation,  \* reservation[t]: the GPU of t's handle in _memory_reservations
          outdated,     \* the tasks whose handle is for another amount than is set now
          refused,      \* refused[t]: the GPU where the last reservation for t failed
          helpers,      \* <<t, g>>: a process that holds memory on g for t
          ending,       \* <<t, g>>: one that was told to end and has not ended yet
          tick,         \* tick[k]: where the tick is, and what it has read
          lock,         \* the tick that holds _lock across an await, or None
          waiting,      \* the ticks that wait for _lock, in their order
          events        \* counted for the bound
settings == <<allowed, schedule, leased, paused, reserving>>
tasks == <<queued, on>>
checks == <<ready, recent>>
held == <<reservation, outdated, refused, helpers, ending>>
flow == <<tick, lock, waiting>>
vars == <<tasks, used, settings, cooldown, checks, idle, held, flow, events>>

Entry == [action : {None, "enable", "disable"}, due : BOOLEAN]
NoEntry == [action |-> None, due |-> FALSE]
Key == {Budget[t] : t \in Task} \cup {0}
NoPayload == [enabled |-> {}, idle |-> {}, occupied |-> {}, free |-> [g \in Gpu |-> 0]]
At(where) == [at |-> where, schedule |-> [g \in Gpu |-> NoEntry], allowed |-> {},
              payload |-> NoPayload, todo |-> <<>>]

Init ==
    /\ queued = {} /\ on = [t \in Task |-> NoGpu]
    /\ used \in [Gpu -> Usage]
    /\ allowed = Gpu /\ schedule = [g \in Gpu |-> NoEntry] /\ leased = {} /\ paused = FALSE
    /\ cooldown = {}
    /\ ready = [g \in Gpu |-> [b \in Key |-> 0]] /\ recent = {}
    /\ idle = [g \in Gpu |-> None]
    /\ reserving = {t \in Task : Reserve[t] > 0}
    /\ reservation = [t \in Task |-> NoGpu] /\ refused = [t \in Task |-> NoGpu]
    /\ outdated = {} /\ helpers = {} /\ ending = {}
    /\ tick = [k \in Tick |-> At("none")] /\ lock = None /\ waiting = <<>>
    /\ events = 0

Occupied == {on[t] : t \in Task} \ {NoGpu}
Disabled == (Gpu \ allowed) \ leased

-----------------------------------------------------------------------------
(* Memory held in advance.  A record h stands for the handles, the refusals  *)
(* and the processes while a tick goes through its plan.                     *)

\* Mutant: a handle is dropped and its process is not told.
HandlesAreDropped(h, T) ==
    [at      |-> [t \in Task |-> IF t \in T THEN NoGpu ELSE h.at[t]],
     refused |-> h.refused, helpers |-> h.helpers, ending |-> h.ending]

\* The handles of T are dropped, and their processes told to end, which takes a while
\* and may outlast every wait (_terminate_memory_reservation).
Released(h, T) ==
    LET told == {x \in h.helpers : x[1] \in T /\ x[2] = h.at[x[1]]}
    IN [at      |-> [t \in Task |-> IF t \in T THEN NoGpu ELSE h.at[t]],
        refused |-> h.refused,
        helpers |-> h.helpers \ told,
        ending  |-> h.ending \cup told]

\* A process is started for t on g in place of the one of its handle, dead or alive.
Started(h, t, g) ==
    LET r == Released(h, {t})
    IN [at      |-> [u \in Task |-> IF u = t THEN g ELSE r.at[u]],
        refused |-> r.refused,
        helpers |-> r.helpers \cup {<<t, g>>},
        ending  |-> r.ending]

\* _sync_memory_reservations: only a task that waits keeps a handle, of a process that
\* is alive and holds the amount that is set.
Kept(t) == /\ t \in (queued \cap reserving) \ outdated
           /\ <<t, reservation[t]>> \in helpers
Synced == Released([at      |-> reservation,
                    refused |-> [t \in Task |-> IF t \in queued THEN refused[t] ELSE NoGpu],
                    helpers |-> helpers, ending |-> ending], {t \in Task : ~Kept(t)})

HeldAs(h) == /\ reservation' = h.at /\ refused' = h.refused
             /\ helpers' = h.helpers /\ ending' = h.ending

-----------------------------------------------------------------------------
(* Matching the queue to the GPUs of a payload.  A plan is a record of the   *)
(* pairs assigned so far, the memory left by them and the GPUs given away.   *)

Available(p) == p.enabled \ cooldown
HasOwn(t, g) == reservation[t] = g /\ Kept(t)
OwnReservation(t, g) == IF HasOwn(t, g) THEN Reserve[t] ELSE 0

\* Mutant: what is planned already does not count.
HasRoomAlone(t, g, p, E) ==
    IF Budget[t] > 0 THEN p.free[g] + OwnReservation(t, g) > Budget[t] + Headroom ELSE g \in p.idle

\* _readiness_key_for_task and _task_has_planned_gpu_capacity: E are the tasks that
\* the plan has already given g to.
HasRoom(t, g, p, E) ==
    LET planned == SumFunction([u \in E |-> OwnReservation(u, g) - Budget[u]]) IN
    /\ \A u \in E : Budget[u] > 0
    /\ IF Budget[t] > 0
       THEN \A free \in {p.free[g], p.free[g] + planned} :
               free + OwnReservation(t, g) > Budget[t] + Headroom
       ELSE g \in p.idle /\ planned = 0

CanRun(t, g, p, E, counts) ==
    /\ HasRoom(t, g, p, E)
    /\ HasOwn(t, g) \/ counts[g][Budget[t]] >= RequiredChecks

\* _match_tasks_to_gpus: in the order of the queue, each to the first GPU it can run on,
\* as the set of the one plan that this makes.
Match(order, p, counts) ==
    LET options(m, i) == {g \in Available(p) \cap Wants[order[i]] :
                            LET E == {order[j] : j \in {j \in 1 .. i - 1 : m[j] = g}}
                            IN CanRun(order[i], g, p, E, counts)}
        gpus == {m \in [DOMAIN order -> Gpu \cup {NoGpu}] :
                   \A i \in DOMAIN order :
                     m[i] = IF options(m, i) = {} THEN NoGpu ELSE Min(options(m, i))}
        turns(m) == {s \in SetToSeqs({i \in DOMAIN order : m[i] # NoGpu}) :
                       \A i, j \in DOMAIN s : i < j => s[i] < s[j]}
    IN UNION {{[n \in DOMAIN s |-> <<order[s[n]], m[s[n]]>>] : s \in turns(m)} : m \in gpus}

\* _refresh_gpu_ready_counts: one more for what is satisfied, nothing for the rest;
\* a GPU that a task of the scheduler has just left is ready at once.
Refreshed(p) ==
    LET satisfied(g, b) == /\ g \in Available(p)
                           /\ IF b = 0 THEN g \in p.idle
                              ELSE p.free[g] > b + Headroom /\ \E t \in queued : Budget[t] = b
    IN [g \in Gpu |-> [b \in Key |->
          IF ~satisfied(g, b) THEN 0
          ELSE IF g \in recent \/ ready[g][b] >= RequiredChecks THEN RequiredChecks
          ELSE ready[g][b] + 1]]
StillRecent(p) == {g \in recent : g \in cooldown \/ g \in p.occupied}

-----------------------------------------------------------------------------
(* What the GPU provider and the settings say when a query returns.  R are   *)
(* the processes that hold their memory then: R[1] of helpers, R[2] of those *)
(* that were told to end.                                                    *)

HeldOn(g, H) == SumFunctionOnSet(Reserve, {t \in Task : <<t, g>> \in H})
Taken(g, R) == used[g] + HeldOn(g, R[1]) + HeldOn(g, R[2])
Unused(g, R) == Taken(g, R) = 0 /\ g \notin Occupied
PayloadNow(R) ==
    [enabled  |-> allowed \ leased,
     idle     |-> {g \in (allowed \ leased) \ cooldown : Unused(g, R)},
     occupied |-> Occupied,
     free     |-> [g \in Gpu |-> IF Taken(g, R) > Memory THEN 0 ELSE Memory - Taken(g, R)]]

\* _sync_auto_restore_idle_tracking.
Tracked(R) == [g \in Gpu |-> IF g \notin Disabled \/ ~Unused(g, R) THEN None
                            ELSE IF idle[g] = None THEN "short" ELSE idle[g]]
Restored(R) == {g \in Gpu : Tracked(R)[g] = "long"}

-----------------------------------------------------------------------------
(* A tick.                                                                   *)

\* _apply_due_gpu_schedule reads both settings before it asks for the GPUs; with
\* an empty schedule nothing is read before the query.
NothingScheduled == \A g \in Gpu : schedule[g] = NoEntry
TickBegins(k) ==
    /\ tick[k].at = "none" /\ ~NothingScheduled
    /\ tick' = [tick EXCEPT ![k] =
                  [At("schedule") EXCEPT !.schedule = schedule, !.allowed = allowed]]
    /\ UNCHANGED <<tasks, used, settings, cooldown, checks, idle, held, lock, waiting, events>>

\* Mutant: a GPU that is to be disabled is not taken out of the list.
DisablingIsForgotten(k) ==
    LET old == tick[k].schedule
        Due(action) == {g \in Gpu : old[g].due /\ old[g].action = action}
    IN /\ tick[k].at = "schedule"
       /\ IF \E g \in Gpu : old[g].due
          THEN /\ allowed' = tick[k].allowed \cup Due("enable")
               /\ schedule' = [g \in Gpu |-> IF old[g].due THEN NoEntry
                     ELSE [old[g] EXCEPT !.due = schedule[g].due /\ schedule[g].action = old[g].action]]
          ELSE UNCHANGED <<allowed, schedule>>
       /\ tick' = [tick EXCEPT ![k] = At("query")]
       /\ UNCHANGED <<tasks, used, leased, paused, reserving, cooldown, checks, idle, held, lock, waiting,
                      events>>

\* It writes back what it read, changed by the entries that were due.
ScheduleApplied(k) ==
    LET old == tick[k].schedule
        Due(action) == {g \in Gpu : old[g].due /\ old[g].action = action}
    IN /\ tick[k].at = "schedule"
       /\ IF \E g \in Gpu : old[g].due
          THEN /\ allowed' = (tick[k].allowed \cup Due("enable")) \ Due("disable")
               /\ schedule' = [g \in Gpu |-> IF old[g].due THEN NoEntry
                     ELSE [old[g] EXCEPT !.due = schedule[g].due /\ schedule[g].action = old[g].action]]
          ELSE UNCHANGED <<allowed, schedule>>
       /\ tick' = [tick EXCEPT ![k] = At("query")]
       /\ UNCHANGED <<tasks, used, leased, paused, reserving, cooldown, checks, idle, held, lock,
                      waiting, events>>

\* The provider raises, and with it the tick.
QueryFails(k) ==
    /\ tick[k].at \in {"schedule", "query", "requery"}
    /\ tick' = [tick EXCEPT ![k] = At("none")]
    /\ UNCHANGED <<tasks, used, settings, cooldown, checks, idle, held, lock, waiting, events>>

Queried(k) == tick[k].at = "query" \/ (tick[k].at = "none" /\ NothingScheduled)

\* _apply_auto_restore_idle_gpus, followed by another query.
IdleGpusRestored(k, R) ==
    /\ Queried(k) /\ Restored(R) # {}
    /\ UNCHANGED <<tasks, used, schedule, leased, paused, reserving, cooldown, checks, held, lock, waiting,
                   events>>
    /\ allowed' = allowed \cup Restored(R)
    /\ idle' = [g \in Gpu |-> IF g \in Restored(R) THEN None ELSE Tracked(R)[g]]
    /\ tick' = [tick EXCEPT ![k] = At("requery")]

\* From here on _lock is held.  A pair of the plan is launched at once, unless a
\* reservation is to be started for it first (and it is left for a later tick) or
\* the one it has is to be released: either lets other coroutines run.
Reserves(t, g, h) == /\ t \in reserving /\ h.refused[t] # g
                     /\ h.at[t] # g \/ <<t, g>> \notin h.helpers
Releases(t, g, h) == ~Reserves(t, g, h) /\ h.at[t] # NoGpu

Stops(plan, h) == {i \in DOMAIN plan : \/ Reserves(plan[i][1], plan[i][2], h)
                                       \/ Releases(plan[i][1], plan[i][2], h)}

Launched(pairs, counts, released) ==
    LET gpus == {pair[2] : pair \in pairs}
    IN /\ queued' = queued \ {pair[1] : pair \in pairs}
       /\ on' = [t \in Task |-> Max({on[t]} \cup {g \in gpus : <<t, g>> \in pairs})]
       /\ ready' = [g \in Gpu |-> IF g \in gpus THEN [b \in Key |-> 0] ELSE counts[g]]
       /\ recent' = released \ gpus

Placed(k, launched, plan, h, counts, released) ==
    \/ /\ Stops(plan, h) = {}
       /\ Launched(launched \cup ToSet(plan), counts, released)
       /\ tick' = [tick EXCEPT ![k] = At("none")]
       /\ lock' = None
       /\ HeldAs(h)
    \/ \E n \in DOMAIN plan :
          LET t == plan[n][1]
              g == plan[n][2]
              reserves == Reserves(t, g, h)
          IN /\ n \in Stops(plan, h) /\ \A i \in Stops(plan, h) : n <= i
             /\ Launched(launched \cup {plan[i] : i \in 1 .. n - 1}, counts, released)
             /\ tick' = [tick EXCEPT ![k] = [At(IF reserves THEN "reserve" ELSE "release")
                                              EXCEPT !.todo = SubSeq(plan, n, Len(plan))]]
             /\ lock' = k
             /\ HeldAs(IF reserves THEN Started(h, t, g) ELSE Released(h, {t}))

\* The reservations are brought in line with the queue, the payload counts as one more
\* check, and the queue is matched unless it is paused.
Plans(k, p) ==
    /\ outdated' = {}
    /\ \E counts \in {Refreshed(p)} :
       \E order \in SetToSeqs(queued) : \E plan \in IF paused THEN {<<>>} ELSE Match(order, p, counts) :
          Placed(k, {}, plan, Synced, counts, StillRecent(p))

LockFree == lock = None /\ waiting = <<>>

PayloadRead(k, R) ==
    /\ tick[k].at = "requery" \/ (Queried(k) /\ Restored(R) = {})
    /\ UNCHANGED <<used, settings, cooldown, events>>
    /\ idle' = Tracked(R)
    /\ \E p \in {PayloadNow(R)} :
         \/ LockFree /\ Plans(k, p) /\ UNCHANGED waiting
         \/ /\ ~LockFree
            /\ tick' = [tick EXCEPT ![k] = [At("lock") EXCEPT !.payload = p]]
            /\ waiting' = Append(waiting, k)
            /\ UNCHANGED <<tasks, checks, held, lock>>

LockGranted(k) ==
    /\ lock = None /\ waiting # <<>> /\ Head(waiting) = k
    /\ UNCHANGED <<used, settings, cooldown, idle, events>>
    /\ waiting' = Tail(waiting)
    /\ \E p \in {tick[k].payload} : Plans(k, p)

\* Mutant: a process that failed leaves the tick hanging with the lock.
ReservationHangs(k, ok) ==
    LET t == Head(tick[k].todo)[1]
        g == Head(tick[k].todo)[2]
    IN /\ tick[k].at = "reserve" /\ ~ok
       /\ reservation' = [reservation EXCEPT ![t] = NoGpu]
       /\ refused' = [refused EXCEPT ![t] = g]
       /\ helpers' = helpers \ {<<t, g>>}
       /\ UNCHANGED <<tasks, used, settings, cooldown, checks, outdated, ending, idle, flow, events>>

\* Half a second later the process is still there, or it has failed already.
ReservationStarted(k, ok) ==
    LET t == Head(tick[k].todo)[1]
        g == Head(tick[k].todo)[2]
    IN /\ tick[k].at = "reserve"
       /\ UNCHANGED <<used, settings, cooldown, outdated, idle, waiting, events>>
       /\ ok => <<t, g>> \in helpers
       /\ Placed(k, {}, Tail(tick[k].todo),
                 [at      |-> [reservation EXCEPT ![t] = IF ok THEN g ELSE NoGpu],
                  refused |-> [refused EXCEPT ![t] = IF ok THEN NoGpu ELSE g],
                  helpers |-> IF ok THEN helpers ELSE helpers \ {<<t, g>>},
                  ending  |-> ending], ready, recent)

\* The wait for the process is over, whether it has ended or not.
ReservationReleased(k) ==
    /\ tick[k].at = "release"
    /\ UNCHANGED <<used, settings, cooldown, outdated, idle, waiting, events>>
    /\ Placed(k, {Head(tick[k].todo)}, Tail(tick[k].todo),
              [at |-> reservation, refused |-> refused, helpers |-> helpers, ending |-> ending],
              ready, recent)

-----------------------------------------------------------------------------
(* Requests on settings; each write of the database is one step.             *)

Event == events < MaxEvents /\ events' = events + 1
NoTaskChanges == UNCHANGED <<tasks, used, cooldown, held, flow>>

UpdateSettings(A) == /\ Event /\ allowed' = A
                     /\ NoTaskChanges /\ UNCHANGED <<schedule, leased, paused, reserving, checks, idle>>
ScheduleGpuState(g, action) ==
    /\ Event
    /\ schedule' = [schedule EXCEPT ![g] = [action |-> action, due |-> FALSE]]
    /\ NoTaskChanges /\ UNCHANGED <<allowed, leased, paused, reserving, checks, idle>>
ClearGpuSchedule(g) == /\ Event /\ schedule' = [schedule EXCEPT ![g] = NoEntry]
                       /\ NoTaskChanges /\ UNCHANGED <<allowed, leased, paused, reserving, checks, idle>>
CreateAgentGpuLease(G) == /\ Event /\ G # {} /\ leased' = leased \cup G
                          /\ NoTaskChanges /\ UNCHANGED <<allowed, schedule, paused, reserving, checks, idle>>
SetQueuePaused(p) == /\ Event /\ paused' = p
                     /\ NoTaskChanges /\ UNCHANGED <<allowed, schedule, leased, reserving, checks, idle>>
\* The counts start again; a cooldown of zero seconds also ends those under way.
UpdateSchedulerSettings ==
    /\ Event
    /\ ready' = [g \in Gpu |-> [b \in Key |-> 0]] /\ recent' = {}
    /\ idle' = [g \in Gpu |-> None]
    /\ cooldown' \in {cooldown, {}}
    /\ UNCHANGED <<tasks, used, held, flow, settings>>
\* The reservation of a waiting task is set, set to another amount or switched off; the
\* failures are kept by amount.
UpdateQueuedTask(t, set, changed) ==
    /\ Event /\ lock = None /\ on[t] = NoGpu /\ Reserve[t] > 0
    /\ changed \/ set # (t \in reserving)
    /\ reserving' = IF set THEN reserving \cup {t} ELSE reserving \ {t}
    /\ outdated' = IF changed THEN outdated \cup {t} ELSE outdated
    /\ refused' = IF changed THEN [refused EXCEPT ![t] = NoGpu] ELSE refused
    /\ UNCHANGED <<tasks, used, allowed, schedule, leased, paused, cooldown, checks, reservation, helpers,
                   ending, idle, flow>>
Requests ==
    \/ \E A \in SUBSET Gpu : UpdateSettings(A) \/ CreateAgentGpuLease(A)
    \/ \E g \in Gpu : \/ \E action \in {"enable", "disable"} : ScheduleGpuState(g, action)
                      \/ ClearGpuSchedule(g)
    \/ \E p \in BOOLEAN : SetQueuePaused(p)
    \/ UpdateSchedulerSettings
    \/ \E t \in Task, set, changed \in BOOLEAN : UpdateQueuedTask(t, set, changed)

-----------------------------------------------------------------------------
(* Tasks, processes and time.                                                *)

Others == UNCHANGED <<settings, held, flow, events>>

\* The last lease of a GPU expires or is released.
LeaseEnds(g) == /\ g \in leased /\ leased' = leased \ {g}
                /\ UNCHANGED <<tasks, used, allowed, schedule, paused, reserving, cooldown, checks, idle, held, flow,
                   events>>
EntryComesDue(g) ==
    /\ schedule[g].action # None /\ ~schedule[g].due
    /\ schedule' = [schedule EXCEPT ![g].due = TRUE]
    /\ UNCHANGED <<tasks, used, allowed, leased, paused, reserving, cooldown, checks, idle, held, flow,
                   events>>
TimeIdlePasses(g) == /\ idle[g] = "short" /\ idle' = [idle EXCEPT ![g] = "long"]
                     /\ Others /\ UNCHANGED <<tasks, used, cooldown, checks>>
CooldownEnds(g) == /\ g \in cooldown /\ cooldown' = cooldown \ {g}
                   /\ Others /\ UNCHANGED <<tasks, used, checks, idle>>
UsageGrows(g, u) == /\ Event /\ u > used[g] /\ used' = [used EXCEPT ![g] = u]
                    /\ UNCHANGED <<tasks, settings, cooldown, checks, idle, held, flow>>
UsageEnds(g) == /\ used[g] # 0 /\ used' = [used EXCEPT ![g] = 0]
                /\ Others /\ UNCHANGED <<tasks, cooldown, checks, idle>>

\* Mutant: a task is moved or deleted without the lock.
LeavesAtAnyTime(t) == /\ t \in queued /\ queued' = queued \ {t}
                      /\ Others /\ UNCHANGED <<on, used, cooldown, checks, idle>>

\* A task is created, moved in or due for its retry; it is moved out or deleted.
TaskQueued(t) == /\ Event /\ t \notin queued /\ on[t] = NoGpu /\ queued' = queued \cup {t}
                 /\ UNCHANGED <<on, used, settings, cooldown, checks, idle, held, flow>>
TaskLeaves(t) == /\ t \in queued /\ lock = None /\ queued' = queued \ {t}
                 /\ Others /\ UNCHANGED <<on, used, cooldown, checks, idle>>

\* A watcher has recorded the end of its task and removes the handle; an external
\* kill has started the cooldown of the GPU.
TaskEnds(t) ==
    /\ on[t] # NoGpu /\ lock = None
    /\ on' = [on EXCEPT ![t] = NoGpu]
    /\ recent' = recent \cup {on[t]}
    /\ Others /\ UNCHANGED <<queued, used, cooldown, ready, idle>>
TaskIsKilled(t) ==
    /\ on[t] # NoGpu /\ lock = None
    /\ Event
    /\ on' = [on EXCEPT ![t] = NoGpu]
    /\ recent' = recent \cup {on[t]}
    /\ cooldown' = cooldown \cup {on[t]}
    /\ ready' = [ready EXCEPT ![on[t]] = [b \in Key |-> 0]]
    /\ UNCHANGED <<queued, used, idle, settings, held, flow>>

\* A process that holds memory dies; one that was told to end ends.
HelperDies(t, g) ==
    /\ Event /\ <<t, g>> \in helpers
    /\ helpers' = helpers \ {<<t, g>>}
    /\ UNCHANGED <<tasks, used, settings, cooldown, checks, idle, reservation, outdated, refused, ending,
                   flow>>
HelperEnds(t, g) ==
    /\ <<t, g>> \in ending
    /\ ending' = ending \ {<<t, g>>}
    /\ UNCHANGED <<tasks, used, settings, cooldown, checks, idle, reservation, outdated, refused, helpers,
                   flow, events>>

-----------------------------------------------------------------------------
Allocated == (SUBSET helpers) \X (SUBSET ending)
Reads(k) == \E R \in Allocated : IdleGpusRestored(k, R) \/ PayloadRead(k, R)
Holds(k) == \/ LockGranted(k)
            \/ \E ok \in BOOLEAN : ReservationStarted(k, ok)
            \/ ReservationReleased(k)
Resumes(k) == ScheduleApplied(k) \/ Reads(k) \/ Holds(k)
Next ==
    \/ \E k \in Tick : TickBegins(k) \/ Resumes(k) \/ QueryFails(k)
    \/ Requests
    \/ \E g \in Gpu : \/ LeaseEnds(g) \/ EntryComesDue(g) \/ TimeIdlePasses(g) \/ CooldownEnds(g)
                      \/ UsageEnds(g) \/ \E u \in Usage : UsageGrows(g, u)
    \/ \E t \in Task : \/ TaskQueued(t) \/ TaskLeaves(t) \/ TaskEnds(t) \/ TaskIsKilled(t)
                       \/ \E g \in Gpu : HelperDies(t, g) \/ HelperEnds(t, g)

\* The loop is never given up, an await that has its answer is resumed, and the
\* provider does not fail on every query.
Spec == /\ Init /\ [][Next]_vars
        /\ WF_vars(TickBegins(Loop))
        /\ SF_vars(ScheduleApplied(Loop)) /\ SF_vars(Reads(Loop))
        /\ WF_vars(\E k \in Tick : Holds(k))

-----------------------------------------------------------------------------
(* Properties.                                                               *)

\* A tick that lets other coroutines run in the middle of its plan goes on with
\* tasks that still wait: nobody moved, deleted or launched them in between
\* (scheduler.py:1212-1231, with _lock held over the awaits).
PlannedTasksStayQueued ==
    \A k \in Tick : \A i \in DOMAIN tick[k].todo :
        /\ lock = k
        /\ tick[k].todo[i][1] \in queued

\* A process that holds memory for a task and was not told to end is that of the task's
\* handle, and its task does not run: whichever way a reservation ends (the task is
\* launched, leaves the queue or gets another reservation, the process dies or is
\* replaced), no process is left behind that nobody would ever end (scheduler.py:1507,
\* 2133-2153, 2167-2170, 2301-2309).
NoHelperIsForgotten ==
    \A x \in helpers : reservation[x[1]] = x[2] /\ on[x[1]] = NoGpu

\* What a step launches on GPU g.
LaunchedOn(g) == {t \in Task : on[t] = NoGpu /\ on'[t] = g}

\* The tasks that a tick launches right after its query, with nobody else at the
\* lock, go to GPUs that are allowed and not leased, cooling down or, for a task
\* without a budget, in use, and the queue is not paused; those with budgets leave
\* the headroom free together (scheduler.py:1188-1211, 2000-2131).
FreshLaunches ==
    LockFree /\ queued' # queued =>
        \A g \in Gpu : LaunchedOn(g) # {} =>
             /\ ~paused /\ g \in (allowed \ leased) \ cooldown
             /\ \A t \in LaunchedOn(g) : g \in Wants[t]
             /\ (\E t \in LaunchedOn(g) : Budget[t] = 0) => used[g] = 0 /\ g \notin Occupied
             /\ (\E t \in LaunchedOn(g) : Budget[t] > 0)
                => used[g] + SumFunctionOnSet(Budget, LaunchedOn(g)) + Headroom < Memory
FreshLaunchesHaveRoom == [][FreshLaunches]_vars

\* While a GPU stays open, idle and free of memory held in advance, a task that may run on it
\* and reserves nothing does not wait for ever: the checks of all ticks together
\* reach the required number, stale payloads and failed queries or not.
NoGpuIsLeftIdle ==
    \A t \in {u \in Task : Budget[u] = 0 /\ Reserve[u] = 0}, g \in Gpu :
        []<>~( /\ t \in queued /\ g \in Wants[t] /\ ~paused
               /\ g \in (allowed \ leased) \ cooldown
               /\ used[g] = 0 /\ g \notin Occupied
               /\ \A u \in Task : <<u, g>> \notin helpers \cup ending )

\* Every tick that is asking for the GPUs has read what is scheduled for g.
ReadByAll(g) ==
    \A k \in Tick : tick[k].at = "schedule" => tick[k].schedule[g].action = schedule[g].action

\* A change of a GPU whose time has come does not wait for ever, and its entry leaves the
\* schedule only by a request, or in the step that makes the change, whatever else was
\* requested while ticks were asking for the GPUs.  A tick writes back what it read
\* before it asked: all of them have to have read the entry (scheduler.py:1234-1271).
EntriesLeaveApplied ==
    \A g \in Gpu :
        schedule[g].due /\ ReadByAll(g) /\ schedule'[g] # schedule[g] /\ events' = events =>
            schedule'[g] = NoEntry /\ (g \in allowed' <=> schedule[g].action = "enable")
DueEntriesAreApplied ==
    /\ \A g \in Gpu : []<>~schedule[g].due
    /\ [][EntriesLeaveApplied]_vars
=============================================================================
