-------------------------- MODULE Lifecycle_proofs --------------------------
(* Proofs about TaskLifecycle, and from them those about ServiceLifecycle,   *)
(* for any tasks, GPUs and bounds: in a life of the service its steps are    *)
(* those of the lifecycle, and between two lives the invariant breaks in one *)
(* place, which the startup repairs.                                         *)
EXTENDS ServiceLifecycle, TLAPS

USE BoundsAssumption

-----------------------------------------------------------------------------
(* What the operations on rows and on attempts return.                       *)

\* Enqueueing a row gives a row that waits, with its attempts counted as before.
LEMMA EnqueuedType ==
    ASSUME NEW R \in Row, NEW q \in Queue
    PROVE  /\ Enqueued(R, q) \in Row
           /\ Enqueued(R, q).status \in {"queued", "staged"}
           /\ Enqueued(R, q).attempts = R.attempts
           /\ Enqueued(R, q).queue = "staged" => Enqueued(R, q).status = "staged"
  BY DEF Enqueued, Row, Queue, Status, StatusForQueue

\* Recording an outcome gives a row again and leaves the attempt count alone; a
\* row that was running no longer is.
LEMMA OutcomeType ==
    ASSUME NEW R \in Row, NEW a \in Attempt, NEW n \in Number
    PROVE  /\ Outcome(n, a, R) \in Row
           /\ Outcome(n, a, R).attempts = R.attempts
           /\ R.status = "running" => Outcome(n, a, R).status \in {"queued", "staged"} \cup Final
           /\ R.status = "running" /\ R.queue # "staged" /\ Outcome(n, a, R).queue = "staged"
                => Outcome(n, a, R).status # "queued"
  <1>1. /\ RequeuedFromRunning(R, a.requeueTo) \in Row
        /\ R.status = "running" =>
              RequeuedFromRunning(R, a.requeueTo).status \in {"queued", "staged"}
        /\ RequeuedFromRunning(R, a.requeueTo).attempts = R.attempts
        /\ R.status = "running" /\ RequeuedFromRunning(R, a.requeueTo).queue = "staged"
             => RequeuedFromRunning(R, a.requeueTo).status = "staged"
    BY EnqueuedType DEF RequeuedFromRunning, Attempt, Row, Queue, NoQueue
  <1>2. \A s \in Final : /\ Finished(R, s) \in Row
                         /\ R.status = "running" => Finished(R, s).status = s
                         /\ Finished(R, s).attempts = R.attempts
    BY DEF Finished, Row, Status, Final
  <1>3. /\ RetryScheduled(R) \in Row
        /\ R.status = "running" => RetryScheduled(R).status = "queued"
        /\ RetryScheduled(R).attempts = R.attempts
        /\ RetryScheduled(R).queue = R.queue
    BY DEF RetryScheduled, Row, Status
  <1>4. a.stop \in {"none", "cancel", "preempt", "interrupt"} /\ a.exit \in Exit
    BY DEF Attempt
  <1> QED
    BY <1>1, <1>2, <1>3, <1>4 DEF Outcome, Final, Exit

\* A launch counts one more attempt, within the bound.
LEMMA AttemptedType ==
    ASSUME NEW R \in Row, R.attempts < MaxAttempts, NEW s \in {"running", "failed"}
    PROVE  /\ Attempted(R, s) \in Row
           /\ Attempted(R, s).status = s
           /\ Attempted(R, s).attempts = R.attempts + 1
           /\ Attempted(R, s).queue = R.queue
           /\ R.attempts + 1 \in Number
  <1>1. R.attempts + 1 \in 0 .. MaxAttempts /\ R.attempts + 1 \in Number
    BY DEF Row, Number
  <1>2. s \in Status
    BY DEF Status, Final
  <1> QED
    BY <1>1, <1>2 DEF Attempted, Row

\* Attempts as they are before, at and after their launch.
LEMMA BlankType ==
    /\ \A p \in Phase : Blank(p) \in Attempt /\ Blank(p).phase = p
    /\ \A g \in Gpu : Launched(g) \in Attempt /\ Launched(g).phase = "alive"
  BY DEF Attempt, Blank, Launched, Phase, Exit, NoQueue, Queue

\* An attempt whose outcome is recorded.
LEMMA RecordedType ==
    ASSUME NEW a \in Attempt
    PROVE  Recorded(a) \in Attempt /\ Recorded(a).phase = "recorded"
  BY DEF Recorded, Attempt, Blank, Phase, Exit, NoQueue, Queue

\* The watcher moves an attempt to another phase.
LEMMA ProgressType ==
    ASSUME NEW a \in Attempt, NEW p \in Phase, NEW e \in Exit
    PROVE  /\ InPhase(a, p) \in Attempt /\ InPhase(a, p).phase = p
           /\ Ended(a, p, e) \in Attempt /\ Ended(a, p, e).phase = p
  <1>1. InPhase(a, p) \in Attempt /\ InPhase(a, p).phase = p
    BY DEF Attempt, InPhase
  <1>2. Ended(a, p, e) \in Attempt /\ Ended(a, p, e).phase = p
    BY DEF Attempt, Ended
  <1> QED
    BY <1>1, <1>2

\* Stop requests and signals leave the phase of an attempt alone.
LEMMA MarkedType ==
    ASSUME NEW a \in Attempt, NEW reason \in {"cancel", "preempt", "interrupt"},
           NEW requeue \in Queue \cup {NoQueue}, NEW s \in {"term", "kill"}
    PROVE  /\ Marked(a, reason, requeue) \in Attempt
           /\ Marked(a, reason, requeue).phase = a.phase
           /\ Signalled(a, s) \in Attempt
           /\ Signalled(a, s).phase = a.phase
  <1>1. /\ Marked(a, reason, requeue) \in Attempt
        /\ Marked(a, reason, requeue).phase = a.phase
    BY DEF Attempt, Marked
  <1>2. /\ Signalled(a, s) \in Attempt
        /\ Signalled(a, s).phase = a.phase
    BY DEF Attempt, Signalled
  <1> QED
    BY <1>1, <1>2

-----------------------------------------------------------------------------
(* The inductive invariant.                                                  *)

\* _running holds no attempt that the row does not count: the attempt number of
\* the next launch is free.
RegistryFollowsRows == \A t \in Task :
    row[t].status # "deleted" => running[t] <= row[t].attempts

IInv == /\ TypeOK
        /\ RegistryFollowsRows
        /\ RunningRowsHaveOneWatcher
        /\ RegistryIsBacked
        /\ StagedTasksDoNotRun

LEMMA InitIInv == Init => IInv
  <1> SUFFICES ASSUME Init PROVE IInv
    OBVIOUS
  <1>1. \A t \in Task, n \in Number : att[t][n] = Blank("unused") /\ running[t] = 0 /\ row[t] = NoRow
    BY DEF Init
  <1>2. Blank("unused") \in Attempt /\ Blank("unused").phase = "unused"
    BY BlankType DEF Phase
  <1>3. NoRow \in Row /\ NoRow.status = "absent" /\ NoRow.attempts = 0
    BY DEF NoRow, Row, Status, Queue
  <1>4. TypeOK
    BY <1>2, <1>3 DEF Init, TypeOK
  <1>5. RunningRowsHaveOneWatcher
    <2>1. \A t \in Task : row[t].status # "running"
      BY <1>1, <1>3, Zenon DEF Init
    <2>2. \A t \in Task, n \in Number : att[t][n].phase = "unused"
      BY <1>1, <1>2
    <2> QED
      BY <2>1, <2>2 DEF RunningRowsHaveOneWatcher, Unrecorded
  <1>6. RegistryFollowsRows /\ RegistryIsBacked
    BY <1>1, <1>3 DEF Init, RegistryFollowsRows, RegistryIsBacked, Registered
  <1>7. StagedTasksDoNotRun
    BY <1>3 DEF StagedTasksDoNotRun, Init
  <1> QED
    BY <1>4, <1>5, <1>6, <1>7 DEF IInv

\* A step that only rewrites one row, does not make it running or stop it from
\* running, and counts no attempt: the requests on rows and the clock.
LEMMA RowStep ==
    ASSUME IInv, NEW t \in Task, NEW R \in Row,
           row' = [row EXCEPT ![t] = R],
           R.status = "running" <=> row[t].status = "running",
           \/ R.status = "deleted"
           \/ R.attempts = row[t].attempts /\ row[t].status # "deleted",
           row[t].status = "running" => R.attempts = row[t].attempts,
           R.queue = "staged" => R.status \notin {"queued", "running"},
           UNCHANGED <<att, running, first, second>>
    PROVE  IInv'
  <1> USE DEF IInv
  <1>1. row' \in [Task -> Row] /\ \A u \in Task : row'[u] = IF u = t THEN R ELSE row[u]
    BY DEF TypeOK
  <1>2. TypeOK'
    BY <1>1 DEF TypeOK
  <1>3. RegistryIsBacked'
    BY DEF RegistryIsBacked, Registered, Handle
  <1>4. RegistryFollowsRows'
    BY <1>1 DEF RegistryFollowsRows
  <1>5. RunningRowsHaveOneWatcher'
    BY <1>1 DEF RunningRowsHaveOneWatcher
  <1>6. StagedTasksDoNotRun'
    BY <1>1 DEF StagedTasksDoNotRun
  <1> QED
    BY <1>2, <1>3, <1>4, <1>5, <1>6

\* A step that only changes attempts, and neither records, starts nor cleans up
\* one: stop requests, signals, exits.
LEMMA AttemptStep ==
    ASSUME IInv, att' \in [Task -> [Number -> Attempt]],
           first' \in [Task -> Nat], second' \in [Task -> Nat],
           \A t \in Task, n \in Number :
              \/ att'[t][n].phase = att[t][n].phase
              \/ att[t][n].phase \in Unrecorded /\ att'[t][n].phase \in Unrecorded,
           UNCHANGED <<row, running>>
    PROVE  IInv'
  <1> USE DEF IInv
  <1>1. TypeOK'
    BY DEF TypeOK
  <1>2. RegistryFollowsRows' /\ StagedTasksDoNotRun'
    BY DEF RegistryFollowsRows, StagedTasksDoNotRun
  <1>3. RunningRowsHaveOneWatcher'
    BY DEF RunningRowsHaveOneWatcher
  <1>4. \A t \in Task : Registered(t) => running[t] \in Number
    BY DEF TypeOK, Registered, Number
  <1>5. RegistryIsBacked'
    BY <1>4 DEF RegistryIsBacked, Registered, Handle
  <1> QED
    BY <1>1, <1>2, <1>3, <1>5

-----------------------------------------------------------------------------
(* One lemma per group of actions.                                           *)

\* The handle of a registered task is one of its attempts.
LEMMA HandleType ==
    ASSUME TypeOK, NEW t \in Task, Registered(t)
    PROVE  running[t] \in Number /\ Handle(t) \in Attempt /\ Handle(t) = att[t][running[t]]
  BY DEF TypeOK, Registered, Handle, Number

LEMMA RequestsOnRows ==
    ASSUME IInv, NEW s \in Task, NEW t \in Task, NEW q \in Queue,
           CreateTask(t, q) \/ MoveTaskToQueue(t, q) \/ RequeueTask(s, t)
             \/ DeleteTask(t) \/ RetryComesDue(t)
    PROVE  IInv'
  <1>1. row \in [Task -> Row] /\ row[s].queue \in Queue
    BY DEF IInv, TypeOK, Row
  <1>2. CASE CreateTask(t, q) \/ MoveTaskToQueue(t, q)
    BY <1>1, <1>2, EnqueuedType, RowStep DEF CreateTask, MoveTaskToQueue, Waiting
  <1>3. CASE RequeueTask(s, t)
    BY <1>1, <1>3, EnqueuedType, RowStep DEF RequeueTask
  <1>4. CASE DeleteTask(t)
    <2>1. /\ [NoRow EXCEPT !.status = "deleted"] \in Row
          /\ [NoRow EXCEPT !.status = "deleted"].status = "deleted"
          /\ [NoRow EXCEPT !.status = "deleted"].queue = "normal"
      <3>1. NoRow \in Row
        BY DEF NoRow, Row, Status, Queue
      <3> QED
        BY <3>1 DEF Row, Status, NoRow
    <2> QED
      BY <1>1, <1>4, <2>1, RowStep DEF DeleteTask
  <1>5. CASE RetryComesDue(t)
    <2> DEFINE R == [row[t] EXCEPT !.delayed = FALSE]
    <2>1. /\ R \in Row /\ R.status = row[t].status
          /\ R.attempts = row[t].attempts /\ R.queue = row[t].queue
      BY <1>1 DEF Row
    <2>2. row' = [row EXCEPT ![t] = R] /\ UNCHANGED <<att, running, first, second>>
      BY <1>5 DEF RetryComesDue
    <2>3. R.queue = "staged" => R.status \notin {"queued", "running"}
      BY <2>1 DEF IInv, StagedTasksDoNotRun
    <2> QED
      BY <2>1, <2>2, <2>3, RowStep
  <1> QED
    BY <1>2, <1>3, <1>4, <1>5

LEMMA StopRequests ==
    ASSUME IInv, NEW S \in SUBSET Task, \A t \in S : Registered(t),
           NEW reason \in {"cancel", "preempt", "interrupt"},
           NEW requeue \in Queue \cup {NoQueue},
           Stop(S, reason, requeue)
    PROVE  IInv'
  <1>1. TypeOK
    BY DEF IInv
  <1>2. \A t \in S : /\ running[t] \in Number
                     /\ Marked(Handle(t), reason, requeue) \in Attempt
                     /\ Marked(Handle(t), reason, requeue).phase = att[t][running[t]].phase
    <2> TAKE t \in S
    <2>1. running[t] \in Number /\ Handle(t) \in Attempt /\ Handle(t) = att[t][running[t]]
      BY <1>1, HandleType
    <2>2. /\ Marked(Handle(t), reason, requeue) \in Attempt
          /\ Marked(Handle(t), reason, requeue).phase = Handle(t).phase
      BY <2>1, MarkedType
    <2> QED
      BY <2>1, <2>2
  <1>3. att' \in [Task -> [Number -> Attempt]]
    BY <1>1, <1>2 DEF Stop, TypeOK
  <1>4. \A t \in Task, n \in Number : att'[t][n].phase = att[t][n].phase
    BY <1>1, <1>2 DEF Stop, TypeOK
  <1>5. first' \in [Task -> Nat] /\ second' \in [Task -> Nat]
    BY <1>1 DEF Stop, TypeOK
  <1> QED
    BY <1>3, <1>4, <1>5, AttemptStep DEF Stop

LEMMA Escalation ==
    ASSUME IInv, NEW t \in Task, Escalate(t)
    PROVE  IInv'
  <1>1. TypeOK
    BY DEF IInv
  <1>2. PICK s \in {"term", "kill"} : Signal(t, s)
    BY DEF Escalate, EscalateToTerm, EscalateToKill
  <1>3. first' \in [Task -> Nat] /\ second' \in [Task -> Nat] /\ UNCHANGED <<row, running>>
    <2>1. first \in [Task -> Nat] /\ second \in [Task -> Nat]
      BY <1>1 DEF TypeOK
    <2>2. CASE EscalateToTerm(t)
      BY <2>1, <2>2 DEF EscalateToTerm
    <2>3. CASE EscalateToKill(t)
      BY <2>1, <2>3 DEF EscalateToKill
    <2> QED
      BY <2>2, <2>3 DEF Escalate
  <1>4. CASE ~Escalates(t)
    BY <1>1, <1>2, <1>3, <1>4, AttemptStep DEF Signal, TypeOK
  <1>5. CASE Escalates(t)
    <2>1. /\ running[t] \in Number
          /\ Signalled(Handle(t), s) \in Attempt
          /\ Signalled(Handle(t), s).phase = att[t][running[t]].phase
      <3>1. running[t] \in Number /\ Handle(t) \in Attempt /\ Handle(t) = att[t][running[t]]
        BY <1>1, <1>5, HandleType DEF Escalates
      <3> QED
        BY <3>1, MarkedType
    <2>2. att' = [att EXCEPT ![t][running[t]] = Signalled(Handle(t), s)]
      BY <1>2, <1>5 DEF Signal
    <2>3. att' \in [Task -> [Number -> Attempt]]
      BY <1>1, <2>1, <2>2 DEF TypeOK
    <2>4. \A u \in Task, n \in Number : att'[u][n].phase = att[u][n].phase
      BY <1>1, <2>1, <2>2 DEF TypeOK
    <2> QED
      BY <1>3, <2>3, <2>4, AttemptStep
  <1> QED
    BY <1>4, <1>5

LEMMA Exits ==
    ASSUME IInv, NEW t \in Task, NEW n \in Number,
           TerminalReaches(t, n) \/ \E e \in Exit \ {"none"} : ProcessExits(t, n, e)
    PROVE  IInv'
  <1>1. TypeOK /\ att[t][n] \in Attempt
    BY DEF IInv, TypeOK
  <1>2. PICK a \in Attempt : /\ att' = [att EXCEPT ![t][n] = a]
                             /\ a.phase \in Unrecorded
    <2>1. CASE TerminalReaches(t, n)
      <3>1. "exited" \in Phase /\ "exited" \in Unrecorded /\ "none" \in Exit
        BY DEF Phase, Unrecorded, Exit
      <3>2. /\ InPhase(att[t][n], "exited") \in Attempt
            /\ InPhase(att[t][n], "exited").phase = "exited"
        BY <1>1, <3>1, ProgressType
      <3> QED
        BY <2>1, <3>1, <3>2 DEF TerminalReaches
    <2>2. CASE \E e \in Exit \ {"none"} : ProcessExits(t, n, e)
      <3>1. PICK e \in Exit, p \in {"exited", "lingering"} :
               att' = [att EXCEPT ![t][n] = Ended(att[t][n], p, e)]
        BY <2>2 DEF ProcessExits
      <3> QED
        <4>1. p \in Phase /\ p \in Unrecorded
          BY DEF Phase, Unrecorded
        <4>2. /\ Ended(att[t][n], p, e) \in Attempt
              /\ Ended(att[t][n], p, e).phase = p
          BY <1>1, <4>1, ProgressType
        <4> QED
          BY <3>1, <4>1, <4>2
    <2> QED
      BY <2>1, <2>2
  <1>3. att[t][n].phase \in Unrecorded /\ UNCHANGED <<row, running, first, second>>
    BY DEF TerminalReaches, ProcessExits, Unrecorded
  <1>4. att' \in [Task -> [Number -> Attempt]]
    BY <1>1, <1>2 DEF TypeOK
  <1>5. \A u \in Task, m \in Number :
           \/ att'[u][m].phase = att[u][m].phase
           \/ att[u][m].phase \in Unrecorded /\ att'[u][m].phase \in Unrecorded
    BY <1>1, <1>2, <1>3 DEF TypeOK
  <1> QED
    BY <1>1, <1>3, <1>4, <1>5, AttemptStep DEF TypeOK

\* A launch starts an attempt whose number nothing holds.
LEMMA Launch ==
    ASSUME IInv, NEW t \in Task, NEW g \in Gpu, LaunchTask(t, g)
    PROVE  IInv'
  <1> USE DEF IInv
  <1> DEFINE n == row[t].attempts + 1
             R == Attempted(row[t], "running")
             a == Launched(g)
  <1>1. row \in [Task -> Row] /\ row[t].attempts < MaxAttempts /\ row[t].status = "queued"
    BY DEF TypeOK, LaunchTask, Launchable, Ready
  <1>2. /\ R \in Row /\ R.status = "running" /\ R.queue = row[t].queue
        /\ R.attempts = n /\ n \in Number
    BY <1>1, AttemptedType
  <1>3. a \in Attempt /\ a.phase = "alive"
    BY BlankType
  <1>4. /\ row' = [row EXCEPT ![t] = R]
        /\ att' = [att EXCEPT ![t][n] = a]
        /\ running' = [running EXCEPT ![t] = n]
        /\ UNCHANGED <<first, second>>
    BY DEF LaunchTask
  <1> HIDE DEF n, R, a
  <1>6. n \in 1 .. MaxAttempts
    BY <1>2 DEF Number
  <1>7. TypeOK'
    BY <1>2, <1>3, <1>4, <1>6 DEF TypeOK
  <1>9. RegistryFollowsRows'
    BY <1>2, <1>4, <1>6 DEF RegistryFollowsRows, TypeOK
  <1>10. RunningRowsHaveOneWatcher'
    BY <1>1, <1>2, <1>3, <1>4 DEF RunningRowsHaveOneWatcher, TypeOK, Unrecorded
  <1>11. \A u \in Task : u # t => /\ Registered(u)' = Registered(u)
                                  /\ Handle(u)' = Handle(u)
    BY <1>4 DEF TypeOK, Registered, Handle
  <1>12. Registered(t)' /\ Handle(t)' = a
    BY <1>2, <1>4, <1>6 DEF TypeOK, Registered, Handle
  <1>13. RegistryIsBacked'
    BY <1>3, <1>11, <1>12 DEF RegistryIsBacked, Unrecorded
  <1>16. StagedTasksDoNotRun'
    BY <1>1, <1>2, <1>4 DEF StagedTasksDoNotRun
  <1> QED
    BY <1>7, <1>9, <1>10, <1>13, <1>16

\* An attempt whose Popen failed never gets a handle.
LEMMA FailedLaunch ==
    ASSUME IInv, NEW t \in Task, LaunchFails(t)
    PROVE  IInv'
  <1> USE DEF IInv
  <1> DEFINE n == row[t].attempts + 1
             R == Attempted(row[t], "failed")
             a == Blank("done")
  <1>1. row \in [Task -> Row] /\ row[t].attempts < MaxAttempts /\ row[t].status = "queued"
    BY DEF TypeOK, LaunchFails, Launchable, Ready
  <1>2. R \in Row /\ R.status = "failed" /\ R.attempts = n /\ n \in Number
    BY <1>1, AttemptedType
  <1>3. a \in Attempt /\ a.phase = "done"
    BY BlankType DEF Phase
  <1>4. /\ row' = [row EXCEPT ![t] = R]
        /\ att' = [att EXCEPT ![t][n] = a]
        /\ UNCHANGED <<running, first, second>>
    BY DEF LaunchFails
  <1>5. running[t] # n
    BY <1>1 DEF RegistryFollowsRows, TypeOK, Row
  <1>6. row[t].attempts < n
    BY <1>1 DEF Row
  <1> HIDE DEF n, R, a
  <1>7. TypeOK'
    BY <1>2, <1>3, <1>4 DEF TypeOK
  <1>9. RegistryFollowsRows'
    <2>1. running[t] <= row[t].attempts
      BY <1>1 DEF RegistryFollowsRows
    <2>2. running[t] <= n
      BY <1>1, <1>2, <1>6, <2>1 DEF Row, TypeOK, Number
    <2> QED
      BY <1>2, <1>4, <2>2 DEF RegistryFollowsRows, TypeOK
  <1>10. RunningRowsHaveOneWatcher'
    BY <1>1, <1>2, <1>3, <1>4 DEF RunningRowsHaveOneWatcher, TypeOK, Unrecorded
  <1>11. \A u \in Task : /\ Registered(u)' = Registered(u)
                         /\ Handle(u)' = Handle(u)
    BY <1>4, <1>5 DEF TypeOK, Registered, Handle
  <1>12. RegistryIsBacked'
    BY <1>11 DEF RegistryIsBacked
  <1>13. StagedTasksDoNotRun'
    BY <1>1, <1>2, <1>4 DEF StagedTasksDoNotRun
  <1> QED
    BY <1>7, <1>9, <1>10, <1>12, <1>13

\* The watcher that records is the one of a running row, and afterwards the row
\* is not running and no other watcher of the task has something to record.
LEMMA Recording ==
    ASSUME IInv, NEW t \in Task, NEW n \in Number, WatcherRecords(t, n)
    PROVE  IInv'
  <1> USE DEF IInv
  <1> DEFINE R == Outcome(n, att[t][n], row[t])
             a == Recorded(att[t][n])
  <1>1. row[t] \in Row /\ att[t][n] \in Attempt /\ att[t][n].phase = "exited"
    BY DEF TypeOK, WatcherRecords
  <1>2. row[t].status = "running" /\ n = row[t].attempts
    BY <1>1 DEF RunningRowsHaveOneWatcher, Unrecorded
  <1>3. R \in Row /\ R.attempts = row[t].attempts /\ R.status \notin {"running", "deleted"}
    BY <1>1, <1>2, OutcomeType DEF Final
  <1>14. R.queue = "staged" => R.status # "queued"
    BY <1>1, <1>2, OutcomeType DEF StagedTasksDoNotRun
  <1>4. a \in Attempt /\ a.phase = "recorded"
    BY <1>1, RecordedType
  <1>5. /\ row' = [row EXCEPT ![t] = R]
        /\ att' = [att EXCEPT ![t][n] = a]
        /\ UNCHANGED <<running, first, second>>
    BY DEF WatcherRecords
  <1> HIDE DEF R, a
  <1>7. TypeOK'
    BY <1>3, <1>4, <1>5 DEF TypeOK
  <1>9. RegistryFollowsRows'
    BY <1>2, <1>3, <1>5 DEF RegistryFollowsRows, TypeOK
  <1>10. RunningRowsHaveOneWatcher'
    BY <1>2, <1>3, <1>4, <1>5 DEF RunningRowsHaveOneWatcher, TypeOK, Unrecorded
  <1>11. \A u \in Task : Registered(u) =>
            /\ running[u] \in Number
            /\ Handle(u)'.phase \in {Handle(u).phase, "recorded"}
    BY <1>4, <1>5, HandleType DEF TypeOK, Registered, Handle
  <1>12. RegistryIsBacked'
    BY <1>5, <1>11 DEF RegistryIsBacked, Registered
  <1>15. StagedTasksDoNotRun'
    BY <1>1, <1>3, <1>5, <1>14 DEF StagedTasksDoNotRun, TypeOK
  <1> QED
    BY <1>7, <1>9, <1>10, <1>12, <1>15

LEMMA CleaningUp ==
    ASSUME IInv, NEW t \in Task, NEW n \in Number, WatcherCleansUp(t, n)
    PROVE  IInv'
  <1> USE DEF IInv
  <1> DEFINE a == Blank("done")
  <1>1. a \in Attempt /\ a.phase = "done"
    BY BlankType DEF Phase
  <1>2. /\ att[t][n].phase = "recorded"
        /\ att' = [att EXCEPT ![t][n] = a]
        /\ running' = [running EXCEPT ![t] = 0]
        /\ UNCHANGED <<row, first, second>>
    BY DEF WatcherCleansUp
  <1> HIDE DEF a
  <1>3. TypeOK'
    BY <1>1, <1>2 DEF TypeOK
  <1>5. RegistryFollowsRows'
    BY <1>2 DEF RegistryFollowsRows, TypeOK, Row
  <1>6. RunningRowsHaveOneWatcher'
    BY <1>1, <1>2 DEF RunningRowsHaveOneWatcher, TypeOK, Unrecorded
  <1>7. \A u \in Task : Registered(u)' => /\ Registered(u)
                                          /\ Handle(u)' = Handle(u)
    BY <1>2 DEF TypeOK, Registered, Handle
  <1>8. RegistryIsBacked'
    BY <1>7 DEF RegistryIsBacked
  <1>9. StagedTasksDoNotRun'
    BY <1>2 DEF StagedTasksDoNotRun
  <1> QED
    BY <1>3, <1>5, <1>6, <1>8, <1>9

-----------------------------------------------------------------------------
(* The theorems.                                                             *)

LEMMA NextIInv == IInv /\ [Next]_vars => IInv'
  <1> SUFFICES ASSUME IInv, [Next]_vars PROVE IInv'
    OBVIOUS
  <1>1. CASE Requests
    <2>1. ASSUME NEW t \in Task, NEW q \in Queue, CreateTask(t, q) \/ MoveTaskToQueue(t, q)
          PROVE  IInv'
      BY <2>1, RequestsOnRows
    <2>2. ASSUME NEW s \in Task, NEW t \in Task, RequeueTask(s, t)
          PROVE  IInv'
      BY <2>2, RequestsOnRows DEF Queue
    <2>3. ASSUME NEW t \in Task, DeleteTask(t)
          PROVE  IInv'
      BY <2>3, RequestsOnRows DEF Queue
    <2>4. ASSUME NEW t \in Task, CancelTask(t) \/ PreemptTask(t) \/ InterruptTaskToStaged(t)
          PROVE  IInv'
      <3>1. \A u \in {t} : Registered(u)
        BY <2>4 DEF CancelTask, PreemptTask, InterruptTaskToStaged
      <3>2. PICK reason \in {"cancel", "preempt", "interrupt"}, requeue \in Queue \cup {NoQueue} :
               Stop({t}, reason, requeue)
        BY <2>4 DEF CancelTask, PreemptTask, InterruptTaskToStaged, Queue
      <3> QED
        BY <3>1, <3>2, StopRequests
    <2>5. ASSUME NEW G \in SUBSET Gpu, InterruptRunningTasks(G)
          PROVE  IInv'
      <3> DEFINE S == {t \in Task : /\ Registered(t)
                                    /\ Handle(t).gpu \in G
                                    /\ Handle(t).phase = "alive"}
      <3>1. S \in SUBSET Task /\ (\A t \in S : Registered(t)) /\ Stop(S, "interrupt", NoQueue)
        BY <2>5 DEF InterruptRunningTasks
      <3> HIDE DEF S
      <3> QED
        BY <3>1, StopRequests
    <2> QED
      BY <1>1, <2>1, <2>2, <2>3, <2>4, <2>5 DEF Requests
  <1>2. CASE Tick
    BY <1>2, Launch, FailedLaunch DEF Tick
  <1>3. ASSUME NEW t \in Task, Escalate(t) \/ RetryComesDue(t)
        PROVE  IInv'
    BY <1>3, Escalation, RequestsOnRows DEF Queue
  <1>4. ASSUME NEW t \in Task, NEW n \in Number, Watch(t, n)
        PROVE  IInv'
    BY <1>4, Exits, Recording, CleaningUp DEF Watch
  <1>5. ASSUME NEW t \in Task, NEW n \in Number, NEW e \in Exit \ {"none"}, ProcessExits(t, n, e)
        PROVE  IInv'
    BY <1>5, Exits
  <1>6. CASE UNCHANGED vars
    BY <1>6 DEF vars, IInv, TypeOK, RegistryFollowsRows,
       RunningRowsHaveOneWatcher, RegistryIsBacked,
       StagedTasksDoNotRun, Registered, Handle
  <1> QED
    BY <1>1, <1>2, <1>3, <1>4, <1>5, <1>6 DEF Next

\* The strengthening holds in every state the scheduler can reach.
THEOREM Invariance == Spec => []IInv
  BY InitIInv, NextIInv, PTL DEF Spec

\* Type correctness of the lifecycle: no handler writes a row, a handle or a
\* ladder outside its range.
THEOREM Typing == Spec => []TypeOK
  <1>1. IInv => TypeOK
    BY DEF IInv
  <1> QED
    BY <1>1, Invariance, PTL

\* For any number of tasks, GPUs, attempts and ladders: a row is running exactly
\* while one watcher, that of its last attempt, has its outcome to write.
THEOREM OneWatcher == Spec => []RunningRowsHaveOneWatcher
  <1>1. IInv => RunningRowsHaveOneWatcher
    BY DEF IInv
  <1> QED
    BY <1>1, Invariance, PTL

\* Every handle in _running belongs to a watcher that is still there.
THEOREM RegistryBacked == Spec => []RegistryIsBacked
  <1>1. IInv => RegistryIsBacked
    BY DEF IInv
  <1> QED
    BY <1>1, Invariance, PTL

\* However its row came to the staged queue, a task there is never queued or running.
THEOREM StagedTasksStay == Spec => []StagedTasksDoNotRun
  <1>1. IInv => StagedTasksDoNotRun
    BY DEF IInv
  <1> QED
    BY <1>1, Invariance, PTL

\* A step from a state of the invariant takes no row out of a final status, except
\* by deleting it.
LEMMA OutcomeKept ==
    ASSUME IInv, [Next]_vars, NEW u \in Task, row[u].status \in Final
    PROVE  row'[u].status \in {row[u].status, "deleted"}
  <1>0. row \in [Task -> Row] /\ row[u].status \notin {"absent", "queued", "staged", "running"}
    BY DEF IInv, TypeOK, Final
  <1>1. ASSUME NEW t \in Task, NEW q \in Queue, CreateTask(t, q) \/ MoveTaskToQueue(t, q)
        PROVE  row'[u] = row[u]
    BY <1>0, <1>1 DEF CreateTask, MoveTaskToQueue, Waiting
  <1>2. ASSUME NEW s \in Task, NEW t \in Task, RequeueTask(s, t)
        PROVE  row'[u] = row[u]
    BY <1>0, <1>2 DEF RequeueTask
  <1>3. ASSUME NEW t \in Task, DeleteTask(t)
        PROVE  row'[u].status \in {row[u].status, "deleted"}
    <2>1. [NoRow EXCEPT !.status = "deleted"].status = "deleted"
      BY DEF NoRow
    <2> QED
      BY <1>0, <1>3, <2>1 DEF DeleteTask
  <1>4. ASSUME NEW t \in Task, RetryComesDue(t)
        PROVE  row'[u].status = row[u].status
    BY <1>0, <1>4 DEF RetryComesDue, Row
  <1>5. CASE Tick
    BY <1>0, <1>5 DEF Tick, LaunchTask, LaunchFails, Launchable, Ready
  <1>6. ASSUME NEW t \in Task, NEW n \in Number, WatcherRecords(t, n)
        PROVE  row'[u] = row[u]
    <2>1. row[t].status = "running"
      BY <1>6 DEF WatcherRecords, IInv, RunningRowsHaveOneWatcher, Unrecorded
    <2> QED
      BY <1>0, <1>6, <2>1 DEF WatcherRecords
  <1>7. CASE UNCHANGED row
    BY <1>7
  <1>8. CASE Requests
    BY <1>1, <1>2, <1>3, <1>7, <1>8 DEF Requests, CancelTask, PreemptTask,
       InterruptTaskToStaged, InterruptRunningTasks, Stop
  <1> QED
    BY <1>4, <1>5, <1>6, <1>7, <1>8 DEF Next, vars, Escalate, EscalateToTerm,
       EscalateToKill, Watch, TerminalReaches, WatcherCleansUp, ProcessExits

\* No step of any handler, watcher or ladder takes a task out of a final status,
\* except for deleting it.
THEOREM FinalOutcomes == Spec => OutcomesAreFinal
  <1> DEFINE Kept == \A t \in Task : row[t].status \in Final =>
                        row'[t].status \in {row[t].status, "deleted"}
  <1>1. IInv /\ [Next]_vars => Kept
    BY OutcomeKept
  <1> QED
    BY <1>1, Invariance, PTL DEF Spec, OutcomesAreFinal

-----------------------------------------------------------------------------
(* ServiceLifecycle: the invariant of several lives of the service.          *)

\* What a crash or a stop leaves in memory: nothing but the attempts that were.
NothingInMemory ==
    /\ \A t \in Task : running[t] = 0
    /\ \A t \in Task, n \in Number : att[t][n].phase \in {"unused", "done"}

\* While the service lives, the invariant of the lifecycle.  Between two lives rows
\* may be running with no watcher, but nothing contradicts that the startup
\* queues them: no attempt is registered or unrecorded, no staged row is running.
ServiceIInv == /\ TypeOK
               /\ StagedTasksDoNotRun
               /\ Live => IInv
               /\ ~Live => NothingInMemory

LEMMA ServiceInitIInv == ServiceInit => ServiceIInv
  BY InitIInv DEF ServiceInit, ServiceIInv, Live, IInv

-----------------------------------------------------------------------------
(* The steps of a life.                                                      *)

\* A step of the lifecycle in a life that goes on.
LEMMA LifecycleStep ==
    ASSUME ServiceIInv, Live, Live', [Next]_vars
    PROVE  ServiceIInv'
  BY NextIInv DEF ServiceIInv, IInv

\* The handlers, watchers, ladders and ticks of the service, in a life or in its
\* shutdown, take steps of the lifecycle.
LEMMA StepsOfALife ==
    ASSUME \/ ServeRequest \/ LaunchInTick \/ TickEnds \/ WatcherEnds \/ WatcherProceeds
           \/ ProcessEnds \/ LadderProceeds \/ TimePasses \/ BeginShutdown \/ GatherWatchers
    PROVE  Live /\ Live' /\ [Next]_vars
  <1>1. CASE ServeRequest
    BY <1>1 DEF ServeRequest, Next, Live, service
  <1>2. CASE LaunchInTick
    BY <1>2 DEF LaunchInTick, Next, Live, service
  <1>3. CASE TickEnds \/ BeginShutdown \/ GatherWatchers
    BY <1>3 DEF TickEnds, BeginShutdown, GatherWatchers, Live
  <1>4. CASE WatcherEnds \/ WatcherProceeds
    <2>1. (\E t \in Task, n \in Number : Watch(t, n)) /\ Live /\ mode' = mode
      BY <1>4 DEF WatcherEnds, WatcherProceeds, Watch, service
    <2> QED
      BY <2>1 DEF Next, Live
  <1>5. CASE ProcessEnds
    BY <1>5 DEF ProcessEnds, Next, Live, service
  <1>6. CASE LadderProceeds \/ TimePasses
    <2>1. /\ Live /\ mode' = mode
          /\ \E t \in Task : Escalate(t) \/ RetryComesDue(t)
      BY <1>6 DEF LadderProceeds, TimePasses, service
    <2> QED
      BY <2>1 DEF Next, Live
  <1> QED
    BY <1>1, <1>2, <1>3, <1>4, <1>5, <1>6

\* The signals of a shutdown mark attempts and leave their phases alone.
LEMMA ShutdownSignals ==
    ASSUME ServiceIInv, InterruptRunning \/ SignalNamed("int", "term") \/ SignalNamed("term", "kill")
    PROVE  ServiceIInv'
  <1>1. Live /\ Live' /\ IInv /\ TypeOK
    BY DEF InterruptRunning, SignalNamed, Live, ServiceIInv
  <1>2. UNCHANGED <<row, running, first, second>>
    BY DEF InterruptRunning, SignalNamed
  <1>3. /\ att' \in [Task -> [Number -> Attempt]]
        /\ \A t \in Task, n \in Number : att'[t][n].phase = att[t][n].phase
    <2>1. CASE InterruptRunning
      <3>1. \A t \in Task : Registered(t) =>
               /\ running[t] \in Number
               /\ Interrupted(Handle(t)) \in Attempt
               /\ Interrupted(Handle(t)).phase = att[t][running[t]].phase
        <4> SUFFICES ASSUME NEW t \in Task, Registered(t)
                     PROVE  /\ running[t] \in Number
                            /\ Interrupted(Handle(t)) \in Attempt
                            /\ Interrupted(Handle(t)).phase = att[t][running[t]].phase
          OBVIOUS
        <4>1. running[t] \in Number /\ Handle(t) \in Attempt /\ Handle(t) = att[t][running[t]]
          BY <1>1, HandleType
        <4>2. /\ Interrupted(Handle(t)) \in Attempt
              /\ Interrupted(Handle(t)).phase = Handle(t).phase
          <5>1. NoQueue \in Queue \cup {NoQueue}
            OBVIOUS
          <5> QED
            BY <4>1, <5>1, MarkedType, Zenon DEF Interrupted
        <4> QED
          BY <4>1, <4>2
      <3>2. att' = [t \in Task |->
                      IF Registered(t)
                      THEN [att[t] EXCEPT ![running[t]] = Interrupted(Handle(t))] ELSE att[t]]
        BY <2>1 DEF InterruptRunning
      <3> QED
        BY <1>1, <3>1, <3>2 DEF TypeOK
    <2>2. ASSUME NEW s \in {"term", "kill"}, NEW from, SignalNamed(from, s)
          PROVE  /\ att' \in [Task -> [Number -> Attempt]]
                 /\ \A t \in Task, n \in Number : att'[t][n].phase = att[t][n].phase
      <3>1. \A t \in Task, n \in Number :
               /\ att[t][n] \in Attempt
               /\ Signalled(att[t][n], s) \in Attempt
               /\ Signalled(att[t][n], s).phase = att[t][n].phase
        BY <1>1, MarkedType DEF TypeOK
      <3> QED
        BY <2>2, <3>1 DEF SignalNamed
    <2> QED
      BY <2>1, <2>2
  <1>4. IInv'
    BY <1>1, <1>2, <1>3, AttemptStep DEF TypeOK
  <1> QED
    BY <1>1, <1>4 DEF ServiceIInv, IInv

-----------------------------------------------------------------------------
(* The end of a life, and the next one.                                      *)

\* However the process of the server ends, what is left fits the next startup.
LEMMA EndOfALife ==
    ASSUME ServiceIInv, NEW to \in {"stopped", "crashed"}, NEW ids, MemoryLost(to, ids)
    PROVE  ServiceIInv'
  <1>1. Blank("done") \in Attempt /\ Blank("done").phase = "done"
    BY BlankType DEF Phase
  <1>2. /\ att' \in [Task -> [Number -> Attempt]]
        /\ \A t \in Task, n \in Number : att'[t][n].phase \in {"unused", "done"}
    <2>1. \A t \in Task, n \in Number : att[t][n] \in Attempt
      BY DEF ServiceIInv, TypeOK
    <2>2. att' = [t \in Task |-> [n \in Number |->
                    IF att[t][n].phase = "unused" THEN att[t][n] ELSE Blank("done")]]
      BY DEF MemoryLost
    <2> QED
      BY <1>1, <2>1, <2>2
  <1>3. /\ UNCHANGED row /\ ~Live'
        /\ running' = [t \in Task |-> 0] /\ first' = [t \in Task |-> 0] /\ second' = [t \in Task |-> 0]
    BY DEF MemoryLost, Live
  <1>4. TypeOK'
    BY <1>2, <1>3 DEF ServiceIInv, TypeOK
  <1>5. StagedTasksDoNotRun'
    BY <1>3 DEF ServiceIInv, StagedTasksDoNotRun
  <1>6. NothingInMemory'
    BY <1>2, <1>3 DEF NothingInMemory
  <1> QED
    BY <1>3, <1>4, <1>5, <1>6 DEF ServiceIInv

\* The startup queues what was running, and every row has its watcher or needs none.
LEMMA NextLife ==
    ASSUME ServiceIInv, Startup
    PROVE  ServiceIInv'
  <1>1. /\ TypeOK /\ StagedTasksDoNotRun /\ NothingInMemory
        /\ UNCHANGED <<att, running, first, second>> /\ Live'
    BY DEF ServiceIInv, Startup, Live
  <1> DEFINE Back(R) == [R EXCEPT !.status = "queued", !.delayed = FALSE]
  <1>2. \A R \in Row : Back(R) \in Row /\ Back(R).status = "queued" /\ Back(R).queue = R.queue
    BY DEF Row, Status
  <1>3. /\ row' \in [Task -> Row]
        /\ \A t \in Task : /\ row'[t].status # "running"
                           /\ row'[t].queue = row[t].queue
                           /\ row'[t].status = row[t].status
                                \/ (row[t].status = "running" /\ row'[t].status = "queued")
    <2>1. row' = [t \in Task |-> IF row[t].status = "running" THEN Back(row[t]) ELSE row[t]]
      BY DEF Startup
    <2>2. \A t \in Task : row[t] \in Row
      BY <1>1 DEF TypeOK
    <2> HIDE DEF Back
    <2>3. row' \in [Task -> Row]
      BY <1>2, <2>1, <2>2
    <2>4. ASSUME NEW t \in Task
          PROVE  /\ row'[t].status # "running"
                 /\ row'[t].queue = row[t].queue
                 /\ row'[t].status = row[t].status
                      \/ (row[t].status = "running" /\ row'[t].status = "queued")
      <3>1. CASE row[t].status = "running"
        <4>1. row'[t] = Back(row[t])
          BY <2>1, <3>1
        <4> QED
          BY <1>2, <2>2, <3>1, <4>1
      <3>2. CASE row[t].status # "running"
        <4>1. row'[t] = row[t]
          BY <2>1, <3>2
        <4> QED
          BY <3>2, <4>1
      <3> QED
        BY <3>1, <3>2
    <2> QED
      BY <2>3, <2>4
  <1>4. TypeOK'
    BY <1>1, <1>3 DEF TypeOK
  <1>5. StagedTasksDoNotRun'
    BY <1>1, <1>3 DEF StagedTasksDoNotRun
  <1>6. RunningRowsHaveOneWatcher'
    BY <1>1, <1>3 DEF NothingInMemory, RunningRowsHaveOneWatcher, Unrecorded
  <1>7. RegistryFollowsRows' /\ RegistryIsBacked'
    <2>1. \A t \in Task : running'[t] = 0 /\ ~Registered(t)'
      BY <1>1 DEF NothingInMemory, Registered
    <2>2. \A t \in Task : row'[t].attempts \in 0 .. MaxAttempts
      BY <1>3 DEF Row
    <2> QED
      BY <2>1, <2>2 DEF RegistryFollowsRows, RegistryIsBacked
  <1> QED
    BY <1>1, <1>4, <1>5, <1>6, <1>7 DEF ServiceIInv, IInv

LEMMA ServiceInductive == ServiceIInv /\ [ServiceNext]_allVars => ServiceIInv'
  <1> SUFFICES ASSUME ServiceIInv, [ServiceNext]_allVars PROVE ServiceIInv'
    OBVIOUS
  <1>1. CASE \/ ServeRequest \/ LaunchInTick \/ TickEnds \/ WatcherEnds \/ WatcherProceeds
             \/ ProcessEnds \/ LadderProceeds \/ TimePasses \/ BeginShutdown \/ GatherWatchers
    BY <1>1, StepsOfALife, LifecycleStep
  <1>2. CASE InterruptRunning \/ SignalNamed("int", "term") \/ SignalNamed("term", "kill")
    BY <1>2, ShutdownSignals
  <1>3. CASE Stopped \/ Crash \/ CrashInLaunch
    BY <1>3, EndOfALife DEF Stopped, Crash, CrashInLaunch
  <1>4. CASE Startup
    BY <1>4, NextLife
  <1>5. CASE OrphanExits \/ UNCHANGED allVars
    <2>1. UNCHANGED <<vars, mode>>
      BY <1>5 DEF OrphanExits, allVars
    <2>2. CASE Live
      <3>1. Live' /\ [Next]_vars
        BY <2>1, <2>2 DEF Live
      <3> QED
        BY <2>2, <3>1, LifecycleStep
    <2>3. CASE ~Live
      BY <2>1, <2>3 DEF ServiceIInv, Live, vars, TypeOK, StagedTasksDoNotRun, NothingInMemory
    <2> QED
      BY <2>2, <2>3
  <1> QED
    BY <1>1, <1>2, <1>3, <1>4, <1>5 DEF ServiceNext, ShutdownStep

-----------------------------------------------------------------------------
(* The theorems.                                                             *)

\* The invariant holds through any number of shutdowns, crashes and startups.
THEOREM ServiceInvariance == ServiceSpec => []ServiceIInv
  BY ServiceInitIInv, ServiceInductive, PTL DEF ServiceSpec

\* In every life a row is running exactly while the one watcher of its last attempt
\* has its outcome to write, also when the life before ended at any point.
THEOREM EveryLifeWatches == ServiceSpec => []WatchedInEveryLife
  <1>1. ServiceIInv => WatchedInEveryLife
    BY DEF ServiceIInv, WatchedInEveryLife, IInv
  <1> QED
    BY <1>1, ServiceInvariance, PTL

\* The startup writes "queued" without looking at the queue, and still makes no
\* staged task due: none was running.
THEOREM RestartsSpareStagedTasks == ServiceSpec => []StagedTasksStayAcrossRestarts
  <1>1. ServiceIInv => StagedTasksStayAcrossRestarts
    BY DEF ServiceIInv, StagedTasksStayAcrossRestarts
  <1> QED
    BY <1>1, ServiceInvariance, PTL

\* No step of a life, of a shutdown or between two lives takes back an outcome.
THEOREM OutcomesSurvive == ServiceSpec => OutcomesSurviveRestarts
  <1> DEFINE Kept == \A t \in Task : row[t].status \in Final =>
                        row'[t].status \in {row[t].status, "deleted"}
  <1>1. ServiceIInv /\ [ServiceNext]_allVars => Kept
    <2> SUFFICES ASSUME ServiceIInv, [ServiceNext]_allVars, NEW t \in Task, row[t].status \in Final
                 PROVE  row'[t].status \in {row[t].status, "deleted"}
      OBVIOUS
    <2>1. CASE \/ ServeRequest \/ LaunchInTick \/ TickEnds \/ WatcherEnds \/ WatcherProceeds
               \/ ProcessEnds \/ LadderProceeds \/ TimePasses \/ BeginShutdown \/ GatherWatchers
      <3>1. IInv /\ [Next]_vars
        BY <2>1, StepsOfALife DEF ServiceIInv
      <3> QED
        BY <3>1, OutcomeKept
    <2>2. CASE UNCHANGED row
      BY <2>2
    <2>3. CASE Startup
      BY <2>3 DEF Startup, Final
    <2> QED
      BY <2>1, <2>2, <2>3 DEF ServiceNext, ShutdownStep, InterruptRunning, SignalNamed, Stopped,
         Crash, CrashInLaunch, MemoryLost, OrphanExits, allVars, vars
  <1> QED
    BY <1>1, ServiceInvariance, PTL DEF ServiceSpec, OutcomesSurviveRestarts
=============================================================================
