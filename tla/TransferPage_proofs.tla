------------------------- MODULE TransferPage_proofs -------------------------
(* Proofs about the transfer service and the page over it, for any jobs,     *)
(* ends, routes and bounds.                                                  *)
EXTENDS TransferPage, FiniteSetTheorems, TLAPS

USE TransferBounds, PossibleRoutes, NoneIsNoPair

-----------------------------------------------------------------------------
(* The inductive invariant.                                                  *)

Status == {"none", "deleted", "pending", "running"} \cup Finals
Where == {"none", "started", "preparing", "process", "exited"}
Choice == Route \cup {"auto"}
Details == [ends : Ends, route : Choice, auto : BOOLEAN, fell : BOOLEAN]

ServiceTypeOK ==
    /\ row \in [Job -> Status]
    /\ job \in [Job -> Details]
    /\ feasible \in [Ends -> SUBSET Route]
    /\ limit \in Nat
    /\ work \in [Job -> Where]
    /\ asked \subseteq Job
    /\ signal \in [Job -> {"none", "INT", "TERM", "KILL"}]
    /\ DOMAIN ports = Job
    /\ life \in {"up", "stopping", "down"}

Posts == [id : Nat, ends : Ends, route : Choice, own : BOOLEAN]
DialogTypeOK ==
    /\ form \in [open : BOOLEAN, ends : Ends \cup {None}, route : Choice,
                 offered : SUBSET Route, due : BOOLEAN, submitting : BOOLEAN]
    /\ form.due => form.ends # None
    /\ ~form.open => ~form.submitting
    /\ plans \subseteq SUBSET Route
    /\ posts \subseteq Posts
    /\ clicks \in Nat

\* While the service's process lives, the running rows and only they have a handle,
\* and only a handle can be asked to stop.  A process that has ended has left no handle.
HandlesFollowRows ==
    /\ \A j \in Job : work[j] # "none" => row[j] = "running"
    /\ life # "down" => \A j \in Job : row[j] = "running" => work[j] # "none"
    /\ life = "down" => \A j \in Job : work[j] = "none"
    /\ \A j \in asked : work[j] # "none"

TransferIInv == /\ ServiceTypeOK
                /\ DialogTypeOK
                /\ HandlesFollowRows
                /\ CancelReachesTheProcess
                /\ FormsWaitForTheirOwn

-----------------------------------------------------------------------------
(* Dispatching.                                                              *)

LEMMA HavingIsFinite ==
    ASSUME NEW rows, NEW status
    PROVE  /\ IsFiniteSet(Having(rows, status)) /\ Having(rows, status) \subseteq Job
           /\ Cardinality(Having(rows, status)) \in Nat
  <1>1. IsFiniteSet(Job)
    BY FS_Interval DEF Job
  <1>2. Having(rows, status) \in SUBSET Job
    BY DEF Having
  <1> QED
    BY <1>1, <1>2, FS_Subset, FS_CardinalityType

\* The jobs that are launched together and those that run fill no more than the slots:
\* the number of older pending jobs tells the launched ones apart, and for each it is
\* less than the number of free slots.
LEMMA LaunchesFillTheSlots ==
    ASSUME NEW rows, NEW most \in Nat, Launches(rows, most) # {}
    PROVE  Cardinality(Launches(rows, most)) + Cardinality(Having(rows, "running")) <= most
  <1> DEFINE Pending == Having(rows, "pending")
             Running == Having(rows, "running")
             Go == Launches(rows, most)
             Older(j) == {k \in Pending : k < j}
             free == most - Cardinality(Running)
  <1>1. IsFiniteSet(Pending) /\ Pending \subseteq Job /\ Cardinality(Running) \in Nat
    BY HavingIsFinite
  <1>2. \A j \in Job : IsFiniteSet(Older(j)) /\ Cardinality(Older(j)) \in Nat
    <2> TAKE j \in Job
    <2>1. Older(j) \in SUBSET Pending
      OBVIOUS
    <2> HIDE DEF Pending
    <2> QED BY <2>1, <1>1, FS_Subset, FS_CardinalityType
  <1>3. Go \subseteq Job /\ Go \subseteq Pending /\ IsFiniteSet(Go) /\ Cardinality(Go) \in Nat
    <2>1. Go \in SUBSET Pending
      BY DEF Launches
    <2> HIDE DEF Pending, Go
    <2> QED BY <2>1, <1>1, FS_Subset, FS_CardinalityType
  <1>4. \A j \in Go : Cardinality(Older(j)) < free
    <2>1. \A j \in Go : Cardinality(Older(j)) + Cardinality(Running) < most
      BY DEF Launches
    <2> HIDE DEF Older, Running, Go
    <2> QED BY <2>1, <1>1, <1>2, <1>3
  <1>5. free \in Nat
    <2>1. PICK j \in Go : TRUE
      OBVIOUS
    <2> HIDE DEF Older, Running, Go
    <2> QED BY <2>1, <1>1, <1>2, <1>3, <1>4
  <1>6. Cardinality(1 .. free) = free /\ IsFiniteSet(1 .. free)
    <2> HIDE DEF free
    <2> QED BY <1>5, FS_Interval
  <1>7. Cardinality(Go) <= free
    <2> SUFFICES ASSUME Cardinality(1 .. free) < Cardinality(Go) PROVE FALSE
      <3> HIDE DEF Go, free
      <3> QED BY <1>3, <1>5, <1>6
    <2> DEFINE place == [j \in Go |-> Cardinality(Older(j)) + 1]
    <2>1. place \in [Go -> 1 .. free]
      <3>1. \A j \in Go : Cardinality(Older(j)) + 1 \in 1 .. free
        <4> HIDE DEF Older, Go, free
        <4> QED BY <1>2, <1>3, <1>4, <1>5
      <3> HIDE DEF Older, Go, free
      <3> QED BY <3>1
    <2>2. PICK x, y \in Go : x # y /\ place[x] = place[y]
      <3> HIDE DEF place, Go, free
      <3> QED BY <2>1, <1>3, <1>6, FS_PigeonHole
    <2>3. Cardinality(Older(x)) = Cardinality(Older(y))
      <3>1. Cardinality(Older(x)) + 1 = Cardinality(Older(y)) + 1
        BY <2>2
      <3> HIDE DEF Older, Go
      <3> QED BY <3>1, <1>2, <1>3
    <2>4. \A a, b \in Go : a < b => Cardinality(Older(a)) # Cardinality(Older(b))
      <3> SUFFICES ASSUME NEW a \in Go, NEW b \in Go, a < b,
                          Cardinality(Older(b)) = Cardinality(Older(a))
                   PROVE  FALSE
        BY Zenon
      <3>1. \A k \in Job : k < a => k < b
        BY <1>3 DEF Job
      <3>2. Older(a) \in SUBSET Older(b)
        BY <3>1, <1>1
      <3>3. a \in Older(b) /\ a \notin Older(a)
        BY <1>3 DEF Job
      <3>4. Older(a) = Older(b)
        <4> HIDE DEF Older, Go
        <4> QED BY <3>2, <1>2, <1>3, FS_Subset
      <3> HIDE DEF Older
      <3> QED BY <3>3, <3>4
    <2>5. x < y \/ y < x
      BY <2>2, <1>3 DEF Job
    <2> HIDE DEF Go, Older
    <2> QED BY <2>3, <2>4, <2>5
  <1> HIDE DEF Go, Running
  <1>8. Cardinality(Go) + Cardinality(Running) <= most
    BY <1>1, <1>3, <1>7
  <1> QED
    BY <1>8 DEF Go, Running

\* What a dispatch does: a pending job is launched and gets a handle, or it is left
\* alone, and whatever is launched is launched within the limit.
LEMMA Dispatched ==
    ASSUME NEW rows \in [Job -> Status], NEW works \in [Job -> Where], limit' \in Nat,
           Dispatch(rows, works)
    PROVE  /\ row' \in [Job -> Status] /\ work' \in [Job -> Where]
           /\ \A j \in Job :
                 \/ row'[j] = rows[j] /\ work'[j] = works[j]
                 \/ /\ rows[j] = "pending" /\ row'[j] = "running"
                    /\ work'[j] = "started" /\ life' = "up"
           /\ (\E j \in Job : rows[j] # "running" /\ row'[j] = "running")
                 => Cardinality(Having(row', "running")) <= limit'
  <1>1. PICK go \in {IF life' = "up" THEN Launches(rows, limit') ELSE {}} :
           /\ row' = [j \in Job |-> IF j \in go THEN "running" ELSE rows[j]]
           /\ work' = [j \in Job |-> IF j \in go THEN "started" ELSE works[j]]
    BY Zenon DEF Dispatch
  <1>2. go \subseteq Having(rows, "pending") /\ (go # {} => life' = "up")
    BY <1>1 DEF Launches
  <1>3. row' \in [Job -> Status] /\ work' \in [Job -> Where]
    BY <1>1 DEF Status, Where
  <1>4. \A j \in Job : \/ row'[j] = rows[j] /\ work'[j] = works[j]
                       \/ /\ rows[j] = "pending" /\ row'[j] = "running"
                          /\ work'[j] = "started" /\ life' = "up"
    BY <1>1, <1>2 DEF Having
  <1>5. ASSUME NEW j \in Job, rows[j] # "running", row'[j] = "running"
        PROVE  Cardinality(Having(row', "running")) <= limit'
    <2>1. go # {} /\ go = Launches(rows, limit')
      BY <1>1, <1>5
    <2>2. Having(row', "running") = go \cup Having(rows, "running")
      BY <1>1, <1>2 DEF Having
    <2>3. go \cap Having(rows, "running") = {}
      BY <1>2 DEF Having
    <2>4. IsFiniteSet(go) /\ Cardinality(go) \in Nat
      <3>1. go \in SUBSET Having(rows, "pending")
        BY <1>2
      <3> QED BY <3>1, HavingIsFinite, FS_Subset, FS_CardinalityType
    <2>5. Cardinality(Having(row', "running")) = Cardinality(go) + Cardinality(Having(rows, "running"))
      <3>1. Cardinality(go \cup Having(rows, "running"))
              = Cardinality(go) + Cardinality(Having(rows, "running"))
                - Cardinality(go \cap Having(rows, "running"))
        BY <2>4, HavingIsFinite, FS_Union
      <3>2. Cardinality(go \cap Having(rows, "running")) = 0
        BY <2>3, FS_EmptySet
      <3>3. Cardinality(Having(rows, "running")) \in Nat
        BY HavingIsFinite
      <3> QED BY <3>1, <3>2, <3>3, <2>2, <2>4
    <2>6. Cardinality(go) + Cardinality(Having(rows, "running")) <= limit'
      BY <2>1, LaunchesFillTheSlots
    <2> QED BY <2>5, <2>6
  <1> QED
    BY <1>3, <1>4, <1>5

-----------------------------------------------------------------------------
(* The watcher's steps.                                                      *)

\* What a step of the service keeps of the invariant.
ServiceKept == ServiceTypeOK' /\ HandlesFollowRows' /\ CancelReachesTheProcess'

NewRunsFit == (\E j \in Job : row[j] # "running" /\ row'[j] = "running")
                 => Cardinality(Having(row', "running")) <= limit'

LEMMA WatcherEndsSafely ==
    ASSUME TransferIInv, NEW j \in Job, work[j] # "none",
           NEW status \in {"succeeded", "failed", "cancelled"}, WatcherEnds(j, status)
    PROVE  ServiceKept /\ NewRunsFit
  <1> DEFINE rows == [row EXCEPT ![j] = status]
             works == [work EXCEPT ![j] = "none"]
  <1> USE DEF TransferIInv
  <1>1. rows \in [Job -> Status] /\ works \in [Job -> Where] /\ limit' \in Nat
    BY DEF ServiceTypeOK, Status, Finals, Where, WatcherEnds
  <1>2. Dispatch(rows, works)
    BY DEF WatcherEnds
  <1>3. row[j] = "running"
    BY DEF HandlesFollowRows
  <1>4. \A k \in Job : /\ rows[k] = IF k = j THEN status ELSE row[k]
                       /\ works[k] = IF k = j THEN "none" ELSE work[k]
    BY DEF ServiceTypeOK
  <1> HIDE DEF rows, works
  <1>5. /\ row' \in [Job -> Status] /\ work' \in [Job -> Where]
        /\ \A k \in Job :
              \/ row'[k] = rows[k] /\ work'[k] = works[k]
              \/ /\ rows[k] = "pending" /\ row'[k] = "running"
                 /\ work'[k] = "started" /\ life' = "up"
        /\ (\E k \in Job : rows[k] # "running" /\ row'[k] = "running")
              => Cardinality(Having(row', "running")) <= limit'
    BY <1>1, <1>2, Dispatched
  <1>6. ServiceTypeOK'
    BY <1>3, <1>4, <1>5 DEF ServiceTypeOK, WatcherEnds
  <1>7. HandlesFollowRows'
    BY <1>4, <1>5 DEF HandlesFollowRows, WatcherEnds, ServiceTypeOK
  <1>8. CancelReachesTheProcess'
    BY <1>4, <1>5 DEF CancelReachesTheProcess, WatcherEnds, ServiceTypeOK
  <1>9. NewRunsFit
    BY <1>3, <1>4, <1>5 DEF NewRunsFit
  <1> QED
    BY <1>6, <1>7, <1>8, <1>9 DEF ServiceKept

\* A watcher goes on with a process, which has the signal of a cancel that came before
\* it, or with the preparation of one.
LEMMA WatcherGoesOnSafely ==
    ASSUME TransferIInv, NEW j \in Job, work[j] # "none", Spawns(j) \/ Prepares(j),
           job' \in [Job -> Details], feasible' \in [Ends -> SUBSET Route], DOMAIN ports' = Job,
           UNCHANGED <<limit, life>>
    PROVE  ServiceKept /\ NewRunsFit
  <1> USE DEF TransferIInv
  <1>1. UNCHANGED <<row, asked>>
    BY DEF Spawns, Prepares
  <1>2. PICK w \in {"process", "preparing"}, s \in {"none", "INT", "TERM", "KILL"} :
           /\ work' = [work EXCEPT ![j] = w] /\ signal' = [signal EXCEPT ![j] = s]
           /\ w = "process" /\ j \in asked => s # "none"
    <2>1. CASE Spawns(j)
      BY <2>1 DEF Spawns
    <2>2. CASE Prepares(j)
      <3>1. signal' = [signal EXCEPT ![j] = signal[j]]
        BY <2>2 DEF Prepares, ServiceTypeOK
      <3>2. signal[j] \in {"none", "INT", "TERM", "KILL"} /\ work' = [work EXCEPT ![j] = "preparing"]
        BY <2>2 DEF Prepares, ServiceTypeOK
      <3> QED BY <3>1, <3>2
    <2> QED BY <2>1, <2>2
  <1>3. ServiceTypeOK'
    BY <1>1, <1>2 DEF ServiceTypeOK, Where
  <1>4. HandlesFollowRows'
    BY <1>1, <1>2 DEF HandlesFollowRows, ServiceTypeOK
  <1>5. CancelReachesTheProcess'
    BY <1>1, <1>2 DEF CancelReachesTheProcess, ServiceTypeOK
  <1> QED
    BY <1>1, <1>3, <1>4, <1>5 DEF ServiceKept, NewRunsFit

\* Rows, routes and the limit stay, and handles keep what they have.
LEMMA SignalsSafely ==
    ASSUME TransferIInv,
           UNCHANGED <<row, job, limit, life, ports>>, feasible' \in [Ends -> SUBSET Route],
           work' \in [Job -> Where], signal' \in [Job -> {"none", "INT", "TERM", "KILL"}],
           asked' \subseteq {j \in Job : work[j] # "none"},
           \A j \in Job : /\ work[j] = "none" <=> work'[j] = "none"
                          /\ work'[j] = "process" => work[j] = "process"
                          /\ j \in asked' /\ work'[j] = "process"
                                => signal'[j] # "none" \/ (j \in asked /\ signal'[j] = signal[j])
    PROVE  ServiceKept /\ NewRunsFit
  <1> USE DEF TransferIInv
  <1>1. ServiceTypeOK'
    BY DEF ServiceTypeOK
  <1>2. HandlesFollowRows'
    BY DEF HandlesFollowRows
  <1>3. CancelReachesTheProcess'
    BY DEF CancelReachesTheProcess, ServiceTypeOK
  <1> QED
    BY <1>1, <1>2, <1>3 DEF ServiceKept, NewRunsFit

LEMMA WatchSafely ==
    ASSUME TransferIInv, Watch
    PROVE  ServiceKept /\ NewRunsFit
  <1> USE DEF TransferIInv
  <1> DEFINE Good == ServiceKept /\ NewRunsFit
  <1>1. PICK j \in Job : \/ WatcherBegins(j) \/ Prepared(j) \/ Progresses(j) \/ LadderSignals(j)
                         \/ ProcessExits(j) \/ WatcherGoesOn(j)
    BY Zenon DEF Watch
  <1>2. /\ job \in [Job -> Details] /\ feasible \in [Ends -> SUBSET Route] /\ DOMAIN ports = Job
    BY DEF ServiceTypeOK
  <1>3. ASSUME work[j] # "none", \E status \in {"succeeded", "failed", "cancelled"} : WatcherEnds(j, status)
        PROVE  Good
    BY <1>3, WatcherEndsSafely
  <1>4. ASSUME work[j] # "none", Spawns(j) \/ Prepares(j),
               UNCHANGED <<job, feasible, limit, ports, life>>
        PROVE  Good
    BY <1>2, <1>4, WatcherGoesOnSafely
  <1>5. CASE WatcherBegins(j)
    BY <1>3, <1>4, <1>5 DEF WatcherBegins
  <1>6. CASE Prepared(j)
    BY <1>3, <1>4, <1>6 DEF Prepared
  <1>7. CASE Progresses(j)
    BY <1>7, SignalsSafely DEF Progresses, ServiceTypeOK, HandlesFollowRows
  <1>8. CASE LadderSignals(j)
    <2>1. /\ signal' \in [Job -> {"none", "INT", "TERM", "KILL"}]
          /\ \A k \in Job : signal'[k] = signal[k] \/ signal'[k] # "none"
      BY <1>8 DEF LadderSignals, ServiceTypeOK
    <2>2. UNCHANGED <<row, job, feasible, limit, work, asked, ports, life>>
      BY <1>8 DEF LadderSignals
    <2> QED BY <2>1, <2>2, SignalsSafely DEF ServiceTypeOK, HandlesFollowRows
  <1>9. CASE ProcessExits(j)
    <2>1. /\ work' \in [Job -> Where]
          /\ \A k \in Job : /\ work[k] = "none" <=> work'[k] = "none"
                            /\ work'[k] = "process" => work[k] = "process"
      BY <1>9 DEF ProcessExits, ServiceTypeOK, Where
    <2>2. UNCHANGED <<row, job, feasible, limit, asked, signal, ports, life>>
      BY <1>9 DEF ProcessExits
    <2> QED BY <2>1, <2>2, SignalsSafely DEF ServiceTypeOK, HandlesFollowRows
  <1>10. ASSUME work[j] # "none", TriesPort(j)
         PROVE  Good
    <2>1. DOMAIN ports' = Job
      BY <1>10, <1>2 DEF TriesPort
    <2> QED BY <1>2, <1>10, <2>1, WatcherGoesOnSafely DEF TriesPort
  <1>11. ASSUME work[j] # "none", FallsBack(j)
         PROVE  Good
    <2>1. job[j] \in Details
      BY <1>2
    <2>2. feasible' \in [Ends -> SUBSET Route]
      <3>1. [feasible EXCEPT ![job[j].ends] = @ \ {job[j].route}] \in [Ends -> SUBSET Route]
        BY <1>2, <2>1 DEF Details
      <3> QED BY <3>1, <1>2, <1>11 DEF FallsBack
    <2>3. PICK r \in feasible'[job[j].ends] \ {job[j].route} :
             job' = [job EXCEPT ![j] = [@ EXCEPT !.route = r, !.fell = TRUE]]
      BY <1>11 DEF FallsBack
    <2>4. r \in Choice
      BY <2>1, <2>2 DEF Details, Choice
    <2>5. [job[j] EXCEPT !.route = r, !.fell = TRUE] \in Details
      BY <2>1, <2>4 DEF Details
    <2>6. job' \in [Job -> Details]
      BY <1>2, <2>3, <2>5
    <2>7. DOMAIN ports' = Job
      BY <1>11, <1>2 DEF FallsBack
    <2> QED BY <1>11, <2>2, <2>6, <2>7, WatcherGoesOnSafely DEF FallsBack
  <1>12. CASE WatcherGoesOn(j)
    BY <1>3, <1>10, <1>11, <1>12 DEF WatcherGoesOn
  <1> QED
    BY <1>1, <1>5, <1>6, <1>7, <1>8, <1>9, <1>12

-----------------------------------------------------------------------------
(* Requests, and the end of the service's process.                           *)

LEMMA CreateSafely ==
    ASSUME TransferIInv, NEW e \in Ends, NEW wanted \in Choice, create_job(e, wanted)
    PROVE  ServiceKept /\ NewRunsFit
  <1> USE DEF TransferIInv
  <1>1. /\ life = "up"
        /\ UNCHANGED <<feasible, limit, asked, signal, ports, life, faults>>
        /\ \E j \in Having(row, "none"), r \in Admits(e, wanted) :
             /\ \A k \in Having(row, "none") : j <= k
             /\ job' = [job EXCEPT ![j] =
                  [ends |-> e, route |-> r, auto |-> wanted = "auto", fell |-> FALSE]]
             /\ Dispatch([row EXCEPT ![j] = "pending"], work)
    BY Zenon DEF create_job
  <1>2. PICK j \in Having(row, "none"), r \in Admits(e, wanted) :
           /\ job' = [job EXCEPT ![j] =
                  [ends |-> e, route |-> r, auto |-> wanted = "auto", fell |-> FALSE]]
           /\ Dispatch([row EXCEPT ![j] = "pending"], work)
    BY <1>1, Zenon
  <1>3. j \in Job /\ row[j] = "none"
    BY DEF Having
  <1>4. r \in feasible[e] /\ r \in Route
    BY DEF Admits, ServiceTypeOK
  <1> DEFINE rows == [row EXCEPT ![j] = "pending"]
  <1>5. rows \in [Job -> Status] /\ limit' \in Nat /\ work \in [Job -> Where]
    BY <1>1 DEF ServiceTypeOK, Status
  <1>6. \A k \in Job : rows[k] = IF k = j THEN "pending" ELSE row[k]
    BY DEF ServiceTypeOK
  <1>7. Dispatch(rows, work)
    BY <1>2
  <1> HIDE DEF rows
  <1>8. /\ row' \in [Job -> Status] /\ work' \in [Job -> Where]
        /\ \A k \in Job :
              \/ row'[k] = rows[k] /\ work'[k] = work[k]
              \/ /\ rows[k] = "pending" /\ row'[k] = "running"
                 /\ work'[k] = "started" /\ life' = "up"
        /\ (\E k \in Job : rows[k] # "running" /\ row'[k] = "running")
              => Cardinality(Having(row', "running")) <= limit'
    BY <1>5, <1>7, Dispatched
  <1>9. job' \in [Job -> Details] /\ job'[j].ends = e /\ job'[j].route = r
    BY <1>2, <1>3, <1>4 DEF ServiceTypeOK, Details, Choice
  <1>10. ServiceTypeOK'
    BY <1>1, <1>6, <1>8, <1>9 DEF ServiceTypeOK
  <1>11. HandlesFollowRows'
    BY <1>1, <1>3, <1>6, <1>8 DEF HandlesFollowRows, ServiceTypeOK
  <1>12. CancelReachesTheProcess'
    BY <1>1, <1>8 DEF CancelReachesTheProcess, ServiceTypeOK
  <1>13. NewRunsFit
    BY <1>6, <1>8 DEF NewRunsFit
  <1> QED
    BY <1>10, <1>11, <1>12, <1>13 DEF ServiceKept

LEMMA CancelSafely ==
    ASSUME TransferIInv, NEW j \in Job, cancel_job(j)
    PROVE  ServiceKept /\ NewRunsFit
  <1> USE DEF TransferIInv
  <1>1. CASE row[j] = "pending"
    <2>1. /\ row' = [row EXCEPT ![j] = "cancelled"]
          /\ UNCHANGED <<job, feasible, limit, work, asked, signal, ports, life>>
      BY <1>1 DEF cancel_job
    <2>2. row' \in [Job -> Status] /\ work[j] = "none"
      BY <1>1, <2>1 DEF ServiceTypeOK, Status, Finals, HandlesFollowRows
    <2>3. \A k \in Job : row'[k] = IF k = j THEN "cancelled" ELSE row[k]
      BY <2>1 DEF ServiceTypeOK
    <2>4. ServiceTypeOK'
      BY <1>1, <2>1, <2>2, <2>3 DEF ServiceTypeOK
    <2>5. HandlesFollowRows' /\ CancelReachesTheProcess'
      BY <1>1, <2>1, <2>2, <2>3 DEF HandlesFollowRows, CancelReachesTheProcess
    <2>6. NewRunsFit
      BY <1>1, <2>3 DEF NewRunsFit
    <2> QED BY <2>4, <2>5, <2>6 DEF ServiceKept
  <1>2. CASE row[j] = "running"
    <2>1. /\ life = "up" /\ asked' = asked \cup {j}
          /\ signal' = [signal EXCEPT ![j] =
                          IF work[j] = "process" /\ @ = "none" THEN "INT" ELSE @]
          /\ UNCHANGED <<row, job, feasible, limit, work, ports, life>>
      BY <1>2 DEF cancel_job
    <2>2. \A k \in Job : signal'[k] = IF k = j /\ work[k] = "process" /\ signal[k] = "none"
                                      THEN "INT" ELSE signal[k]
      BY <2>1 DEF ServiceTypeOK
    <2>3. signal' \in [Job -> {"none", "INT", "TERM", "KILL"}]
      BY <2>1 DEF ServiceTypeOK
    <2>4. asked' \subseteq {k \in Job : work[k] # "none"}
      BY <1>2, <2>1 DEF HandlesFollowRows, ServiceTypeOK
    <2>5. feasible' \in [Ends -> SUBSET Route] /\ work' \in [Job -> Where]
      BY <2>1 DEF ServiceTypeOK
    <2>6. \A k \in Job : k \in asked' /\ work'[k] = "process"
                           => signal'[k] # "none" \/ (k \in asked /\ signal'[k] = signal[k])
      BY <2>1, <2>2
    <2> QED BY <2>1, <2>3, <2>4, <2>5, <2>6, SignalsSafely
  <1> QED
    BY <1>1, <1>2 DEF cancel_job

LEMMA DeleteSafely ==
    ASSUME TransferIInv, NEW j \in Job, delete_job(j)
    PROVE  ServiceKept /\ NewRunsFit
  <1> USE DEF TransferIInv
  <1>1. /\ row' = [row EXCEPT ![j] = "deleted"] /\ row[j] \in Finals \cup {"pending"}
        /\ UNCHANGED <<job, feasible, limit, work, asked, signal, ports, life>>
    BY DEF delete_job
  <1>2. row[j] # "none" /\ row[j] # "running" /\ work[j] = "none"
    BY <1>1 DEF Finals, HandlesFollowRows
  <1>3. \A k \in Job : row'[k] = IF k = j THEN "deleted" ELSE row[k]
    BY <1>1 DEF ServiceTypeOK
  <1>4. ServiceTypeOK'
    BY <1>1, <1>2, <1>3 DEF ServiceTypeOK, Status
  <1>5. HandlesFollowRows' /\ CancelReachesTheProcess'
    BY <1>1, <1>2, <1>3 DEF HandlesFollowRows, CancelReachesTheProcess
  <1>6. NewRunsFit
    BY <1>2, <1>3 DEF NewRunsFit
  <1> QED
    BY <1>4, <1>5, <1>6 DEF ServiceKept

LEMMA SettingsSafely ==
    ASSUME TransferIInv, NEW most \in 1 .. MaxLimit, update_settings(most)
    PROVE  ServiceKept /\ NewRunsFit
  <1> USE DEF TransferIInv
  <1>1. /\ life = "up" /\ limit' = most
        /\ UNCHANGED <<job, feasible, asked, signal, ports, life>>
        /\ Dispatch(row, work)
    BY DEF update_settings
  <1>2. /\ row' \in [Job -> Status] /\ work' \in [Job -> Where]
        /\ \A k \in Job :
              \/ row'[k] = row[k] /\ work'[k] = work[k]
              \/ /\ row[k] = "pending" /\ row'[k] = "running"
                 /\ work'[k] = "started" /\ life' = "up"
        /\ (\E k \in Job : row[k] # "running" /\ row'[k] = "running")
              => Cardinality(Having(row', "running")) <= limit'
    BY <1>1, Dispatched DEF ServiceTypeOK
  <1>3. ServiceTypeOK'
    BY <1>1, <1>2 DEF ServiceTypeOK
  <1>4. HandlesFollowRows' /\ CancelReachesTheProcess'
    BY <1>1, <1>2 DEF HandlesFollowRows, CancelReachesTheProcess, ServiceTypeOK
  <1>5. NewRunsFit
    BY <1>2 DEF NewRunsFit
  <1> QED
    BY <1>3, <1>4, <1>5 DEF ServiceKept

LEMMA LivesSafely ==
    ASSUME TransferIInv, Lives
    PROVE  ServiceKept /\ NewRunsFit
  <1> USE DEF TransferIInv
  <1>1. ASSUME Forgets, life' = "down", UNCHANGED <<job, feasible, limit>>, row' \in {row, Interrupted}
        PROVE  ServiceKept /\ NewRunsFit
    <2>1. row' \in [Job -> Status] /\ \A j \in Job : row'[j] \in {row[j], "interrupted"}
      BY <1>1 DEF Interrupted, ServiceTypeOK, Status, Finals
    <2>2. \A j \in Job : row[j] = "none" <=> row'[j] = "none"
      BY <1>1 DEF Interrupted, ServiceTypeOK
    <2>3. ServiceTypeOK'
      BY <1>1, <2>1, <2>2 DEF ServiceTypeOK, Forgets, Where
    <2>4. HandlesFollowRows' /\ CancelReachesTheProcess'
      BY <1>1, <2>1 DEF HandlesFollowRows, CancelReachesTheProcess, Forgets
    <2>5. NewRunsFit
      BY <2>1, <2>2 DEF NewRunsFit
    <2> QED BY <2>3, <2>4, <2>5 DEF ServiceKept
  <1>2. CASE Crash
    BY <1>1, <1>2 DEF Crash
  <1>3. CASE shutdown
    <2>1. /\ asked' = {j \in Job : work[j] # "none"} /\ life = "up" /\ life' = "stopping"
          /\ signal' = [j \in Job |-> IF work[j] = "process" THEN "TERM" ELSE signal[j]]
          /\ UNCHANGED <<row, job, feasible, limit, work, ports>>
      BY <1>3 DEF shutdown
    <2>2. ServiceTypeOK'
      BY <2>1 DEF ServiceTypeOK
    <2>3. HandlesFollowRows' /\ CancelReachesTheProcess'
      BY <2>1 DEF HandlesFollowRows, CancelReachesTheProcess
    <2> QED BY <2>1, <2>2, <2>3 DEF ServiceKept, NewRunsFit
  <1>4. CASE ShutdownEnds
    BY <1>1, <1>4 DEF ShutdownEnds
  <1>5. CASE startup
    <2>1. /\ life = "down" /\ life' = "up"
          /\ UNCHANGED <<job, feasible, limit, asked, signal, ports>>
          /\ Dispatch(Interrupted, work)
      BY <1>5 DEF startup
    <2>2. Interrupted \in [Job -> Status]
      BY DEF Interrupted, ServiceTypeOK, Status, Finals
    <2>3. \A k \in Job : Interrupted[k] = IF row[k] = "running" THEN "interrupted" ELSE row[k]
      BY DEF Interrupted
    <2>4. /\ row' \in [Job -> Status] /\ work' \in [Job -> Where]
          /\ \A k \in Job :
                \/ row'[k] = Interrupted[k] /\ work'[k] = work[k]
                \/ /\ Interrupted[k] = "pending" /\ row'[k] = "running"
                   /\ work'[k] = "started" /\ life' = "up"
          /\ (\E k \in Job : Interrupted[k] # "running" /\ row'[k] = "running")
                => Cardinality(Having(row', "running")) <= limit'
      BY <2>1, <2>2, Dispatched DEF ServiceTypeOK
    <2>5. ServiceTypeOK'
      BY <2>1, <2>3, <2>4 DEF ServiceTypeOK
    <2>6. HandlesFollowRows' /\ CancelReachesTheProcess'
      BY <2>1, <2>3, <2>4 DEF HandlesFollowRows, CancelReachesTheProcess, ServiceTypeOK
    <2>7. NewRunsFit
      BY <2>3, <2>4 DEF NewRunsFit
    <2> QED BY <2>5, <2>6, <2>7 DEF ServiceKept
  <1> QED
    BY <1>2, <1>3, <1>4, <1>5 DEF Lives

-----------------------------------------------------------------------------
(* The page.                                                                 *)

\* What a step of the page is for the service: a step of its own, a request that it
\* serves, or the reading of an event, a probe, or nothing.
ServiceStep ==
    \/ Watch \/ Lives
    \/ \E e \in Ends, wanted \in Choice : create_job(e, wanted)
    \/ \E j \in Job : cancel_job(j) \/ delete_job(j)
    \/ \E most \in 1 .. MaxLimit : update_settings(most)
    \/ /\ feasible' \in [Ends -> SUBSET Route]
       /\ UNCHANGED <<row, job, limit, work, asked, signal, ports, life>>

LEMMA PageAsksTheService ==
    ASSUME TransferIInv, [PageNext]_pageVars
    PROVE  ServiceStep
  <1> USE DEF TransferIInv
  <1>1. ASSUME UNCHANGED <<row, job, feasible, limit, work, asked, signal, ports, life>>
        PROVE  ServiceStep
    BY <1>1 DEF ServiceStep, ServiceTypeOK
  <1>2. CASE ServiceRuns
    BY <1>2 DEF ServiceRuns, ServiceStep
  <1>3. CASE EventArrives \/ Poll \/ loadTransfers \/ PlanAsked \/ PlanAnswered \/ UNCHANGED pageVars
    BY <1>1, <1>3 DEF EventArrives, Poll, loadTransfers, PlanAsked, PlanAnswered, pageVars, transfers
  <1>4. CASE Buttons
    <2>1. ASSUME NEW j \in Job, cancelJob(j)
          PROVE  ServiceStep
      BY <1>1, <2>1 DEF cancelJob, Asks, transfers, ServiceStep
    <2>2. ASSUME NEW j \in Job, deleteJob(j)
          PROVE  ServiceStep
      BY <1>1, <2>2 DEF deleteJob, Asks, transfers, ServiceStep
    <2>3. ASSUME NEW j \in Job, retryJob(j)
          PROVE  ServiceStep
      BY <1>1, <2>3 DEF retryJob, transfers
    <2>4. CASE updateMaxConcurrent
      BY <2>4 DEF updateMaxConcurrent, ServiceStep
    <2> QED BY <1>4, <2>1, <2>2, <2>3, <2>4 DEF Buttons
  <1>5. CASE Fills
    <2>1. CASE probePlan
      <3>1. PICK now \in SUBSET Possible[form.ends] :
               feasible' = [feasible EXCEPT ![form.ends] = now]
        BY <2>1 DEF probePlan
      <3>2. form.ends \in Ends
        BY <2>1 DEF probePlan, DialogTypeOK
      <3>3. feasible' \in [Ends -> SUBSET Route]
        BY <3>1, <3>2 DEF ServiceTypeOK
      <3>4. UNCHANGED <<row, job, limit, work, asked, signal, ports, life>>
        BY <2>1 DEF probePlan
      <3> QED BY <3>3, <3>4 DEF ServiceStep
    <2>2. CASE UNCHANGED transfers
      BY <1>1, <2>2 DEF transfers
    <2> QED BY <1>5, <2>1, <2>2 DEF Fills
  <1>6. CASE Posted
    <2>1. PICK post \in posts :
             \/ create_job(post.ends, post.route)
             \/ UNCHANGED transfers
      BY <1>6 DEF Posted
    <2>2. post.ends \in Ends /\ post.route \in Choice
      BY DEF DialogTypeOK, Posts
    <2>3. CASE create_job(post.ends, post.route)
      BY <2>2, <2>3 DEF ServiceStep
    <2>4. CASE UNCHANGED transfers
      BY <1>1, <2>4 DEF transfers
    <2> QED BY <2>1, <2>3, <2>4
  <1> QED
    BY <1>2, <1>3, <1>4, <1>5, <1>6 DEF PageNext

\* A form that closes disowns what it has sent.
LEMMA DisownedAreNotOwn ==
    ASSUME NEW rest \in SUBSET Posts
    PROVE  Disowned(rest) \subseteq Posts /\ \A post \in Disowned(rest) : ~post.own
  BY DEF Disowned, Posts

\* The form and what it has asked for stay well typed.
LEMMA DialogTyping ==
    ASSUME TransferIInv, [PageNext]_pageVars
    PROVE  DialogTypeOK'
  <1> USE DEF TransferIInv
  <1>0. clicks' \in Nat
    <2>1. ASSUME clicks' = clicks \/ clicks' = clicks + 1
          PROVE  clicks' \in Nat
      BY <2>1 DEF DialogTypeOK
    <2>2. CASE Buttons \/ Fills
      BY <2>1, <2>2 DEF Buttons, Fills, Click
    <2>3. CASE ServiceRuns \/ EventArrives \/ Poll \/ loadTransfers \/ UNCHANGED pageVars
      BY <2>1, <2>3 DEF ServiceRuns, EventArrives, Poll, loadTransfers, pageVars
    <2>4. CASE PlanAsked \/ PlanAnswered \/ Posted
      BY <2>1, <2>4 DEF PlanAsked, PlanAnswered, Posted
    <2> QED BY <2>2, <2>3, <2>4 DEF PageNext
  <1>1. CASE UNCHANGED dialog
    BY <1>0, <1>1 DEF dialog, DialogTypeOK
  <1>2. Closed \in [open : BOOLEAN, ends : Ends \cup {None}, route : Choice,
                    offered : SUBSET Route, due : BOOLEAN, submitting : BOOLEAN]
    BY DEF Closed, Choice
  <1>3. ASSUME NEW e \in Ends \cup {None}, NEW r \in Choice,
               form' = Opened(e, r), UNCHANGED <<plans, posts>>
        PROVE  DialogTypeOK'
    BY <1>0, <1>3 DEF Opened, Closed, DialogTypeOK
  <1>4. ASSUME NEW rest \in SUBSET posts, CloseForm(rest)
        PROVE  DialogTypeOK'
    <2>1. Disowned(rest) \subseteq Posts
      BY DisownedAreNotOwn DEF DialogTypeOK
    <2>2. form'.due = FALSE /\ form'.submitting = FALSE
      BY <1>4 DEF CloseForm, Closed
    <2> QED BY <1>0, <1>2, <1>4, <2>1, <2>2 DEF CloseForm, DialogTypeOK
  <1>5. CASE Buttons
    <2>1. CASE UNCHANGED <<plans, posts>> /\ \E j \in Job : form' = Repeated(j)
      <3>1. PICK j \in Job : form' = Repeated(j)
        BY <2>1
      <3>2. job[j] \in Details
        BY DEF ServiceTypeOK
      <3>3. /\ job[j].ends \in Ends \cup {None}
            /\ (IF job[j].auto THEN "auto" ELSE job[j].route) \in Choice
        BY <3>2 DEF Details, Choice
      <3> QED BY <1>3, <2>1, <3>1, <3>3 DEF Repeated
    <2> QED BY <1>1, <1>5, <2>1 DEF Buttons, cancelJob, deleteJob, retryJob, updateMaxConcurrent, dialog
  <1>6. CASE Fills
    <2>1. CASE OpenForm
      BY <1>3, <2>1 DEF OpenForm, Choice
    <2>2. CASE EditEnds
      <3>1. PICK e \in (Ends \cup {None}) \ {form.ends} :
               form' = [form EXCEPT !.ends = e, !.due = e # None,
                                    !.offered = IF e = None THEN {} ELSE @]
        BY <2>2 DEF EditEnds
      <3> QED BY <1>0, <2>2, <3>1 DEF EditEnds, DialogTypeOK
    <2>3. CASE ChooseRoute
      BY <1>0, <2>3 DEF ChooseRoute, DialogTypeOK, Choice
    <2>4. CASE submit
      <3>1. Post(clicks + 1, form) \in Posts
        BY <2>4 DEF submit, Post, Posts, DialogTypeOK
      <3>2. /\ form' = [form EXCEPT !.submitting = TRUE] /\ UNCHANGED plans
            /\ posts' = posts \cup {Post(clicks + 1, form)}
        BY <2>4 DEF submit
      <3>3. posts' \subseteq Posts
        BY <3>1, <3>2 DEF DialogTypeOK
      <3>4. form.open
        BY <2>4 DEF submit
      <3> QED BY <1>0, <3>2, <3>3, <3>4 DEF DialogTypeOK
    <2>5. CASE form.open /\ CloseForm(posts)
      BY <1>4, <2>5
    <2>6. CASE probePlan
      BY <1>0, <2>6 DEF probePlan, DialogTypeOK
    <2> QED BY <1>6, <2>1, <2>2, <2>3, <2>4, <2>5, <2>6 DEF Fills
  <1>7. CASE PlanAsked
    <2>1. feasible[form.ends] \in SUBSET Route /\ UNCHANGED posts
      BY <1>7 DEF PlanAsked, DialogTypeOK, ServiceTypeOK
    <2>2. CASE life = "up"
      BY <1>0, <1>7, <2>1, <2>2 DEF PlanAsked, DialogTypeOK
    <2>3. CASE life # "up"
      BY <1>0, <1>7, <2>1, <2>3 DEF PlanAsked, DialogTypeOK
    <2> QED BY <2>2, <2>3
  <1>8. CASE PlanAnswered
    BY <1>0, <1>8 DEF PlanAnswered, DialogTypeOK
  <1>9. CASE Posted
    <2>1. PICK post \in posts :
             \/ CloseForm(posts \ {post})
             \/ /\ form' \in {form, [form EXCEPT !.submitting = FALSE]}
                /\ posts' = posts \ {post} /\ UNCHANGED plans
      BY <1>9 DEF Posted, Refused
    <2> QED BY <1>0, <1>4, <2>1 DEF DialogTypeOK
  <1>10. CASE ServiceRuns \/ EventArrives \/ Poll \/ loadTransfers \/ UNCHANGED pageVars
    BY <1>1, <1>10 DEF ServiceRuns, EventArrives, Poll, loadTransfers, pageVars
  <1> QED
    BY <1>5, <1>6, <1>7, <1>8, <1>9, <1>10 DEF PageNext

LEMMA OpenedWaitsForNothing ==
    /\ \A e, r : Opened(e, r).submitting = FALSE /\ Opened(e, r).ends = e /\ Opened(e, r).route = r
    /\ Closed.submitting = FALSE
  BY DEF Opened, Closed

\* A submission of a form that is gone touches no other form.
LEMMA FormsWaiting ==
    ASSUME TransferIInv, [PageNext]_pageVars
    PROVE  FormsWaitForTheirOwn'
  <1> USE DEF TransferIInv
  <1>1. ASSUME UNCHANGED posts, form'.submitting = form.submitting
        PROVE  FormsWaitForTheirOwn'
    BY <1>1 DEF FormsWaitForTheirOwn
  <1>2. ASSUME NEW rest \in SUBSET posts, CloseForm(rest)
        PROVE  FormsWaitForTheirOwn'
    <2>1. form'.submitting = FALSE /\ posts' = Disowned(rest)
      BY <1>2 DEF CloseForm, Closed
    <2>2. rest \in SUBSET Posts
      BY DEF DialogTypeOK
    <2>3. \A post \in posts' : ~post.own
      BY <2>1, <2>2, DisownedAreNotOwn
    <2> QED BY <2>1, <2>3 DEF FormsWaitForTheirOwn
  <1>3. ASSUME ~form.open, UNCHANGED posts, form'.submitting = FALSE
        PROVE  FormsWaitForTheirOwn'
    BY <1>1, <1>3 DEF DialogTypeOK
  <1>4. CASE Buttons
    <2>1. CASE UNCHANGED dialog
      BY <1>1, <2>1 DEF dialog
    <2>2. ASSUME NEW j \in Job, retryJob(j)
          PROVE  FormsWaitForTheirOwn'
      BY <1>3, <2>2 DEF retryJob, Repeated, Opened, Closed
    <2> QED BY <1>4, <2>1, <2>2 DEF Buttons, cancelJob, deleteJob, updateMaxConcurrent
  <1>5. CASE Fills
    <2>1. CASE OpenForm
      BY <1>3, <2>1 DEF OpenForm, Opened, Closed
    <2>2. CASE EditEnds \/ ChooseRoute
      BY <1>1, <2>2 DEF EditEnds, ChooseRoute, DialogTypeOK
    <2>3. CASE submit
      <3>1. form.submitting = FALSE /\ form'.submitting = TRUE
        BY <2>3 DEF submit, DialogTypeOK
      <3>2. \A post \in posts : ~post.own
        BY <3>1 DEF FormsWaitForTheirOwn
      <3>3. posts' = posts \cup {Post(clicks + 1, form)} /\ Post(clicks + 1, form).own = TRUE
        BY <2>3 DEF submit, Post
      <3> QED BY <3>1, <3>2, <3>3 DEF FormsWaitForTheirOwn
    <2>4. CASE form.open /\ CloseForm(posts)
      BY <1>2, <2>4
    <2>5. CASE probePlan
      BY <1>1, <2>5 DEF probePlan
    <2> QED BY <1>5, <2>1, <2>2, <2>3, <2>4, <2>5 DEF Fills
  <1>6. CASE PlanAsked \/ PlanAnswered
    BY <1>1, <1>6 DEF PlanAsked, PlanAnswered, DialogTypeOK
  <1>7. CASE Posted
    <2>1. PICK post \in posts : CloseForm(posts \ {post})
                                \/ (Refused(post) /\ posts' = posts \ {post})
      BY <1>7 DEF Posted
    <2>2. CASE CloseForm(posts \ {post})
      BY <1>2, <2>2
    <2>3. CASE Refused(post) /\ posts' = posts \ {post} /\ post.own
      <3>1. \A other \in posts' : ~other.own
        BY <2>3 DEF FormsWaitForTheirOwn
      <3>2. form'.submitting = FALSE
        BY <2>3 DEF Refused, DialogTypeOK
      <3> QED BY <3>1, <3>2 DEF FormsWaitForTheirOwn
    <2>4. CASE Refused(post) /\ posts' = posts \ {post} /\ ~post.own
      BY <2>4 DEF Refused, FormsWaitForTheirOwn
    <2> QED BY <2>1, <2>2, <2>3, <2>4
  <1>8. CASE ServiceRuns \/ EventArrives \/ Poll \/ loadTransfers \/ UNCHANGED pageVars
    BY <1>1, <1>8 DEF ServiceRuns, EventArrives, Poll, loadTransfers, pageVars, dialog
  <1> QED
    BY <1>4, <1>5, <1>6, <1>7, <1>8 DEF PageNext

LEMMA TransferInitially == PageInit => TransferIInv
  <1> SUFFICES ASSUME PageInit PROVE TransferIInv
    OBVIOUS
  <1>1. PICK failed \in BOOLEAN, e \in Ends : \E r \in Possible[e] :
           LET first == [ends |-> e, route |-> r, auto |-> ~failed, fell |-> FALSE]
           IN IF failed
              THEN /\ row = [j \in Job |-> IF j = 1 THEN "failed" ELSE "none"]
                   /\ job = [j \in Job |-> IF j = 1 THEN first ELSE Unrouted]
                   /\ work = [j \in Job |-> "none"]
              ELSE /\ row = [j \in Job |-> IF j = 1 THEN "running" ELSE "pending"]
                   /\ job = [j \in Job |-> first]
                   /\ work = [j \in Job |-> IF j = 1 THEN "started" ELSE "none"]
    BY Zenon DEF PageInit, TransferInit
  <1> PICK r \in Possible[e] :
        LET first == [ends |-> e, route |-> r, auto |-> ~failed, fell |-> FALSE]
        IN IF failed
           THEN /\ row = [j \in Job |-> IF j = 1 THEN "failed" ELSE "none"]
                /\ job = [j \in Job |-> IF j = 1 THEN first ELSE Unrouted]
                /\ work = [j \in Job |-> "none"]
           ELSE /\ row = [j \in Job |-> IF j = 1 THEN "running" ELSE "pending"]
                /\ job = [j \in Job |-> first]
                /\ work = [j \in Job |-> IF j = 1 THEN "started" ELSE "none"]
    BY <1>1, Zenon
  <1>2. /\ feasible = Possible /\ limit = 1 /\ asked = {} /\ life = "up"
        /\ signal = [j \in Job |-> "none"] /\ ports = [j \in Job |-> 1]
    BY DEF PageInit, TransferInit
  <1>3. [ends |-> e, route |-> r, auto |-> ~failed, fell |-> FALSE] \in Details /\ Unrouted \in Details
    BY DEF Details, Choice, Unrouted
  <1>4. job \in [Job -> Details]
    BY <1>1, <1>3
  <1>5. ServiceTypeOK
    BY <1>1, <1>2, <1>4 DEF ServiceTypeOK, Status, Finals, Where
  <1>6. HandlesFollowRows /\ CancelReachesTheProcess
    BY <1>1, <1>2 DEF HandlesFollowRows, CancelReachesTheProcess
  <1>7. posts \subseteq Posts /\ \A post \in posts : ~post.own
    <2>1. CASE posts # {}
      <3>1. PICK j \in Job : form = Repeated(j) /\ posts = Disowned({Post(0, form)})
        BY <2>1 DEF PageInit, Having
      <3>2. form.ends \in Ends /\ form.route \in Choice
        BY <1>4, <3>1, OpenedWaitsForNothing DEF Repeated, Details, Choice
      <3>3. {Post(0, form)} \in SUBSET Posts
        BY <3>2 DEF Post, Posts
      <3> QED BY <3>1, <3>3, DisownedAreNotOwn
    <2> QED BY <2>1
  <1>8. DialogTypeOK
    <2>1. ASSUME NEW j \in Job, form = Repeated(j)
          PROVE  /\ form \in [open : BOOLEAN, ends : Ends \cup {None}, route : Choice,
                              offered : SUBSET Route, due : BOOLEAN, submitting : BOOLEAN]
                 /\ form.due => form.ends # None
      <3>1. job[j] \in Details
        BY <1>4
      <3>2. /\ job[j].ends \in Ends
            /\ (IF job[j].auto THEN "auto" ELSE job[j].route) \in Choice
        BY <3>1 DEF Details, Choice
      <3> QED BY <2>1, <3>2 DEF Repeated, Opened, Closed
    <2>2. form = Closed \/ \E j \in Job : form = Repeated(j)
      BY DEF PageInit, Having
    <2>3. plans = {} /\ clicks \in Nat
      BY HavingIsFinite DEF PageInit
    <2>4. /\ Closed \in [open : BOOLEAN, ends : Ends \cup {None}, route : Choice,
                         offered : SUBSET Route, due : BOOLEAN, submitting : BOOLEAN]
          /\ Closed.due = FALSE
      BY DEF Closed, Choice
    <2>5. form.submitting = FALSE
      BY <2>2, OpenedWaitsForNothing DEF Repeated
    <2>6. posts \subseteq Posts
      BY <1>7
    <2> QED BY <2>1, <2>2, <2>3, <2>4, <2>5, <2>6 DEF DialogTypeOK
  <1>9. FormsWaitForTheirOwn
    <2>1. form.submitting = FALSE
      BY OpenedWaitsForNothing DEF PageInit, Repeated
    <2> QED BY <1>7, <2>1 DEF FormsWaitForTheirOwn
  <1> QED
    BY <1>5, <1>6, <1>8, <1>9 DEF TransferIInv

\* Every step keeps the invariant and launches only within the limit.
LEMMA PageSafely ==
    ASSUME TransferIInv, [PageNext]_pageVars
    PROVE  TransferIInv' /\ NewRunsFit
  <1>1. ServiceKept /\ NewRunsFit
    <2>1. ServiceStep
      BY PageAsksTheService
    <2>2. ASSUME feasible' \in [Ends -> SUBSET Route],
                 UNCHANGED <<row, job, limit, work, asked, signal, ports, life>>
          PROVE  ServiceKept /\ NewRunsFit
      BY <2>2, SignalsSafely DEF TransferIInv, ServiceTypeOK, HandlesFollowRows
    <2> QED
      BY <2>1, <2>2, WatchSafely, LivesSafely, CreateSafely, CancelSafely, DeleteSafely,
         SettingsSafely DEF ServiceStep
  <1>2. DialogTypeOK' /\ FormsWaitForTheirOwn'
    BY DialogTyping, FormsWaiting
  <1> QED
    BY <1>1, <1>2 DEF TransferIInv, ServiceKept

-----------------------------------------------------------------------------
(* Theorems.                                                                 *)

\* The running rows and only they have a handle while the service's process lives
\* (TransferService.dispatch, _run_job), and a request to stop is kept for those only.
THEOREM TransferInvariance == PageSpec => []TransferIInv
  <1>1. PageInit => TransferIInv
    BY TransferInitially
  <1>2. TransferIInv /\ [PageNext]_pageVars => TransferIInv'
    BY PageSafely
  <1> QED
    BY <1>1, <1>2, PTL DEF PageSpec

\* A cancel that was accepted reaches the process of the job, also one that is started
\* after it (TransferService.cancel_job, _spawn_and_watch).
THEOREM CancelsArrive == PageSpec => []CancelReachesTheProcess
  <1>1. TransferIInv => CancelReachesTheProcess
    BY DEF TransferIInv
  <1> QED
    BY <1>1, TransferInvariance, PTL

\* The form that is open waits for one submission of its own or for none, whatever was
\* sent by forms that have been closed (NewTransferModal.submit).
THEOREM FormsAwaitTheirOwn == PageSpec => []FormsWaitForTheirOwn
  <1>1. TransferIInv => FormsWaitForTheirOwn
    BY DEF TransferIInv
  <1> QED
    BY <1>1, TransferInvariance, PTL

\* Whatever is launched is launched within the limit of the settings at that moment,
\* though the limit may have been lowered below what runs (TransferService._dispatch).
THEOREM LaunchesFit == PageSpec => LaunchesWithinLimit
  <1>1. TransferIInv /\ [PageNext]_pageVars
          => [(\E j \in Job : row[j] # "running" /\ row'[j] = "running")
                => Cardinality(Having(row', "running")) <= limit']_pageVars
    BY PageSafely DEF NewRunsFit
  <1> QED
    BY <1>1, TransferInvariance, PTL DEF PageSpec, LaunchesWithinLimit
=============================================================================
