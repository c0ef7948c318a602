--------------------------- MODULE Backups_proofs ---------------------------
(* Proofs about Backups, for any jobs and any bounds.                        *)
EXTENDS Backups, TLAPS

USE BackupBounds, KeptAreJobs

-----------------------------------------------------------------------------
(* The inductive invariant.                                                  *)

Type == {"manual", "scheduled"}
JobRow == [state : {"unused", "there", "deleted"}, enabled : BOOLEAN, type : Type,
           next : {"none", "future", "due"}]
RunRow == [job : Job, by : {"schedule", "hand"},
           at : {"ready", "process", "terminated", "ended", "outlived"}]
Call == [op : {"toggle", "run", "delete", "save"}, job : Job \cup {None}, enabled : BOOLEAN,
         type : Type \cup {"none"}, own : BOOLEAN]

\* Only the form asks for a new job, and only it names a type.
WellFormed(call) == /\ call \in Call
                    /\ call.op = "save" => call.type \in Type
                    /\ call.job = None => call.op = "save"

BackupTypeOK ==
    /\ jobs \in [Job -> JobRow]
    /\ runs \in [Run -> RunRow \cup {NoRun}]
    /\ left \subseteq Job
    /\ up \in BOOLEAN /\ told \in BOOLEAN /\ faults \in Nat /\ clicks \in Nat
    /\ shown \in [Job -> [enabled : BOOLEAN, type : Type \cup {"none"}]]
    /\ form \in [open : BOOLEAN, job : Job \cup {None}, submitting : BOOLEAN]
    /\ \A call \in calls : WellFormed(call)

\* Where a run is that a schedule must not start beside.
Busying == {"ready", "process", "terminated"}

\* Of two runs of a job that its schedule started one is over, or given up.
RunsApart ==
    \A q, r \in Run :
       /\ q # r /\ runs[q].job = runs[r].job
       /\ runs[q].by = "schedule" /\ runs[r].by = "schedule"
       => ~(runs[q].at \in Busying /\ runs[r].at \in Busying)

\* A job is not due while a run that its schedule started has not begun: starting it
\* moved its time on, and until the watcher begins no time comes.
FreshRunsAreNotDue == \A r \in Run :
    runs[r].by = "schedule" /\ runs[r].at = "ready" => jobs[runs[r].job].next # "due"

BackupIInv == /\ BackupTypeOK
              /\ NoScheduleIsLost
              /\ RunsApart
              /\ FreshRunsAreNotDue

-----------------------------------------------------------------------------
(* Steps by what they write.                                                 *)

\* Rows of runs are well typed, and an unused one has started nothing.
LEMMA RunsType ==
    ASSUME BackupTypeOK, NEW r \in Run
    PROVE  /\ NoRun.by = "none" /\ NoRun.at = "none"
           /\ runs[r] # NoRun => runs[r] \in RunRow
           /\ runs[r].by = "schedule" => runs[r].job \in Job
  BY DEF BackupTypeOK, NoRun, RunRow

\* A step in which runs only go on or end, and no job comes due.
LEMMA RunsGoOn ==
    ASSUME BackupIInv, BackupTypeOK',
           \A r \in Run : runs'[r] = runs[r] \/ runs'[r] = NoRun
              \/ (/\ runs'[r].job = runs[r].job /\ runs'[r].by = runs[r].by
                  /\ runs'[r].at # "ready"
                  /\ runs[r].at \notin Busying => runs'[r].at \notin Busying
                  /\ runs[r].at # "none"),
           \A j \in Job : /\ jobs'[j].next = "due" => jobs[j].next = "due"
                          /\ There(j)' /\ Scheduled(jobs'[j]) => jobs'[j].next # "none"
    PROVE  BackupIInv'
  <1>1. NoScheduleIsLost'
    BY DEF NoScheduleIsLost
  <1>2. \A r \in Run : runs'[r].by = "schedule" /\ runs'[r].at \in Busying =>
           /\ runs[r].by = "schedule" /\ runs[r].at \in Busying
           /\ runs'[r].job = runs[r].job
           /\ runs'[r].at = "ready" => runs[r].at = "ready"
    BY RunsType DEF BackupIInv
  <1>3. RunsApart'
    BY <1>2, Zenon DEF BackupIInv, RunsApart
  <1>4. FreshRunsAreNotDue'
    BY <1>2, RunsType DEF BackupIInv, FreshRunsAreNotDue
  <1> QED
    BY <1>1, <1>3, <1>4 DEF BackupIInv

\* Starting runs: each of the jobs gets one unused row, and the other rows stay.
LEMMA RunsStart ==
    ASSUME BackupTypeOK, NEW js \in SUBSET Job, NEW by \in {"schedule", "hand"}, Executes(js, by)
    PROVE  /\ runs' \in [Run -> RunRow \cup {NoRun}]
           /\ jobs' \in [Job -> JobRow]
           /\ \A r \in Run : runs'[r] = runs[r] \/ (/\ runs'[r].by = by /\ runs'[r].at = "ready"
                                                    /\ runs'[r].job \in js)
           /\ \A q, r \in Run : /\ q # r /\ runs'[q] # runs[q] /\ runs'[r] # runs[r]
                                => runs'[q].job # runs'[r].job
           /\ \A j \in js : jobs'[j] = [jobs[j] EXCEPT !.next = NextAfter(jobs[j], by)]
           /\ \A j \in Job \ js : jobs'[j] = jobs[j]
  <1>1. PICK f \in Injection(js, Free) :
           runs' = [r \in Run |-> IF \E j \in js : f[j] = r
                      THEN [job |-> CHOOSE j \in js : f[j] = r, by |-> by, at |-> "ready"]
                      ELSE runs[r]]
    BY DEF Executes
  <1>2. jobs' = [j \in Job |-> IF j \in js THEN [jobs[j] EXCEPT !.next = NextAfter(jobs[j], by)]
                              ELSE jobs[j]]
    BY DEF Executes
  <1>3. \A r \in Run : (\E j \in js : f[j] = r) =>
           /\ runs'[r] = [job |-> CHOOSE j \in js : f[j] = r, by |-> by, at |-> "ready"]
           /\ runs'[r].job \in js /\ f[runs'[r].job] = r
    BY <1>1
  <1>4. \A r \in Run : ~(\E j \in js : f[j] = r) => runs'[r] = runs[r]
    BY <1>1
  <1>5. \A r \in Run : \/ runs'[r] = runs[r]
                       \/ (/\ runs'[r] \in RunRow
                           /\ runs'[r].by = by /\ runs'[r].at = "ready" /\ runs'[r].job \in js
                           /\ f[runs'[r].job] = r)
    <2> TAKE r \in Run
    <2>1. CASE \E j \in js : f[j] = r
      <3>1. runs'[r].job \in js /\ f[runs'[r].job] = r
        BY <1>3, <2>1
      <3>2. runs'[r] = [job |-> runs'[r].job, by |-> by, at |-> "ready"]
        <4>1. runs'[r] = [job |-> CHOOSE j \in js : f[j] = r, by |-> by, at |-> "ready"]
          BY <1>3, <2>1
        <4> DEFINE i == CHOOSE j \in js : f[j] = r
        <4>2. runs'[r] = [job |-> i, by |-> by, at |-> "ready"]
          BY <4>1
        <4> HIDE DEF i
        <4> QED
          BY <4>2
      <3> QED
        BY <3>1, <3>2 DEF RunRow
    <2>2. CASE ~(\E j \in js : f[j] = r)
      BY <1>4, <2>2
    <2> QED
      BY <2>1, <2>2
  <1>6. \A q, r \in Run : /\ q # r /\ runs'[q] # runs[q] /\ runs'[r] # runs[r]
                          => runs'[q].job # runs'[r].job
    BY <1>5
  <1>7. runs' \in [Run -> RunRow \cup {NoRun}]
    <2>1. \A r \in Run : runs'[r] \in RunRow \cup {NoRun}
      BY <1>5 DEF BackupTypeOK
    <2> QED
      BY <1>1, <2>1
  <1>8. \A j \in Job : [jobs[j] EXCEPT !.next = NextAfter(jobs[j], by)] \in JobRow
    <2>1. \A j \in Job : jobs[j] \in JobRow /\ NextAfter(jobs[j], by) \in {"none", "future", "due"}
      BY DEF BackupTypeOK, JobRow, NextAfter
    <2> QED
      BY <2>1 DEF JobRow
  <1>9. jobs' \in [Job -> JobRow]
    BY <1>2, <1>8 DEF BackupTypeOK
  <1> QED
    BY <1>2, <1>5, <1>6, <1>7, <1>9

\* Writing the column next of a job.
LEMMA NextWritten ==
    ASSUME NEW job \in JobRow, NEW n \in {"none", "future", "due"}
    PROVE  /\ [job EXCEPT !.next = n] \in JobRow
           /\ [job EXCEPT !.next = n].next = n
           /\ Scheduled([job EXCEPT !.next = n]) <=> Scheduled(job)
  BY DEF JobRow, Scheduled

\* Editing a job leaves its column next alone.
LEMMA Edited ==
    ASSUME NEW job \in JobRow, NEW e \in BOOLEAN, NEW y \in Type
    PROVE  /\ [job EXCEPT !.enabled = e, !.type = y] \in JobRow
           /\ [job EXCEPT !.enabled = e, !.type = y].next = job.next
  BY DEF JobRow

-----------------------------------------------------------------------------
(* Every step keeps the invariant.                                           *)

\* The loop starts the jobs that are due, when nothing runs.
LEMMA Checks == BackupIInv /\ check_schedules => BackupIInv'
  <1> SUFFICES ASSUME BackupIInv, check_schedules PROVE BackupIInv'
    OBVIOUS
  <1> DEFINE due == {j \in Job : Due(j)}
  <1>1. /\ Executes(due, "schedule") /\ due \in SUBSET Job
        /\ UNCHANGED <<left, up, faults, told, page, clicks>>
        /\ \A r \in Run : runs[r].at \notin {"process", "terminated"}
    BY DEF check_schedules, Busy, Executes
  <1>2. BackupTypeOK /\ \A j \in due : Due(j) /\ jobs[j].next = "due" /\ j \in Job
    BY DEF BackupIInv, Due
  <1> HIDE DEF due
  <1>3. /\ runs' \in [Run -> RunRow \cup {NoRun}]
        /\ jobs' \in [Job -> JobRow]
        /\ \A r \in Run : runs'[r] = runs[r] \/ (/\ runs'[r].by = "schedule" /\ runs'[r].at = "ready"
                                                 /\ runs'[r].job \in due)
        /\ \A q, r \in Run : /\ q # r /\ runs'[q] # runs[q] /\ runs'[r] # runs[r]
                             => runs'[q].job # runs'[r].job
        /\ \A j \in due : jobs'[j] = [jobs[j] EXCEPT !.next = NextAfter(jobs[j], "schedule")]
        /\ \A j \in Job \ due : jobs'[j] = jobs[j]
    BY <1>1, <1>2, RunsStart
  <1>4. BackupTypeOK'
    BY <1>1, <1>2, <1>3 DEF BackupTypeOK, page
  <1>5. \A j \in due : jobs'[j].next = "future"
    <2>1. \A j \in due : jobs[j] \in JobRow /\ NextAfter(jobs[j], "schedule") = "future"
      BY <1>2 DEF BackupTypeOK, NextAfter
    <2>2. \A j \in due : jobs'[j] = [jobs[j] EXCEPT !.next = "future"]
      BY <1>3, <2>1
    <2> QED
      BY <2>1, <2>2 DEF JobRow
  <1>6. NoScheduleIsLost'
    <2> SUFFICES ASSUME NEW j \in Job, There(j)', Scheduled(jobs'[j]) PROVE jobs'[j].next # "none"
      BY DEF NoScheduleIsLost
    <2>1. CASE j \in due
      BY <1>5, <2>1
    <2>2. CASE j \notin due
      BY <1>3, <2>2 DEF BackupIInv, NoScheduleIsLost, There
    <2> QED
      BY <2>1, <2>2
  <1>7. \A r \in Run : runs[r].by = "schedule" /\ runs[r].at = "ready" => runs[r].job \notin due
    BY <1>2 DEF BackupIInv, FreshRunsAreNotDue
  <1>8. FreshRunsAreNotDue'
    BY <1>2, <1>3, <1>5, <1>7, RunsType DEF BackupIInv, FreshRunsAreNotDue
  <1>9. RunsApart'
    <2> SUFFICES ASSUME NEW q \in Run, NEW r \in Run, q # r, runs'[q].job = runs'[r].job,
                        runs'[q].by = "schedule", runs'[r].by = "schedule",
                        runs'[q].at \in Busying, runs'[r].at \in Busying
                 PROVE  FALSE
      BY DEF RunsApart
    <2>1. CASE runs'[q] = runs[q] /\ runs'[r] = runs[r]
      BY <2>1 DEF BackupIInv, RunsApart
    <2>2. CASE runs'[q] = runs[q] /\ runs'[r] # runs[r]
      BY <2>2, <1>1, <1>3, <1>7 DEF Busying
    <2>3. CASE runs'[q] # runs[q] /\ runs'[r] = runs[r]
      BY <2>3, <1>1, <1>3, <1>7 DEF Busying
    <2>4. CASE runs'[q] # runs[q] /\ runs'[r] # runs[r]
      BY <2>4, <1>3
    <2> QED
      BY <2>1, <2>2, <2>3, <2>4
  <1> QED
    BY <1>4, <1>6, <1>8, <1>9 DEF BackupIInv

\* A run started by hand is no scheduled run, and its job keeps its time.
LEMMA Triggers ==
    ASSUME BackupIInv, NEW j \in Job, trigger_run(j), UNCHANGED <<up, faults, shown, clicks>>,
           form' \in [open : BOOLEAN, job : Job \cup {None}, submitting : BOOLEAN],
           \A call \in calls' : WellFormed(call)
    PROVE  BackupIInv'
  <1>1. Executes({j}, "hand") /\ UNCHANGED <<left, told>> /\ BackupTypeOK
    BY DEF trigger_run, Executes, BackupIInv
  <1>2. /\ runs' \in [Run -> RunRow \cup {NoRun}]
        /\ jobs' \in [Job -> JobRow]
        /\ \A r \in Run : runs'[r] = runs[r] \/ runs'[r].by = "hand"
        /\ jobs'[j] = [jobs[j] EXCEPT !.next = NextAfter(jobs[j], "hand")]
        /\ \A i \in Job \ {j} : jobs'[i] = jobs[i]
    BY <1>1, RunsStart
  <1>3. jobs'[j] = jobs[j]
    BY <1>1, <1>2 DEF NextAfter, BackupTypeOK, JobRow
  <1>4. \A i \in Job : jobs'[i] = jobs[i]
    BY <1>2, <1>3
  <1>5. BackupTypeOK'
    BY <1>1, <1>2 DEF BackupTypeOK
  <1>6. NoScheduleIsLost'
    BY <1>4 DEF BackupIInv, NoScheduleIsLost, There
  <1>7. FreshRunsAreNotDue'
    BY <1>1, <1>2, <1>4, RunsType DEF BackupIInv, FreshRunsAreNotDue
  <1>8. RunsApart'
    <2> SUFFICES ASSUME NEW q \in Run, NEW r \in Run, q # r, runs'[q].job = runs'[r].job,
                        runs'[q].by = "schedule", runs'[r].by = "schedule",
                        runs'[q].at \in Busying, runs'[r].at \in Busying
                 PROVE  FALSE
      BY DEF RunsApart
    <2>1. runs'[q] = runs[q] /\ runs'[r] = runs[r]
      BY <1>2
    <2> QED
      BY <2>1 DEF BackupIInv, RunsApart
  <1> QED
    BY <1>5, <1>6, <1>7, <1>8 DEF BackupIInv

\* A request whose form is closed stays well formed.
LEMMA Disowned ==
    ASSUME NEW c, WellFormed(c)
    PROVE  WellFormed([c EXCEPT !.own = FALSE])
  BY DEF WellFormed, Call

\* A request of the page that is served: what it wrote is well typed.
LEMMA ServedCall ==
    ASSUME BackupIInv, Served
    PROVE  BackupIInv'
  <1>1. PICK call \in calls :
           /\ \/ /\ ~Refused(call) /\ Does(call)
                 /\ IF call.op = "save"
                    THEN form' = Closed /\ calls' = {[c EXCEPT !.own = FALSE] : c \in calls \ {call}}
                    ELSE UNCHANGED form /\ calls' = calls \ {call}
              \/ /\ Refused(call) /\ UNCHANGED <<tables, told>>
                 /\ form' = IF call.op = "save" /\ call.own THEN [form EXCEPT !.submitting = FALSE] ELSE form
                 /\ calls' = calls \ {call}
           /\ UNCHANGED <<up, faults, shown, clicks>>
    BY DEF Served
  <1>2. BackupTypeOK /\ WellFormed(call) /\ call \in Call
    BY DEF BackupIInv, BackupTypeOK, WellFormed
  <1>3. /\ form' \in [open : BOOLEAN, job : Job \cup {None}, submitting : BOOLEAN]
        /\ \A c \in calls' : WellFormed(c)
    <2>1. \A c \in calls : WellFormed([c EXCEPT !.own = FALSE])
      BY <1>2, Disowned DEF BackupTypeOK
    <2>2. Closed \in [open : BOOLEAN, job : Job \cup {None}, submitting : BOOLEAN]
      BY DEF Closed
    <2>3. [form EXCEPT !.submitting = FALSE] \in [open : BOOLEAN, job : Job \cup {None}, submitting : BOOLEAN]
      BY <1>2 DEF BackupTypeOK
    <2>4. form' \in {Closed, form, [form EXCEPT !.submitting = FALSE]}
      BY <1>1
    <2>5. \/ calls' = {[c EXCEPT !.own = FALSE] : c \in calls \ {call}}
          \/ calls' = calls \ {call}
      BY <1>1
    <2>6. \A c \in calls' : WellFormed(c)
      <3>1. \A c \in calls : WellFormed(c)
        BY <1>2 DEF BackupTypeOK
      <3> QED BY <2>1, <2>5, <3>1
    <2>7. form' \in [open : BOOLEAN, job : Job \cup {None}, submitting : BOOLEAN]
      BY <1>2, <2>2, <2>3, <2>4 DEF BackupTypeOK
    <2> QED
      BY <2>6, <2>7
  <1>4. CASE Refused(call) /\ UNCHANGED <<tables, told>>
    <2>1. BackupTypeOK'
      BY <1>1, <1>2, <1>3, <1>4 DEF BackupTypeOK, tables
    <2>2. UNCHANGED <<jobs, runs>>
      BY <1>4 DEF tables
    <2> QED
      BY <2>1, <2>2 DEF BackupIInv, NoScheduleIsLost, There, RunsApart, FreshRunsAreNotDue
  <1>5. CASE ~Refused(call) /\ call.job \in Job /\ trigger_run(call.job)
    BY <1>1, <1>3, <1>5, Triggers
  <1>6. ASSUME UNCHANGED runs, jobs' \in [Job -> JobRow], left' \subseteq Job, told' \in BOOLEAN,
               \A j \in Job : /\ jobs'[j].next = "due" => jobs[j].next = "due"
                              /\ There(j)' /\ Scheduled(jobs'[j]) => jobs'[j].next # "none"
        PROVE  BackupIInv'
    <2>1. BackupTypeOK'
      BY <1>1, <1>2, <1>3, <1>6 DEF BackupTypeOK
    <2> QED
      BY <1>6, <2>1, RunsGoOn
  <1>7. ASSUME NEW j \in Job, NEW enabled \in BOOLEAN, NEW type \in Type, update_job(j, enabled, type)
        PROVE  BackupIInv'
    <2> DEFINE job == [jobs[j] EXCEPT !.enabled = enabled, !.type = type]
               n == IF Scheduled(job) THEN "future" ELSE jobs[j].next
    <2>1. jobs[j] \in JobRow /\ n \in {"none", "future", "due"}
      BY <1>2 DEF BackupTypeOK, JobRow
    <2>2. job \in JobRow /\ job.next = jobs[j].next
      BY <2>1, Edited
    <2>3. jobs' = [jobs EXCEPT ![j] = [job EXCEPT !.next = IF Scheduled(job) THEN "future" ELSE @]]
      BY <1>7 DEF update_job
    <2>4. jobs' = [jobs EXCEPT ![j] = [job EXCEPT !.next = n]]
      <3> HIDE DEF job
      <3> QED BY <2>2, <2>3
    <2>5. /\ [job EXCEPT !.next = n] \in JobRow
          /\ [job EXCEPT !.next = n].next = n
          /\ Scheduled([job EXCEPT !.next = n]) <=> Scheduled(job)
      <3> HIDE DEF job, n
      <3> QED BY <2>1, <2>2, NextWritten
    <2> DEFINE new == [job EXCEPT !.next = n]
    <2> HIDE DEF job, n
    <2>n. /\ n = "due" => jobs[j].next = "due"
          /\ Scheduled(job) => n = "future"
      BY DEF n
    <2>6. /\ jobs' = [jobs EXCEPT ![j] = new] /\ new \in JobRow
          /\ new.next = "due" => jobs[j].next = "due"
          /\ Scheduled(new) => new.next = "future"
      BY <2>4, <2>5, <2>n
    <2> HIDE DEF new
    <2>7. jobs' \in [Job -> JobRow] /\ jobs'[j] = new /\ \A i \in Job \ {j} : jobs'[i] = jobs[i]
      BY <1>2, <2>6 DEF BackupTypeOK
    <2>8. \A i \in Job : /\ jobs'[i].next = "due" => jobs[i].next = "due"
                         /\ There(i)' /\ Scheduled(jobs'[i]) => jobs'[i].next # "none"
      <3> TAKE i \in Job
      <3>1. CASE i = j
        BY <2>6, <2>7, <3>1
      <3>2. CASE i # j
        BY <2>7, <3>2 DEF BackupIInv, NoScheduleIsLost, There
      <3> QED BY <3>1, <3>2
    <2>9. UNCHANGED <<runs, left>> /\ told' = TRUE /\ left \subseteq Job
      BY <1>2, <1>7 DEF update_job, BackupTypeOK
    <2> QED
      BY <1>6, <2>7, <2>8, <2>9
  <1>8. ASSUME NEW enabled \in BOOLEAN, NEW type \in Type, create_job(enabled, type)
        PROVE  BackupIInv'
    <2>1. PICK j \in Job : /\ jobs' = [jobs EXCEPT ![j] =
                                [state |-> "there", enabled |-> enabled, type |-> type,
                                 next |-> IF enabled /\ type = "scheduled" THEN "future" ELSE "none"]]
                           /\ told' = TRUE /\ UNCHANGED <<runs, left>>
      BY <1>8 DEF create_job
    <2> DEFINE new == [state |-> "there", enabled |-> enabled, type |-> type,
                       next |-> IF enabled /\ type = "scheduled" THEN "future" ELSE "none"]
    <2>2. new \in JobRow /\ new.next # "due" /\ (Scheduled(new) => new.next = "future")
      BY DEF JobRow, Scheduled
    <2>3. jobs' = [jobs EXCEPT ![j] = new]
      BY <2>1
    <2> HIDE DEF new
    <2>4. jobs' \in [Job -> JobRow] /\ jobs'[j] = new /\ \A i \in Job \ {j} : jobs'[i] = jobs[i]
      BY <1>2, <2>2, <2>3 DEF BackupTypeOK
    <2>5. \A i \in Job : /\ jobs'[i].next = "due" => jobs[i].next = "due"
                         /\ There(i)' /\ Scheduled(jobs'[i]) => jobs'[i].next # "none"
      <3> TAKE i \in Job
      <3>1. CASE i = j
        BY <2>2, <2>4, <3>1
      <3>2. CASE i # j
        BY <2>4, <3>2 DEF BackupIInv, NoScheduleIsLost, There
      <3> QED BY <3>1, <3>2
    <2>6. left \subseteq Job
      BY <1>2 DEF BackupTypeOK
    <2> QED
      BY <1>6, <2>1, <2>4, <2>5, <2>6
  <1>9. ASSUME NEW j \in Job, delete_job(j)
        PROVE  BackupIInv'
    <2> DEFINE new == [NoJob EXCEPT !.state = "deleted"]
    <2>1. new \in JobRow /\ new.next = "none" /\ new.state = "deleted"
      BY DEF JobRow, NoJob, Type
    <2>2. jobs' = [jobs EXCEPT ![j] = new] /\ left' = left \ {j} /\ told' = TRUE /\ UNCHANGED runs
      BY <1>9 DEF delete_job
    <2> HIDE DEF new
    <2>3. jobs' \in [Job -> JobRow] /\ jobs'[j] = new /\ \A i \in Job \ {j} : jobs'[i] = jobs[i]
      BY <1>2, <2>1, <2>2 DEF BackupTypeOK
    <2>4. \A i \in Job : /\ jobs'[i].next = "due" => jobs[i].next = "due"
                         /\ There(i)' /\ Scheduled(jobs'[i]) => jobs'[i].next # "none"
      <3> TAKE i \in Job
      <3>1. CASE i = j
        BY <2>1, <2>3, <3>1 DEF There
      <3>2. CASE i # j
        BY <2>3, <3>2 DEF BackupIInv, NoScheduleIsLost, There
      <3> QED BY <3>1, <3>2
    <2>5. left' \subseteq Job
      BY <1>2, <2>2 DEF BackupTypeOK
    <2> QED
      BY <1>6, <2>2, <2>3, <2>4, <2>5
  <1>10. CASE ~Refused(call) /\ Does(call)
    <2>1. CASE call.op = "toggle"
      <3>1. call.job \in Job /\ call.enabled \in BOOLEAN /\ jobs[call.job].type \in Type
        BY <1>2, <2>1 DEF WellFormed, Call, BackupTypeOK, JobRow
      <3> QED BY <1>7, <1>10, <2>1, <3>1 DEF Does
    <2>2. CASE call.op = "delete"
      <3>1. call.job \in Job
        BY <1>2, <2>2 DEF WellFormed, Call
      <3> QED BY <1>9, <1>10, <2>2, <3>1 DEF Does
    <2>3. CASE call.op = "run"
      <3>1. call.job \in Job
        BY <1>2, <2>3 DEF WellFormed, Call
      <3> QED BY <1>5, <1>10, <2>3, <3>1 DEF Does
    <2>4. CASE call.op = "save"
      <3>1. call.enabled \in BOOLEAN /\ call.type \in Type /\ call.job \in Job \cup {None}
        BY <1>2, <2>4 DEF WellFormed, Call
      <3>2. CASE call.job = None
        BY <1>8, <1>10, <2>4, <3>1, <3>2 DEF Does
      <3>3. CASE call.job # None
        BY <1>7, <1>10, <2>4, <3>1, <3>3 DEF Does
      <3> QED BY <3>2, <3>3
    <2> QED
      BY <1>2, <2>1, <2>2, <2>3, <2>4 DEF Call
  <1> QED
    BY <1>1, <1>4, <1>10

\* A step that writes neither jobs nor runs, only what the page and the process are.
LEMMA TablesStay ==
    ASSUME BackupIInv, UNCHANGED <<jobs, runs>>, BackupTypeOK'
    PROVE  BackupIInv'
  BY DEF BackupIInv, NoScheduleIsLost, There, RunsApart, FreshRunsAreNotDue

\* The jobs whose rows stay without a watcher are jobs.
LEMMA LeftAreJobs ==
    ASSUME BackupTypeOK, NEW rs \in SUBSET Run, Left(rs)
    PROVE  left' \subseteq Job
  <1>1. \A r \in rs : runs[r].at \notin {"none", "outlived"} => runs[r].job \in Job
    BY DEF BackupTypeOK, RunRow, NoRun
  <1> QED
    BY <1>1 DEF Left, BackupTypeOK

\* A run of the history is blank, and no blank run waits or goes on.
LEMMA WatcherSteps ==
    ASSUME BackupIInv, NEW r \in Run,
           RunBegins(r) \/ TimesOut(r) \/ GivesUp(r) \/ ProcessEnds(r) \/ RunEnds(r)
    PROVE  BackupIInv'
  <1> USE DEF RunBegins, TimesOut, GivesUp, ProcessEnds, RunEnds, Finalized, FinalStatus
  <1>1. /\ BackupTypeOK
        /\ runs[r].at \in {"ready", "process", "terminated", "ended", "outlived"}
        /\ UNCHANGED <<jobs, up, faults, page, clicks>>
    BY DEF BackupIInv
  <1>2. runs[r] \in RunRow
    BY <1>1 DEF BackupTypeOK, NoRun
  <1> DEFINE Later == {"process", "terminated", "ended", "outlived"}
             Moved(a) == [runs[r] EXCEPT !.at = a]
  <1>3. \A a \in Later : /\ Moved(a) \in RunRow
                         /\ Moved(a).job = runs[r].job /\ Moved(a).by = runs[r].by
                         /\ Moved(a).at = a
    BY <1>2 DEF RunRow
  <1>4. \/ runs' = [runs EXCEPT ![r] = NoRun]
        \/ \E a \in Later : /\ runs' = [runs EXCEPT ![r] = Moved(a)]
                            /\ a \in Busying => runs[r].at \in Busying
    BY DEF Busying
  <1>5. told' \in BOOLEAN /\ left' \subseteq Job
    <2>1. UNCHANGED left \/ Left({r})
      OBVIOUS
    <2>2. told' \in {told, TRUE}
      OBVIOUS
    <2> QED
      BY <1>1, <2>1, <2>2, LeftAreJobs DEF BackupTypeOK
  <1> HIDE DEF Later, Moved
  <1>6. BackupTypeOK'
    BY <1>1, <1>3, <1>4, <1>5 DEF BackupTypeOK, page
  <1>7. \A q \in Run : runs'[q] = runs[q] \/ runs'[q] = NoRun
              \/ (/\ runs'[q].job = runs[q].job /\ runs'[q].by = runs[q].by
                  /\ runs'[q].at # "ready"
                  /\ runs[q].at \notin Busying => runs'[q].at \notin Busying
                  /\ runs[q].at # "none")
    BY <1>1, <1>3, <1>4 DEF BackupTypeOK, Later
  <1>8. \A j \in Job : /\ jobs'[j].next = "due" => jobs[j].next = "due"
                       /\ There(j)' /\ Scheduled(jobs'[j]) => jobs'[j].next # "none"
    BY <1>1 DEF BackupIInv, NoScheduleIsLost, There
  <1> QED
    BY <1>6, <1>7, <1>8, RunsGoOn

LEMMA BackupInitIInv == BackupInit => BackupIInv
  <1> SUFFICES ASSUME BackupInit PROVE BackupIInv
    OBVIOUS
  <1>1. \A r \in Run : runs[r] = NoRun /\ NoRun.by = "none"
    BY DEF BackupInit, NoRun
  <1>2. jobs \in [Job -> JobRow] /\ \A j \in Job : Scheduled(jobs[j]) => jobs[j].next # "none"
    <2> DEFINE kept == [state |-> "there", enabled |-> TRUE, type |-> "scheduled", next |-> "future"]
    <2>1. /\ kept \in JobRow /\ kept.next = "future"
          /\ NoJob \in JobRow /\ ~Scheduled(NoJob)
      BY DEF JobRow, NoJob, Type, Scheduled
    <2>2. jobs = [j \in Job |-> IF j \in Kept THEN kept ELSE NoJob]
      BY DEF BackupInit
    <2> HIDE DEF kept
    <2>3. \A j \in Job : jobs[j] \in {kept, NoJob}
      BY <2>2
    <2> QED
      BY <2>1, <2>2, <2>3
  <1>3. shown \in [Job -> [enabled : BOOLEAN, type : Type \cup {"none"}]]
    BY <1>2 DEF BackupInit, Listed, JobRow
  <1>4. BackupTypeOK
    BY <1>1, <1>2, <1>3 DEF BackupInit, BackupTypeOK, Closed
  <1>5. NoScheduleIsLost /\ RunsApart /\ FreshRunsAreNotDue
    BY <1>1, <1>2 DEF NoScheduleIsLost, RunsApart, FreshRunsAreNotDue
  <1> QED
    BY <1>4, <1>5 DEF BackupIInv

LEMMA BackupInductive == BackupIInv /\ [BackupNext]_backupVars => BackupIInv'
  <1> SUFFICES ASSUME BackupIInv, [BackupNext]_backupVars PROVE BackupIInv'
    OBVIOUS
  <1>0. BackupTypeOK
    BY DEF BackupIInv
  <1>1. CASE check_schedules
    BY <1>1, Checks
  <1>2. CASE TimePasses
    <2>1. PICK j \in Job : jobs[j].next = "future" /\ jobs' = [jobs EXCEPT ![j].next = "due"]
      BY <1>2 DEF TimePasses
    <2>2. /\ UNCHANGED <<runs, left, up, faults, told, page, clicks>>
          /\ \A r \in Run : runs[r].at # "ready"
      BY <1>2 DEF TimePasses
    <2>3. /\ jobs' \in [Job -> JobRow]
          /\ \A i \in Job : jobs'[i] = jobs[i] \/ jobs'[i].next = "due"
      <3>1. [jobs[j] EXCEPT !.next = "due"] \in JobRow /\ [jobs[j] EXCEPT !.next = "due"].next = "due"
        BY <1>0 DEF BackupTypeOK, JobRow
      <3>2. jobs' = [jobs EXCEPT ![j] = [jobs[j] EXCEPT !.next = "due"]]
        BY <2>1
      <3> QED
        BY <1>0, <3>1, <3>2 DEF BackupTypeOK
    <2>4. BackupTypeOK'
      BY <1>0, <2>2, <2>3 DEF BackupTypeOK, page
    <2>5. NoScheduleIsLost'
      <3> SUFFICES ASSUME NEW i \in Job, There(i)', Scheduled(jobs'[i]) PROVE jobs'[i].next # "none"
        BY DEF NoScheduleIsLost
      <3>1. CASE jobs'[i] = jobs[i]
        BY <3>1 DEF BackupIInv, NoScheduleIsLost, There
      <3>2. CASE jobs'[i].next = "due"
        BY <3>2
      <3> QED
        BY <2>3, <3>1, <3>2
    <2>6. FreshRunsAreNotDue' /\ RunsApart'
      BY <2>2 DEF BackupIInv, FreshRunsAreNotDue, RunsApart
    <2> QED
      BY <2>4, <2>5, <2>6 DEF BackupIInv
  <1>3. ASSUME NEW r \in Run,
               RunBegins(r) \/ TimesOut(r) \/ GivesUp(r) \/ ProcessEnds(r) \/ RunEnds(r)
        PROVE  BackupIInv'
    BY <1>3, WatcherSteps
  <1>4. CASE shutdown
    <2>1. /\ UNCHANGED <<jobs, page, clicks>> /\ up' = FALSE /\ told' = FALSE /\ faults' = faults + 1
          /\ runs' = [r \in Run |-> NoRun] /\ Left(Run)
      BY <1>4 DEF shutdown
    <2>2. left' \subseteq Job
      BY <1>0, <2>1, LeftAreJobs
    <2>3. BackupTypeOK'
      <3>1. runs' \in [Run -> RunRow \cup {NoRun}] /\ faults' \in Nat
        BY <1>0, <2>1 DEF BackupTypeOK
      <3> QED
        BY <1>0, <2>1, <2>2, <3>1 DEF BackupTypeOK, page
    <2>4. \A j \in Job : /\ jobs'[j].next = "due" => jobs[j].next = "due"
                         /\ There(j)' /\ Scheduled(jobs'[j]) => jobs'[j].next # "none"
      BY <2>1 DEF BackupIInv, NoScheduleIsLost, There
    <2> QED
      BY <2>1, <2>3, <2>4, RunsGoOn
  <1>5. CASE startup
    <2> DEFINE Anew(job) == [job EXCEPT !.next = "future"]
    <2>1. /\ jobs' = [j \in Job |-> IF There(j) /\ Scheduled(jobs[j]) THEN Anew(jobs[j]) ELSE jobs[j]]
          /\ UNCHANGED <<runs, left, faults, told, page, clicks>> /\ up' = TRUE
      BY <1>5 DEF startup
    <2>2. \A j \in Job : jobs[j] \in JobRow /\ Anew(jobs[j]) \in JobRow /\ Anew(jobs[j]).next = "future"
      BY <1>0 DEF BackupTypeOK, JobRow
    <2> HIDE DEF Anew
    <2>3. jobs' \in [Job -> JobRow] /\ \A j \in Job : jobs'[j] = jobs[j] \/ jobs'[j].next = "future"
      BY <2>1, <2>2
    <2>4. BackupTypeOK'
      BY <1>0, <2>1, <2>3 DEF BackupTypeOK, page
    <2>5. \A j \in Job : /\ jobs'[j].next = "due" => jobs[j].next = "due"
                         /\ There(j)' /\ Scheduled(jobs'[j]) => jobs'[j].next # "none"
      <3> TAKE j \in Job
      <3>1. CASE jobs'[j] = jobs[j]
        BY <3>1 DEF BackupIInv, NoScheduleIsLost, There
      <3>2. CASE jobs'[j].next = "future"
        BY <3>2
      <3> QED
        BY <2>3, <3>1, <3>2
    <2> QED
      BY <2>1, <2>4, <2>5, RunsGoOn
  <1>6. CASE EventArrives
    <2>1. Listed \in [Job -> [enabled : BOOLEAN, type : Type \cup {"none"}]]
      BY <1>0 DEF BackupTypeOK, JobRow, Listed
    <2>2. /\ told' = FALSE /\ shown' \in {Listed, shown}
          /\ UNCHANGED <<jobs, runs, left, up, faults, form, calls, clicks>>
      BY <1>6 DEF EventArrives, tables
    <2>3. BackupTypeOK'
      BY <1>0, <2>1, <2>2 DEF BackupTypeOK
    <2> QED
      BY <2>2, <2>3, TablesStay
  <1>7. CASE Served
    BY <1>7, ServedCall
  <1>8. ASSUME NEW j \in Job, Buttons(j)
        PROVE  BackupIInv'
    <2>1. PICK op \in {"toggle", "run", "delete"}, enabled \in BOOLEAN : Asks(op, j, enabled, "none")
      BY <1>0, <1>8 DEF Buttons, handleToggle, handleRunNow, handleDelete, BackupTypeOK
    <2>2. UNCHANGED <<jobs, runs, left, up, faults, told, shown, form>>
      BY <1>8 DEF Buttons, handleToggle, handleRunNow, handleDelete, OnPage, backups, tables
    <2>3. WellFormed([op |-> op, job |-> j, enabled |-> enabled, type |-> "none", own |-> TRUE])
      BY DEF WellFormed, Call
    <2>4. BackupTypeOK'
      <3>1. \A call \in calls' : WellFormed(call)
        BY <1>0, <2>1, <2>3 DEF Asks, BackupTypeOK
      <3>2. clicks' \in Nat
        BY <1>0, <2>1 DEF Asks, BackupTypeOK
      <3> QED
        BY <1>0, <2>2, <3>1, <3>2 DEF BackupTypeOK
    <2> QED
      BY <2>2, <2>4, TablesStay
  <1>9. CASE OpenForm \/ CloseForm
    <2>1. UNCHANGED <<jobs, runs, left, up, faults, told, shown, clicks>>
      BY <1>9 DEF OpenForm, CloseForm, backups, tables
    <2>2. form' \in [open : BOOLEAN, job : Job \cup {None}, submitting : BOOLEAN]
      <3>1. CASE OpenForm
        BY <3>1 DEF OpenForm
      <3>2. CASE CloseForm
        BY <3>2 DEF CloseForm, Closed
      <3> QED
        BY <1>9, <3>1, <3>2
    <2>3. \A call \in calls' : WellFormed(call)
      <3>1. \A c \in calls : WellFormed(c) /\ WellFormed([c EXCEPT !.own = FALSE])
        BY <1>0, Disowned DEF BackupTypeOK
      <3>2. calls' = calls \/ calls' = {[c EXCEPT !.own = FALSE] : c \in calls}
        BY <1>9 DEF OpenForm, CloseForm
      <3>3. CASE calls' = calls
        BY <3>1, <3>3
      <3>4. CASE calls' = {[c EXCEPT !.own = FALSE] : c \in calls}
        BY <3>1, <3>4
      <3> QED
        BY <3>2, <3>3, <3>4
    <2>4. BackupTypeOK'
      BY <1>0, <2>1, <2>2, <2>3 DEF BackupTypeOK
    <2> QED
      BY <2>1, <2>4, TablesStay
  <1>10. CASE handleSubmit
    <2>1. PICK fields \in Fields : Asks("save", form.job, fields.enabled, fields.type)
      BY <1>10 DEF handleSubmit
    <2>2. /\ UNCHANGED <<jobs, runs, left, up, faults, told, shown>>
          /\ form' = [form EXCEPT !.submitting = TRUE]
      BY <1>10 DEF handleSubmit, backups, tables
    <2>3. WellFormed([op |-> "save", job |-> form.job, enabled |-> fields.enabled,
                      type |-> fields.type, own |-> TRUE])
      BY <1>0 DEF WellFormed, Call, Fields, Type, BackupTypeOK
    <2>4. BackupTypeOK'
      <3>1. \A call \in calls' : WellFormed(call)
        BY <1>0, <2>1, <2>3 DEF Asks, BackupTypeOK
      <3>2. clicks' \in Nat
        BY <1>0, <2>1 DEF Asks, BackupTypeOK
      <3> QED
        BY <1>0, <2>2, <3>1, <3>2 DEF BackupTypeOK
    <2> QED
      BY <2>2, <2>4, TablesStay
  <1>11. CASE UNCHANGED backupVars
    <2>1. BackupTypeOK'
      BY <1>0, <1>11 DEF backupVars, backups, tables, page, BackupTypeOK
    <2> QED
      BY <1>11, <2>1, TablesStay DEF backupVars, backups, tables
  <1> QED
    BY <1>1, <1>2, <1>3, <1>4, <1>5, <1>6, <1>7, <1>8, <1>9, <1>10, <1>11 DEF BackupNext

-----------------------------------------------------------------------------
(* The theorems.                                                             *)

\* The invariant holds in every life of the service, whatever is clicked when.
THEOREM BackupInvariance == BackupSpec => []BackupIInv
  BY BackupInitIInv, BackupInductive, PTL DEF BackupSpec

\* A schedule never starts a job while the last run it started waits for its watcher or has
\* an rsync process the watcher has not given up, for any number of jobs and runs.
THEOREM SchedulesDoNotOverlap == BackupSpec => []ScheduledRunsDoNotOverlap
  <1>1. BackupIInv => ScheduledRunsDoNotOverlap
    BY DEF BackupIInv, RunsApart, ScheduledRunsDoNotOverlap, Followed, Outlived, Busying
  <1> QED
    BY <1>1, BackupInvariance, PTL

\* A job that is enabled and scheduled always has a time at which it comes due.
THEOREM SchedulesStay == BackupSpec => []NoScheduleIsLost
  <1>1. BackupIInv => NoScheduleIsLost
    BY DEF BackupIInv
  <1> QED
    BY <1>1, BackupInvariance, PTL
=============================================================================
