------------------------------- MODULE Backups -------------------------------
(* Scheduled backups: BackupService (backup.py) with its rows, its watchers    *)
(* and the tick of its loop, and the page (BackupPage and BackupForm in        *)
(* App.tsx) that asks it for changes.  The service runs on one event loop and  *)
(* suspends only while rsync runs.  Names, nodes, paths, logs and the history  *)
(* dialog are left out.                                                        *)
EXTENDS Naturals, FiniteSets, Functions

CONSTANTS Job, None,
          Kept,         \* the jobs there are at first
          MaxRuns,      \* bound: runs at a time
          MaxClicks,    \* bound: clicks that reach the service
          MaxCalls,     \* bound: requests of the page at a time
          MaxFaults     \* bound: ends of the service's process

ASSUME BackupBounds ==
    MaxRuns \in Nat /\ MaxClicks \in Nat /\ MaxCalls \in Nat /\ MaxFaults \in Nat
ASSUME KeptAreJobs == Kept \subseteq Job /\ None \notin Job

VARIABLES
    jobs,           \* table backup_jobs
    runs,           \* rows of backup_runs with a watcher, and where it is; a row that has its
                    \* final status is history that nothing here reads
    left,           \* the jobs with a row that is "running" and has no watcher
    up, faults,     \* the service's process
    told,           \* an event is on its way to the page
    shown,          \* the jobs on the page
    form, calls,    \* BackupForm; the page's requests, not yet served
    clicks

tables == <<jobs, runs, left>>
backups == <<tables, up, faults, told>>
page == <<shown, form, calls>>
backupVars == <<backups, page, clicks>>

Run == 1..MaxRuns
NoJob == [state |-> "unused", enabled |-> FALSE, type |-> "manual", next |-> "none"]
NoRun == [job |-> None, by |-> "none", at |-> "none"]
Free == {r \in Run : runs[r] = NoRun}
There(j) == jobs[j].state = "there"
Scheduled(job) == job.enabled /\ job.type = "scheduled"

\* The page's list: what a job is shown with.
Listed == [j \in Job |-> IF There(j) THEN [enabled |-> jobs[j].enabled, type |-> jobs[j].type]
                         ELSE [enabled |-> FALSE, type |-> "none"]]
Closed == [open |-> FALSE, job |-> None, submitting |-> FALSE]

BackupInit ==
    /\ jobs = [j \in Job |-> IF j \in Kept
                  THEN [state |-> "there", enabled |-> TRUE, type |-> "scheduled", next |-> "future"]
                  ELSE NoJob]
    /\ runs = [r \in Run |-> NoRun] /\ left = {}
    /\ up = TRUE /\ faults = 0 /\ told = FALSE
    /\ shown = Listed /\ form = Closed /\ calls = {}
    /\ clicks = 0

-----------------------------------------------------------------------------
(* The loop.                                                                   *)

\* Mutant: the rows are asked what runs.
BusyByRows == left # {} \/ Free # Run

\* Mutant: an rsync that was told to end is in nobody's way.
BusyUntilTold == \E r \in Run : runs[r].at = "process"

\* _is_job_running does not look at its job: any rsync process with a handle counts, and
\* none of a run whose watcher has not begun or has given its process up.
Busy == \E r \in Run : runs[r].at \in {"process", "terminated"}

\* Mutant: what an update does not name is cleared.
NextCleared(job, by) == IF by = "schedule" THEN "future" ELSE "none"

\* The next time of a job that was just started.
NextAfter(job, by) == IF by = "schedule" THEN "future" ELSE job.next

\* _execute_backup for each of these jobs: the row, the watcher, the job's next time.
Executes(js, by) ==
    /\ \E f \in Injection(js, Free) :
         runs' = [r \in Run |-> IF \E j \in js : f[j] = r
                    THEN [job |-> CHOOSE j \in js : f[j] = r, by |-> by, at |-> "ready"]
                    ELSE runs[r]]
    /\ UNCHANGED left
    /\ jobs' = [j \in Job |-> IF j \in js THEN [jobs[j] EXCEPT !.next = NextAfter(jobs[j], by)]
                              ELSE jobs[j]]

\* The bound on runs: enough are left for all jobs whose time has come and one more.
RunsLeft ==
    Cardinality({j \in Job : There(j) /\ jobs[j].next = "due"}) < Cardinality(Free)

Due(j) == There(j) /\ Scheduled(jobs[j]) /\ jobs[j].next = "due"

\* _check_schedules takes all jobs in one go: nothing it does before its end changes what
\* it asks of the next job.
check_schedules ==
    /\ up /\ ~Busy
    /\ LET due == {j \in Job : Due(j)} IN due # {} /\ Executes(due, "schedule")
    /\ UNCHANGED <<up, faults, told, page, clicks>>

\* A watcher begins within the minute.
TimePasses ==
    /\ RunsLeft /\ \A r \in Run : runs[r].at # "ready"
    /\ \E j \in Job : There(j) /\ jobs[j].next = "future"
                      /\ jobs' = [jobs EXCEPT ![j].next = "due"]
    /\ UNCHANGED <<runs, left, up, faults, told, page, clicks>>

-----------------------------------------------------------------------------
(* The watcher of a run (_run_rsync).                                          *)

\* Succeeded or failed is the same to all that is modelled; the row may have been deleted
\* with its job, and the page is told in any case.
FinalStatus == told' = TRUE /\ UNCHANGED left
Finalized(r) == runs' = [runs EXCEPT ![r] = NoRun] /\ FinalStatus

\* A watcher that does not get to its end leaves the row as it is; a run whose process was
\* given up has its final status, and rows of a job that is deleted are deleted.
Left(rs) ==
    left' = left \cup {runs[r].job : r \in {r \in rs : /\ runs[r].at \notin {"none", "outlived"}
                                                     /\ There(runs[r].job)}}

\* A command that cannot be built or started ends a run as failed; a node that is gone, or
\* a directory that cannot be made, ends the watcher with an exception that nothing catches.
RunBegins(r) ==
    /\ runs[r].at = "ready"
    /\ \/ runs' = [runs EXCEPT ![r].at = "process"] /\ UNCHANGED <<left, told>>
       \/ Finalized(r)
       \/ runs' = [runs EXCEPT ![r] = NoRun] /\ Left({r}) /\ UNCHANGED told
    /\ UNCHANGED <<jobs, up, faults, page, clicks>>

\* After RSYNC_TIMEOUT rsync is sent SIGTERM; its handle stays while the watcher waits on.
TimesOut(r) ==
    /\ runs[r].at = "process" /\ runs' = [runs EXCEPT ![r].at = "terminated"]
    /\ UNCHANGED <<jobs, left, up, faults, told, page, clicks>>

\* The wait raised an exception, or rsync has not ended ten seconds after SIGTERM: the handle
\* is dropped and the run recorded as failed while rsync may go on.
GivesUp(r) ==
    /\ runs[r].at \in {"process", "terminated"}
    /\ runs' = [runs EXCEPT ![r].at = "outlived"] /\ FinalStatus
    /\ UNCHANGED <<jobs, up, faults, page, clicks>>

\* rsync ends; of one that was given up nobody takes notice.
ProcessEnds(r) ==
    /\ \/ runs[r].at \in {"process", "terminated"} /\ runs' = [runs EXCEPT ![r].at = "ended"]
       \/ runs[r].at = "outlived" /\ runs' = [runs EXCEPT ![r] = NoRun]
    /\ UNCHANGED <<jobs, left, up, faults, told, page, clicks>>

RunEnds(r) ==
    /\ runs[r].at = "ended" /\ Finalized(r)
    /\ UNCHANGED <<jobs, up, faults, page, clicks>>

\* shutdown cancels the watchers, which record nothing then; a crash leaves the same,
\* but for rsync processes, which nothing follows.
shutdown ==
    /\ up /\ faults < MaxFaults /\ faults' = faults + 1
    /\ up' = FALSE /\ told' = FALSE
    /\ Left(Run) /\ runs' = [r \in Run |-> NoRun]
    /\ UNCHANGED <<jobs, page, clicks>>

\* _compute_next_runs: a backup that was due while the service was down is not made up for.
startup ==
    /\ ~up /\ up' = TRUE
    /\ jobs' = [j \in Job |-> IF There(j) /\ Scheduled(jobs[j])
                              THEN [jobs[j] EXCEPT !.next = "future"] ELSE jobs[j]]
    /\ UNCHANGED <<runs, left, faults, told, page, clicks>>

-----------------------------------------------------------------------------
(* Requests.                                                                   *)

create_job(enabled, type) ==
    \E j \in Job :
       /\ jobs[j].state = "unused"
       /\ jobs' = [jobs EXCEPT ![j] =
            [state |-> "there", enabled |-> enabled, type |-> type,
             next |-> IF enabled /\ type = "scheduled" THEN "future" ELSE "none"]]
       /\ told' = TRUE /\ UNCHANGED <<runs, left>>

\* The next time is computed anew for a job that is scheduled then, else left as it is.
update_job(j, enabled, type) ==
    /\ LET job == [jobs[j] EXCEPT !.enabled = enabled, !.type = type]
       IN jobs' = [jobs EXCEPT ![j] = [job EXCEPT !.next = IF Scheduled(job) THEN "future" ELSE @]]
    /\ told' = TRUE /\ UNCHANGED <<runs, left>>

\* A run under way goes on.
delete_job(j) ==
    /\ jobs' = [jobs EXCEPT ![j] = [NoJob EXCEPT !.state = "deleted"]]
    /\ left' = left \ {j} /\ told' = TRUE /\ UNCHANGED runs

\* By hand a job is started whatever runs; the page is not told.
trigger_run(j) == RunsLeft /\ Executes({j}, "hand") /\ UNCHANGED told

-----------------------------------------------------------------------------
(* The page: its list, the buttons of a job, the form.                         *)

\* An event has the list read anew (loadJobs); its answer is applied at once, for what is
\* shown is as old while the event is on its way.  A read that fails, or is overtaken by an
\* older answer, is not made up for until the next event: there is no poll.
EventArrives ==
    /\ up /\ told /\ told' = FALSE
    /\ shown' \in {Listed, shown}
    /\ UNCHANGED <<tables, up, faults, form, calls, clicks>>

Asks(op, j, enabled, type) ==
    /\ clicks < MaxClicks /\ clicks' = clicks + 1
    /\ Cardinality(calls) < MaxCalls
    /\ calls' = calls \cup {[op |-> op, job |-> j, enabled |-> enabled, type |-> type, own |-> TRUE]}

\* The form lies over the page.
OnPage(j) == ~form.open /\ shown[j].type # "none" /\ UNCHANGED <<backups, shown, form>>

handleToggle(j) == OnPage(j) /\ Asks("toggle", j, ~shown[j].enabled, "none")
handleRunNow(j) == OnPage(j) /\ Asks("run", j, TRUE, "none")
handleDelete(j) == OnPage(j) /\ Asks("delete", j, TRUE, "none")

\* For a new job, or for one of those shown.
OpenForm ==
    /\ ~form.open
    /\ \E j \in {None} \cup {j \in Job : shown[j].type # "none"} :
          form' = [open |-> TRUE, job |-> j, submitting |-> FALSE]
    /\ UNCHANGED <<backups, shown, calls, clicks>>

\* The form's fields are filled with what was shown when it was opened and edited at will.
Fields == [enabled : BOOLEAN, type : {"manual", "scheduled"}]

\* All of the form is sent, what has not been touched too.
handleSubmit ==
    /\ form.open /\ ~form.submitting
    /\ form' = [form EXCEPT !.submitting = TRUE]
    /\ \E fields \in Fields : Asks("save", form.job, fields.enabled, fields.type)
    /\ UNCHANGED <<backups, shown>>

CloseForm ==
    /\ form.open /\ form' = Closed
    /\ calls' = {[call EXCEPT !.own = FALSE] : call \in calls}
    /\ UNCHANGED <<backups, shown, clicks>>

Refused(call) == ~up \/ (call.job # None /\ ~There(call.job))

\* What the service does for a call; a request for a job that is gone is refused.
Does(call) ==
    CASE call.op = "toggle" -> update_job(call.job, call.enabled, jobs[call.job].type)
      [] call.op = "delete" -> delete_job(call.job)
      [] call.op = "run"    -> trigger_run(call.job)
      [] call.op = "save" /\ call.job = None -> create_job(call.enabled, call.type)
      [] call.op = "save" /\ call.job # None -> update_job(call.job, call.enabled, call.type)

\* onSaved closes the form that is open, this one or another.
Served ==
    \E call \in calls :
       /\ \/ /\ ~Refused(call) /\ Does(call)
             /\ IF call.op = "save"
                THEN form' = Closed /\ calls' = {[c EXCEPT !.own = FALSE] : c \in calls \ {call}}
                ELSE UNCHANGED form /\ calls' = calls \ {call}
          \/ /\ Refused(call) /\ UNCHANGED <<tables, told>>
             /\ form' = IF call.op = "save" /\ call.own THEN [form EXCEPT !.submitting = FALSE] ELSE form
             /\ calls' = calls \ {call}
       /\ UNCHANGED <<up, faults, shown, clicks>>

-----------------------------------------------------------------------------
Buttons(j) == handleToggle(j) \/ handleRunNow(j) \/ handleDelete(j)
BackupNext ==
    \/ check_schedules \/ TimePasses
    \/ \E r \in Run : RunBegins(r) \/ TimesOut(r) \/ GivesUp(r) \/ ProcessEnds(r) \/ RunEnds(r)
    \/ shutdown \/ startup
    \/ EventArrives \/ Served
    \/ \E j \in Job : Buttons(j)
    \/ OpenForm \/ handleSubmit \/ CloseForm

\* The loop ticks every minute, watchers are resumed, and none waits longer than
\* RSYNC_TIMEOUT and then ten seconds.  That an rsync ends is not assumed.
BackupSpec ==
    /\ BackupInit /\ [][BackupNext]_backupVars
    /\ WF_backupVars(check_schedules)
    /\ \A r \in Run : /\ WF_backupVars(RunBegins(r)) /\ WF_backupVars(RunEnds(r))
                      /\ WF_backupVars(TimesOut(r) \/ GivesUp(r))

-----------------------------------------------------------------------------
\* The runs whose watcher has a process or is to start one.
Followed == {r \in Run : runs[r].at \in {"ready", "process", "terminated"}}
Outlived == {r \in Run : runs[r].at = "outlived"}

\* Of the runs of a job that its schedule started no two have their rsync at a time, however
\* the job was edited, disabled and enabled in between; if two do, a watcher has given up
\* all of them but one: only an rsync that ignored SIGTERM for ten seconds, or whose wait
\* raised, is ever overlapped (in one life of the service).
ScheduledRunsDoNotOverlap ==
    \A q, r \in Followed \cup Outlived :
       /\ q # r /\ runs[q].job = runs[r].job
       /\ runs[q].by = "schedule" /\ runs[r].by = "schedule"
       => q \in Outlived \/ r \in Outlived

\* The column next_run_at is written in five places, in one of them only when it is given:
\* a job that is enabled and scheduled has a time at which it comes due, whatever was
\* created, edited, toggled, started by hand or restarted before.
NoScheduleIsLost == \A j \in Job : There(j) /\ Scheduled(jobs[j]) => jobs[j].next # "none"

\* A due backup is started, unless it is edited, disabled or deleted, or the service
\* ends: no run that failed, hung, outlived its watcher or was left over blocks the others
\* for good.
DueBackupsRun ==
    \A j \in Job : (up /\ Due(j)) ~> (~up \/ ~Due(j))
=============================================================================
