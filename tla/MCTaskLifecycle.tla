-------------------------- MODULE MCTaskLifecycle --------------------------
(* Model values for the TLC runs of TaskLifecycle.  In the run of the safety *)
(* properties t1 is launched twice and t2, which it meets in the queues and  *)
(* in requests to all tasks, once.                                           *)
EXTENDS TaskLifecycle

CONSTANTS t1, t2, g1, g2
TwoTasks == {t1, t2}
OneTask == {t1}
TwoGpus == {g1, g2}
OneGpu == {g1}
NoTask == {}
OnlyT2 == {t2}
=============================================================================
