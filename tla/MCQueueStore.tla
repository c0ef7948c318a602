---------------------------- MODULE MCQueueStore ----------------------------
(* Instances of QueueStore for TLC.                                          *)
EXTENDS QueueStore

OneBelowZero == -1
NoPrerequisites == {{}}
AnyPrerequisites == SUBSET Task
=============================================================================
