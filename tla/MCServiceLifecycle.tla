------------------------ MODULE MCServiceLifecycle ------------------------
(* Model values for the TLC runs of ServiceLifecycle.                       *)
EXTENDS ServiceLifecycle

CONSTANTS t1, g1
OneTask == {t1}
OneGpu == {g1}
NoTask == {}
=============================================================================
