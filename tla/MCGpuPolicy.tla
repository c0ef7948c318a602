---------------------------- MODULE MCGpuPolicy ----------------------------
(* One GPU, a task that needs it to itself and two with memory budgets of    *)
(* which one holds its memory in advance, the tick of the loop and one more. *)
EXTENDS GpuPolicy

Wants_all == [t \in Task |-> Gpu]
CONSTANTS x, b, c, Now
Budget_bc == [t \in Task |-> IF t = x THEN 0 ELSE 1]
Reserve_b == [t \in Task |-> IF t = b THEN 1 ELSE 0]
=============================================================================
