------------------------------ MODULE MCBackups ------------------------------
(* Backups for TLC: one job is there at first. *)
EXTENDS Backups
CONSTANTS j1, j2
TwoJobs == {j1, j2}
FirstJob == {j1}
=============================================================================
