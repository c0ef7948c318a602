---------------------------- MODULE MCTaskBoard ----------------------------
(* Two tasks that wait, or two that run, and an id for a third.              *)
EXTENDS TaskBoard

CONSTANTS a, b, c
TwoTasks == {<<<<a, b>>, <<>>, 0>>, <<<<>>, <<a, b>>, 1>>}
=============================================================================
