--------------------------- MODULE MCTerminalPage ---------------------------
(* Two sessions, of which one is open at first; they differ in nothing.      *)
EXTENDS TerminalPage, TLC
Symmetric == Permutations(Session)
=============================================================================
