---------------------------- MODULE MCLogStream ----------------------------
(* Outputs: a progress line that has wrapped, a line end that chunks may cut, *)
(* a coloured one.                                                            *)
EXTENDS LogStream
MCOutputs == {<<"x", "x", "x", "cr", "x">>, <<"x", "cr", "lf", "cr", "x">>,
              <<"esc", "[", "0", "x", "x", "cr">>}
=============================================================================
