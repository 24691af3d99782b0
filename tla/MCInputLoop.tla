---------------------------- MODULE MCInputLoop -----------------------------
(* Three slots: two keys typed just before `hlt` and one more overfill the   *)
(* ring.  Two mouse states that differ in both fields; a repaint every other *)
(* tick.                                                                     *)
EXTENDS InputLoop

MCMouseState == {[pos |-> 1, buttons |-> 0], [pos |-> 2, buttons |-> 1]}
=============================================================================
