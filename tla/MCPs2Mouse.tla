----------------------------- MODULE MCPs2Mouse -----------------------------
(* A screen of 3 by 2; motions to both sides, by one and over the edge from  *)
(* the end of the 9-bit range; two bytes may wait in the controller.         *)
EXTENDS Ps2Mouse

MCMotions == {[dx |-> -1, dy |-> 1, buttons |-> 1], [dx |-> 1, dy |-> -256, buttons |-> 0]}

\* Both lines are off, the mouse is switched off; or the first of the two is on.
MCConfigs == {100, 69}

OneMotion == {[dx |-> 0, dy |-> 1, buttons |-> 0]}
=============================================================================
