-------------------------------- MODULE MCWm --------------------------------
(* A screen of 4 x 3 pixels, the lowest of them the taskbar, and three       *)
(* windows that overlap, one of them wider than the screen; title bars are   *)
(* one pixel high and the close button is the last but one pixel of it.      *)
(* wm_redraw paints two windows.                                             *)
EXTENDS Wm

Rect(x, y, w, h) == [x |-> x, y |-> y, w |-> w, h |-> h]

MCWindows == <<Rect(1, 0, 3, 3), Rect(0, 1, 5, 2), Rect(1, 1, 2, 2)>>
MCClose == [inset |-> 2, top |-> 0, w |-> 1, h |-> 1]

\* Rows with a place to spare, where they do no harm.
MCModes == {[pitch |-> 4, back |-> TRUE], [pitch |-> 5, back |-> FALSE]}
WideRows == {[pitch |-> 5, back |-> TRUE]}
=============================================================================
