----------------------------- MODULE MCKeyboard -----------------------------
(* A shift key, both control keys, alt, caps lock and a letter for the       *)
(* properties that hold; both shift keys and a letter for the one that does  *)
(* not.  Three bytes may wait, so that a prefix, its code and a later key    *)
(* are on the wire together.                                                 *)
EXTENDS Keyboard

Plain(codes) == [code : codes, ext : {FALSE}]
Extended(codes) == [code : codes, ext : {TRUE}]

MCKeys ==
  Plain({"shift2A", "ctrl", "alt", "caps", "letter"}) \cup Extended({"ctrl"})

TwoShifts == Plain({"shift2A", "shift36", "letter"})
=============================================================================
