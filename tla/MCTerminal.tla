----------------------------- MODULE MCTerminal -----------------------------
(* Five lines of four bytes; the window shows two lines of three characters; *)
(* commands have up to four.  Output scrolls by three lines at most, goes    *)
(* back and over its first character, wraps, or ends mid-line.               *)
EXTENDS Terminal

MCGreeting == <<"a", "newline">>
MCPrompt == <<"space">>
MCOutputs ==
  {<<"a", "newline">>, <<"a", "a", "return", "space">>, <<"a", "a", "a", "a">>,
   <<"newline", "backspace", "a", "newline">>}
=============================================================================
