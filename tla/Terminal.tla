------------------------------ MODULE Terminal ------------------------------
(***************************************************************************)
(* The terminal (src/src/terminal.c): a buffer of lines, the command being *)
(* typed, and the shell.  A command runs to its end inside the handling of *)
(* its Enter key, a program too, so each key is one step.  Commands are    *)
(* known by what they print; glyphs and colours are left out.              *)
(***************************************************************************)
EXTENDS Naturals, SequencesExt

CONSTANTS
  TERM_MAXLINES,   \* lines in the buffer
  TERM_COLS,       \* characters in a line of the buffer and in a command
  Cols, Rows,      \* characters and lines that fit the window: t->cols, t->rows
  Letter,          \* printable characters; Blank is the space
  Greeting,        \* what terminal_create prints
  Prompt,          \* prompt_str
  Outputs          \* what commands and programs print

Blank == "space"
Char == Letter \cup {Blank}
Control == {"newline", "return", "backspace"}

ASSUME TerminalAssumption ==
  /\ TERM_MAXLINES \in Nat \ {0, 1}
  /\ TERM_COLS \in Nat /\ Cols \in 1 .. TERM_COLS /\ Rows \in Nat \ {0}
  /\ Letter \cap (Control \cup {"clear"}) = {}
  /\ Prompt \in Seq(Char)
  /\ {Greeting} \cup Outputs \subseteq Seq(Char \cup Control)

VARIABLES
  t,         \* the buffer: lines, nlines, cur_line, cur_col
  cmd,       \* the command typed so far: t->cmd, t->cmd_len
  put,       \* history: the text that the last key put on the terminal, or "clear"
  wrapped,   \* history: the typed command has run into a new line
  crashed    \* strncpy has run beyond its buffer

termVars == <<t, cmd, put, wrapped, crashed>>

Line == 0 .. (TERM_MAXLINES - 1)

-----------------------------------------------------------------------------
(* The buffer: each function from buffer to buffer *)

\* Mutant of new_line.
new_line_ScrollsDown(b) ==
  LET full == b.cur_line + 1 >= TERM_MAXLINES
      l == IF full THEN b.cur_line ELSE b.cur_line + 1
      moved == IF full THEN [i \in Line |-> b.lines[IF i > 0 THEN i - 1 ELSE i]]
                       ELSE b.lines
  IN  [lines |-> [moved EXCEPT ![l] = <<>>], cur_line |-> l, cur_col |-> 0,
       nlines |-> IF l + 1 > b.nlines THEN l + 1 ELSE b.nlines]

new_line(b) ==
  LET full == b.cur_line + 1 >= TERM_MAXLINES
      l == IF full THEN b.cur_line ELSE b.cur_line + 1
      moved == IF full THEN [i \in Line |-> b.lines[IF i < l THEN i + 1 ELSE i]]
                       ELSE b.lines
  IN  [lines |-> [moved EXCEPT ![l] = <<>>], cur_line |-> l, cur_col |-> 0,
       nlines |-> IF l + 1 > b.nlines THEN l + 1 ELSE b.nlines]

\* The character and the end of the string behind it.
Write(b, c) ==
  [b EXCEPT !.lines[b.cur_line] = Append(SubSeq(@, 1, b.cur_col), c),
            !.cur_col = @ + 1]

terminal_putc(b, c) ==
  CASE c = "newline" -> new_line(b)
    [] c = "return" -> [b EXCEPT !.cur_col = 0]
    [] c = "backspace" -> IF b.cur_col = 0 THEN b
                   ELSE [b EXCEPT !.cur_col = @ - 1,
                                  !.lines[b.cur_line] = SubSeq(@, 1, b.cur_col - 1)]
    [] OTHER -> IF b.cur_col < Cols THEN Write(b, c) ELSE Write(new_line(b), c)

terminal_print(b, s) ==
  LET after[k \in 0 .. Len(s)] ==
        IF k = 0 THEN b ELSE terminal_putc(after[k - 1], s[k])
  IN  after[Len(s)]

\* The other lines keep what they hold.
terminal_clear(b) ==
  [b EXCEPT !.nlines = 0, !.cur_line = 0, !.cur_col = 0, !.lines[0] = <<>>]

Created ==
  [lines |-> [l \in Line |-> <<>>], nlines |-> 1, cur_line |-> 0, cur_col |-> 0]

TermInit ==
  /\ t = terminal_print(terminal_print(Created, Greeting), Prompt)
  /\ cmd = <<>> /\ put = <<>> /\ wrapped = FALSE /\ crashed = FALSE

-----------------------------------------------------------------------------
(* term_key and the shell *)

\* strncpy(cmd, t->cmd, TERM_COLS): when the source has no end within the
\* count, the count passes 0 and the padding does not stop.
Copied == Len(cmd) < TERM_COLS

\* What a command may print; one of blanks only is none.
Answers == IF ToSet(cmd) \subseteq {Blank} THEN {<<>>} ELSE Outputs

\* A line of its own, what the command prints, the prompt.
exec_command ==
  /\ Copied
  /\ \E s \in Answers : put' = <<"newline">> \o s \o Prompt
  /\ t' = terminal_print(t, put')
  /\ UNCHANGED crashed

\* The command `clear`.
exec_clear ==
  /\ Copied /\ ~ (ToSet(cmd) \subseteq {Blank})
  /\ put' = <<"clear">>
  /\ t' = terminal_print(terminal_clear(terminal_putc(t, "newline")), Prompt)
  /\ UNCHANGED crashed

exec_overrun ==
  /\ ~Copied
  /\ put' = <<"newline">> /\ t' = terminal_putc(t, "newline")
  /\ crashed' = TRUE

key_enter ==
  /\ exec_command \/ exec_clear \/ exec_overrun
  /\ cmd' = <<>> /\ wrapped' = FALSE

\* Mutant of key_backspace.
key_backspace_NoEcho ==
  /\ cmd' = IF cmd = <<>> THEN cmd ELSE Front(cmd)
  /\ put' = <<>>
  /\ UNCHANGED <<t, wrapped, crashed>>

key_backspace ==
  /\ IF cmd = <<>>
     THEN /\ put' = <<>>
          /\ UNCHANGED <<t, cmd>>
     ELSE /\ cmd' = Front(cmd)
          /\ put' = <<"backspace">> /\ t' = terminal_putc(t, "backspace")
  /\ UNCHANGED <<wrapped, crashed>>

key_char(c) ==
  /\ IF Len(cmd) < TERM_COLS
     THEN /\ cmd' = Append(cmd, c)
          /\ put' = <<c>> /\ t' = terminal_putc(t, c)
          /\ wrapped' = (wrapped \/ t.cur_col >= Cols)
     ELSE /\ put' = <<>>
          /\ UNCHANGED <<t, cmd, wrapped>>
  /\ UNCHANGED crashed

TermNext ==
  /\ ~crashed
  /\ key_enter \/ key_backspace \/ \E c \in Char : key_char(c)

TermSpec == TermInit /\ [][TermNext]_termVars

-----------------------------------------------------------------------------
(* term_draw *)

start == IF t.nlines > Rows THEN t.nlines - Rows ELSE 0

\* The lines that are counted and fit, from the top of the window.
Shown(row) == IF start + row < t.nlines THEN t.lines[start + row] ELSE <<>>

\* The rows in which the cursor is drawn, one or none.
CursorRows == {row \in 0 .. (Rows - 1) : start + row = t.cur_line}

-----------------------------------------------------------------------------
(* Properties *)

\* The window shows the cursor, however much has scrolled by; and as long as a
\* command fits the line it is typed on, the characters before the cursor are
\* those of the command, unless `clear` has left the line out of the count.  No
\* line outgrows its TERM_COLS + 1 bytes.
EchoShowsCommand ==
  /\ \A l \in Line : Len(t.lines[l]) <= TERM_COLS
  /\ CursorRows # {}
  /\ \A row \in CursorRows :
       ~wrapped /\ t.cur_line < t.nlines =>
         IsSuffix(cmd, SubSeq(Shown(row), 1, t.cur_col))

\* Where a character takes a cursor that has gone down some lines: a newline and
\* a character that finds no room in its line lead to the next one.
Advanced(p, c) ==
  CASE c = "newline" -> [down |-> p.down + 1, col |-> 0]
    [] c = "return" -> [down |-> p.down, col |-> 0]
    [] c = "backspace" -> [down |-> p.down, col |-> IF p.col = 0 THEN 0 ELSE p.col - 1]
    [] OTHER -> IF p.col < Cols THEN [down |-> p.down, col |-> p.col + 1]
                ELSE [down |-> p.down + 1, col |-> 1]

\* By how many lines a text moves the cursor down from column col.
LinesAdded(col, text) ==
  LET at[k \in 0 .. Len(text)] ==
        IF k = 0 THEN [down |-> 0, col |-> col] ELSE Advanced(at[k - 1], text[k])
  IN  at[Len(text)].down

\* The scrollback is never rewritten: whatever a key puts on the terminal, the
\* cursor moves down by the lines that this text adds, and the lines above it
\* stay as they are but for scrolling up together, by as many lines as the
\* buffer lacks.  Only `clear` begins anew.
ScrollbackKept ==
  [][put' = <<"clear">> \/
       LET n == LinesAdded(t.cur_col, put')
           d == IF t.cur_line + n < TERM_MAXLINES THEN 0
                ELSE t.cur_line + n + 1 - TERM_MAXLINES
       IN  /\ t'.cur_line = t.cur_line + n - d
           /\ \A l \in d .. (t.cur_line - 1) : t'.lines[l - d] = t.lines[l]]_termVars

-----------------------------------------------------------------------------
(* What comments and the documentation say and the code does not do *)

\* src/src/terminal.h:14, "total lines in the buffer", and :15, "index of the
\* active (input) line": the active line is one of those counted, and shown.
ActiveLineCounted == t.cur_line < t.nlines

\* docs/STATUS.md: "keyboard echoes typed characters".  The lines up to the
\* cursor, read on end, end with the command.
EchoedLines ==
  FoldLeft(LAMBDA s, l : s \o t.lines[l - 1], <<>>, [l \in 1 .. (t.cur_line + 1) |-> l])

EchoMatches == crashed \/ IsSuffix(cmd, EchoedLines)

\* docs/STATUS.md: "the terminal shell runs commands", those too that fill the
\* command buffer.
CommandsRun == ~crashed
=============================================================================
