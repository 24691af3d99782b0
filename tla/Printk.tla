------------------------------- MODULE Printk -------------------------------
(***************************************************************************)
(* Formatted output (src/src/printk.c): what kformat puts out for one      *)
(* conversion, what ksprintf leaves in its buffer, and the two ways        *)
(* serial.c has of printing numbers.                                       *)
(*                                                                         *)
(* Texts are sequences of characters.  A conversion is taken as parsed:    *)
(*   [left, zero, plus, space, alt, width, prec, long, spec]               *)
(* with the five flags of kformat, width 0 and prec -1 where none is given,*)
(* long for the lengths l and ll.  An argument is the value of a register. *)
(***************************************************************************)
EXTENDS Integers, SequencesExt

CONSTANTS
  IntMod,    \* 2^32: the values of an unsigned int
  LongMod,   \* 2^64: the values of a register
  Nibbles    \* 16: the hexadecimal digits of a register

ASSUME PrintkAssumption ==
  LET places[k \in 0 .. Nibbles] == IF k = 0 THEN 1 ELSE 16 * places[k - 1]
  IN  /\ Nibbles \in Nat \ {0} /\ LongMod = places[Nibbles]
      /\ IntMod \in 1 .. LongMod

Lower == <<"0","1","2","3","4","5","6","7","8","9","a","b","c","d","e","f">>
Upper == <<"0","1","2","3","4","5","6","7","8","9","A","B","C","D","E","F">>

\* u, and what is left of it after each of so many divisions.
Quotients(u, base, turns) ==
  LET rest[k \in 0 .. turns] == IF k = 0 THEN u ELSE rest[k - 1] \div base
  IN  rest

\* The loop over uval finds the digits of u until nothing is left, at the least
\* one; they are put out from the last one found.
Number(u, base, dg) ==
  LET rest == Quotients(u, base, u + 1)
      len == CHOOSE k \in 1 .. (u + 1) : rest[k] = 0 /\ (k = 1 \/ rest[k - 1] > 0)
  IN  [i \in 1 .. len |-> dg[(rest[len - i] % base) + 1]]

Times(n, c) == [k \in 1 .. n |-> c]

Signed(v, mod) == IF v >= mod \div 2 THEN v - mod ELSE v

\* The argument as it is fetched: an int but for l and ll.
Fetched(d, arg) ==
  LET mod == IF d.long \/ d.spec = "p" THEN LongMod ELSE IntMod
  IN  IF d.spec \in {"d", "i"} THEN Signed(arg % mod, mod) ELSE arg % mod

Base(d) == CASE d.spec \in {"x", "X", "p"} -> 16 [] d.spec = "o" -> 8 [] OTHER -> 10

\* What comes before the digits, apart from padding.
SignOf(d, value) ==
  IF value < 0 THEN <<"-">>
  ELSE IF d.plus THEN <<"+">> ELSE IF d.space THEN <<" ">> ELSE <<>>

Prefix0(d, digits) ==
  IF ~(d.alt \/ d.spec = "p") THEN <<>>
  ELSE CASE Base(d) = 16 -> <<"0", IF d.spec = "X" THEN "X" ELSE "x">>
         [] Base(d) = 8 -> IF digits[1] = "0" THEN <<>> ELSE <<"0">>
         [] OTHER -> <<>>

\* The room kformat takes a sign for: a space counts for two.
SignRoom(d, value) ==
  IF value < 0 \/ d.plus THEN 1 ELSE IF d.space THEN 2 ELSE 0

\* Padding with zeros comes before sign and prefix.
numeric(d, arg) ==
  LET value == Fetched(d, arg)
      digits == Number((IF value < 0 THEN -value ELSE value) % LongMod, Base(d),
                       IF d.spec = "X" THEN Upper ELSE Lower)
      prefix == Prefix0(d, digits)
      zero == d.zero \/ d.spec = "p"
      width == IF d.spec = "p" /\ d.width = 0 THEN 16 ELSE d.width
      pad == width - SignRoom(d, value) - Len(prefix) - Len(digits)
  IN  (IF d.left THEN <<>> ELSE Times(pad, IF zero THEN "0" ELSE " "))
        \o SignOf(d, value) \o prefix \o digits
        \o (IF d.left THEN Times(pad, " ") ELSE <<>>)

\* %s: precision cuts, width pads; flag 0 does nothing.
string(d, s) ==
  LET n == IF d.prec >= 0 /\ Len(s) > d.prec THEN d.prec ELSE Len(s)
      pad == Times(d.width - n, " ")
  IN  (IF d.left THEN <<>> ELSE pad) \o SubSeq(s, 1, n) \o (IF d.left THEN pad ELSE <<>>)

Numeric == {"d", "i", "u", "x", "X", "o", "p"}

\* One conversion; an unknown letter is put out with its percent sign.
kformat(d, arg, s) ==
  CASE d.spec \in Numeric -> numeric(d, arg)
    [] d.spec = "s" -> string(d, s)
    [] d.spec = "c" -> <<s[1]>>
    [] d.spec = "%" -> <<"%">>
    [] OTHER -> <<"%", d.spec>>

-----------------------------------------------------------------------------
(* ksprintf *)

\* Mutant of buf_out.
buf_out_PastEnd(sink, c) ==
  [sink EXCEPT !.buf = IF sink.len <= sink.size THEN [@ EXCEPT ![sink.len] = c] ELSE @,
               !.len = @ + 1]

\* One character goes to the buffer if a place for the NUL is left behind it.
buf_out(sink, c) ==
  [sink EXCEPT !.buf = IF sink.len + 1 < sink.size THEN [@ EXCEPT ![sink.len] = c] ELSE @,
               !.len = @ + 1]

\* The memory at buf, from offset 0, and what is returned.
ksprintf(buf, size, text) ==
  LET sink[k \in 0 .. Len(text)] ==
        IF k = 0 THEN [buf |-> buf, size |-> size, len |-> 0]
                 ELSE buf_out(sink[k - 1], text[k])
      s == sink[Len(text)]
      end == IF s.len < size THEN s.len ELSE size - 1
  IN  [buf |-> IF size > 0 THEN [s.buf EXCEPT ![end] = "NUL"] ELSE s.buf,
       returned |-> s.len]

-----------------------------------------------------------------------------
(* serial.c *)

\* Every four bits of the register, the highest first.
serial_hex(v) ==
  LET rest == Quotients(v, 16, Nibbles)
  IN  <<"0", "x">> \o [i \in 1 .. Nibbles |-> Lower[(rest[Nibbles - i] % 16) + 1]]

serial_dec(v) == Number(v, 10, Lower)

-----------------------------------------------------------------------------
(* Reading a text back *)

DigitValue(c) == (CHOOSE k \in 1 .. 16 : c \in {Lower[k], Upper[k]}) - 1

\* Read from the left, without spaces, signs and the letter of a prefix.
ReadBack(text, base) ==
  LET value[k \in 0 .. Len(text)] ==
        IF k = 0 THEN 0
        ELSE IF text[k] \in {" ", "+", "-", "x", "X"} THEN value[k - 1]
        ELSE value[k - 1] * base + DigitValue(text[k])
  IN  IF Contains(text, "-") THEN -value[Len(text)] ELSE value[Len(text)]
=============================================================================
