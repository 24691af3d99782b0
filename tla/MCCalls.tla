------------------------------ MODULE MCCalls -------------------------------
(* The calls that are tried: all strings of a few bytes in two places, every *)
(* conversion on the values where signs and widths turn, pages of four bytes *)
(* with segments that start and end anywhere in the first three, tags of     *)
(* sizes that need padding, all vectors, rectangles on and off the screen.   *)
EXTENDS Calls

-----------------------------------------------------------------------------
\* Memory: one string at 1, one at 10, and what lies between and behind.
Texts(chars, n) == UNION {[1 .. k -> chars] : k \in 0 .. n}

Holding(s, t) ==
  [p \in 1 .. 16 |-> CASE p \in 1 .. Len(s) -> s[p]
                       [] p \in 10 .. (9 + Len(t)) -> t[p - 9]
                       [] p \in {Len(s) + 1, 10 + Len(t)} -> 0
                       [] OTHER -> 200]

OnStrings ==
  {[f |-> f, m |-> Holding(s, t), a |-> 1, b |-> 10, n |-> n] :
     f \in {"memcmp", "strcmp", "strncmp", "strspn", "strstr", "strcpy", "strncpy", "strcat"},
     s \in Texts({97, 225}, 3), t \in Texts({97, 225}, 2), n \in {0, 2, 4}}

OnOne ==
  {[f |-> f, m |-> Holding(s, <<>>), a |-> 1, b |-> 353, n |-> n] :
     f \in {"strlen", "strchr", "memset"}, s \in Texts({97, 225}, 3), n \in {0, 1, 97, 225}}

Counting == [p \in 1 .. 8 |-> p]

OnRanges ==
  {[f |-> f, m |-> Counting, a |-> a, b |-> b, n |-> n] :
     f \in {"memmove", "memcpy"}, a \in 1 .. 5, b \in 1 .. 5, n \in 0 .. 4}

MCLibCalls == OnStrings \cup {c \in OnOne : c.f = "memset" => c.n < 9} \cup OnRanges

-----------------------------------------------------------------------------
MCFormatCalls ==
  {[d |-> [left |-> l, zero |-> z, plus |-> p, space |-> sp, alt |-> al, width |-> w,
           prec |-> pr, long |-> lg, spec |-> spec],
    arg |-> arg, s |-> <<"a", "b", "c">>] :
     l \in BOOLEAN, z \in BOOLEAN, p \in BOOLEAN, sp \in BOOLEAN, al \in BOOLEAN,
     w \in {0, 2, 5}, pr \in {-1}, lg \in BOOLEAN, spec \in {"d", "u", "x", "X", "o", "p"},
     arg \in {0, 7, 8, 9, 15, 16, 127, 128, 255}}
  \cup
  {[d |-> [left |-> l, zero |-> FALSE, plus |-> FALSE, space |-> FALSE, alt |-> FALSE,
           width |-> w, prec |-> pr, long |-> FALSE, spec |-> spec],
    arg |-> 0, s |-> s] :
     l \in BOOLEAN, w \in {0, 2, 5}, pr \in {-1, 0, 2, 4}, spec \in {"s", "c", "%", "q"},
     s \in {<<"a">>, <<"a", "b", "c">>}}

MCSerialCalls == 0 .. (LongMod - 1)

MCBufferCalls ==
  {[size |-> n, text |-> [k \in 1 .. len |-> "c"]] : n \in 0 .. 6, len \in 0 .. 8}

-----------------------------------------------------------------------------
Segment0 ==
  {[load |-> TRUE, inside |-> TRUE, vaddr |-> v, filesz |-> f, memsz |-> m] :
     v \in {0, 1, 3, 4, 8, 10}, f \in {0, 1, 3, 4, 6}, m \in {1, 4, 6, 9}}

Others == {[load |-> FALSE, inside |-> TRUE, vaddr |-> 2, filesz |-> 1, memsz |-> 1],
           [load |-> TRUE, inside |-> FALSE, vaddr |-> 4, filesz |-> 2, memsz |-> 2]}

Headers == {s \in Segment0 : s.filesz <= s.memsz} \cup Others

MCLoadCalls ==
  {[ph |-> ph, frames |-> 9] : ph \in {<<>>} \cup (Headers \X Headers)}
  \cup {[ph |-> <<s>>, frames |-> n] : s \in Headers, n \in 0 .. 4}

MCStackCalls == {[top |-> top, nlen |-> n] : top \in {160, 168, 176}, n \in 1 .. 20}

-----------------------------------------------------------------------------
Module(name, addr, size) ==
  [type |-> MODULE_TAG, size |-> size,
   value |-> [cmdline |-> name, range |-> [addr |-> addr, size |-> 1]]]

Tags ==
  {Module("hello", 100, 22), Module("hello", 200, 22), Module("primes", 300, 23),
   Module("cat", 400, 20), Module("other", 500, 24)}
  \cup {[type |-> FRAMEBUFFER, size |-> 38, value |-> "screen"],
         [type |-> FRAMEBUFFER, size |-> 32, value |-> "other screen"],
        [type |-> 1, size |-> 9, value |-> NoImage]}

Words == {"run", "hello", "primes", "cat", "other"}

Commands ==
  {[k \in 1 .. n |-> Blank] \o <<"run">> \o [k \in 1 .. m |-> Blank] \o w :
     n \in 0 .. 1, m \in 1 .. 2, w \in {<<>>} \cup {<<x>> : x \in Words}}
  \cup {<<"run">>, <<Blank, "run">>, <<>>, <<Blank>>, <<"hello">>}

MCRunCalls ==
  {[tags |-> tags, names |-> <<"hello", "primes", "cat">>, cmd |-> cmd] :
     tags \in UNION {[1 .. n -> Tags] : n \in 0 .. 3}, cmd \in Commands}

-----------------------------------------------------------------------------
Addresses ==
  {[k \in 1 .. 8 |-> 16 * k], [k \in 1 .. 8 |-> IF k <= 3 THEN 255 ELSE 0],
   [k \in 1 .. 8 |-> IF k > 6 THEN 255 ELSE 240 - k]}

MCTableCalls ==
  {[tss |-> t, handler |-> h, n |-> n] : t \in Addresses, h \in Addresses,
                                         n \in {0, 13, 14, 32, 127, 128, 129, 255}}

MCTrapCalls == {[n |-> n, code |-> c] : n \in 0 .. 255, c \in {"0", "code"}}

\* A screen of 3 pixels by 2, coordinates of four bits.
MCDrawCalls ==
  {[f |-> "fb_fill_rect", x |-> x, y |-> y, w |-> w, h |-> h] :
     x \in 0 .. 15, y \in {0, 1, 2, 15}, w \in {0, 1, 2, 4, 15}, h \in {0, 1, 3, 15}}
  \cup {[f |-> f, x |-> x, y |-> y, w |-> 2 * GlyphW, h |-> GlyphH] :
     f \in {"fb_draw_text", "fb_draw_text_transparent"}, x \in 0 .. 15, y \in {0, 1, 2, 14, 15}}
  \cup {[f |-> "fb_blit", x |-> x, y |-> y, w |-> w, h |-> 2] :
     x \in 0 .. 15, y \in {0, 1, 15}, w \in 1 .. 4}
=============================================================================
