----------------------------- MODULE Framebuffer ----------------------------
(***************************************************************************)
(* Drawing (src/src/fb.c).  A framebuffer is memory, m: a function from    *)
(* the places of its pixels to colours, `pitch` places to a row of which   *)
(* the first Width are seen.  Coordinates and extents are unsigned 32-bit  *)
(* numbers, whatever the caller took them for.                             *)
(***************************************************************************)
EXTENDS Integers, Sequences

CONSTANTS
  Width, Height,   \* g_fb.width, g_fb.height
  U32,             \* 2^32
  GlyphW, GlyphH   \* 8 and 16

ASSUME FramebufferAssumption ==
  /\ Width \in Nat /\ Height \in Nat /\ U32 \in Nat \ {0}
  /\ GlyphW \in Nat \ {0} /\ GlyphH \in Nat

\* pixel_ptr
Place(pitch, x, y) == y * pitch + x

fb_put_pixel(m, pitch, x, y, color) ==
  IF x >= Width \/ y >= Height THEN m ELSE [m EXCEPT ![Place(pitch, x, y)] = color]

\* Mutant of Counts.
Counts_Unclipped(from, n, bound, k) == from <= k /\ k < (from + n) % U32

\* k is a value of a loop variable that counts from `from` below from + n, in
\* unsigned arithmetic, and below the bound.
Counts(from, n, bound, k) == from <= k /\ k < (from + n) % U32 /\ k < bound

\* The place p belongs to the rectangle.
Covers(pitch, x, y, w, h, p) == Counts(x, w, Width, p % pitch) /\ Counts(y, h, Height, p \div pitch)

fb_fill_rect(m, pitch, x, y, w, h, color) ==
  [p \in DOMAIN m |-> IF Covers(pitch, x, y, w, h, p) THEN color ELSE m[p]]

\* The k-th pixel of a glyph at x, y, in the loops' order; `set` are those of the
\* glyph, and the others are put only if opaque.
DrawPixel(m, pitch, x, y, k, set, fg, bg, opaque) ==
  LET at == <<k % GlyphW, k \div GlyphW>>
  IN  IF at \in set \/ opaque
      THEN fb_put_pixel(m, pitch, (x + at[1]) % U32, (y + at[2]) % U32,
                        IF at \in set THEN fg ELSE bg)
      ELSE m

DrawGlyph(m, pitch, x, y, set, fg, bg, opaque) ==
  LET drawn[k \in 0 .. (GlyphW * GlyphH)] ==
        IF k = 0 THEN m ELSE DrawPixel(drawn[k - 1], pitch, x, y, k - 1, set, fg, bg, opaque)
  IN  drawn[GlyphW * GlyphH]

fb_draw_char(m, pitch, x, y, set, fg, bg) == DrawGlyph(m, pitch, x, y, set, fg, bg, TRUE)

\* Text, as the sequence of its glyphs.
fb_draw_text(m, pitch, x, y, glyphs, fg, bg) ==
  LET drawn[k \in 0 .. Len(glyphs)] ==
        IF k = 0 THEN m
        ELSE fb_draw_char(drawn[k - 1], pitch, (x + (k - 1) * GlyphW) % U32, y, glyphs[k], fg, bg)
  IN  drawn[Len(glyphs)]

fb_draw_text_transparent(m, pitch, x, y, glyphs, fg) ==
  LET drawn[k \in 0 .. Len(glyphs)] ==
        IF k = 0 THEN m
        ELSE DrawGlyph(drawn[k - 1], pitch, (x + (k - 1) * GlyphW) % U32, y, glyphs[k], fg, fg,
                       FALSE)
  IN  drawn[Len(glyphs)]

fb_blit(m, pitch, x, y, pixels, w, h) ==
  LET put[k \in 0 .. (w * h)] ==
        IF k = 0 THEN m
        ELSE fb_put_pixel(put[k - 1], pitch, (x + ((k - 1) % w)) % U32, (y + ((k - 1) \div w)) % U32,
                          pixels[k])
  IN  put[w * h]
=============================================================================
