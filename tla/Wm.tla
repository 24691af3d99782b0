--------------------------------- MODULE Wm ---------------------------------
(***************************************************************************)
(* The window manager (src/src/wm.c): the stack of windows, the focus,     *)
(* what a mouse packet makes of them, and what is painted of them, on the  *)
(* pixels of Framebuffer.  kernel_main creates the windows one by one and  *)
(* paints; then its main loop hands over mouse packets, and nothing else   *)
(* reaches the windows.  Glyphs are left out, and so are the arrow at the  *)
(* pointer and the field `visible`, which is 1 in every window.            *)
(***************************************************************************)
EXTENDS Integers, SequencesExt, FiniteSetsExt

CONSTANTS
  Width, Height,    \* g_fb.width, g_fb.height
  U32,              \* 2^32
  Modes,            \* what the boot may find: [pitch, back], the places in a row
                    \* of the framebuffer and whether malloc gave a back buffer
  TITLE_BAR_H,      \* height of a title bar
  WINDOW_BORDER,    \* width of the border
  TASKBAR_H,        \* height of the taskbar
  Close,            \* the close button: [inset, top, w, h], from the top right
  WM_MAX_WINDOWS,   \* windows that wm_redraw can paint
  Windows           \* the rectangles [x, y, w, h] kernel_main asks for, in order

Rectangle == [x : Int, y : Int, w : Nat, h : Nat]

\* No window begins left of the screen or above it, each has room for its frame,
\* and the numbers are small against 2^32.
ASSUME WmAssumption ==
  /\ Width \in Nat \ {0} /\ Height \in Nat \ {0}
  /\ U32 \in Nat /\ Width < U32 /\ Height < U32
  /\ Modes \subseteq [pitch : Nat, back : BOOLEAN] /\ \A m \in Modes : m.pitch >= Width
  /\ TITLE_BAR_H \in Nat /\ WINDOW_BORDER \in Nat
  /\ TASKBAR_H \in 0 .. Height
  /\ Close \in [inset : Nat, top : Nat, w : Nat, h : Nat]
  /\ Close.w <= Close.inset /\ Close.top + Close.h <= TITLE_BAR_H
  /\ WM_MAX_WINDOWS \in Nat \ {0}
  /\ Windows \in Seq(Rectangle)
  /\ \A n \in DOMAIN Windows :
       /\ Windows[n].x >= 0 /\ Windows[n].x + Windows[n].w < U32
       /\ Windows[n].y >= 0 /\ Windows[n].y + Windows[n].h < U32
       /\ Windows[n].w >= Close.inset /\ Windows[n].w >= 2 * WINDOW_BORDER
       /\ Windows[n].h >= TITLE_BAR_H + WINDOW_BORDER

VARIABLES
  list,      \* the windows from head to tail: front first
  rect,      \* window -> its rectangle
  flag,      \* the windows whose field `focused` is 1
  focused,   \* the window that gets the keys, or None
  dragging, drag_win, drag,   \* the drag: flag, window, offset [dx, dy]
  cursor,    \* cur_x, cur_y
  mode,      \* the framebuffer and the back buffer there are
  painted,   \* the areas the last wm_redraw painted, in order: [at, color]
  booted     \* the main loop has begun

dragVars == <<dragging, drag_win, drag>>
vars == <<list, rect, flag, focused, dragVars, cursor, mode, painted, booted>>

Fb == INSTANCE Framebuffer WITH GlyphW <- 8, GlyphH <- 16

None == 0
Pointer == [x : 0 .. (Width - 1), y : 0 .. (Height - 1)]
Packet == [x : 0 .. (Width - 1), y : 0 .. (Height - 1), left : BOOLEAN]

Init ==
  /\ list = <<>> /\ rect = << >>
  /\ flag = {} /\ focused = None
  /\ dragging = FALSE /\ drag_win = None /\ drag = [dx |-> 0, dy |-> 0]
  /\ cursor = [x |-> Width \div 2, y |-> Height \div 2]
  /\ mode \in Modes
  /\ painted = <<>>
  /\ booted = FALSE

-----------------------------------------------------------------------------
(* The stack of windows *)

\* wm_raise: w becomes the head.
Raised(w) == <<w>> \o RemoveFirst(list, w)

wm_focus(w) ==
  /\ flag' = (flag \ ToSet(list)) \cup {w}
  /\ focused' = w
  /\ list' = Raised(w)

\* Mutant of wm_destroy_window.
wm_destroy_window_FocusKept(w) ==
  /\ list' = RemoveFirst(list, w)
  /\ flag' = flag \ ToSet(list)
  /\ focused' = w

\* wm_destroy_window of the window that wm_focus has just raised.
wm_destroy_window(w) ==
  /\ list' = RemoveFirst(list, w)
  /\ flag' = flag \ ToSet(list)
  /\ focused' = None

-----------------------------------------------------------------------------
(* Painting *)

CloseButton(r) ==
  [x |-> r.x + r.w - Close.inset, y |-> r.y + Close.top, w |-> Close.w, h |-> Close.h]

TitleBar(r) == [x |-> r.x, y |-> r.y, w |-> r.w, h |-> TITLE_BAR_H]

\* set_client_geom
Client(r) ==
  [x |-> r.x + WINDOW_BORDER, y |-> r.y + TITLE_BAR_H,
   w |-> r.w - 2 * WINDOW_BORDER, h |-> r.h - TITLE_BAR_H - WINDOW_BORDER]

Taskbar == [x |-> 0, y |-> Height - TASKBAR_H, w |-> Width, h |-> TASKBAR_H]

\* The areas of window w, in the order they are painted.
wm_draw_window_frame(w, r, active) ==
  <<[at |-> r, color |-> <<w, "border">>],
    [at |-> TitleBar(r), color |-> <<w, IF active THEN "active" ELSE "title">>],
    [at |-> CloseButton(r), color |-> <<w, "close">>],
    [at |-> Client(r), color |-> <<w, "client">>]>>

\* The windows that are painted: the first WM_MAX_WINDOWS of the list.
Shown(l) == IF Len(l) < WM_MAX_WINDOWS THEN Len(l) ELSE WM_MAX_WINDOWS

\* Mutant of Frames.
Frames_FrontFirst(l, r, f) ==
  LET win(k) == l[1 + (k - 1) \div 4]
  IN  [k \in 1 .. (4 * Shown(l)) |->
         wm_draw_window_frame(win(k), r[win(k)], win(k) \in f)[1 + ((k - 1) % 4)]]

\* Their areas, from the last window to the first.
Frames(l, r, f) ==
  LET win(k) == l[Shown(l) - (k - 1) \div 4]
  IN  [k \in 1 .. (4 * Shown(l)) |->
         wm_draw_window_frame(win(k), r[win(k)], win(k) \in f)[1 + ((k - 1) % 4)]]

\* The desktop, the windows, the taskbar over them.
wm_redraw ==
  painted' =
    <<[at |-> [x |-> 0, y |-> 0, w |-> Width, h |-> Height], color |-> <<None, "desktop">>]>>
      \o Frames(list', rect', flag')
      \o <<[at |-> Taskbar, color |-> <<None, "taskbar">>]>>

Nothing == <<None, "nothing">>

\* The colour at place p of a memory after fb_fill_rect for each of the areas in
\* turn, whose coordinates and extents are taken for unsigned.
Filled(pitch, p) ==
  LET Covers(r) == Fb!Covers(pitch, r.x % U32, r.y % U32, r.w % U32, r.h % U32, p)
      over == {i \in DOMAIN painted : Covers(painted[i].at)}
  IN  IF over = {} THEN Nothing ELSE painted[Max(over)].color

\* The framebuffer at place p: the areas are painted there, or into the back
\* buffer, whose rows are Width wide and which is copied in one piece.
Framebuf(p) ==
  CASE ~mode.back -> Filled(mode.pitch, p)
    [] mode.back /\ p < Width * Height -> Filled(Width, p)
    [] OTHER -> Nothing

-----------------------------------------------------------------------------
(* kernel_main *)

wm_create_window ==
  /\ ~booted
  /\ Cardinality(DOMAIN rect) < Len(Windows)
  /\ LET w == Cardinality(DOMAIN rect) + 1
     IN  /\ rect' = [v \in DOMAIN rect \cup {w} |-> IF v = w THEN Windows[w] ELSE rect[v]]
         /\ list' = <<w>> \o list
         /\ flag' = {w}
         /\ focused' = w
  /\ UNCHANGED <<dragVars, cursor, mode, painted, booted>>

main_loop ==
  /\ ~booted /\ Cardinality(DOMAIN rect) = Len(Windows)
  /\ booted' = TRUE
  /\ UNCHANGED <<list, rect, flag, focused, dragVars, cursor, mode>>
  /\ wm_redraw

-----------------------------------------------------------------------------
(* wm_handle_mouse *)

PointIn(p, r) == /\ r.x <= p.x /\ p.x < r.x + r.w
                 /\ r.y <= p.y /\ p.y < r.y + r.h

InTitleBar(p, r) == p.y < r.y + TITLE_BAR_H

\* The first window in the list that the packet's point lies in.
Under(ms, w) ==
  \E i \in DOMAIN list :
    /\ w = list[i] /\ PointIn(ms, rect[w])
    /\ \A j \in 1 .. (i - 1) : ~PointIn(ms, rect[list[j]])

\* Mutant of StartDrag.
StartDrag_OffsetKept(w, ms) ==
  /\ dragging' = TRUE
  /\ drag_win' = w
  /\ drag' = [drag EXCEPT !.dx = ms.x]

StartDrag(w, ms) ==
  /\ dragging' = TRUE
  /\ drag_win' = w
  /\ drag' = [dx |-> ms.x - rect[w].x, dy |-> ms.y - rect[w].y]

\* The left button is down over w: close it, drag it, or leave it to the
\* window's own handler, which neither window has.
Click(w, ms) ==
  \/ /\ PointIn(ms, CloseButton(rect[w]))
     /\ wm_destroy_window(w)
     /\ UNCHANGED dragVars
  \/ /\ ~PointIn(ms, CloseButton(rect[w])) /\ InTitleBar(ms, rect[w])
     /\ wm_focus(w)
     /\ StartDrag(w, ms)
  \/ /\ ~PointIn(ms, CloseButton(rect[w])) /\ ~InTitleBar(ms, rect[w])
     /\ wm_focus(w)
     /\ UNCHANGED dragVars

ClickDesktop ==
  /\ flag' = flag \ {focused}
  /\ focused' = None
  /\ UNCHANGED <<list, dragVars>>

Release ==
  /\ dragging' = FALSE
  /\ drag_win' = None
  /\ UNCHANGED <<list, flag, focused, drag>>

\* There is no memory of the previous packet: a button that is held down
\* presses again with every packet until a drag begins.
Buttons(ms) ==
  \/ /\ ms.left /\ ~dragging
     /\ \E w \in ToSet(list) : Under(ms, w) /\ Click(w, ms)
  \/ /\ ms.left /\ ~dragging
     /\ ~\E w \in ToSet(list) : Under(ms, w)
     /\ ClickDesktop
  \/ /\ ms.left /\ dragging
     /\ UNCHANGED <<list, flag, focused, dragVars>>
  \/ ~ms.left /\ Release

\* A coordinate of a dragged window of the given extent: not left of 0, then
\* not beyond the screen.
Clamped(c, extent, bound) ==
  LET n == IF c < 0 THEN 0 ELSE c
  IN  IF n + extent > bound THEN bound - extent ELSE n

Dragged(r, ms) ==
  [x |-> Clamped(ms.x - drag'.dx, r.w, Width), y |-> Clamped(ms.y - drag'.dy, r.h, Height),
   w |-> r.w, h |-> r.h]

wm_handle_mouse(ms) ==
  /\ booted
  /\ Buttons(ms)
  /\ rect' = [w \in ToSet(list') |->
                IF dragging' /\ w = drag_win' THEN Dragged(rect[w], ms) ELSE rect[w]]
  /\ cursor' = [x |-> ms.x, y |-> ms.y]
  /\ wm_redraw
  /\ UNCHANGED <<mode, booted>>

Next ==
  \/ wm_create_window
  \/ main_loop
  \/ \E ms \in Packet : wm_handle_mouse(ms)

Spec == Init /\ [][Next]_vars

-----------------------------------------------------------------------------
(* Properties *)

\* What is seen at a point.
Seen(p) == Framebuf(Fb!Place(mode.pitch, p.x, p.y))

\* The rows that are copied are those of the framebuffer.
RowsFit == mode.back => mode.pitch = Width

\* The pixels of w can be painted: fb_fill_rect paints nothing of a rectangle
\* that begins left of the screen or above it.
OnScreen(w) == rect[w].x >= 0 /\ rect[w].y >= 0

\* Keys go to the window that is painted over all others, and to that one whose
\* title bar is shown as active, even when there are more windows than wm_redraw
\* paints; without a focus no title bar is.
KeysGoToTop ==
  /\ focused \in ToSet(list) \cup {None}
  /\ booted /\ RowsFit =>
    \A p \in Pointer :
      /\ Seen(p)[2] = "active" => Seen(p)[1] = focused
      /\ focused # None /\ ~PointIn(p, Taskbar) =>
           (OnScreen(focused) /\ PointIn(p, rect[focused]) => Seen(p)[1] = focused)

\* The pointer never slips off the window it drags, wherever the edges of the
\* screen stop the window, though it be larger than the screen.
DragKeepsPointer == dragging => PointIn(cursor, rect[drag_win])

\* A click takes what the user saw at the pointer, as long as there are no more
\* windows than wm_redraw paints: only the window that was seen there gets the
\* focus, only by its title bar is it dragged, only by its close button closed.
\* The taskbar takes no clicks: what lies under it does.
ClickTakesWhatIsSeen ==
  [][booted /\ RowsFit /\ ~dragging /\ Len(list) <= WM_MAX_WINDOWS =>
       \A w \in {v \in DOMAIN rect : OnScreen(v)} :
         ~PointIn(cursor', Taskbar) =>
           /\ focused' = w /\ focused # w => Seen(cursor')[1] = w
           /\ drag_win' = w => Seen(cursor') \in {<<w, "active">>, <<w, "title">>}
           /\ w \notin DOMAIN rect' => Seen(cursor') = <<w, "close">>]_vars

-----------------------------------------------------------------------------
(* What comments say and the code does not do *)

\* src/src/wm.c:233, "blit the back buffer to the real framebuffer": what is
\* seen is what was painted, however wide the rows of the framebuffer are.
BlitShowsAll == [][\A p \in Pointer : booted' => Seen(p)' # Nothing]_vars

\* src/src/wm.c:245, "find topmost window under cursor": a click on a window
\* that cannot be seen at the pointer does nothing to it.
TopmostIsSeen ==
  [][booted /\ RowsFit /\ ~dragging /\ Len(list) <= WM_MAX_WINDOWS =>
       \A w \in DOMAIN rect : focused' = w /\ focused # w => Seen(cursor')[1] = w]_vars
=============================================================================
