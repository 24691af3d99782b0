----------------------------- MODULE InputLoop ------------------------------
(***************************************************************************)
(* The main loop of kernel_main (src/src/kernel.c) with the three          *)
(* interrupt handlers that feed it: keyboard, mouse and timer.  The queue  *)
(* of keys is the component KeyQueue.  Interrupts are taken between any    *)
(* two steps of the loop, except while a program runs (IF is clear in ring *)
(* 3 and in system calls), and they end `hlt`.                             *)
(***************************************************************************)
EXTENDS Naturals

CONSTANTS
  EVENT_QUEUE, Event, NoEvent,   \* see KeyQueue
  MouseState,     \* [pos, buttons] records: what packets make of the mouse
  RedrawPeriod,   \* 100 ticks: repaint at least this often, for the clock
  MaxKeyBurst     \* bound: keys typed between two sleeps of the main loop

ASSUME QueueAssumption == EVENT_QUEUE \in Nat /\ EVENT_QUEUE > 1

VARIABLES
  queue, q_head, q_tail, copied, kev, got,   \* see KeyQueue
  pc,        \* where the main loop is
  mouse,     \* the driver's mouse_state_t
  dirty,     \* mouse.c's flag: a packet has arrived
  ms,        \* the main loop's copy of the mouse state
  seen,      \* the mouse state wm_handle_mouse was last called with
  wm_dirty,  \* wm.c's flag: something must be repainted
  waited,    \* timer_ticks() - last_redraw, up to RedrawPeriod
  burst      \* keys typed since the main loop last slept

keyVars == <<queue, q_head, q_tail, copied, kev, got>>
mouseVars == <<mouse, dirty, ms, seen>>
vars == <<keyVars, pc, mouseVars, wm_dirty, waited, burst>>

K == INSTANCE KeyQueue

\* The terminal has printed its greeting; mouse_init put the cursor in the middle.
Init ==
  /\ K!Init
  /\ pc = "sti"
  /\ mouse \in MouseState /\ ms = mouse /\ seen = mouse /\ dirty = FALSE
  /\ wm_dirty = TRUE
  /\ waited \in 0 .. RedrawPeriod
  /\ burst = 0

Goto(from, to) == pc = from /\ pc' = to

-----------------------------------------------------------------------------
(* The main loop *)

loop_top ==
  Goto("sti", "keys") /\ UNCHANGED <<keyVars, mouseVars, wm_dirty, waited, burst>>

\* while (kbd_get_event(&kev)) wm_handle_key(kev);
key_copy ==
  /\ Goto("keys", "take")
  /\ K!get_copy
  /\ UNCHANGED <<mouseVars, wm_dirty, waited, burst>>

key_take ==
  /\ Goto("take", "key")
  /\ K!get_advance
  /\ UNCHANGED <<mouseVars, wm_dirty, waited, burst>>

\* The focused window's handler: it may print, and so invalidate the window,
\* and it may run a program to its end.
wm_handle_key ==
  /\ Goto("key", "keys") \/ Goto("key", "program") \/ Goto("program", "keys")
  /\ wm_dirty' \in {wm_dirty, TRUE}
  /\ UNCHANGED <<keyVars, mouseVars, waited, burst>>

\* Mutant of keys_done.
keys_done_Early ==
  /\ Goto("keys", "mouse")
  /\ UNCHANGED <<keyVars, mouseVars, wm_dirty, waited, burst>>

keys_done ==
  /\ Goto("keys", "mouse")
  /\ K!Empty
  /\ UNCHANGED <<keyVars, mouseVars, wm_dirty, waited, burst>>

\* if (mouse_dirty()): the state is copied field by field, handled, and only
\* then the flag is cleared.
mouse_get_position ==
  /\ Goto("mouse", "get")
  /\ dirty
  /\ ms' = [ms EXCEPT !.pos = mouse.pos]
  /\ UNCHANGED <<keyVars, mouse, dirty, seen, wm_dirty, waited, burst>>

mouse_get_buttons ==
  /\ Goto("get", "click")
  /\ ms' = [ms EXCEPT !.buttons = mouse.buttons]
  /\ UNCHANGED <<keyVars, mouse, dirty, seen, wm_dirty, waited, burst>>

wm_handle_mouse ==
  /\ Goto("click", "clear")
  /\ seen' = ms
  /\ wm_dirty' \in {wm_dirty, TRUE}
  /\ UNCHANGED <<keyVars, mouse, dirty, ms, waited, burst>>

mouse_clear_dirty ==
  /\ Goto("clear", "paint")
  /\ dirty' = FALSE
  /\ UNCHANGED <<keyVars, mouse, ms, seen, wm_dirty, waited, burst>>

\* Mutant of mouse_clean.
mouse_clean_Always ==
  /\ Goto("mouse", "paint")
  /\ UNCHANGED <<keyVars, mouseVars, wm_dirty, waited, burst>>

mouse_clean ==
  /\ Goto("mouse", "paint")
  /\ ~dirty
  /\ UNCHANGED <<keyVars, mouseVars, wm_dirty, waited, burst>>

\* Repaint when a window asked for it or the clock is due.
paint ==
  /\ UNCHANGED <<keyVars, mouseVars, wm_dirty, burst>>
  /\ \/ /\ Goto("paint", "redraw")
        /\ wm_dirty \/ waited >= RedrawPeriod
        /\ waited' = 0
     \/ /\ Goto("paint", "hlt")
        /\ ~(wm_dirty \/ waited >= RedrawPeriod)
        /\ UNCHANGED waited

wm_redraw ==
  /\ Goto("redraw", "hlt")
  /\ wm_dirty' = FALSE
  /\ UNCHANGED <<keyVars, mouseVars, waited, burst>>

hlt ==
  /\ Goto("hlt", "halted")
  /\ burst' = 0
  /\ UNCHANGED <<keyVars, mouseVars, wm_dirty, waited>>

Main ==
  \/ loop_top \/ key_copy \/ key_take \/ wm_handle_key \/ keys_done
  \/ mouse_get_position \/ mouse_get_buttons \/ wm_handle_mouse
  \/ mouse_clear_dirty \/ mouse_clean \/ paint \/ wm_redraw \/ hlt

-----------------------------------------------------------------------------
(* Interrupts: they return to where the loop was, or wake it from hlt *)

Interrupt ==
  /\ pc # "program"
  /\ pc' = IF pc = "halted" THEN "sti" ELSE pc

kbd_irq(ev) ==
  /\ Interrupt
  /\ burst < MaxKeyBurst
  /\ burst' = burst + 1
  /\ K!enqueue(ev)
  /\ UNCHANGED <<mouseVars, wm_dirty, waited>>

mouse_irq(state) ==
  /\ Interrupt
  /\ mouse' = state
  /\ dirty' = TRUE
  /\ UNCHANGED <<keyVars, ms, seen, wm_dirty, waited, burst>>

timer_irq ==
  /\ Interrupt
  /\ waited' = IF waited < RedrawPeriod THEN waited + 1 ELSE waited
  /\ UNCHANGED <<keyVars, mouseVars, wm_dirty, burst>>

-----------------------------------------------------------------------------
Next ==
  \/ Main
  \/ \E ev \in Event : kbd_irq(ev)
  \/ \E state \in MouseState : mouse_irq(state)
  \/ timer_irq

Spec == Init /\ [][Next]_vars

\* The processor keeps executing the loop, programs end, and the timer keeps
\* ticking: a tick that falls into a program stays pending at the interrupt
\* controller until IF is set again, so it is not lost by being shut out again
\* and again (strong fairness).
FairSpec == Spec /\ WF_vars(Main) /\ SF_vars(timer_irq)

-----------------------------------------------------------------------------
(* Properties *)

\* The loop and the interrupts use the key queue as two parties may: what it
\* promises in isolation it keeps here.
KeysComeInOrder == K!BF!Spec

\* Every key that was queued reaches the window manager, even one that
\* arrives between the empty test and hlt, when its own interrupt wakes nobody.
QueuedKeysHandled ==
  \A ev \in Event :
    (\E i \in 1 .. K!Waiting : queue[K!Place(i)] = ev) ~> (pc = "key" /\ got = ev)

\* A mouse packet that does not arrive while another is handled makes the
\* window manager look at the mouse again.
MouseNoticed ==
  dirty /\ pc \notin {"get", "click", "clear"} ~> pc = "click"

-----------------------------------------------------------------------------
(* What the documentation says and the code does not do *)

\* docs/STATUS.md: "mouse cursor tracks injected PS/2 packets".  Outside the
\* handling of a packet, with the flag clear, the cursor is where the mouse is.
CursorTracksMouse ==
  ~dirty /\ pc \notin {"get", "click", "clear"} => seen = mouse
=============================================================================
