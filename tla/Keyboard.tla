------------------------------ MODULE Keyboard ------------------------------
(***************************************************************************)
(* Decoding scancodes (handle_byte of src/src/keyboard.c) against the      *)
(* keyboard that sends them.  The keyboard is external: it sends one make  *)
(* or break code per key, behind the prefix 0xE0 when the key is one of    *)
(* the extended ones, and the bytes wait on the wire until interrupts are  *)
(* enabled.  What becomes of the events is the module KeyQueue's matter.   *)
(***************************************************************************)
EXTENDS Naturals, Sequences

CONSTANT MaxWire   \* bound: bytes that wait at the controller

\* A code of scancode set 1 stands for the plain key that has it and for the
\* extended key that has it behind 0xE0.
Code == {"shift2A", "shift36", "ctrl", "alt", "caps", "letter", "digit"}
Key == [code : Code, ext : BOOLEAN]

Shift == {"shift2A", "shift36"}
CtrlKey == [code |-> "ctrl", ext |-> FALSE]
AltKey == [code |-> "alt", ext |-> FALSE]
ShiftKeys == [code : Shift, ext : {FALSE}]

CONSTANT Keys   \* the keys that are used
ASSUME KeysAssumption == Keys \subseteq Key

VARIABLES
  down,       \* keys held down
  wire,       \* bytes sent and not yet read, each with the state of the
              \* keyboard when its key was moved
  modifiers,  \* the driver's KEY_MOD_ flags
  extended,   \* the driver's flag: the previous byte was 0xE0
  event       \* the event enqueued last

kbdVars == <<down, wire, modifiers, extended, event>>

NoneYet == [code |-> "none", press |-> FALSE, ascii |-> "none", modifiers |-> {}]

KbdInit ==
  /\ down = {} /\ wire = <<>>
  /\ modifiers = {} /\ extended = FALSE
  /\ event = NoneYet

-----------------------------------------------------------------------------
(* The keyboard *)

Byte(code, press, key) == [code |-> code, press |-> press, key |-> key, held |-> down']

Bytes(k, press) ==
  IF k.ext THEN <<Byte("E0", TRUE, k), Byte(k.code, press, k)>>
           ELSE <<Byte(k.code, press, k)>>

Send(k, press) ==
  /\ wire' = wire \o Bytes(k, press)
  /\ Len(wire') <= MaxWire
  /\ UNCHANGED <<modifiers, extended, event>>

\* A key that stays down repeats its make code.
Press(k) == down' = down \cup {k} /\ Send(k, TRUE)

Release(k) == k \in down /\ down' = down \ {k} /\ Send(k, FALSE)

-----------------------------------------------------------------------------
(* The driver *)

Modifier(code) ==
  CASE code \in Shift -> {"SHIFT"} [] code = "ctrl" -> {"CTRL"}
    [] code = "alt" -> {"ALT"} [] OTHER -> {}

Toggle(flag, S) == IF flag \in S THEN S \ {flag} ELSE S \cup {flag}

\* The two maps: SHIFT selects the shifted one, CAPS turns letters to capitals.
Ascii(code, mods) ==
  IF "SHIFT" \in mods \/ (code = "letter" /\ "CAPS" \in mods)
  THEN "shifted" ELSE "plain"

\* Mutant of SetModifier.
SetModifier_Toggles(b) ==
  /\ Modifier(b.code) # {}
  /\ modifiers' = IF Modifier(b.code) \subseteq modifiers
                  THEN modifiers \ Modifier(b.code)
                  ELSE modifiers \cup Modifier(b.code)
  /\ UNCHANGED event

\* Shift, control and alt: their make codes set the flag and their break codes
\* clear it; there is one flag for both shift keys.
SetModifier(b) ==
  /\ Modifier(b.code) # {}
  /\ modifiers' = IF b.press THEN modifiers \cup Modifier(b.code)
                             ELSE modifiers \ Modifier(b.code)
  /\ UNCHANGED event

ToggleCaps(b) ==
  /\ b.code = "caps" /\ b.press
  /\ modifiers' = Toggle("CAPS", modifiers)
  /\ UNCHANGED event

Deliver(b) ==
  /\ Modifier(b.code) = {} /\ ~(b.code = "caps" /\ b.press)
  /\ event' = [code |-> b.code, press |-> b.press,
               ascii |-> IF b.press /\ b.code # "caps"
                         THEN Ascii(b.code, modifiers) ELSE "none",
               modifiers |-> modifiers]
  /\ UNCHANGED modifiers

\* Mutant of Prefix.
Prefix_NotKept(b) ==
  /\ b.code = "E0"
  /\ UNCHANGED <<extended, modifiers, event>>

Prefix(b) ==
  /\ b.code = "E0"
  /\ extended' = TRUE
  /\ UNCHANGED <<modifiers, event>>

SkipExtended(b) ==
  /\ b.code # "E0" /\ extended
  /\ extended' = FALSE
  /\ UNCHANGED <<modifiers, event>>

Decode(b) ==
  /\ b.code # "E0" /\ ~extended
  /\ SetModifier(b) \/ ToggleCaps(b) \/ Deliver(b)
  /\ UNCHANGED extended

handle_byte ==
  /\ wire # <<>>
  /\ wire' = Tail(wire)
  /\ UNCHANGED down
  /\ \E b \in {Head(wire)} : Prefix(b) \/ SkipExtended(b) \/ Decode(b)

KbdNext == (\E k \in Keys : Press(k) \/ Release(k)) \/ handle_byte

KbdSpec == KbdInit /\ [][KbdNext]_kbdVars

-----------------------------------------------------------------------------
(* Properties *)

\* An extended key -- the arrows, but also the right control and alt keys,
\* which share their codes with the left ones -- changes no flag and delivers
\* no event.
ExtendedIgnored ==
  [][wire # <<>> /\ wire' = Tail(wire) /\ Head(wire).key.ext =>
       UNCHANGED <<modifiers, event>>]_kbdVars

\* However long its byte waited, an event carries the control and alt flags of
\* the moment its key was moved.
ModifiersAsTyped ==
  [][event' # event =>
       /\ "CTRL" \in event'.modifiers <=> CtrlKey \in Head(wire).held
       /\ "ALT" \in event'.modifiers <=> AltKey \in Head(wire).held]_kbdVars

-----------------------------------------------------------------------------
(* What the documentation says and the code does not do *)

\* docs/STATUS.md: "PS/2 keyboard driver (scancode set 1, shift/caps-lock)":
\* when every byte has been read, SHIFT is set while a shift key is held.
ShiftAsHeld ==
  wire = <<>> => ("SHIFT" \in modifiers <=> \E k \in down : k \in ShiftKeys)
=============================================================================
