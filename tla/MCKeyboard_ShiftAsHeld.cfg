CONSTANTS
  MaxWire = 3
  Keys <- TwoShifts
SPECIFICATION KbdSpec
INVARIANT
  ShiftAsHeld
