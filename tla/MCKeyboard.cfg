CONSTANTS
  MaxWire = 3
  Keys <- MCKeys
SPECIFICATION KbdSpec
PROPERTIES
  ExtendedIgnored
  ModifiersAsTyped
