SPECIFICATION Spec
CONSTANTS
  CRT_ROWS = 3
  CRT_COLS = 2
  Key <- Keys
  Make <- MakeCodes
  Extended <- ExtendedKeys
  SerialChar <- SerialChars
  Output <- Outputs
  Prompt = ">"
  BUFLEN = 3
  MaxHeld = 3
  MaxWaiting = 1
INVARIANTS
  LineShown
  ModifiersHeld
  RebootMeant
  CursorOnDisplay
