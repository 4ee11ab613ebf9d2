CONSTANTS
  Elem = {a, b}
  None = None
  MinLen = 4
  MaxCount = 9
SPECIFICATION Spec
SYMMETRY Symmetry
INVARIANT OnlyLiveSlots
INVARIANT NotTooLarge
PROPERTY RefinesFifo
CHECK_DEADLOCK FALSE
