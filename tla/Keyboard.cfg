SPECIFICATION Spec
CONSTANTS
  Keys = {3, 29, 42, 54, 56, 69, 79, 103, 119}
  MaxHeld = 3
  MaxOthers = 1
  MaxLost = 1
  PadValues = 4
  CharValues = 2
  StringLength = 2
  BufSize = 1
  MaxHandlers = 2
INVARIANTS ModifiersAgree LocksAgree NumberPending
