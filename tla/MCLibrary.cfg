SPECIFICATION Spec
CONSTANTS
  Word = 2
  Width = 5
  Half = 4
  MaxText = 5
  Area = 6
INVARIANTS StringsAgree NumbersExact OutputComplete
CHECK_DEADLOCK FALSE
