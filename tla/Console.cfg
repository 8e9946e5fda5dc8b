SPECIFICATION Spec
CONSTANTS
  Width = 5
  Height = 2
  TabSize = 2
  Bytes = {8, 9, 10, 12, 13, 27, 66, 70, 100, 127, 150}
  ClockLength = 2
INVARIANTS TypeOK DeletionNeverScrolls TimeShown
PROPERTIES ClockKeepsText RefinesTerminal
