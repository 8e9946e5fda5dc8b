SPECIFICATION StdinSpec
CONSTANTS
  Procs = {p1, p2, p3}
  Messages = {m1, m2, m3}
  NbQueue = 1
  MaxSize = 1
  Allowed = {}
  BufSize = 1
  MaxLength = 2
  MaxPrio = 2
  MaxString = 2
  AnyOne = AnyOne
SYMMETRY Symmetry
INVARIANTS KeysInOrder LineIsEdited
CHECK_DEADLOCK FALSE
