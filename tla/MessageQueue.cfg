SPECIFICATION Spec
CONSTANTS
  Procs = {p1, p2, p3, p4}
  NbQueue = 2
  MaxSize = 2
  Messages = {m1, m2, m3}
  MaxPrio = 2
  Allowed = {}
SYMMETRY Symmetry
INVARIANTS WaitersExact AnswersAgree NoMessageTwice
PROPERTY NoMessageLost
CHECK_DEADLOCK FALSE
