CONSTANTS
  Size = 3
  Items = {a, b, c}
  NoItem = NoItem
SPECIFICATION Spec
INVARIANT RingConsistent
PROPERTY RefinesFifo
