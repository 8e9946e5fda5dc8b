SPECIFICATION Spec
CONSTANTS
  HeapStart = 7
  HeapEnd = 24
  PageSize = 8
  MaxFast = 3
  MinLarge = 4
  LargeSizes = {8, 12}
  Threshold = 7
  Lengths = {1, 2, 4}
  MaxLive = 3
INVARIANTS TagsAgree BinsAgree BlocksIntact BestFit
