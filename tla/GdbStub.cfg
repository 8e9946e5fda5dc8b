SPECIFICATION Spec
CONSTANTS
  Values = {0, 1}
  Ops = {"g", "m", "P", "PP", "M", "MM", "c", "cAA", "D", "R", "k"}
  BUFMAX = 3
  MaxTries = 1
  MaxFaults = 2
  MaxTraps = 2
INVARIANTS BeliefTrue OnlyWhatIsAsked
PROPERTIES Answered
CHECK_DEADLOCK FALSE
