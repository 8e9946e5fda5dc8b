CONSTANTS
  N = 6
  MaxPrio = 2
  MaxClock = 0
  Calls = {"start", "exit", "waitpid"}
  Allowed = {"orphans"}
SPECIFICATION Spec
INVARIANT NoPanic
