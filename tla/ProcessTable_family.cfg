CONSTANTS
  N = 4
  MaxPrio = 2
  MaxClock = 0
  Calls = {"start", "exit", "kill", "waitpid"}
  Allowed = {"orphans", "stop_user", "no_memory"}
SPECIFICATION Spec
INVARIANTS CleaningExact CleaningOnTop WaitersHaveWakers ResumedCallsValid TableAgrees
           BoundedReentrance
