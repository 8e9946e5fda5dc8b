CONSTANTS
  N = 4
  MaxPrio = 3
  MaxClock = 1
  Calls = {"start", "exit", "kill", "waitpid", "wait_clock", "message", "chprio"}
  Allowed = {"kill_sleeper", "kill_init"}
SPECIFICATION Spec
INVARIANTS TypeOK StopsHaveCauses StatesExact HighestPriorityRuns
PROPERTY SleepersKept
