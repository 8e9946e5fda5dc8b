CONSTANTS
  N = 4
  MaxPrio = 3
  MaxClock = 2
  Calls = {"start", "exit", "kill", "waitpid", "wait_clock"}
  Allowed = {}
SPECIFICATION FairSpec
PROPERTIES DeadAreCleaned BlockedWake RoundRobin
