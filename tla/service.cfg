CONSTANTS
  Shells = {s1, s2}
  Daemons = {d1, d2}
  MaxDeaths = 3
  Prompt = TRUE
SPECIFICATION Spec
INVARIANTS TypeOK OneDaemon RunningIsKnown UnbindStops
PROPERTIES RestartOnlyAfterDeath StaysUp
CHECK_DEADLOCK FALSE
