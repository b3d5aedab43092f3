\* Two threads start, stop and wait over three runs; the bound on runs ends it.
SPECIFICATION Spec
CONSTANTS
  Caller = {c1, c2}
  MaxStarts = 3
CHECK_DEADLOCK FALSE
INVARIANTS TypeOK RunningIsKnown ReadyIsTrue
