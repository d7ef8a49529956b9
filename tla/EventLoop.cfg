SPECIFICATION Spec
CONSTANTS
  Timer = {s, r}
  Source = {listener, stdin}
  Blocking = {stdin}
  Interval = 1
  MaxDelay = 3
  MaxSteps = 5
INVARIANTS
  NeverWaitsPastADeadline
  SourcesAreWatched
  EndsOnlyWhenIdle
PROPERTIES
  ArrivalsAreServed
  TimersFire
  ClosedLoopEnds
