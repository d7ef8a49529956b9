SPECIFICATION Spec
CONSTANTS
  Root = root
  Task = {root, a, b}
  Nursery = {n, m}
  Timer = {s}
  None = None
  Fuel = 3
  Ops = {"spawn", "nursery", "cancel", "sleep", "panic", "timer", "timer_cancel", "timer_wait"}
SYMMETRY Symmetry
INVARIANTS
  NoLostWake
  FirstFailureWins
  CancelReachesExtent
  OrphansAreCancelled
  JoinedBeforeReturn
  CancelIsPrompt
PROPERTY TimerFirstSettlementWins
