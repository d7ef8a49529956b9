SPECIFICATION Spec
CONSTANTS
  Root = root
  Task = {root, a, b}
  Nursery = {n}
  Timer = {s}
  None = None
  Fuel = 2
  Ops = {"spawn", "nursery", "detached", "cancel", "sleep", "yield", "await", "panic", "guard"}
INVARIANT NoFreeFailureIsSilent
PROPERTIES
  LoopEnds
  JoinEnds
