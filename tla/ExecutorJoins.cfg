SPECIFICATION Spec
CONSTANTS
  Root = root
  Task = {root, a, b}
  Nursery = {n}
  Timer = {s, r}
  None = None
  Fuel = 3
  Ops = {"spawn", "sleep", "yield", "await", "settle_all", "race", "panic"}
SYMMETRY Symmetry
INVARIANTS
  NoLostWake
  ExitLeavesNothingRunnable
