SPECIFICATION Spec
CONSTANTS
  x = x
  y = y
  m = m
  Sources = {x, y}
  Memo = m
  Watched = {x, m}
  ChildCells = {y}
  Calls = {"set", "dispose", "attach", "turn", "flush", "defer", "late", "suspend", "throw"}
  MaxId = 4
  MaxTurns = 2
  MaxCalls = 6
INVARIANTS
  BrokenTurnsDrain
