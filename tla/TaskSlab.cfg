SPECIFICATION Spec
CONSTANTS
  Task = {a, b, c, d}
  NoTask = NoTask
SYMMETRY Symmetry
INVARIANTS
  WakesOnlyItsOwn
  UnsettledIsFound
  SlabIsPeakSized
PROPERTY ReuseIsInvisible
