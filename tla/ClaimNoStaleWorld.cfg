SPECIFICATION Spec
CONSTANTS
  a = a
  b = b
  m = m
  Files <- TwoEntries
  Loads <- TwoEntriesLoads
  Primary <- TwoEntriesPrimary
  OpenFirst = {a, b, m}
  Notify = {"change"}
  MaxText = 1
  MaxRevision = 2
  None = None
INVARIANTS
  NoStaleWorld
