SPECIFICATION Spec
CONSTANTS
  a = a
  b = b
  m = m
  Files <- OneEntry
  Loads <- OneEntryLoads
  Primary <- OneEntryPrimary
  OpenFirst = {a}
  Notify = {"open", "change", "save", "close", "watched", "undo"}
  MaxText = 1
  MaxRevision = 3
  None = None
INVARIANTS
  ShownIsLanded
  OnlySkipsMiss
  SupersededIsCancelled
