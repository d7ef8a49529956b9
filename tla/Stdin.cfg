SPECIFICATION Spec
CONSTANTS
  Reader = {a, b}
  Wants = {"line", "bytes", "bytes_wait"}
  Text = {x}
  Inputs <- SmallInputs
  MaxReads = 2
  None = None
INVARIANTS
  AnswersAreTheInput
  WatchedWhileWaiting
PROPERTY ReadsEnd
