SPECIFICATION Spec
CONSTANTS
  Conn = {c}
  Requests <- SmallRequests
  Task = {h, t}
  Handler = h
  Cap = 2
  Slice = 2
  MaxOps = 2
  Statuses = {"body", "bare", "stream"}
  Listeners = {"close"}
INVARIANTS
  BodyIsTheClients
  ReadersAreServed
  OneAnswer
PROPERTIES
  DeclinedStaysOnTheWire
  AnswerOutlivesTheClose
  StopEnds
