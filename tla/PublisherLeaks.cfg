SPECIFICATION PublisherSpec
CONSTANTS
  None = None
  Publishers = {p1, p2, p3}
  Promises = {a1, a2, a3, a4}
  MaxRabbitOutages = 1
INVARIANTS
  OneLiveConnection
CHECK_DEADLOCK FALSE
