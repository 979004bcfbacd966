SPECIFICATION ConnectionsSpec
CONSTANTS
  NoAttempt = NoAttempt
  Attempts = {a1, a2}
  Queues = {email, reminders}
  MaxConsumers = 3
  MaxOutages = 3
  MaxFaults = 0
  None = None
  Publishers = {p1, p2, p3}
  Promises = {c1, c2, c3, c4, c5}
  MaxRabbitOutages = 2
INVARIANTS
  PendingIsOwned
PROPERTIES
  ImplementsLink
  ConsumersResume
  ClosedSettles
  DropsAreOwnFailures
  EveryPublishSettles
CHECK_DEADLOCK FALSE
