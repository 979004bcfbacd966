SPECIFICATION Spec
CONSTANTS
  NoAttempt = NoAttempt
  Attempts = {a1, a2}
  Queues = {email}
  MaxConsumers = 1
  MaxOutages = 2
  MaxFaults = 1
INVARIANTS
  NeverSilentlyDead
CHECK_DEADLOCK FALSE
