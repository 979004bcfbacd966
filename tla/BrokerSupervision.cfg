SPECIFICATION Spec
CONSTANTS
  NoAttempt = NoAttempt
  Attempts = {a1, a2, a3}
  Queues = {email, reminders}
  MaxConsumers = 2
  MaxOutages = 3
  MaxFaults = 2
INVARIANTS
  TypeOK
  SingleLoop
  NeverStranded
  ConnectedIsTrue
  ConsumersAsGranted
  SilencersAreBacked
SYMMETRY Symmetry
CHECK_DEADLOCK FALSE
