SPECIFICATION MCSpec
CONSTANTS
  r1 = r1
  r2 = r2
  Requests = {r1, r2}
  Visits <- MCVisits
  MaxMounts = 2
  None = none
  RateLimit = 3
  MaxTroubles = 1
  MaxClock = 2
  MaxEdits = 1
INVARIANTS
  AuditTrailTrue
  MessageIsHonest
  ExportIsRecorded
PROPERTY PagesSettle
CHECK_DEADLOCK FALSE
