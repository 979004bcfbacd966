SPECIFICATION Spec
CONSTANTS
  created = created
  shared = shared
  invited = invited
  owner = owner
  ann = ann
  bob = bob
  Events = {created}
  Kind <- MCKind
  To <- MCTo
  Fallback = owner
  BadAddresses = {}
  Malformed = {}
  TripStart <- MCTripStart
  Lead = 1
  MaxPublished = 1
  MaxTime = 2
  MaxLosses = 2
  MaxSmtpFaults = 0
INVARIANTS
  ReminderNotLost
CHECK_DEADLOCK FALSE
