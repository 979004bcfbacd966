SPECIFICATION FairSpec
CONSTANTS
  created = created
  shared = shared
  invited = invited
  owner = owner
  ann = ann
  bob = bob
  Events = {created, shared, invited}
  Kind <- MCKind
  To <- MCTo
  Fallback = owner
  BadAddresses = {bob}
  Malformed = {invited}
  TripStart <- MCTripStart
  Lead = 1
  MaxPublished = 2
  MaxTime = 2
  MaxLosses = 1
  MaxSmtpFaults = 1
INVARIANTS
  LeavesOnlyDoneOrPoison
  ReminderAfterConfirmation
  DuplicatesNeedRedelivery
PROPERTIES
  EveryMessageSettles
CHECK_DEADLOCK FALSE
