SPECIFICATION Spec
CONSTANTS
  Requests = {r1, r2, r3}
  alice = alice
  guest = guest
  peer1 = peer1
  peer2 = peer2
  friend = friend
  Users = {alice, guest}
  Emails = {peer1, peer2, friend}
  Claim <- MCClaim
  SeedOwner = alice
  SeedJoined = peer1
  SeedInvited = peer2
  Seed = seed
  None = none
  Recipients <- MCRecipients
  MaxFaults = 1
SYMMETRY Symmetry
INVARIANTS
  TokenSpentOnce
  LosersAreTold
  NoDeadInvite
  SharedWithJoinedOnly
  LinksOutliveGroups
CHECK_DEADLOCK FALSE
