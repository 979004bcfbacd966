SPECIFICATION MCSpec
CONSTANTS
  Tabs = {t1, t2}
  MaxTrips = 2
  MaxVisits = 4
  Hotels = {h1}
  Plans <- MCPlans
  None = none
  MaxWrites = 4
  MaxDrags = 1
  MaxTroubles = 1
  MaxGroups = 2
  MaxRevision = 2
  MaxMishaps = 1
  MaxSent = 1
  Countries = {"Japan", "Kiribati"}
  Hub <- MCHub
  MaxDay = 2
  MaxAmount = 1
  MaxLoads = 1
  RawDays <- MCRawDays
  MaxDays = 2
  OfferLists <- MCOfferLists
INVARIANTS
  RangesShowTheirLow
CHECK_DEADLOCK FALSE
