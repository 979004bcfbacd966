SPECIFICATION MCSpec
CONSTANTS
  Tabs = {t1, t2}
  MaxTrips = 2
  MaxVisits = 4
  Hotels = {h1}
  Plans <- MCPlans
  None = none
  MaxWrites = 4
  MaxDrags = 1
  MaxTroubles = 1
  MaxGroups = 3
  MaxRevision = 2
  MaxMishaps = 1
  MaxSent = 3
  Countries = {"Japan", "Kiribati"}
  Hub <- MCHub
  MaxDay = 2
  MaxAmount = 1
  MaxLoads = 2
  RawDays <- MCRawDays
  MaxDays = 2
  OfferLists <- MCOfferLists
SYMMETRY Symmetry
INVARIANTS
  DragSurvivesReload
  ListIsTrue
  PlanIsCoherent
  AnswerShownWhole
PROPERTIES
  StaysAreKept
CHECK_DEADLOCK FALSE
