SPECIFICATION FairSpec
CONSTANTS
  None = None
  Seed = Seed
  post = post
  put1 = put1
  put2 = put2
  putNew = putNew
  get = get
  delete = delete
  deleteHotel = deleteHotel
  Kind <- MCKind
  Target <- MCTarget
  Requests = {put1, put2, post, putNew, get, delete, deleteHotel}
  Hotels = {1}
  Days = {1, 2}
  PoolSize = 2
  MaxStarted = 4
  MaxFaults = 1
INVARIANTS
  AggregateIsWhole
  FailedSaveLeavesNothing
  TablesDoNotMix
PROPERTIES
  SavesAreAtomic
  EveryRequestAnswered
CHECK_DEADLOCK FALSE
