SPECIFICATION MCSpec
CONSTANTS
  t1 = t1
  t2 = t2
  u1 = u1
  u2 = u2
  Tabs = {t1, t2}
  Users = {u1, u2}
  People = {u1, u2}
  DevUser = u1
  Unmatched = {u1}
  None = none
  NoRow = noRow
  MaxStarts = 2
  MaxEdits = 1
  MaxTroubles = 1
INVARIANTS
  ExchangeFitsItsStart
  FailuresAreExplained
  FormsAgreeWithTheAccount
PROPERTIES
  NameNeverForgotten
  PreferencesKept
CHECK_DEADLOCK FALSE
