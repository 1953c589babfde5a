SPECIFICATION FairSpec
CONSTANTS
  a = a
  b = b
  c = c
  d = d
  e = e
  f = f
  Key = {a, b, c, d, e, f}
  Value = {0}
  Hash <- Crowded
  Sizes = {2, 3, 5, 7, 11, 13, 17, 23, 29, 37, 47, 59, 73, 97}
  MinLookups = 3
  MinGrow = 4
  DefaultLoad <- Half
  Loads <- HalfOrTwice
  Requests = {0, 5}
  NoItem = NoItem
INVARIANTS
  WellFormed
  Findable
  EachOnce
  PassSeesAll
PROPERTIES
  KeepsPromises
  Returns
