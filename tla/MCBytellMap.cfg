SPECIFICATION Spec
CONSTANTS
  a = a
  b = b
  c = c
  d = d
  e = e
  f = f
  Key = {a, b, c, d, e, f}
  Value = {0}
  Hash <- Crowded
  JumpDistances <- Jumps
  Sizes = {2, 3, 5, 7, 11, 13, 17, 23, 29, 37, 47, 59, 73, 97}
  MinGrow = 5
  DefaultLoad <- One
  Loads <- Full
  Requests = {5}
  NoItem = NoItem
SYMMETRY SameHome
INVARIANTS
  WellFormed
  Findable
  EachOnce
  PassSeesAll
  RangeErased
