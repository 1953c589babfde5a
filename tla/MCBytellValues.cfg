SPECIFICATION FairSpec
CONSTANTS
  a = a
  b = b
  c = c
  d = d
  e = e
  f = f
  Key = {a, b, c, d, e}
  Value = {0}
  Hash <- Threesome
  JumpDistances <- NearJumps
  Sizes = {5, 11, 23, 47, 97}
  MinGrow = 5
  DefaultLoad <- One
  Loads <- Factors
  Requests = {5}
  NoItem = NoItem
PROPERTIES
  KeepsPromises
  Returns
