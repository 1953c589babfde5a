SPECIFICATION Spec
CONSTANTS
  Byte = {"i", "s", "g", "d", "|", ".", "0", "1", "2", "3", "4", "5", "6", "7", "8", "9"}
  BufLen = 9
  SepWindow = 4
  WireKey <- ShortKeys
  WireVal <- ShortVals
  p = p
  q = q
  Table = {p, q}
  Key = {1, 2}
  Allocator = {1, 2}
  Array = {1, 2, 3}
  Sizes = {2, 5}
  MinLookups = 2
  MinGrow = 3
  BlockSize = 4
  Spread = 2
  Requests = {0}
  a = a
  b = b
  d = d
  Client = {a, b, d}
  Silent = {d}
  Pieces = 2
  MaxRead = 1
  Nobody = Nobody
  Proc = {1, 2}
  MaxQueue = 2
CHECK_DEADLOCK FALSE
INVARIANTS
  LeftoversIgnored
  PickledKeysDistinct
  BitTricksExact
  SizesFit
  ByteIsRecord
  SoleOwner
  ArrayKnown
  OneServer
PROPERTIES
  AnsweredUnlessSilenced
  EarlyReported
