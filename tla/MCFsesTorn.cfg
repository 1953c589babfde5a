SPECIFICATION FairSpec
CONSTANTS
  Conns = {c1, c2}
  Callers = {p1, p2}
  SizeLen = 2
  Utf8 <- Accents
  Cuts = {3, 4}
  Calls <- OneAccent
  NoConn = NoConn
  NoCall = NoCall
CHECK_DEADLOCK FALSE
PROPERTIES ReadsEnd
