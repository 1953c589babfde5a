SPECIFICATION Spec
CONSTANTS
  Conns = {c1, c2}
  Callers = {p1, p2, p3}
  SizeLen = 2
  Utf8 <- Ascii
  Cuts = {5, 6}
  Calls <- AddAndGet
  NoConn = NoConn
  NoCall = NoCall
SYMMETRY CallerSymmetry
CHECK_DEADLOCK FALSE
INVARIANTS TypeOK BusyMeans OneCaller OwnReply Acked
PROPERTIES AtMostOnce
