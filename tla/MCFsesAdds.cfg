SPECIFICATION Spec
CONSTANTS
  Conns = {c1}
  Callers = {p1, p2}
  SizeLen = 2
  Utf8 <- Ascii
  Cuts = {5}
  Calls <- TwoAdds
  NoConn = NoConn
  NoCall = NoCall
CHECK_DEADLOCK FALSE
INVARIANTS AddsPerformed
