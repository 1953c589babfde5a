SPECIFICATION Spec
CONSTANTS
  Byte = {"nul", "i", "s", "g", "d", "a", "n", "w", "k", "v", "|", ".", "0", "1", "2", "3", "4", "5", "6", "7", "8", "9"}
  BufLen = 16
  SepWindow = 4
  Conns = {c1, c2}
  NoConn = NoConn
  MaxFd = 2
  MaxWatches = 1
  MaxTries = 2
  Cuts = {1, 2, 4}
  Calls <- AllCalls
  Garbage <- TornLeftovers
SYMMETRY ConnSymmetry
CHECK_DEADLOCK FALSE
INVARIANTS
  WellFormed
  NoStaleEvent
  DataNotified
  RereadHarmless
