SPECIFICATION FairSpec
CONSTANTS
  Byte = {"nul", "i", "s", "g", "d", "a", "n", "w", "k", "v", "|", ".", "0", "1", "2", "3", "4", "5", "6", "7", "8", "9"}
  BufLen = 9
  SepWindow = 4
  Conns = {c1, c2}
  NoConn = NoConn
  MaxFd = 2
  MaxWatches = 2
  MaxTries = 2
  Cuts = {}
  Calls <- AddAndGet
  Garbage <- Zeros
CHECK_DEADLOCK FALSE
PROPERTIES
  Released
