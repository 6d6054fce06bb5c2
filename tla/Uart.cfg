\* Two processors print two lines each and read, next to a normal world that
\* can take a place in the FIFO.
SPECIFICATION FairSpec
CONSTANTS
  Cpu = {u1, u2}
  Text = {"LF"}
  RxText = {"x"}
  FIFO_DEPTH = 2
  MaxPut = 2
  MaxRx = 1
  NormalWrites = 1
INVARIANTS NothingLost SentOnReturn
PROPERTIES PutcReturns
CHECK_DEADLOCK FALSE
