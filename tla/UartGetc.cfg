\* A read without wait.
SPECIFICATION Spec
CONSTANTS
  Cpu = {u1}
  Text = {"a", "LF"}
  RxText = {"x", "y"}
  FIFO_DEPTH = 2
  MaxPut = 2
  MaxRx = 2
  NormalWrites = 0
PROPERTIES GetcFaithful
CHECK_DEADLOCK FALSE
