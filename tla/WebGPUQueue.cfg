SPECIFICATION FairSpec
CONSTANTS
  a = a
  b = b
  None = None
  Buffer <- MCBuffer
  Val <- MCVal
  Kernel <- MCKernel
  Build = {"dawn", "js"}
  Reports = {"once", "each"}
  MaxOutstanding = 3
INVARIANTS
  WebGPUTypeOK
  SleeperIsWoken
PROPERTIES
  HostReadsProgramOrder
  CallsReturn
