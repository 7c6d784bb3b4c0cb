SPECIFICATION Spec
CONSTANTS
  a = a
  b = b
  None = None
  Buffer <- MCBuffer
  Val <- MCVal
  Kernel <- MCKernel
  Build = {"dawn"}
  Reports = {"each"}
  MaxOutstanding = 2
INVARIANT
  WaitsForTasksDone
