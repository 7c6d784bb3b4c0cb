\* A load stops where it fails, or when the machine has been freed.
SPECIFICATION Spec

CONSTANTS
  MaxFuncs = 2
  MaxConsts = 2
  MaxCalls = 2
  MaxArgs = 2
  MaxLen = 2
  f = f
  g = g
  Name <- MCName
  Undefined = Undefined

CHECK_DEADLOCK FALSE

INVARIANTS
  MachineOwnsModule
  MachineIsComplete
  MemoryIsAccounted
