SPECIFICATION Spec
CONSTANTS
  p1 = p1
  p2 = p2
  s1 = s1
  s2 = s2
  None = None
  NumDevice = 2
  Ptr <- MCPtr
  Stream <- MCStream
  MaxCreate = 2
  MayFail = TRUE
CHECK_DEADLOCK FALSE
INVARIANTS
  DeviceTypeOK
  InstancesAreCurrent
  ReleaseLeavesOnlyFailures

