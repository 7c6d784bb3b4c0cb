SPECIFICATION Spec
CONSTANTS
  m1 = m1
  m2 = m2
  m3 = m3
  m4 = m4
  m5 = m5
  m6 = m6
  m7 = m7
  m8 = m8
  ud = ud
  us = us
  kd = kd
  ks = ks
  Null = Null
  NoFunc = NoFunc
  Mem <- MCMem
  UserData = ud
  UserShape = us
  ExecData = kd
  ExecShape = ks
  Func <- MCFunc
  NumParams <- MCNumParams
  NumRegs <- MCNumRegs
  Code <- MCCode
  Callable = {"main", "ident", "stop"}
  Supply <- MCOneKind
  Bytes = {1, 2}
  MayFail = {"add"}
  StorageMayFail = TRUE
  InputMayFail = FALSE
CHECK_DEADLOCK FALSE
INVARIANTS
  RelayTypeOK
  EveryBlockHasOneOwner
PROPERTIES
  RunsKeepInputs
