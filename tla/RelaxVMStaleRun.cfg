SPECIFICATION Spec
CONSTANTS
  b1 = b1
  b2 = b2
  b3 = b3
  b4 = b4
  b5 = b5
  o1 = o1
  o2 = o2
  o3 = o3
  o4 = o4
  o5 = o5
  o6 = o6
  o7 = o7
  z1 = z1
  t1 = t1
  NoBuffer = NoBuffer
  NoObj = NoObj
  NoFunc = NoFunc
  Buffer <- MCBuffer
  Obj <- MCObj
  Tensor <- MCTensor
  DefaultCapacity = 2
  MaxFrames = 4
  RegisterCount <- MCRegisterCount
  PC <- MCPC
  RegisterName <- MCRegisterName
  Special <- MCSpecial
  Func <- MCFunc
  FuncInfo <- MCFuncInfo
  Packed <- MCPacked
  PackedKind <- MCPackedKind
  Code <- MCCode
  Const <- MCConst
  ConstCell <- MCConstCell
  Callable = {"main", "self"}
  MayFail = {"add"}
CHECK_DEADLOCK FALSE
PROPERTIES
  RunsReturnTheirOwn
