SPECIFICATION Spec
CONSTANTS
  v1 = v1
  p1 = p1
  None = None
  Fresh = Fresh
  Torn = Torn
  Known <- MCKnown
  Doc <- MCDoc
  DeviceList <- MCDeviceList
  Val <- MCVal
  Blob <- MCBlob
INVARIANTS
  GraphTypeOK
  ReleasesAreSound
PROPERTIES
  OwnershipFollowsCreation
  RunComputesTheGraph
  ZeroMeansAllOrNothing
