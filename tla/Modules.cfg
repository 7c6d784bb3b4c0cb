SPECIFICATION Spec
CONSTANTS
  lib = lib
  cuda = cuda
  relax = relax
  None = None
  Lib = lib
  Dev <- MCDev
  Name <- MCName
  Exports <- MCExports
  Blob <- MCBlob
  MaxVersion = 2
  MaxSymbols = 2
CHECK_DEADLOCK FALSE
INVARIANTS
  ModulesTypeOK
  LibrariesAreReleasedOnce
  CachePrefersImports
PROPERTIES
  LostOnlyByFailedLoad
  LookupIsStable
