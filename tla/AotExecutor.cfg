SPECIFICATION Spec
CONSTANTS
  e1 = e1
  e2 = e2
  v1 = v1
  v2 = v2
  None = None
  Fresh = Fresh
  Torn = Torn
  Exec <- MCExec
  Val <- MCVal
  Size = {1, 2}
  MaxBlock = 8
  Model <- MCModel
  Meta <- MCMeta
  Handle <- MCHandle
  System <- MCSystem
  Mains <- MCMains
  OwnMeta <- MCOwnMeta
  Linkable <- MCLinkable
SYMMETRY Symmetric
INVARIANTS
  AotTypeOK
  LibrariesHaveOneOwner
  OnlyPoolsAreLost
  TensorsHoldWhatTheyShould
