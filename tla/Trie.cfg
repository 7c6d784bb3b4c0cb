SPECIFICATION TrieSpec
CONSTANTS
  a = a
  b = b
  x = x
  n1 = n1
  n2 = n2
  n3 = n3
  n4 = n4
  n5 = n5
  n6 = n6
  Null = Null
  Node <- MCNode
  Holder = {"module", "clone"}
  Byte <- MCByte
  Indexed <- MCIndexed
  Names <- MCName
  Data = {1, 2}
SYMMETRY Addresses
INVARIANT NodesHaveOnePlace
PROPERTY TriesAreMaps
