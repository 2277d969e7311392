CONSTANTS
  Keys <- MCKeys
  Values = {v, w}
  Hash <- MCHash
  InitialSize = 8
  MaxChain = 2
  MaxTable = 32
  Free = Free
  Missing = Missing
SPECIFICATION Spec
INVARIANTS
  TypeOK
  SizeIsCount
  Findable
PROPERTIES
  IsFiniteMap
  OmemKeepsElements
