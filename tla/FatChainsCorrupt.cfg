CONSTANTS
  ClusterCount = 3
  MaxRequired = 4
  Owners = {f}
  NoOwner = none
SPECIFICATION CorruptSpec
INVARIANTS
  TypeOK
PROPERTIES
  MarkersPreserved
  CallReturns
