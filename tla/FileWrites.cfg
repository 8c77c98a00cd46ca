CONSTANTS
  ClusterCount = 3
  MaxRequired = 2
  Owners = {f}
  NoOwner = none
  ClusterSize = 2
  MaxLength = 3
  Values = {a}
  Zero = zero
  Stale = stale
SPECIFICATION FileSpec
INVARIANTS
  StoreInv
  LengthCovered
  CallsDoWhatTheyAsk
PROPERTIES
  StoreRefined
