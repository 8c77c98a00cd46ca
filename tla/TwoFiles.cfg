CONSTANTS
  ClusterCount = 3
  MaxRequired = 2
  Owners = {f, g}
  NoOwner = none
  ClusterSize = 1
  MaxLength = 2
  Values = {a}
  Zero = zero
  Stale = stale
SPECIFICATION FileSpec
SYMMETRY Symmetry
PROPERTIES
  StoreRefined
  ChainsRefined
