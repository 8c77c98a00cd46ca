CONSTANTS
  ClusterCount = 4
  MaxRequired = 3
  Owners = {f, g}
  Twins = {t}
  NoOwner = none
SPECIFICATION VolumeSpec
CONSTRAINT UntilSpoilt
SYMMETRY Symmetries
INVARIANTS
  NoCrossedChains
  NoDanglingEntry
  OnlyRenameShares
  NoStaleBytes
  OnlyKnownLeaks
  WalksComplete
  VolumeInv
PROPERTIES
  OtherChainsKept
