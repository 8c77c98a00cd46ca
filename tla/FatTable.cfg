CONSTANTS
  U16Max = 20
  U32Max = 29
  SectorSizes = {4, 8}
  ClusterSectors = {1, 2}
  EntrySize = 4
  Fat12Limit = 5
  Fat16Limit = 10
  FirstReserved <- FirstReservedOf
  BootSectors <- Sectors
  BlockSize = 4
  Bad <- BadOf
  EocMin <- EocMinOf
  Mask <- MaskOf
  Written <- WrittenSectors
  WrittenClusters = {2, 3}
  WrittenLinks = {3}
  MaxFaults = 1
SPECIFICATION FatSpec
INVARIANTS
  TableTypeOK
  SettledBetweenCalls
  EveryClusterHasEntry
  RegionsInOrder
  SerializeParses
PROPERTIES
  NeighboursKept
  CellsRefined
CHECK_DEADLOCK FALSE
