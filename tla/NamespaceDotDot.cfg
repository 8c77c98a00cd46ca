CONSTANTS
  Names = {n1, n2}
  Up = up
  Dirs = {d1, d2, d3}
  Root = root
  Zero = zero
  File = file
  None = none
  Fat32 = FALSE
  DotSources = TRUE
  MaxFaults = 0
SPECIFICATION Spec
SYMMETRY Symmetries
PROPERTIES
  MovesIntoDescendantsRefused
