CONSTANTS
  Names = {n1, n2}
  Up = up
  Dirs = {d1, d2, d3, d4}
  Root = root
  Zero = zero
  File = file
  None = none
  Fat32 = FALSE
  DotSources = FALSE
  MaxFaults = 1
SPECIFICATION Spec
CONSTRAINT UntilInterrupted
SYMMETRY Symmetries
INVARIANTS
  TypeOK
  Tree
  NeverDetached
  WalkUpIsWalkDown
