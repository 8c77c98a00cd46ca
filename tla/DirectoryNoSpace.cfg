CONSTANTS
  readme = readme
  capital = capital
  setup = setup
  letter = letter
  tilde = tilde
  letterHome = letterHome
  accent = accent
  underscore = underscore
  Names = {readme, setup}
  ShortNames <- MCShortNames
  CanonicalShort <- MCCanonicalShort
  Aliases <- MCAliases
  Answers <- MCAnswers
  LfnCount <- MCLfnCount
  Checksum <- MCChecksum
  NoName = noname
  NoShortName = noname
  Clusters = {c1}
  NoCluster = nocluster
  SlotsPerCluster = 2
  FixedRoot = FALSE
  InitialSlots = 2
  MaxFaults = 2
SPECIFICATION ReliableSpec
SYMMETRY Symmetry
INVARIANT VisibleInUse
