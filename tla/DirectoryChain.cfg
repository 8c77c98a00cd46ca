CONSTANTS
  readme = readme
  capital = capital
  setup = setup
  letter = letter
  tilde = tilde
  letterHome = letterHome
  accent = accent
  underscore = underscore
  Names = {capital, letter, letterHome}
  ShortNames <- MCShortNames
  CanonicalShort <- MCCanonicalShort
  Aliases <- MCAliases
  Answers <- MCAnswers
  LfnCount <- MCLfnCount
  Checksum <- MCChecksum
  NoName = noname
  NoShortName = noname
  Clusters = {c1, c2}
  NoCluster = nocluster
  SlotsPerCluster = 2
  FixedRoot = FALSE
  InitialSlots = 2
  MaxFaults = 1
SPECIFICATION DirSpec
CONSTRAINT WithinClusters
SYMMETRY Symmetry
INVARIANTS
  RemovalHidesFirst
  ListedOnce
  ShortNamesUnique
  NothingBehindEnd
  NothingLost
  DirInv
  NamesInv
  LostInv
PROPERTIES
  MapRefined
