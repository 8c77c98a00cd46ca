CONSTANTS
  readme = readme
  capital = capital
  setup = setup
  letter = letter
  tilde = tilde
  letterHome = letterHome
  accent = accent
  underscore = underscore
  Names = {accent, underscore}
  ShortNames <- MCShortNames
  CanonicalShort <- MCCanonicalShort
  Aliases <- MCAliases
  Answers <- MCAnswers
  LfnCount <- MCLfnCount
  Checksum <- MCChecksum
  NoName = noname
  NoShortName = noname
  Clusters = {c1}
  NoCluster = nocluster
  SlotsPerCluster = 2
  FixedRoot = TRUE
  InitialSlots = 4
  MaxFaults = 0
SPECIFICATION DirSpec
INVARIANT LookupByTheRule
