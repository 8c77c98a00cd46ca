CONSTANTS
  readme = readme
  capital = capital
  setup = setup
  letter = letter
  tilde = tilde
  letterHome = letterHome
  accent = accent
  underscore = underscore
  Names = {tilde, letter, letterHome}
  ShortNames <- MCShortNames
  CanonicalShort <- MCCanonicalShort
  Aliases <- MCAliases
  Answers <- MCAnswers
  LfnCount <- MCLfnCount
  Checksum <- MCChecksum
  NoName = noname
  NoShortName = noname
  Clusters = {c1, c2}
  NoCluster = nocluster
  SlotsPerCluster = 4
  FixedRoot = TRUE
  InitialSlots = 5
  MaxFaults = 2
SPECIFICATION ForeignSpec
INVARIANTS
  FitsRoot
  StaleStaysHidden
  AdoptsLeftoversOnly
