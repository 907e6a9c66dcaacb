SPECIFICATION FairSpec
CONSTANTS
  Key <- MCKey
  Rank <- MCRank
  NoKey = NoKey
  MaxUpdates = 3
INVARIANTS
  NeverSkips
PROPERTIES
  NoRepeats
  WalkEnds
CHECK_DEADLOCK FALSE
