SPECIFICATION Spec
CONSTANTS
  Truth = Truth
  Trees <- MCTrees
  Donors <- MCDonors
  Releases <- MCReleases
  Requests <- MCRequests
CHECK_DEADLOCK FALSE
INVARIANTS TypeOK AskedLands LogSurvives NeverTwoChannels PatchedTreeCompiles
