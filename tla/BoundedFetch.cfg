CONSTANTS
  ApproxRowSize <- MCApproxRowSize
  RowJsonBytes <- MCRowJsonBytes
  DepthCapped <- MCDepthCapped
  Results <- MCResults
  Longest = 5
  MaxDepth = 2
  MaxRows = 3
  PageSize = 2
  Cap = 33
SPECIFICATION FairSpec
INVARIANTS OkIsComplete PayloadIsLongestFit FetchStopsAtTheCaps SmallResultSurvivesDeadline PlaceholdersAreAnnounced RowCapBlameIsTrueWithinBound
PROPERTIES FetchEnds
CHECK_DEADLOCK FALSE
