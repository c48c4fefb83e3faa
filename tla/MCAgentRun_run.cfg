CONSTANTS
  Catalogs <- CatalogsOfThree
  Requests <- Resolutions
  CallIds <- ThreeCalls
  MaxIterations = 2
  MaxFragments = 3
  MaxCalls = 2
  MaxFrames = 1
SPECIFICATION Spec
INVARIANT TypeOK
INVARIANT ResponseIsFinalMessage
INVARIANT StreamShowsRun
INVARIANT StreamUsageIsSum
INVARIANT ResolvedIsOnly
CHECK_DEADLOCK FALSE
