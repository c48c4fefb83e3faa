SPECIFICATION FairSpec
CONSTANTS
  Flows = {c1}
  Streams <- StreamsOfCalls
  MaxStreams = 1
  MaxDeltas = 1
  MaxPrompts = 2
INVARIANT TypeOK
INVARIANT ResultIsLast
INVARIANT EndedLoginEndsFlow
INVARIANT SuccessIsKept
INVARIANT AbortedStreamEnds
INVARIANT OneTerminalShown
INVARIANT RetryHasCredentials
PROPERTY LoginsEnd
CHECK_DEADLOCK FALSE
