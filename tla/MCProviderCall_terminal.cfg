SPECIFICATION FairSpec
CONSTANTS
  Flows = {c1}
  Streams <- StreamsOfCalls
  MaxStreams = 1
  MaxDeltas = 1
  MaxPrompts = 2
INVARIANT StreamEndsWithTerminal
CHECK_DEADLOCK FALSE
