SPECIFICATION FairSpec
CONSTANTS
  Interval = 2
  MaxLines = 3
  MaxStrays = 1
INVARIANTS TypeOK Accounted CompleteMeansAll Stopped
PROPERTIES PollsAreSpaced IsStream ReadReturns
