SPECIFICATION Spec
CONSTANTS
  Wide = 100000
  MaxCalls = 4
INVARIANTS RequestCoherent RefusalJustified BodyUnambiguous
CHECK_DEADLOCK FALSE
