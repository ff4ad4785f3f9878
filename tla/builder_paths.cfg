SPECIFICATION Spec
CONSTANTS
  MaxCalls = 4
INVARIANTS PathsAreRefused
