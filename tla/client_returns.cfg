SPECIFICATION FairSpec
CONSTANTS
  Requests = {r1, r2, r3}
  NoRequest = NoRequest
  Credentials = TRUE
  GenModulus = 2
  Faults <- Disruptions
  MaxExpiries = 0
INVARIANTS TypeOK NoPanic
PROPERTIES EveryCallReturns
