SPECIFICATION Spec
CONSTANTS
  Requests = {r1, r2, r3}
  NoRequest = NoRequest
  Credentials = TRUE
  GenModulus = 8
  Faults <- Disruptions
  MaxExpiries = 1
SYMMETRY Symmetry
INVARIANTS SingleFlight NoRedundantAttempt FreshResult MutexExact SessionPresented BlamelessRefusal
