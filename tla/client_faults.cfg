SPECIFICATION Spec
CONSTANTS
  Requests = {r1, r2}
  NoRequest = NoRequest
  Credentials = TRUE
  GenModulus = 8
  Faults <- Everything
  MaxExpiries = 1
PROPERTIES KeepsPromise
