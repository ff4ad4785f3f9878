SPECIFICATION Spec
CONSTANTS
  Requests = {r1, r2}
  NoRequest = NoRequest
  Credentials = FALSE
  GenModulus = 8
  Faults <- Anonymous
  MaxExpiries = 0
PROPERTIES KeepsPromise
