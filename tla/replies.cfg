SPECIFICATION Spec
CONSTANTS
  U32Max = 2000000000
  U64Max = 2100000000
  Replies <- Declarations
  Numbers <- MCNumbers
  HumanUptimes <- MCHumanUptimes
  ImeiDigits <- MCImeiDigits
  HardwareIds <- MCHardwareIds
  Varied <- MCVaried
INVARIANTS TypeOK  SameMember OneDeclaration BeforeDetection IdentityIsKept
  CellIdentity NeverPanics
