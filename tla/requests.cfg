SPECIFICATION CallSpec
CONSTANTS
  MaxLength = 4
  MaxCalled = 2
  Data = {"a", "b", "bad"}
  Bad = {"bad"}
INVARIANTS StaysBelow CanonicalIsFixed ErrorsNameTheRequest SentAsCalled
