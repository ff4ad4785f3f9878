SPECIFICATION Spec
CONSTANTS
  Chars <- MCChars
  Names <- MCNames
  Texts <- MCTexts
  MaxSteps = 7
INVARIANTS JudgedByContent
