SPECIFICATION Spec
CONSTANTS
  MAX_VARS = 2
  Names <- MCNames
  Kept <- MCKept
  Literals <- MCLiterals
  Numerals <- MCNumerals
  RNames <- MCRNames
  Meanings <- MCMeanings
  Lines <- MCLines
  Dwords <- MCDwords
INVARIANTS
  CalculatesAsWritten
  NothingSkipped
  AssemblesAsWritten
PROPERTIES
  IsStore
