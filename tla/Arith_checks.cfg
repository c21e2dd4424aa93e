\* Four bits: every pair of operands, every instruction.
CONSTANTS
  Width = 4
  Half = 8
SPECIFICATION Spec
INVARIANTS
  TypeOK
  DivisionAgreesWithModulo
  EqualityIsExact
PROPERTIES
  SumsAreExact
