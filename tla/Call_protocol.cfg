\* Loaders do not call back, as those of the repository.
CONSTANTS
  Null = null
  Value = {null, v}
  MaxSlots = 4
  MaxDepth = 4
  MaxArguments = 1
  LoadersRunCode = FALSE
SPECIFICATION Spec
INVARIANTS
  TypeOK
  CallsAreBalanced
  CallersUntouched
PROPERTY ResultIsInPlace
