\* Loaders that import each other, in cycles too, fail and are tried again.
CONSTANTS
  Null = null
  Name = {m1, m2, m3}
  Value = {null, v, w}
SPECIFICATION Spec
INVARIANTS
  TypeOK
  FlagsMatchStack
  ImportsAgree
PROPERTY ImplementsModuleTable
