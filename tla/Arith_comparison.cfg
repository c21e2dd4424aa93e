\* The difference of the operands may overflow.
CONSTANTS
  Width = 4
  Half = 8
SPECIFICATION Spec
INVARIANT ComparisonIsOrder
