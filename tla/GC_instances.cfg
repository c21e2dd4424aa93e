\* With class instances, and with m_objects.push_back out of memory (after
\* which the program stops: no deadlock check).
CONSTANTS
  Address = {a1, a2, a3}
  WithInstances = TRUE
  AllocationFailures = TRUE
SPECIFICATION Spec
INVARIANTS
  TypeOK
  DanglingOnlyInStaleFields
SYMMETRY AddressSymmetry
CHECK_DEADLOCK FALSE
