\* Tables, functions and arrays only, and no allocation failure.
CONSTANTS
  Address = {a1, a2, a3}
  WithInstances = FALSE
  AllocationFailures = FALSE
SPECIFICATION FairSpec
INVARIANT NoDangling
PROPERTIES
  SweepIsPrecise
  ImplementsManagedHeap
  CollectionTerminates
