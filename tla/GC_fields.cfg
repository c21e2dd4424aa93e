\* Class instances: the collector destroys objects their fields refer to.
CONSTANTS
  Address = {a1, a2, a3}
  WithInstances = TRUE
  AllocationFailures = FALSE
SPECIFICATION Spec
INVARIANT NoDangling
