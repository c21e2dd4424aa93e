\* Every program of the bounded set, from its tree to its end.
CONSTANTS
  Width = 5
  Half = 16
  MaxInt = 15
  Contents <- StringOrder
  MaxTurns = 8
  MaxEvents = 12
  Programs <- AllPrograms
  CodeOf <- GenerateUnit
  MeaningOf <- Meaning
SPECIFICATION Spec
INVARIANTS
  RejectsWhatIsInvalid
  UnitIsComplete
  MachineIsSound
  GeneratedCodeKeepsTheMeaning
PROPERTIES
  CallersAreLeftAlone
  EveryProgramEnds
CHECK_DEADLOCK FALSE
