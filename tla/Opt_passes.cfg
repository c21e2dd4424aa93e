\* Every program of at most three instructions and loops of four, under all
\* sequences of passes.
CONSTANTS
  MaxInt = 2
  LastSlot = 2
  Fuel = 12
  Programs <- AllPrograms
  Parameters <- SmallParameters
  Worlds <- SmallWorlds
  Answer <- FirstAndLater
SPECIFICATION Spec
INVARIANTS
  TypeOK
  JumpsInRange
  SectionGraphIsTheFlow
PROPERTIES
  FoldingKeepsMeaning
  DeadCodeRemovalKeepsMeaning
  DeadCodeIsGone
  NoOpRemovalKeepsMeaningOfStraightCode
