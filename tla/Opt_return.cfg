\* Constants and jumps: the return value is lost.
CONSTANTS
  MaxInt = 2
  LastSlot = 2
  Fuel = 8
  Programs <- ReturnPrograms
  Parameters <- SmallParameters
  Worlds <- SmallWorlds
  Answer <- FirstAndLater
SPECIFICATION Spec
PROPERTY NoOpRemovalKeepsMeaning
