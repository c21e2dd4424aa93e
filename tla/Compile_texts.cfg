\* Written programs, damaged ones, and all short texts.
CONSTANTS
  MaxInt = 15
  Texts <- AllTexts
  Sources <- WrittenSources
  CodeOf <- GenerateUnit
SPECIFICATION Spec
INVARIANTS
  TokensCoverTheText
  OneErrorPerLine
  WhatIsWrittenIsRead
  NothingIsDropped
PROPERTIES
  ParsingAdvances
CHECK_DEADLOCK FALSE
