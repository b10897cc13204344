SPECIFICATION Spec
CONSTANTS
  Channels <- LampWithWhite
  Ranges <- RangesMC
  Levels <- LevelsMC
  Moves <- MovesMC
  Obedient = TRUE
  None = None
INVARIANTS
  TypeOK
  AppliedIsReached
  ReportedLevelsAreStable
