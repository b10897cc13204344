SPECIFICATION Spec
CONSTANTS
  Channels <- LampWithoutWhite
  Ranges <- RangesMC
  Levels <- LevelsMC
  Moves <- MovesMC
  Obedient = FALSE
  None = None
INVARIANTS
  AppliedIsReached
