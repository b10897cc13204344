SPECIFICATION Spec
CONSTANTS
  lamp = lamp
  desk = desk
  Lights = {lamp, desk}
  None = None
INVARIANTS
  PublishesUntilSessionEnds
CHECK_DEADLOCK FALSE
