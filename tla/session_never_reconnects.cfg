SPECIFICATION Spec
CONSTANTS
  lamp = lamp
  desk = desk
  Lights = {lamp, desk}
  None = None
INVARIANTS
  RunsUntilStopped
CHECK_DEADLOCK FALSE
