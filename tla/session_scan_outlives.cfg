SPECIFICATION Spec
CONSTANTS
  lamp = lamp
  desk = desk
  Lights = {lamp, desk}
  None = None
INVARIANTS
  ScanEndsWithSession
CHECK_DEADLOCK FALSE
