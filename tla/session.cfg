SPECIFICATION FairSpec
CONSTANTS
  lamp = lamp
  desk = desk
  Lights = {lamp, desk}
  None = None
INVARIANTS
  TypeOK
  ReportedWasAnnounced
  PairingIsAlone
  SessionLeavesNothing
  IInv
PROPERTIES
  StopExits
  BoundIsReported
  ScanIsAnswered
CHECK_DEADLOCK FALSE
