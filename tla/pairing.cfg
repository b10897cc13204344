SPECIFICATION Spec
CONSTANTS
  a = a
  b = b
  c = c
  None = None
  Devices = {a, b, c}
  Describable = {a, b}
  LateAdoption = TRUE
  MayInterrupt = TRUE
SYMMETRY DeviceSymmetry
INVARIANTS
  TypeOK
  OnlyVerifiedIsBound
  FileFollowsBoundary
  DriverFollowsBoundary
PROPERTIES
  ReportsNameTheirSource
