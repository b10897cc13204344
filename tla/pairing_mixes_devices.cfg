SPECIFICATION Spec
CONSTANTS
  a = a
  b = b
  c = c
  None = None
  Devices = {a, b, c}
  Describable = {a, b, c}
  LateAdoption = FALSE
  MayInterrupt = FALSE
SYMMETRY DeviceSymmetry
INVARIANTS
  ReportedStateIsOwn
