SPECIFICATION Spec
CONSTANTS
  a = a
  b = b
  c = c
  None = None
  Devices = {a, b, c}
  Describable = {a, b}
  LateAdoption = FALSE
  MayInterrupt = FALSE
SYMMETRY DeviceSymmetry
INVARIANTS
  RestartRestoresBinding
