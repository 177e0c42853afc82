SPECIFICATION Spec
CONSTANTS
  Args = {abs, rel}
  Absolute = {abs}
  Cwds = {home}
  Slash = slash
PROPERTIES
  StorageStays
CHECK_DEADLOCK FALSE
