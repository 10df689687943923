\* An exception in MIPS16e code outside any delay slot is recorded as one inside.
CONSTANTS
  AddrSpace = 16
  VECTOR = 0
  Reset = {8}
  Target = {4, 13}
  CountMod = 3
  CountWrite = {0, 2}
  Lines = {ip7}
  Timer = ip7
  None = None
SPECIFICATION Spec
PROPERTIES PreciseIn16
CHECK_DEADLOCK FALSE
