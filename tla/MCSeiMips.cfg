\* All of MIPS32 and MIPS16e under the most general firmware.
CONSTANTS
  AddrSpace = 16
  VECTOR = 0
  Reset = {8}
  Target = {4, 13}
  CountMod = 3
  CountWrite = {0, 2}
  Lines = {ip7}
  Timer = ip7
  None = None
SPECIFICATION Spec
INVARIANTS TypeOK
PROPERTIES ImplementsPreciseFlow LinkedStore TimerFires
CHECK_DEADLOCK FALSE
