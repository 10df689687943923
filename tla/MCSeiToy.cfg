\* Every program of four words out of the instance's, under both policies.
CONSTANTS
  ByteMod = 8
  Modulus = 4096
  ImmMod = 64
  RegCount = 2
  Regions <- MCRegions
  DeviceBase = 24
  ReadyAfter = 1
  ReadyValue = 9
  UnknownDefault = 3
  Programs <- MCPrograms
  Policies <- MCPolicies
  MaxFuel = 6
SPECIFICATION ThreeSpec
INVARIANTS TypeOK SameLog SameRun
CHECK_DEADLOCK FALSE
