\* The claim about event logs, undefined opcodes among the instance's.
CONSTANTS
  ByteMod = 8
  Modulus = 4096
  ImmMod = 64
  RegCount = 2
  Regions <- MCRegions
  DeviceBase = 24
  ReadyAfter = 1
  ReadyValue = 9
  UnknownDefault = 3
  Programs <- MCPrograms
  Policies <- MCPolicies
  MaxFuel = 6
SPECIFICATION ThreeSpec
INVARIANTS EventLogsIdentical
