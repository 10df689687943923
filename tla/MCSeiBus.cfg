\* The loaded machine, to which the host adds up to two regions and a device.
CONSTANTS
  Name <- MCName
  NoName = NoName
  Byte <- MCByte
  Zero = 0
  One = 1
  WordBytes = 2
  Widths = {1, 2}
  Addr = {0, 1, 2, 3, 4, 5, 6}
  StoreValues <- MCStoreValues
  StatusOff = 0
  CtrlOff = 1
  UnknownDefault <- MCWord
  Boot <- MCBoot
  BootPolicies <- MCPolicies
  HostRegions <- MCHostRegions
  HostDevices <- MCHostDevices
  MaxRegions = 4
  MaxDevices = 2
SPECIFICATION Spec
INVARIANTS TypeOK SingleDecode FrontierSound
PROPERTIES FailedAccessIsSilent DecodeStable GateOpensByController GatedBytesFrozen ImplementsAddressSpace
