\* TLBP of an odd page finds its even neighbour, or nothing.
CONSTANTS
  AddrSpace = 32
  PageSize = 4
  LoUnit = 2
  HiWrite = {0, 5}
  LoWrite = {3, 21}
  IndexWrite = {1}
  Used = {1, 4, 17}
  MaxTlb = 3
SPECIFICATION Spec
PROPERTIES ProbeFinds
