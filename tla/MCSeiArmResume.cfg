SPECIFICATION Spec
CONSTANTS
  AddrMod = 32
  Targets = {0}
  Sps = {1}
  Kinds = {"undef", "swi", "dabt", "irq", "fiq"}
  Blocks <- MCBlocks
  ThumbSizes = {2}
  Psrs <- MCPsrs
  Fuel = 4
  MaxRuns = 3
  MaxDepth = 2
PROPERTIES
  ResumesWhereLeftOff
