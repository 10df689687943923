\* The T32 script alone and the faults of the T32 core itself.
CONSTANTS
  Tools = {"t32"}
  Dropped = {{}}
  FaultNames = {"sdiv_not_truncated", "lr_listed_twice", "ldrs_offset_unsigned"}
SPECIFICATION Spec
INVARIANTS OwnFaultsShown
