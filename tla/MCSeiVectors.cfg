\* The five scripts, oracles that refuse some groups, and every fault.
CONSTANTS
  Tools = {"mips", "a32", "t16", "t32", "narrow"}
  Dropped <- Groups
  FaultNames = {"never", "always", "sll_modulo_16", "sra_logical", "addiu_zero_extends", "mthi_writes_lo", "madd_replaces", "link_missing", "sb_stores_word", "lb_zero_extends", "sw_no_store", "teq_never_traps", "beql_keeps_slot", "ldmdb_as_ib", "ldmda_as_ia", "writeback_lost", "offset_of_8_bits", "bx_keeps_state", "vcmp_ordered", "stmia_no_store", "push_no_store", "cbnz_as_cbz", "ldr_lit_rd", "ldr_lit_offset", "cond_bits_exchanged", "rt_as_rd", "far_store_lost", "ldrs_zero_extends", "imm8_not_subtracted", "moved_base_lost", "block_upward", "listed_base_moved", "strex_unconditional", "mul_adds", "clz_wrong", "udiv_wrong", "sdiv_not_truncated", "lr_listed_twice", "ldrs_offset_unsigned", "shift_by_zero", "imm_not_rotated", "imm_carry_lost", "movt_clears", "usat_as_ssat", "minimum_not_clamped", "short_shift"}
SPECIFICATION Spec
INVARIANTS TypeOK InputsFrozen NoFalseAlarm FaultsFound DefinedResults AccessesCaptured
