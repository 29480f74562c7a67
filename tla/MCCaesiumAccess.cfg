\* Two threads with non-atomic, atomic and compare-and-swap accesses of one and
\* two bytes, overlapping, to a global and to heap blocks of a memory of three, with
\* the memory orders that the frontend emits.
SPECIFICATION Spec
CONSTANTS
  Thread = {t1, t2}
  AllocId = {a1, a2, a3}
  Byte = {b0, b1}
  MPoison = poison
  MaxAddr = 5
  bytes_per_addr = 1
  MaxDepth = 1
  Fn <- mc_Fn_access
  GlobalVars <- mc_GlobalVars_access
  SourceOrder <- mc_SourceOrder_frontend
  AccessLayout <- mc_AccessLayout_access
SYMMETRY Symm
CHECK_DEADLOCK FALSE
INVARIANTS
  LockStatesExact
  AccessCompletes
  ReadStable
  PointersTellApart
  GlobalsOutlive
