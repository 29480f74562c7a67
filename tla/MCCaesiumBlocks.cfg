\* Two threads with two levels of calls and a heap, in a memory of two bytes, and
\* accesses of all memory orders, Na2Ord included.
SPECIFICATION Spec
CONSTANTS
  Thread = {t1, t2}
  AllocId = {a1, a2, a3, a4}
  Byte = {b0}
  MPoison = poison
  MaxAddr = 4
  bytes_per_addr = 2
  MaxDepth = 2
  Fn <- mc_Fn_blocks
  GlobalVars <- mc_GlobalVars_blocks
  SourceOrder <- order
  AccessLayout <- mc_AccessLayout_blocks
SYMMETRY Symm
CHECK_DEADLOCK FALSE
INVARIANTS
  TypeOK
  HeapStateInvariant
  FramesAreTheStack
PROPERTY AllocsOnlyDie
