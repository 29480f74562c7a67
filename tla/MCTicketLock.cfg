CONSTANTS
  Thread = {t1, t2, t3}
  LAST_TICKET = 2
SPECIFICATION Spec
INVARIANT MutualExclusion
INVARIANT TicketPartition
INVARIANT HalfResetIsInert
PROPERTY ResetWhenDrained
PROPERTY FirstComeFirstServed
PROPERTY ImplementsLock
