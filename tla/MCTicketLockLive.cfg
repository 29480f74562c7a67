CONSTANTS
  Thread = {t1, t2, t3}
  LAST_TICKET = 1
SPECIFICATION FairSpec
PROPERTY TicketIsServed
PROPERTY SomeoneAcquires
