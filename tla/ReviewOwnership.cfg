\* One ticket over two revisions and attempts, two entries, recoveries that race;
\* a fair pump: nothing that may start waits for ever.
CONSTANTS
  Tickets = {t1}
  Capacity = 1
  MaxRevision = 2
  MaxAttempts = 2
  Pools = {p1}
  NoPool = NoPool
  Limits = {1}
  MaxEntries = 2
  MaxRecoveries = 2
SPECIFICATION FairSpec
INVARIANTS
  SlotIsOwnership
  ReviewedStaysPut
  AcceptedOnReport
  ClosedPoolQuiet
PROPERTIES
  SettledIsFinal
  QueueDrains
