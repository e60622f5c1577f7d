\* Two prepared tickets and one slot: who goes first, and who is woken.
CONSTANTS
  Tickets = {t1, t2}
  Capacity = 1
  MaxRevision = 1
  MaxAttempts = 1
  Pools = {p1}
  NoPool = NoPool
  Limits = {1}
  MaxEntries = 2
  MaxRecoveries = 1
SPECIFICATION PreparedSpec
SYMMETRY TicketSymmetry
INVARIANTS
  CapacityShared
  NoLostWakeup
PROPERTIES
  NoOvertaking
