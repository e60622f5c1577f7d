\* Two delivered tickets, two slots, a limit that changes and drains.
CONSTANTS
  Tickets = {t1, t2}
  Capacity = 2
  MaxRevision = 1
  MaxAttempts = 1
  Pools = {p1}
  NoPool = NoPool
  Limits = {1, 2}
  MaxEntries = 2
  MaxRecoveries = 1
SPECIFICATION DeliveredSpec
CONSTRAINT InReview
SYMMETRY TicketSymmetry
INVARIANTS
  ReviewLimitHolds
