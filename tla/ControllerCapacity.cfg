\* Two tickets compete for one slot; crashes leave fences behind.
CONSTANTS
  Tickets = {t1, t2}
  Capacity = 1
  Snapshots = {s1}
  OutOfScope = {}
  NoSnapshot = NoSnapshot
  Instructions = {}
  MaxRevision = 1
  MaxAttempts = 1
  MaxVerifications = 1
SPECIFICATION Spec
SYMMETRY TicketSymmetry
PROPERTIES
  ImplementsLease
