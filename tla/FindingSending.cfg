\* A rejected runtime leaves its batch sending on an unowned ticket.
CONSTANTS
  Tickets = {t1}
  Capacity = 1
  Snapshots = {s1}
  OutOfScope = {}
  NoSnapshot = NoSnapshot
  Instructions = {i1}
  MaxRevision = 1
  MaxAttempts = 1
  MaxVerifications = 0
SPECIFICATION Spec
INVARIANTS
  SendingAwaitsReceipt
