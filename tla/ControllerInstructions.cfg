\* One instruction queued or sent live, over two attempts and revisions.
CONSTANTS
  Tickets = {t1}
  Capacity = 1
  Snapshots = {s1}
  OutOfScope = {}
  NoSnapshot = NoSnapshot
  Instructions = {i1}
  MaxRevision = 2
  MaxAttempts = 2
  MaxVerifications = 0
SPECIFICATION Spec
INVARIANTS
  HandedOnce
