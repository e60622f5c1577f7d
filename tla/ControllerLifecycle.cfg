\* One ticket through two revisions and two attempts, with crashes and scope violations; a spare slot, so that ownership alone keeps writers out.
CONSTANTS
  Tickets = {t1}
  Capacity = 2
  Snapshots = {s1, bad}
  OutOfScope = {bad}
  NoSnapshot = NoSnapshot
  Instructions = {}
  MaxRevision = 2
  MaxAttempts = 2
  MaxVerifications = 1
SPECIFICATION Spec
INVARIANTS
  TypeOK
  SingleWriter
  CleanWhenFree
  FencedIsRecoverable
