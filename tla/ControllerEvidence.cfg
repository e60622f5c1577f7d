\* Two attempts, two verifications, edits and continuations between and during them.
CONSTANTS
  Tickets = {t1}
  Capacity = 1
  Snapshots = {s1, s2}
  OutOfScope = {}
  NoSnapshot = NoSnapshot
  Instructions = {}
  MaxRevision = 1
  MaxAttempts = 2
  MaxVerifications = 2
SPECIFICATION Spec
INVARIANTS
  PromotedEvidence
  AcceptedEvidence
  ContinuationLineage
PROPERTIES
  EvidenceFrozen
  ImplementsTicketView
