\* One attempt with one instruction, every death and every delay.
CONSTANTS
  Instructions = {i1}
SPECIFICATION FairSpec
INVARIANTS
  TerminationIsTrue
PROPERTIES
  ImplementsContract
  ExecuteEnds
  OrphanEnds
CHECK_DEADLOCK FALSE
