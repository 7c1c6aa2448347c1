\* Six alerts through a buffer of two, stopped at any moment.
SPECIFICATION FairSpec
CONSTANTS
  QueueCap = 2
  MaxSends = 6
INVARIANTS
  TypeOK
  Accounted
  DrainedOnReturn
PROPERTIES
  ImplementsOutbox
  TakenIsServed
  StopReturns
CHECK_DEADLOCK FALSE
