SPECIFICATION FairSpec
CONSTANTS
  Worker = {w1, w2}
  MaxChains = 2
  MaxSends = 1
INVARIANTS
  TypeOK
  OneOfEach
  AbortedNeverRuns
  DhtThreadOutlived
  CallbacksFindPage
PROPERTIES
  DestructorEnds
  TimersKeepFiring
CHECK_DEADLOCK FALSE
