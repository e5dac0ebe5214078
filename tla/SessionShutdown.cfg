SPECIFICATION Spec
CONSTANTS
  Worker = {w1, w2}
  MaxChains = 1
  MaxSends = 1
INVARIANT
  HandlersFindMembers
CHECK_DEADLOCK FALSE
