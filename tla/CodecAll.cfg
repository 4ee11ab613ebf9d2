CONSTANTS
  Call = {a, b, c, d}
SPECIFICATION FairSpec
INVARIANT OwnAnswer
INVARIANT NoLeftovers
PROPERTY CallsReturn
CHECK_DEADLOCK FALSE
