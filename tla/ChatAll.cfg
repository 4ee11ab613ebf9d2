CONSTANTS
  Client = {me, a, b}
  Session = {s1}
  None = None
  Me = me
  MaxHandlers = 2
SPECIFICATION ChatFairSpec
INVARIANT ChatTypeOK
INVARIANT Converged
INVARIANT KnownForGood
INVARIANT PanicExplained
PROPERTY EndCloses
CHECK_DEADLOCK FALSE
