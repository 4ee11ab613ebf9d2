CONSTANTS
  Client = {c1, c2, c3}
  Session = {s1}
  None = None
  Message = {m1}
SPECIFICATION RelayFairSpec
INVARIANT RelayTypeOK
INVARIANT OnceUnlessHostJoined
INVARIANT BroadcastComplete
INVARIANT PrivateAnswered
INVARIANT OnlyMembersExecute
PROPERTY HandleReturns
CHECK_DEADLOCK FALSE
