CONSTANTS
  Client = {c1, c2}
  Session = {s1, s2}
  None = None
  MaxRequests <- Requests
  Busy = {c1, c2}
  LossSilent = TRUE
SPECIFICATION Spec
SYMMETRY Symmetry
INVARIANT TypeOK
INVARIANT DepartOnce
INVARIANT NoPanicWhileConnected
INVARIANT OrphansExplained
INVARIANT ClosedNoticeTrue
PROPERTY SessionsEndWithHost
PROPERTY CloseTellsAll
INVARIANT MembersKnown
PROPERTY ImplementsMembership
CHECK_DEADLOCK FALSE
