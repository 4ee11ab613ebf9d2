CONSTANTS
  Request = {r1, r2}
  None = None
  Workers = 2
SPECIFICATION Spec
INVARIANT OwnReply
CHECK_DEADLOCK FALSE
