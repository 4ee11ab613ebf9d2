CONSTANTS
  Request = {r1, r2, r3}
  None = None
  Workers = 3
SPECIFICATION FairSpec
INVARIANT TypeOK
INVARIANT OwnReplySerial
INVARIANT NoMissedReply
PROPERTY AnsweredSerial
CHECK_DEADLOCK FALSE
