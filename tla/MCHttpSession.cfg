\* Three requests on a connection, of no byte up to one too many.
SPECIFICATION FairSpec
CONSTANTS
  MaxSize = 3
  Lengths = {0, 1, 3, 4}
  MaxRequests = 3
  None = None
INVARIANTS
  TypeOK
  SessionOwns
  AnswersOwnRequest
  OneAnswerEach
  LostExplained
PROPERTY RequestsEnd
\* A connection is closed at last.
CHECK_DEADLOCK FALSE
