CONSTANTS
  Base = 8
  MSG_MARK = 7
  MSG_ESC = 5
  MSG_ESCMARK = 2
  MSG_ESCESC = 3
  MSG_MAXLEN = 1
  MSGRECV_MAXRETR = 3
  Types = 2
  Replies <- MCReplies
  MaxMishaps = 2
SPECIFICATION Spec
INVARIANTS TypeOK InsideFrame ReturnedWasSent SurvivesLoss
