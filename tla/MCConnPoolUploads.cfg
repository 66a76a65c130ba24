\* As many uploads as connections.
SPECIFICATION FairSpec
CONSTANTS
  up1 = up1  up2 = up2  tx1 = tx1  tx2 = tx2  q1 = q1
  Uploads <- TwoUploads
  Txs <- OneTx
  Queries <- OneQuery
  MaxConn = 2
CHECK_DEADLOCK FALSE
PROPERTY Answered
