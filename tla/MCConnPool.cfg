\* Three connections, two uploads, two transactions, one query: fewer uploads than connections.
SPECIFICATION FairSpec
CONSTANTS
  up1 = up1  up2 = up2  tx1 = tx1  tx2 = tx2  q1 = q1
  Uploads <- TwoUploads
  Txs <- TwoTxs
  Queries <- OneQuery
  MaxConn = 3
CHECK_DEADLOCK FALSE
INVARIANTS TypeOK Conserved SomebodyCanGoOn
PROPERTY Answered
