\* One bot uploaded twice, three replies to one and one to the other, one restart: safety.
SPECIFICATION Spec
CONSTANTS
  r1 = r1  r2 = r2  bot1 = bot1  bot2 = bot2
  Request <- Twice
  Upload <- TwoUploads
  UploadOf <- UploadTwice
  GameExists <- SomeGames
  Replies <- NoLoss
  MaxReplies <- ThreeAndOne
  MaxRestarts = 1
CHECK_DEADLOCK FALSE
INVARIANTS TypeOK AnswersTruthful ForwarderHeard VerifiedByTester ToldInOrder LastVerdictStored IInv
PROPERTIES ToldBeforeStored LedgerSpec
