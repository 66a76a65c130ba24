\* One reply that is no JSON envelope leaves the queue and its consumer behind.
SPECIFICATION Spec
CONSTANTS
  r1 = r1  r2 = r2  bot1 = bot1  bot2 = bot2
  Request <- Twice
  Upload <- TwoUploads
  UploadOf <- UploadTwice
  GameExists <- SomeGames
  Replies <- Reply
  MaxReplies <- OneReplyEach
  MaxRestarts = 0
CHECK_DEADLOCK FALSE
INVARIANT QueueDeletedAfterwards
