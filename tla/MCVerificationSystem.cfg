\* One websocket of one of two users, one bot, two replies: safety, refinement and liveness.
SPECIFICATION FairSpec
CONSTANTS
  c1 = c1  u1 = u1  u2 = u2  b1 = b1  chess = chess  profile = profile  bot1 = bot1
  Client <- OneClient
  User <- TwoUsers
  Slug <- OneSlug
  Profile = profile
  Bot <- OneBot
  BotAuthor <- AuthorOfOne
  BotSlug <- SlugOfOne
  GameOf <- OneGame
  MaxStatus <- TwoReplies
  NoKey = NoKey  NoClient = NoClient  NoMsg = NoMsg
  Upload <- OneUpload
  UploadOf <- UploadOfOne
  GameExists <- OneUpload
  Replies <- SomeReplies
CHECK_DEADLOCK FALSE
INVARIANTS Coupled HeardFromTester
PROPERTIES VerificationSpec VerdictHandled PipelinesEnd AuthorHears
