\* One status suffices: a client whose ping failed keeps the hub from the next one.
SPECIFICATION FairSpec
CONSTANTS
  c1 = c1  c2 = c2  u1 = u1  u2 = u2  b1 = b1  b2 = b2
  chess = chess  CHESS = CHESS  profile = profile
  Client <- Clients
  User <- OneUser
  Slug <- OneSlug
  Profile = profile
  Bot <- OneBot
  BotAuthor <- AuthorOfOne
  BotSlug <- SlugOfOne
  GameOf <- OneGame
  MaxStatus <- OneStatus
  NoKey = NoKey  NoClient = NoClient  NoMsg = NoMsg
CHECK_DEADLOCK FALSE
PROPERTY PendingListenersServed
