\* Two clients, two users, two bots of one, two statuses of one bot, one of the other: safety and refinement.
SPECIFICATION Spec
CONSTANTS
  c1 = c1  c2 = c2  u1 = u1  u2 = u2  b1 = b1  b2 = b2
  chess = chess  CHESS = CHESS  profile = profile
  Client <- Clients
  User <- TwoUsers
  Slug <- OneSlug
  Profile = profile
  Bot <- TwoBots
  BotAuthor <- AuthorsOfTwo
  BotSlug <- SlugsOfTwo
  GameOf <- OneGame
  MaxStatus <- TwoAndOne
  NoKey = NoKey  NoClient = NoClient  NoMsg = NoMsg
SYMMETRY ClientSymmetry
CHECK_DEADLOCK FALSE
INVARIANTS TypeOK NoSendOnClosed SessionsExact MapsExact FeedContiguous NothingMissed FeedIInv
PROPERTIES FeedSpec HubStuckForever
