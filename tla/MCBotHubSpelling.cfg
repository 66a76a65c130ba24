\* One game under two spellings of its CITEXT slug.
SPECIFICATION Spec
CONSTANTS
  c1 = c1  c2 = c2  u1 = u1  u2 = u2  b1 = b1  b2 = b2
  chess = chess  CHESS = CHESS  profile = profile
  Client <- Clients
  User <- OneUser
  Slug <- TwoSpellings
  Profile = profile
  Bot <- OneBot
  BotAuthor <- AuthorOfOne
  BotSlug <- SlugOfOne
  GameOf <- OneGameTwoSpellings
  MaxStatus <- OneStatus
  NoKey = NoKey  NoClient = NoClient  NoMsg = NoMsg
CHECK_DEADLOCK FALSE
INVARIANT GameListenersServed
