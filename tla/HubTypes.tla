------------------------------ MODULE HubTypes ------------------------------
(***************************************************************************)
(* What the verification hub (bots/bot_hub.go) and the abstract feed it    *)
(* implements talk about: websocket clients, the topics they listen to,    *)
(* and the status messages of the bots under verification.                 *)
(***************************************************************************)
EXTENDS Naturals, Sequences

CONSTANTS
  Client,     \* verification websockets, one per OpenVerifyWS call (fresh SessionID each)
  User,       \* user ids
  Slug,       \* game slugs as spelled in requests
  Profile,    \* the empty game_slug: "listen to all my bots"
  Bot,        \* bots under verification, one processTestingStatus goroutine each
  BotAuthor,  \* author of each bot
  BotSlug,    \* slug of each bot as spelled in its CreateBot form
  GameOf,     \* slug -> the spelling stored in games.slug (CITEXT: case is ignored)
  MaxStatus,  \* bound: statuses broadcast for each bot
  NoKey, NoClient, NoMsg

Topic == Slug \cup {Profile}
Key == User \X Topic                              \* UserID -> GameSlug
Message == [bot : Bot, n : Nat \ {0}]            \* the n-th status of a bot

ASSUME HubAssumption ==
  /\ Profile \notin Slug                          \* no game has an empty slug (games.sql)
  /\ BotAuthor \in [Bot -> User]
  /\ BotSlug \in [Bot -> Slug]
  /\ GameOf \in [Slug -> Slug]
  /\ MaxStatus \in [Bot -> Nat]
  /\ NoKey \notin Key
  /\ NoClient \notin Client
  /\ NoMsg \notin Message

GameKey(b) == <<BotAuthor[b], BotSlug[b]>>        \* "those who listen to one game"
ProfileKey(b) == <<BotAuthor[b], Profile>>        \* "those who listen to the profile"
=============================================================================
