# Formal models of the HotCode backend

TLA+ specifications, model-checking configurations and TLAPS proofs for the backend in `src/`
(Go). The service keeps user accounts and games in Postgres, sessions in Redis, sends uploaded
bots to a tester over RabbitMQ and tells the author over websockets how the test goes.

## The system

| Part | Source | State it keeps | Operations |
|---|---|---|---|
| verification hub | `bots/bot_hub.go` | `h.sessions`: UserID → GameSlug → SessionID → channel; three unbuffered channels | `registerClient`, `unregisterClient`, broadcast, all in the one goroutine `run` |
| websocket client | `bots/bot_client.go`, `OpenVerifyWS` | connection, `send` channel, two goroutines | `WaitForClose` (reads, then unregisters), `WriteStatusUpdates` (statuses and pings) |
| bot upload | `CreateBot`, `bots/bot_model.go` | table `bots` | `Create`, `SetBotVerifiedByID`, two reads |
| verification RPC | `bots/bot_verify.go` | a reply queue and two goroutines per upload | `sendForVerifyRPC`, `processTestingStatus` |
| accounts | `users/user_*.go`, `users.sql` | table `users`, `pwd_ver` kept by a trigger | `CreateUser`, `UpdateUser`, reads |
| sessions | `users/session_*.go`, `middleware.go` | Redis: token → user id, `pwd_ver` | `CreateSession`, `DeleteSession`, `WithAuthentication` |
| connection pool | `database/postgres.go` | pgx's pool, five connections by default | used by every handler |
| games | `games/*` | tables `games`, `users_games` | `GetGame`, `GetGameList`, `GetGameLeaderboard`, `GetGameTotalPlayers`: reads |
| the rest | `main.go`, `middleware.go`, `queue`, `storage`, `utils`, `testutils` | global connections | start-up, routing, logging, error formats |

How they interact: `CreateBot` commits a row, declares a reply queue, consumes it, publishes the
task and starts a forwarding goroutine, then `processTestingStatus`, and only then answers. Replies
go from the broker's buffer through an unbuffered channel to `processTestingStatus`, which blocks
on `h.broadcast` for every status before it stores a verdict. The hub takes one message at a time
and sends it, also on unbuffered channels, to all who listen to the bot's game and then to all who
listen to the author's profile. A websocket is registered and unregistered through the same loop.
So one slow or dead websocket is in the path of every verdict. Every handler shares the pool of
database connections.

What is hard here: a blocking send to a goroutine that may have returned; two goroutines per client
that close one connection; steps in the middle of which the peer, the broker, the database or the
process goes away; goroutines that tell and store a verdict before the request that started them is
answered; replies delivered after a cancel; reads and writes of one row in different
transactions; a second connection taken inside a transaction. `PROJECT.json` lists these hazards by
line.

## The modules

| Module | What it is |
|---|---|
| `HubTypes` | constants, topics and messages shared by the next two, with the assumption on the constants |
| `StatusFeed` | abstract specification of the hub: subscribe, publish to all who hear in one step, receive in order, leave only when nothing is due |
| `BotHub` | the hub, the two goroutines of every client and `OpenVerifyWS`; includes the refinement mapping to `StatusFeed` |
| `BotHubProofs`, `BotFeedProofs` | theorems about the hub, and about what its clients receive |
| `BotLedger` | abstract specification of an upload and its verification: stored once, then given to the tester, answered finally and in agreement with both, a verdict recorded only after it was told |
| `BotVerification` | `CreateBot`, the RPC, forwarding and processing goroutines, the rows, a lossy channel, restarts; includes the refinement mapping to `BotLedger` |
| `BotVerificationProofs` | its theorems |
| `VerificationSystem` | `BotHub` and `BotVerification` joined at `h.broadcast`, end-to-end properties and the liveness of a verdict |
| `VerificationSystemProofs` | its theorems, which use those of both parts |
| `ConnPool`, `ConnPoolProofs` | how requests take and return pool connections; theorems |
| `Accounts`, `AccountsProofs` | registration, login, update, logout, session expiry and the reads, statement by statement; theorems |
| `Games`, `GamesProofs` | games, leaderboards with their joins, order and pages, and the count of players; theorems |
| `MC*` | small instances for TLC |

Composition: `BotHub` sees the senders of `h.broadcast` as goroutines that offer one status at a
time (`Offer`), which is `processTestingStatus` seen from the channel. `BotVerification` sees the
hub as a receiver that serves, waits for a peer that does not read, or is stuck on a writer that has
returned (`HubMoves`; stuck is never undone except by a restart, `BotHubProofs!BlockedForever`).
`VerificationSystem` puts the two together: the bot of a request is a `Bot` of the hub, an offer is
the same step as the forwarder's hand-over of a reply that is to be announced (`Hand`), the hub's
receive the same step as the end of the broadcast (`Tell`), and `hubBar` computes from the hub's
state what `BotVerification` calls `hub`. Its steps are steps of `BotHub` by construction, each
written with one of that module's actions or leaving its variables alone. That they are steps of
`BotVerification` too, whose view of the hub is an abstraction, is the property `VerificationSpec`,
checked and proved.
`ConnPool` holds the connections of all handlers and nothing of what their statements do.

Definitions called `X_Something` with a comment beginning "Variant" are not part of any
specification. Each is `X` with one plausible mistake (a dropped guard, a `default:` in a select, a
missing close), used to see that the properties notice it.

### BotHub and the code

* `h.sessions` is three sets: `sessions` (clients with an entry), `gameMaps` (pairs whose innermost
  map exists) and `userMaps`. SessionIDs are fresh, so a client is its SessionID.
* A send and its receive on an unbuffered channel are one step. `hubAt` is the client the hub is
  blocked on, `hubTodo` what the `range` has still to visit. `range` runs over a map nobody else
  changes: only `hub.run` touches it.
* `writer` is the program counter of `WriteStatusUpdates`: in its select, in `WriteJSON`, in a ping,
  in its deferred `Close`, returned. An error of `WriteJSON` is only logged, so it is not a
  separate outcome. `reader` is that of `WaitForClose`.
* `conn` becomes `lost` when the peer goes, `shut` when a goroutine of ours closes it. A ping to a
  lost peer may succeed for a while. It is `stalled` while a write of ours is under way and the
  peer does not read: as there is no write deadline, `WriteJSON`, the close frame and the hub behind
  them wait until the peer reads again or is gone.
* A topic may be any slug a client wrote in its query string, or the empty string, the profile.

### BotVerification and the code

* `rows` and `verified` are the table; `Duplicate` is `unique_code`; `CommitUnclear` is a commit
  whose reply is an error although it happened.
* `amqp` is `queue.Channel`: `nil` when `queue.Connect` was never called, as in the checked-in
  `main.go`, `up`, or `down` for good. `RPCFails` covers both the returned errors and the panics
  that `RecoverMiddleware` answers; the row is there in each case.
* The end of `CreateBot` is three steps: `Publish` (the task is in `tester_rpc_queue` and the
  forwarder runs, `bot_verify.go:71-124`), `StartProcessor` (`bot_handle.go:88`) and `RespondOK`
  (line 89). Between them the tester may reply, the forwarder wait for a reader, a status be told
  and a verdict stored, and the process die with the client unanswered.
* `Reply` classifies what can arrive by what the code does with it; `foreign` is a win under another
  correlation id, which the forwarder skips. `inbox` is the buffer between the broker and the
  goroutine; ending a consumer loses a suffix of it.
* `SaveFails` is an UPDATE that reports an error, whether it was made or not.
* `tasks`, `sent`, `told` and `unsaved` are history variables.
* The script `bots.sql` does not declare `is_verified`, which `SetBotVerifiedByID` writes and the
  queries read; the model takes the deployed table to have it, false at first.
* `Ledger` maps a request's `told` to the verdict `processTestingStatus` has broadcast and is about
  to save.

### Accounts and the code

* Each database or Redis call is a step; transactions with a check and a write are two steps in
  `CreateUser` (the check does not lock the name) and one in `Save`, where the only thing a
  competitor can do between check and write is to make the write fail, which `UpdateFails` covers.
* `Hash` has the request in it because bcrypt salts: equal passwords have different hashes, and the
  trigger compares hashes. The scripts in `src` do not declare `pwd_ver`, which both the trigger and
  the queries use; the model takes the deployed table to have it, starting at 0.
* `passwords`, `raced`, `renamed` and the field `pwd` of a session are history. `raced` has the
  updates that have read their row and not yet written it when another update of the same account
  is saved; an update that fails, or that was saved before the read, adds nothing to it. `renamed`
  has the accounts whose name a saved update has changed.
* An account of another name than the one its registration looks for in the login that follows is
  possible, when somebody who has logged in to it renames it in between; `RegistrationsOwn` excepts
  it. To see it takes four requests, one more than the run has; the theorem covers it.
* `CheckUsername`, `GetUser` and `GetSession` are one statement each. `GetUser` by an id and
  `GetSession` by the id of a session read the same row (`GetUserByID`).

### Games and the code

* `score` is `users_games`, by game and player; games themselves are fixed. Nothing in `src` writes
  either table, so `Play` is external. The columns of a game are left out, as the handlers copy
  them. The scripts in `src` do not declare `bot_code`, which every query of a game selects; the
  model takes the deployed table to have it.
* `Rows` is the result of the two joins: one row per player of the game, or, by the RIGHT JOIN, one
  row of NULLs when there is none. `Ordered` gives every order `ORDER BY score DESC` allows.
* A query's rows come from one snapshot, so the query and its `rows.Next` loop are a step; the loop
  may end early (`cut`), because `rows.Err` is not looked at. Postgres refuses a negative LIMIT or
  OFFSET when it executes the statement, which pgx reports through `rows.Next` as well: the client
  gets 404 (`EmptyLeaderboard`).
* `seen` and `cut` are history.

### ConnPool and the code

* A request takes one connection after another, and only uploads take one while they hold another.
  `CreateUser` and `UpdateUser` run a transaction and a query one after the other; as they hold
  nothing in between, each of the two counts as a request of its own.

## What the runs check

| Run | Instance | Result |
|---|---|---|
| `hub_safety` | 2 clients, 2 users, 2 bots of one user with 2 statuses and 1, client symmetry; 1.7 million states | type, no send on a closed channel, exact maps, contiguous and complete feeds, the inductive invariant, refinement of `StatusFeed`, and that a blocked hub stays blocked |
| `hub_live` | 2 clients, 1 user, 1 bot, 1 status | broadcasts end and clients leave unless the hub is blocked |
| `hub_stall` | the same | **violated**: a pending listener with a healthy connection is never served |
| `hub_spelling` | 1 game, 2 spellings | **violated**: a listener of the game is skipped |
| `verification` | the same bot uploaded twice, 3 replies to one and 1 to the other, 1 restart; 4.1 million states | answers agree with the table and the published tasks, a forwarder has its reader, verdicts come from the tester, listeners are told in order, what is stored was told; the inductive invariant; refinement of `BotLedger` |
| `verification_queue` | 1 reply | **violated**: a reply queue outlives its goroutine |
| `system` | 1 websocket, 2 users, 1 bot, 2 replies; 299 thousand states | both sides of `h.broadcast` agree; the hub is to the upload what `BotVerification` takes it for; a websocket hears what the tester said; verdicts are told, goroutines return, a listening author hears the verdict |
| `pool` | 3 connections, 2 uploads, 2 transactions, 1 query | connections conserved, no mutual wait, all answered |
| `pool_uploads` | 2 connections, 2 uploads, 1 transaction, 1 query | **violated**: nobody is answered |
| `accounts` | 3 requests, 3 accounts, 3 names, 2 passwords, 2 photos, request symmetry; 3 million states | `pwd_ver` numbers the hashes, sessions match it, registrations log in to the account they made, an update loses only what was saved since it read; the inductive invariant |
| `accounts_password` | 3 requests, 1 account | **violated**: an update without a password restores an old one |
| `games` | 2 requests, 3 players, scores 0 to 2, a slug with and one without a game, limits and offsets absent, -1, 0, 1 and 2; 3.7 million states | leaders have the ranks their scores give, consecutive pages tile the board up to ties, a count promises the pages below it |

The violated runs are disagreements between the code and what its comments, tests or schema say;
`PROJECT.json` quotes the lines.

* `hub_stall`: a writer's ping fails and it returns; until its reader has unregistered, a broadcast
  blocks `hub.run` on it for ever, and registration, unregistration and every verdict with it.
* `hub_spelling`: `games.slug` is CITEXT, the hub's keys are not.
* `verification_queue`: `break` after an undecodable reply skips `Cancel`.
* `pool_uploads`: `Create` takes a second connection inside its transaction.
* `accounts_password`: `Save` writes back the whole row an earlier statement read.

### Bounds

Two clients give every interference the hub knows: two on one key, two on different keys of one
user, two users, game against profile. Two statuses of a bot give a repetition, an inversion and a
loss; the loss of the first or the last of them leaves no gap in what a client got, which is why
`NothingMissed` compares it with what the hub has taken. A second bot of the same author puts
another sender in the queue and another bot's status between two of the first; the second user's
clients come and go beside them. The liveness run has one status, because with strong fairness per
client the tableau grows fast; a client that lags behind and one that dies are both in it.

Three replies to a queue give a status before a verdict, a verdict after a verdict, garbage after
either, and a lost reply followed by a later one; the competitor's one gives it a verdict or a
status. In this run the tester never says that the bot lost: in `BotVerification` that differs from
an error only by its text. One restart falls between any two steps. Uploading one bot twice gives
the race for `unique_code`. The system's replies are a status and a lost game, one that closes and
one that does not (with liveness, time grows fast with each; the others are in `verification`); its
websocket may belong to the author or to somebody else, listen to the game or the profile, stall,
fail and leave at any time. The races of several websockets and of several uploads are in the runs
of the two parts, and the refinements carry them over.

Three account requests give a login or registration and two updates at once, or a login that
overlaps a password change. Two game requests give a count and a page, or two pages; three players
with three scores give strict orders, ties of two and of three, and a game some or none have
played. `Play` stops when no request is left to notice it.

`MaxStatus`, `MaxReplies`, `MaxRestarts` and `MaxScore` bound counters and numbers, `Replies` and
`Param` what comes from outside; requests and clients are used once. When all of them are used up
the system stops, hence `CHECK_DEADLOCK FALSE`. The pool runs without restriction on order; a
request that has been answered does nothing more.

### Fairness

Go runs every runnable goroutine, so steps that need nobody else are weakly fair. A goroutine
blocked on a channel is in its queue, and `select` picks among ready cases at random, so a case that
is ready again and again is taken: strong fairness for registration, unregistration, the receipt of
a broadcast and a writer's receive. A ping to a lost peer fails in the end (TCP), so `PingFail` is
strongly fair, but reads are sure to fail only when the connection is shut, as the read deadline is
not set before the first pong. A write to a peer that reads or is gone returns (`WriterRuns`), one
to a stalled peer need not. Peers owe nothing, so one may stall again for every status: the
properties say what follows if the hub is not held up for ever in this way (`<>[]~HubHeldUp`), and
except the hub that waits for a writer that has returned.

In `VerificationSystem` the goroutines of an upload are weakly fair where they need nobody, `Tell`
is strongly fair because the sender is in the channel's queue whenever the hub returns to its
select; the tester, the network and the peers owe nothing, so `VerdictHandled`, `PipelinesEnd` and
`AuthorHears` begin when a reply is there.

So the liveness properties leave out what the code does not prevent, and the hazards say so: a hub
stuck on a writer that has returned (`HubBlocked`; `hub_stall` shows it), a hub that peers hold up
for ever by not reading (no write deadline), a verdict kept from being stored by either, and a
tester that never answers (no timeout). `BotVerification`, `Accounts` and `Games` state no
fairness. In `ConnPool` a released connection wakes a waiter, which a newcomer may overtake: strong
fairness of `Acquire`.

## What is proved

TLAPS proves these, for every value of the constants that meets the module's assumption (all of
them are below). Each is `Spec => []P`, an action property or a refinement, and `P` is what the run
of that part checks, unless the table says otherwise.

| Module | Theorem | States |
|---|---|---|
| `BotHubProofs` | `TypeCorrect`, `SendsAreSafe`, `SessionsCorrect`, `MapsCorrect` | `TypeOK`, `NoSendOnClosed`, `SessionsExact`, `MapsExact` |
| | `BlockedForever` | the action property `HubStuckForever` |
| | `HubImplementsFeed` | the refinement `FeedSpec` of `StatusFeed` |
| `BotFeedProofs` | `FeedInvariantHolds` | the inductive invariant `FeedIInv` |
| | `ListenersUpToDate`, `FeedHasNoGaps` | `NothingMissed`, `FeedContiguous` |
| | `OnlyListenersHear` | `FeedOK`, a part of `FeedIInv` |
| `BotVerificationProofs` | `InvariantHolds`, `TypeCorrect` | the inductive invariant `IInv`, `TypeOK` |
| | `AnswersAreTrue`, `ForwarderHasReader` | `AnswersTruthful`, `ForwarderHeard` |
| | `OnlyTesterVerifies`, `RepliesToldInOrder`, `StoredIsLastTold` | `VerifiedByTester`, `ToldInOrder`, `LastVerdictStored` |
| | `ToldFirst` | the action property `ToldBeforeStored` |
| | `VerificationImplementsLedger` | the refinement `LedgerSpec` of `BotLedger` |
| `VerificationSystemProofs` | `SystemRefinesVerification` | the refinement `VerificationSpec` |
| | `ChannelAgreed`, `OnlyTestersWord` | `Coupled`, `HeardFromTester` |
| `ConnPoolProofs` | `TypeCorrect`, `NoConnectionLost`, `DeadlockOnlyByUploads` | `TypeOK`, `Conserved`, `SomebodyCanGoOn` |
| | `FewUploadsNoDeadlock` | the remedy, in no run: with fewer uploads admitted than connections somebody can always go on |
| `AccountsProofs` | `AccountsInvariant`, `TypeCorrect` | the inductive invariant `IInv`, `TypeOK` |
| | `VersionIsCount`, `VersionTellsSessions`, `OwnAccount` | `VersionCountsHashes`, `SessionMatchesVersion`, `RegistrationsOwn` |
| | `LostUpdatesRaced` | the action property `OnlyRacesLoseUpdates` |
| `GamesProofs` | `GamesInvariant` | the inductive invariant `IInv`, in no run |
| | `TypeCorrect`, `RanksAreTrue`, `PagesFitTogether`, `CountsPromisePages` | `TypeOK`, `PageRanks`, `PagesTile`, `CountThenPage` |

With them every invariant, every action property and every refinement of the passing runs is
proved.

### The arguments

*The hub.* That no send meets a closed channel is not inductive: one has to know that the clients a
loop still has to visit are registered (`HubLoopOK`, `Serves`), that a registered client's channel
is open (`SessionsExact`), and that nobody registers or unregisters while the hub is in a loop,
which is the guard `hubPc = "select"`. `ClientOK` ties the handler to the goroutines it starts, so
that a client is registered once. `NextIInv` has one step per action. The refinement maps
`listening` to the registered keys, `published` to `taken` and `due` to what the two loops still
owe: a status is published when the hub takes it from the channel, each delivery is a receive, and
the steps of the loops are stutters. It needs `IInv` (a client that is to be visited hears the bot).

*The feeds.* `FeedContiguous` looks only at what a client got and says nothing of what it is due.
`FeedIInv` adds `NothingMissed`, the last status of a bot that a registered client got is `taken`
less the one in the hub's hands, and `FeedOK`, nothing is heard before registration, of other bots
or of later statuses than those taken. A delivery then appends `taken`, which is one more than the
last status of that bot; a step that delivers nothing is `FeedQuiet`.

*Upload and verification.* `ToldInOrder` says that what was told lists the announced replies among
the first n the tester published, for some n. It is not inductive by itself, as a reply that is to
be told next may be in the buffer or with either goroutine. `PipelineOK` names n, the number of
replies the forwarder has read: told, then what the processor holds, then what the forwarder holds
(`InFlight`) are the announced ones among the first n, and the buffer goes on from n, to the last
one published as long as the queue has its consumer. A restart or a lost channel drops what is in
flight; that what was told still lists a shorter start is `AnnouncesFront`, one of the lemmas about
strictly increasing embeddings. `StagesOK` ties the counters of the handler and of the two
goroutines to rows, published tasks, answers and verdicts: in the stage "save" the goroutine holds
the verdict told last, nothing runs or was published to a request's queue before its task was, and
what was published is answered 200 or, if the process dies first, nothing. `ForwarderHeard` is part
of the invariant: a processor starts one step after its forwarder and returns only when that one has
closed the channel. `LastVerdictStored` speaks of three cases: a verdict is being saved, the
goroutine is gone with the process, perhaps just before it saved, or neither. `ToldFirst` and the
refinement follow. The refinement maps each step to one of `BotLedger` or a stutter: a task is sent
there when it is published, a verdict told when `h.broadcast` takes it and recorded when it is
saved, all this before or after the answer.

*The composition.* A step of the composition is one of `BotHub` or leaves its variables alone (the
lemma `SystemHub`), which gives the composition every theorem of `BotHub`.
`SystemRefinesVerification` needs them: what `BotVerification` takes for
granted, that a stuck hub stays stuck and that a step does not take it from waiting to stuck, is
proved of `hubBar` (`HubStepMoves`) from the hub's invariant. Then the theorems of
`BotVerification` hold too, and `Coupled` (taken statuses are told ones, an offer is pending exactly
while a goroutine is in its broadcast) is inductive on top of both. `OnlyTestersWord` is read off
from the three: a client heard a status no later than those taken (`FeedOK`), the n-th taken is the
n-th told (`Coupled`), and what was told the tester published (`PipelineOK`).

*The pool.* Each step moves one request between stages and changes `free` by the difference of what
they hold (`StepIsGoTo`, `GoToConserves`, on cardinalities of finite sets). If nobody can go on,
nothing is free and all held connections are held by requests that wait for their second, so there
are exactly `MaxConn` of them.

*Accounts.* That a session's version tells whether its password is the present one follows from
`VersionCountsHashes` and `HistoryOK`: the version in a session, or in the row a login has read, is
the place of its password among those the account has had, and a history only grows
(`RowsStay`). `RacesKnown` is what an update in progress must know: if the row is no longer what
it read, another update has been saved since (`raced`). `NamesOwn` says that names are unique and
that the account a registration has made keeps the name it is looked for by, or was renamed; hence
the login finds that account (`OwnAccount`). `StagesOK` says what each stage has been given. The
trigger's two cases are the lemma `SavedRow`.

*Games.* `FromBoard` keeps, of an answer, that it is a start of the asked window of some order that
the board allows. The rest is about finite sets: in such an order the place of a player is more
than the number of those with a better score and at most that of those with as good a one
(`Position`), because places are an injection; without ties it is exact (`UntiedPlace`), which with
the bounds of the window (`WindowShows`) gives `PagesFitTogether`. A board is as long as its
players, or one row when there are none (`ListLength`), which gives `CountsPromisePages`.

### The assumptions

`HubAssumption` (the empty slug names no game; each bot has an author, a slug and a bound on its
statuses; `GameOf` maps slugs to slugs), `VerificationAssumption`, `PoolAssumption`,
`AccountsAssumption` and `GamesAssumption` give the constants their types, and say that `None` and
its like are none of the values they stand beside. `GamesAssumption` has finitely many players, as
their number is an answer; `PoolAssumption` has finitely many requests of three different kinds, as
their connections are added up, and at least one connection. No other set is bounded.
`SystemAssumption` types the upload of each bot and the replies. TLC evaluates all of them.

### What is only model-checked

Liveness, which the prover does not reach under fairness or ENABLED: `HubServesBroadcasts` and
`ClientsLeave` of the hub, `VerdictHandled`, `PipelinesEnd` and `AuthorHears` of the composition,
`Answered` of the pool. And the five violated runs, which are counterexamples.

## What is not modelled

`GetBotsList`, which reads and copies. The rate limiter of `/users/used`, which is the token bucket
of `golang.org/x/time/rate` and one call here. Request decoding and error formats, start-up and
routing, logging; the connections `main` opens are there with their failures, not how they are
dialled. The `active` columns, which no handler changes. What the websocket library does with bytes:
a status taken by a writer counts as received, also when its `WriteJSON` then fails, an error that
is only logged. Two instances of the server: the hub is one process's memory.

## Plan

1. State the safety side of the liveness properties as theorems, as `DeadlockOnlyByUploads` does
   for the pool: when a verdict is not stored, the hub is stuck or waits for a peer, or a goroutine
   of the upload can go on.
2. Prove what the abstract specifications promise by themselves (`StatusFeed`: feeds without gaps;
   `BotLedger`: one row per upload), so that the refinements carry it down.
3. Say in which order two overlapping updates of an account must be for the password to be restored
   (`PasswordNeedsOld`), and prove that they never are when `Save` names only the columns that
   change.
