------------------------------- MODULE BotHub -------------------------------
(***************************************************************************)
(* The verification hub (bots/bot_hub.go), the two goroutines of every     *)
(* websocket client (bots/bot_client.go) and the handler that opens one    *)
(* (OpenVerifyWS).  All channels are unbuffered: a send and its receive    *)
(* are one step, and a sender whose receiver is not there is blocked.      *)
(***************************************************************************)
EXTENDS HubTypes

VARIABLES
  (* hub.run() *)
  sessions,   \* clients with an entry in h.sessions[UserID][GameSlug][SessionID]
  gameMaps,   \* <<UserID, GameSlug>> whose innermost map exists
  userMaps,   \* UserIDs whose map of games exists
  hubPc,      \* "select", or inside the "game" / "profile" loop of a broadcast
  hubMsg,     \* the message being broadcast
  hubTodo,    \* entries the current range loop has still to visit
  hubAt,      \* the entry whose send channel the hub is blocked on
  (* the channel h.broadcast: blocked senders *)
  offered,    \* [Bot -> statuses the bot's goroutine began to send]
  taken,      \* [Bot -> statuses the hub received]
  (* one websocket *)
  handler,    \* OpenVerifyWS: "idle", "registering", "starting", "done"
  key,        \* <<UserID, GameSlug>> of the BotVerifyClient
  writer,     \* WriteStatusUpdates
  reader,     \* WaitForClose
  conn,       \* "none", "open", "stalled" (a write is pending and the peer does not
              \* read), "lost" (the peer is gone), "shut" (conn.Close called)
  closed,     \* clients whose send channel is closed
  got         \* history: what each writer received on its send channel

hubVars == <<sessions, gameMaps, userMaps, hubPc, hubMsg, hubTodo, hubAt>>
mapVars == <<sessions, gameMaps, userMaps>>
loopVars == <<hubPc, hubMsg, hubTodo, hubAt>>
chanVars == <<offered, taken>>
wsVars == <<handler, key, writer, reader, conn, closed, got>>
vars == <<hubVars, chanVars, wsVars>>

(* h.sessions[u][g], for k = <<u, g>>; a missing map ranges over nothing. *)
Listeners(k) == {c \in sessions : key[c] = k}
-----------------------------------------------------------------------------
Init ==
  /\ sessions = {} /\ gameMaps = {} /\ userMaps = {} /\ closed = {}
  /\ hubPc = "select" /\ hubMsg = NoMsg /\ hubTodo = {} /\ hubAt = NoClient
  /\ offered = [b \in Bot |-> 0]
  /\ taken = [b \in Bot |-> 0]
  /\ handler = [c \in Client |-> "idle"]
  /\ key = [c \in Client |-> NoKey]
  /\ writer = [c \in Client |-> "off"]
  /\ reader = [c \in Client |-> "off"]
  /\ conn = [c \in Client |-> "none"]
  /\ got = [c \in Client |-> <<>>]

(***************************************************************************)
(* OpenVerifyWS.  A failed authentication or upgrade changes nothing; once *)
(* upgraded, the handler blocks on h.register, then starts both            *)
(* goroutines.  game_slug comes from the query string, unchecked.          *)
(***************************************************************************)
OpenVerifyWS(c) ==
  /\ handler[c] = "idle"
  /\ handler' = [handler EXCEPT ![c] = "registering"]
  /\ \E k \in Key : key' = [key EXCEPT ![c] = k]
  /\ conn' = [conn EXCEPT ![c] = "open"]
  /\ UNCHANGED <<hubVars, chanVars, writer, reader, closed, got>>

Register(c) ==                                   \* case client := <-h.register
  /\ hubPc = "select"
  /\ handler[c] = "registering"
  /\ handler' = [handler EXCEPT ![c] = "starting"]
  /\ sessions' = sessions \cup {c}
  /\ gameMaps' = gameMaps \cup {key[c]}
  /\ userMaps' = userMaps \cup {key[c][1]}
  /\ UNCHANGED <<loopVars, chanVars, key, writer, reader, conn, closed, got>>

(* Variant: the writer is never started. *)
Start_ReaderOnly(c) ==
  /\ handler[c] = "starting"
  /\ handler' = [handler EXCEPT ![c] = "done"]
  /\ reader' = [reader EXCEPT ![c] = "reading"]
  /\ UNCHANGED <<hubVars, chanVars, key, writer, conn, closed, got>>

Start(c) ==                                      \* go WriteStatusUpdates(); go WaitForClose()
  /\ handler[c] = "starting"
  /\ handler' = [handler EXCEPT ![c] = "done"]
  /\ writer' = [writer EXCEPT ![c] = "select"]
  /\ reader' = [reader EXCEPT ![c] = "reading"]
  /\ UNCHANGED <<hubVars, chanVars, key, conn, closed, got>>
-----------------------------------------------------------------------------
(* WaitForClose: read until an error, hand the client to h.unregister, close. *)
ReadError(c) ==
  /\ reader[c] = "reading"
  /\ conn[c] # "open"
  /\ reader' = [reader EXCEPT ![c] = "unregistering"]
  /\ UNCHANGED <<hubVars, chanVars, handler, key, writer, conn, closed, got>>

(* Variant: the reader deletes its entry itself instead of asking the hub. *)
Unregister_ByReader(c) ==
  /\ reader[c] = "unregistering"
  /\ reader' = [reader EXCEPT ![c] = "closing"]
  /\ sessions' = sessions \ {c}
  /\ closed' = closed \cup {c}
  /\ gameMaps' = gameMaps \ ({key[c]} \ {key[d] : d \in sessions'})
  /\ userMaps' = userMaps \ ({key[c][1]} \ {k[1] : k \in gameMaps'})
  /\ UNCHANGED <<loopVars, chanVars, handler, key, writer, conn, got>>

(* Variant: the entry goes, the channel stays open. *)
Unregister_NoClose(c) ==
  /\ hubPc = "select"
  /\ reader[c] = "unregistering"
  /\ reader' = [reader EXCEPT ![c] = "closing"]
  /\ sessions' = sessions \ {c}
  /\ gameMaps' = gameMaps \ ({key[c]} \ {key[d] : d \in sessions'})
  /\ userMaps' = userMaps \ ({key[c][1]} \ {k[1] : k \in gameMaps'})
  /\ UNCHANGED <<loopVars, chanVars, handler, key, writer, conn, closed, got>>

(* Variant: an emptied map of games stays behind. *)
Unregister_KeepUserMap(c) ==
  /\ hubPc = "select"
  /\ reader[c] = "unregistering"
  /\ reader' = [reader EXCEPT ![c] = "closing"]
  /\ sessions' = sessions \ {c}
  /\ closed' = closed \cup {c}
  /\ gameMaps' = gameMaps \ ({key[c]} \ {key[d] : d \in sessions'})
  /\ UNCHANGED <<userMaps, loopVars, chanVars, handler, key, writer, conn, got>>

(* case client := <-h.unregister, with the clean-up of emptied maps. *)
Unregister(c) ==
  LET rest == sessions \ {c} IN
  /\ hubPc = "select"
  /\ reader[c] = "unregistering"
  /\ reader' = [reader EXCEPT ![c] = "closing"]
  /\ IF c \in sessions
       THEN sessions' = rest /\ closed' = closed \cup {c}
       ELSE UNCHANGED <<sessions, closed>>
  /\ gameMaps' = IF \E d \in rest : key[d] = key[c] THEN gameMaps ELSE gameMaps \ {key[c]}
  /\ userMaps' = IF \E k \in gameMaps' : k[1] = key[c][1]
                   THEN userMaps ELSE userMaps \ {key[c][1]}
  /\ UNCHANGED <<loopVars, chanVars, handler, key, writer, conn, got>>

ReaderExit(c) ==
  /\ reader[c] = "closing"
  /\ reader' = [reader EXCEPT ![c] = "done"]
  /\ conn' = [conn EXCEPT ![c] = "shut"]
  /\ UNCHANGED <<hubVars, chanVars, handler, key, writer, closed, got>>
-----------------------------------------------------------------------------
(* WriteStatusUpdates: select on the send channel and the ping ticker.  No *)
(* write has a deadline: to a stalled peer it blocks.                      *)
WriteJSON(c) ==                                  \* an error is only logged
  /\ writer[c] = "writing"
  /\ conn[c] # "stalled"
  /\ writer' = [writer EXCEPT ![c] = "select"]
  /\ UNCHANGED <<hubVars, chanVars, handler, key, reader, conn, closed, got>>

SeeClosed(c) ==                                  \* !ok: return
  /\ writer[c] = "select"
  /\ c \in closed
  /\ writer' = [writer EXCEPT ![c] = "exiting"]
  /\ UNCHANGED <<hubVars, chanVars, handler, key, reader, conn, closed, got>>

Tick(c) ==
  /\ writer[c] = "select"
  /\ writer' = [writer EXCEPT ![c] = "pinging"]
  /\ UNCHANGED <<hubVars, chanVars, handler, key, reader, conn, closed, got>>

PingOK(c) ==                                     \* a lost peer is noticed late
  /\ writer[c] = "pinging"
  /\ conn[c] \in {"open", "lost"}
  /\ writer' = [writer EXCEPT ![c] = "select"]
  /\ UNCHANGED <<hubVars, chanVars, handler, key, reader, conn, closed, got>>

(* Variant: a failed ping is only logged. *)
PingFail_LogOnly(c) ==
  /\ writer[c] = "pinging"
  /\ conn[c] \in {"lost", "shut"}
  /\ writer' = [writer EXCEPT ![c] = "select"]
  /\ UNCHANGED <<hubVars, chanVars, handler, key, reader, conn, closed, got>>

PingFail(c) ==
  /\ writer[c] = "pinging"
  /\ conn[c] \in {"lost", "shut"}
  /\ writer' = [writer EXCEPT ![c] = "exiting"]
  /\ UNCHANGED <<hubVars, chanVars, handler, key, reader, conn, closed, got>>

WriterExit(c) ==                                 \* close frame, deferred conn.Close()
  /\ writer[c] = "exiting"
  /\ conn[c] # "stalled"
  /\ writer' = [writer EXCEPT ![c] = "done"]
  /\ conn' = [conn EXCEPT ![c] = "shut"]
  /\ UNCHANGED <<hubVars, chanVars, handler, key, reader, closed, got>>

(* The peer: the network, or the browser tab. *)
PeerMoves(c, from, to) ==
  /\ conn[c] \in from
  /\ conn' = [conn EXCEPT ![c] = to]
  /\ UNCHANGED <<hubVars, chanVars, handler, key, writer, reader, closed, got>>

PeerGone(c) == PeerMoves(c, {"open", "stalled"}, "lost")
PeerStalls(c) == writer[c] \in {"writing", "pinging", "exiting"} /\ PeerMoves(c, {"open"}, "stalled")
PeerResumes(c) == PeerMoves(c, {"stalled"}, "open")
-----------------------------------------------------------------------------
(* processTestingStatus blocks on broadcast <- message, one status at a time. *)
Offer(b) ==
  /\ offered[b] = taken[b]
  /\ offered[b] < MaxStatus[b]
  /\ offered' = [offered EXCEPT ![b] = @ + 1]
  /\ UNCHANGED <<hubVars, taken, wsVars>>

(* Variant: a receive that needs no sender, as from a closed channel. *)
ReceiveBroadcast_NoSender(b) ==
  /\ hubPc = "select"
  /\ taken[b] < MaxStatus[b]
  /\ taken' = [taken EXCEPT ![b] = @ + 1]
  /\ hubMsg' = [bot |-> b, n |-> taken[b] + 1]
  /\ hubPc' = "game"
  /\ hubTodo' = Listeners(GameKey(b))
  /\ UNCHANGED <<mapVars, hubAt, offered, wsVars>>

ReceiveBroadcast(b) ==                           \* case message := <-h.broadcast
  /\ hubPc = "select"
  /\ taken[b] < offered[b]
  /\ taken' = [taken EXCEPT ![b] = @ + 1]
  /\ hubMsg' = [bot |-> b, n |-> taken[b] + 1]
  /\ hubPc' = "game"
  /\ hubTodo' = Listeners(GameKey(b))
  /\ UNCHANGED <<mapVars, hubAt, offered, wsVars>>

RangeNext(c) ==                                  \* map order is arbitrary
  /\ hubAt = NoClient
  /\ c \in hubTodo
  /\ hubAt' = c
  /\ hubTodo' = hubTodo \ {c}
  /\ UNCHANGED <<mapVars, hubPc, hubMsg, chanVars, wsVars>>

(* Variant: select { case send <- message: default: }. *)
Deliver_DropIfBusy(c) ==
  /\ hubAt = c
  /\ hubAt' = NoClient
  /\ IF writer[c] = "select"
       THEN /\ writer' = [writer EXCEPT ![c] = "writing"]
            /\ got' = [got EXCEPT ![c] = Append(@, hubMsg)]
       ELSE UNCHANGED <<writer, got>>
  /\ UNCHANGED <<mapVars, hubPc, hubMsg, hubTodo, chanVars,
                 handler, key, reader, conn, closed>>

Deliver(c) ==                                    \* send <- message meets <-bv.send
  /\ hubAt = c
  /\ writer[c] = "select"
  /\ hubAt' = NoClient
  /\ writer' = [writer EXCEPT ![c] = "writing"]
  /\ got' = [got EXCEPT ![c] = Append(@, hubMsg)]
  /\ UNCHANGED <<mapVars, hubPc, hubMsg, hubTodo, chanVars,
                 handler, key, reader, conn, closed>>

(* Variant: the listeners of the game are served again. *)
EndGameLoop_Everyone ==
  /\ hubPc = "game" /\ hubTodo = {} /\ hubAt = NoClient
  /\ hubPc' = "profile"
  /\ hubTodo' = {c \in sessions : key[c][1] = BotAuthor[hubMsg.bot]}
  /\ UNCHANGED <<mapVars, hubMsg, hubAt, chanVars, wsVars>>

(* Variant: everybody's profile is told. *)
EndGameLoop_AnyProfile ==
  /\ hubPc = "game" /\ hubTodo = {} /\ hubAt = NoClient
  /\ hubPc' = "profile"
  /\ hubTodo' = {c \in sessions : key[c][2] = Profile}
  /\ UNCHANGED <<mapVars, hubMsg, hubAt, chanVars, wsVars>>

(* Variant: the listeners of the profile are forgotten. *)
EndGameLoop_GameOnly ==
  /\ hubPc = "game" /\ hubTodo = {} /\ hubAt = NoClient
  /\ hubPc' = "select"
  /\ hubMsg' = NoMsg
  /\ UNCHANGED <<mapVars, hubTodo, hubAt, chanVars, wsVars>>

EndGameLoop ==
  /\ hubPc = "game" /\ hubTodo = {} /\ hubAt = NoClient
  /\ hubPc' = "profile"
  /\ hubTodo' = Listeners(ProfileKey(hubMsg.bot))
  /\ UNCHANGED <<mapVars, hubMsg, hubAt, chanVars, wsVars>>

EndProfileLoop ==
  /\ hubPc = "profile" /\ hubTodo = {} /\ hubAt = NoClient
  /\ hubPc' = "select"
  /\ hubMsg' = NoMsg
  /\ UNCHANGED <<mapVars, hubTodo, hubAt, chanVars, wsVars>>

HubLoop == EndGameLoop \/ EndProfileLoop \/ \E c \in Client : RangeNext(c)
-----------------------------------------------------------------------------
ClientStep(c) ==
  \/ OpenVerifyWS(c) \/ Register(c) \/ Start(c)
  \/ ReadError(c) \/ Unregister(c) \/ ReaderExit(c)
  \/ WriteJSON(c) \/ SeeClosed(c) \/ Tick(c) \/ PingOK(c) \/ PingFail(c) \/ WriterExit(c)
  \/ Deliver(c) \/ PeerGone(c) \/ PeerStalls(c) \/ PeerResumes(c)

Next ==
  \/ \E c \in Client : ClientStep(c)
  \/ \E b \in Bot : Offer(b) \/ ReceiveBroadcast(b)
  \/ HubLoop

Spec == Init /\ [][Next]_vars

(***************************************************************************)
(* The scheduler runs every runnable goroutine and a ticker ticks: weak    *)
(* fairness.  A goroutine that waits on a channel, or on a select of which *)
(* Go picks a ready case at random, is served when its turn keeps coming:  *)
(* strong fairness.  A write to a peer that reads returns, and pings to a  *)
(* lost peer fail in the end; a stalled peer need never read again.  A     *)
(* read is sure to fail only once the connection is shut: the read         *)
(* deadline is set by the first pong (bot_client.go:36).                   *)
(***************************************************************************)
WriterRuns(c) == Tick(c) \/ PingOK(c) \/ PingFail(c) \/ WriteJSON(c) \/ WriterExit(c)
ReaderRuns(c) == (conn[c] = "shut" /\ ReadError(c)) \/ ReaderExit(c)

ClientFairness(c) ==
  /\ WF_vars(Start(c)) /\ WF_vars(WriterRuns(c)) /\ WF_vars(ReaderRuns(c))
  /\ SF_vars(Deliver(c) \/ SeeClosed(c))         \* the writer's case <-bv.send
  /\ SF_vars(Register(c) \/ Unregister(c))       \* the hub's cases for this client
  /\ SF_vars(PingFail(c))

Fairness ==
  /\ \A c \in Client : ClientFairness(c)
  /\ \A b \in Bot : SF_vars(ReceiveBroadcast(b))
  /\ WF_vars(HubLoop)

FairSpec == Spec /\ Fairness
-----------------------------------------------------------------------------
(* The type of every variable; a bot's goroutine is ahead of the hub by at *)
(* most the one status it is blocked on (h.broadcast is unbuffered).       *)
TypeOK ==
  /\ sessions \subseteq Client /\ closed \subseteq Client
  /\ gameMaps \subseteq Key /\ userMaps \subseteq User
  /\ hubPc \in {"select", "game", "profile"}
  /\ hubMsg \in Message \cup {NoMsg}
  /\ hubTodo \subseteq Client /\ hubAt \in Client \cup {NoClient}
  /\ offered \in [Bot -> Nat] /\ taken \in [Bot -> Nat]
  /\ \A b \in Bot : offered[b] \in {taken[b], taken[b] + 1} /\ offered[b] <= MaxStatus[b]
  /\ handler \in [Client -> {"idle", "registering", "starting", "done"}]
  /\ key \in [Client -> Key \cup {NoKey}]
  /\ writer \in [Client -> {"off", "select", "writing", "pinging", "exiting", "done"}]
  /\ reader \in [Client -> {"off", "reading", "unregistering", "closing", "done"}]
  /\ conn \in [Client -> {"none", "open", "stalled", "lost", "shut"}]
  /\ got \in [Client -> Seq(Message)]

(* The hub never sends on a channel it has closed (bot_hub.go:55,60): that *)
(* panics outside any handler and takes the whole server down.             *)
NoSendOnClosed == hubAt \notin closed /\ hubTodo \cap closed = {}

(* A client is in h.sessions from its registration to its unregistration,  *)
(* and its channel is closed from then on: no entry outlives its websocket *)
(* and no WriteStatusUpdates waits on a channel nobody will use or close.  *)
SessionsExact ==
  /\ sessions = {c \in Client : /\ handler[c] \in {"starting", "done"}
                                /\ reader[c] \in {"off", "reading", "unregistering"}}
  /\ closed = {c \in Client : reader[c] \in {"closing", "done"}}

(* The nested maps hold exactly the keys somebody listens on: nothing is   *)
(* left of a user or a game after the last client leaves (bot_hub.go:34-41)*)
(* and nobody's map is dropped while another client is in it.              *)
MapsExact ==
  /\ gameMaps = {key[c] : c \in sessions}
  /\ userMaps = {key[c][1] : c \in sessions}

(* While a client is registered it misses nothing and gets nothing twice:  *)
(* the statuses of a bot it received are consecutive, whatever happens to  *)
(* the other clients in between.                                           *)
FeedContiguous ==
  \A c \in Client : \A i, j \in 1..Len(got[c]) :
    ( /\ i < j
      /\ got[c][i].bot = got[c][j].bot
      /\ \A k \in (i + 1)..(j - 1) : got[c][k].bot # got[c][i].bot )
    => got[c][j].n = got[c][i].n + 1

(* How far a client has come, and where the hub is in a broadcast: with    *)
(* these parts the invariants above are inductive.                         *)
ClientOK ==
  \A c \in Client :
    /\ handler[c] = "idle" <=> key[c] = NoKey
    /\ handler[c] = "done" <=> reader[c] # "off"
    /\ writer[c] # "off" => handler[c] = "done"

Serves(L) == hubTodo \subseteq L /\ hubAt \in L \cup {NoClient}
HubLoopOK ==
  /\ hubPc = "select" => hubTodo = {} /\ hubAt = NoClient /\ hubMsg = NoMsg
  /\ hubPc # "select" => hubMsg \in Message
  /\ hubAt \notin hubTodo
  /\ hubPc = "game" => Serves(Listeners(GameKey(hubMsg.bot)))
  /\ hubPc = "profile" => Serves(Listeners(ProfileKey(hubMsg.bot)))

IInv == TypeOK /\ ClientOK /\ SessionsExact /\ MapsExact /\ HubLoopOK

(* Who still has to receive the message being broadcast. *)
Awaits(c) ==
  /\ hubPc # "select"
  /\ \/ c = hubAt \/ c \in hubTodo
     \/ hubPc = "game" /\ c \in Listeners(ProfileKey(hubMsg.bot))

(* A registered client that has heard of a bot is up to date: the last     *)
(* status it received is the last one the hub took, but for the one being  *)
(* broadcast; a slow writer, a failed write or a peer that comes and goes  *)
(* makes it miss none (bot_hub.go:55,60).                                  *)
LastOf(c, i) == \A j \in (i + 1)..Len(got[c]) : got[c][j].bot # got[c][i].bot
NothingMissed ==
  \A c \in sessions : \A i \in 1..Len(got[c]) :
    LET b == got[c][i].bot IN
      LastOf(c, i) =>
        got[c][i].n = IF Awaits(c) /\ hubMsg.bot = b THEN taken[b] - 1 ELSE taken[b]

(* A client is told of bots it listens to and of no other, nothing before  *)
(* it is registered and nothing the hub has not taken (bot_hub.go:47-62);  *)
(* in its two loops the hub sends the status it took last.  With this part *)
(* the two invariants on what clients receive are inductive.               *)
FeedOK ==
  /\ hubPc # "select" => hubMsg.n = taken[hubMsg.bot]
  /\ \A c \in Client : handler[c] \in {"idle", "registering"} => got[c] = <<>>
  /\ \A c \in Client : \A i \in 1..Len(got[c]) :
       /\ key[c] \in {GameKey(got[c][i].bot), ProfileKey(got[c][i].bot)}
       /\ got[c][i].n <= taken[got[c][i].bot]

FeedIInv == IInv /\ FeedOK /\ NothingMissed /\ FeedContiguous

(* The hub implements the abstract feed: a status is published, in one     *)
(* step, when the hub takes it from h.broadcast; the two loops then owe it *)
(* to everyone who listened at that moment.                                *)
listeningBar == [c \in Client |-> IF c \in sessions THEN key[c] ELSE NoKey]
dueBar == [c \in Client |-> IF Awaits(c) THEN <<hubMsg>> ELSE <<>>]
Feed == INSTANCE StatusFeed
          WITH listening <- listeningBar, published <- taken, due <- dueBar, got <- got
FeedSpec == Feed!Spec

(***************************************************************************)
(* The hub waits for a client whose writer has left its loop after a       *)
(* failed ping, or is leaving it: nobody will ever receive, and the reader *)
(* cannot unregister, because the hub is not in its select.                *)
(***************************************************************************)
HubBlocked == hubAt # NoClient /\ writer[hubAt] \in {"exiting", "done"}

(* Nothing ends that: no step of any goroutine frees a blocked hub.        *)
HubStuckForever == [][HubBlocked => HubBlocked']_vars

(* The hub waits for a client whose peer has stopped reading.  This lasts  *)
(* as long as the peer wants: writes have no deadline (bot_client.go:72).  *)
HubHeldUp == hubAt # NoClient /\ conn[hubAt] = "stalled"

(* Every status a bot's goroutine sends is taken and its broadcast ends,   *)
(* unless the hub ends up waiting for a writer that has returned, or is    *)
(* held up over and over: a peer that reads on after a pause, one that     *)
(* vanishes, or one the hub does not wait for, keeps nobody waiting.       *)
HubServesBroadcasts == <>[]~HubHeldUp =>
  \A b \in Bot : \A n \in 1..MaxStatus[b] :
    offered[b] >= n ~> (taken[b] >= n /\ hubPc = "select") \/ HubBlocked

(* A client whose peer is gone leaves the hub and both its goroutines      *)
(* return (bot_client.go:32-35,54-58), with the same exceptions.           *)
ClientsLeave == <>[]~HubHeldUp =>
  \A c \in Client :
    conn[c] = "lost" ~>
      \/ reader[c] = "done" /\ writer[c] = "done" /\ c \notin sessions
      \/ HubBlocked

(* bot_hub.go:53,58: the message is for those who listen.  A listener the  *)
(* hub has yet to serve, with its connection up, is served, as long as all *)
(* peers read.                                                             *)
PendingListenersServed ==
  \A c \in Client :
    (c \in hubTodo \cup {hubAt} /\ conn[c] = "open") ~>
      (c \notin hubTodo \cup {hubAt} \/ conn[c] # "open" \/ \E d \in Client : conn[d] = "stalled")

(* bot_hub.go:53: after the first loop everyone who listens to the game    *)
(* has the message.  Slugs are CITEXT (games.sql:7): two spellings of one  *)
(* slug are one game.                                                      *)
GameListenersServed ==
  hubPc = "profile" =>
    \A c \in sessions :
      ( /\ key[c][1] = BotAuthor[hubMsg.bot]
        /\ key[c][2] \in Slug
        /\ GameOf[key[c][2]] = GameOf[BotSlug[hubMsg.bot]] )
      => \E i \in 1..Len(got[c]) : got[c][i] = hubMsg
=============================================================================
