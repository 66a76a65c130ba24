---------------------------- MODULE BotHubProofs ----------------------------
(***************************************************************************)
(* The verification hub keeps its invariants, and implements StatusFeed,   *)
(* for any clients, users, games, bots and number of statuses.             *)
(***************************************************************************)
EXTENDS BotHub, TLAPS

LEMMA InitIInv == Init => IInv
  BY HubAssumption DEF Init, IInv, TypeOK, ClientOK, SessionsExact, MapsExact, HubLoopOK, Serves

(* The steps of the two goroutines of one client that touch nothing of the *)
(* hub, the handler or the key.                                            *)
WriterStep(c) ==
  \/ WriteJSON(c) \/ SeeClosed(c) \/ Tick(c) \/ PingOK(c) \/ PingFail(c)
  \/ WriterExit(c) \/ PeerGone(c) \/ PeerStalls(c) \/ PeerResumes(c)

LEMMA WriterStepIInv == ASSUME NEW c \in Client, IInv, WriterStep(c) PROVE IInv'
  <1>1. TypeOK'
    BY DEF WriterStep, WriteJSON, SeeClosed, Tick, PingOK, PingFail, WriterExit, PeerGone,
           PeerStalls, PeerResumes, PeerMoves,
           IInv, TypeOK, hubVars, chanVars
  <1>2. ClientOK'
    BY DEF WriterStep, WriteJSON, SeeClosed, Tick, PingOK, PingFail, WriterExit, PeerGone,
           PeerStalls, PeerResumes, PeerMoves,
           IInv, TypeOK, ClientOK, hubVars, chanVars
  <1>3. /\ UNCHANGED <<sessions, gameMaps, userMaps, hubPc, hubMsg, hubTodo, hubAt>>
        /\ UNCHANGED <<handler, key, reader, closed>>
    BY DEF WriterStep, WriteJSON, SeeClosed, Tick, PingOK, PingFail, WriterExit, PeerGone,
           PeerStalls, PeerResumes, PeerMoves,
           hubVars
  <1>4. SessionsExact' /\ MapsExact' /\ HubLoopOK'
    BY <1>3 DEF IInv, SessionsExact, MapsExact, HubLoopOK, Serves, Listeners
  <1>. QED  BY <1>1, <1>2, <1>4 DEF IInv

LEMMA NextIInv == IInv /\ [Next]_vars => IInv'
<1>. SUFFICES ASSUME IInv, [Next]_vars PROVE IInv'
  OBVIOUS
<1>. USE HubAssumption
<1>1. CASE UNCHANGED vars
  BY <1>1 DEF vars, hubVars, chanVars, wsVars, IInv, TypeOK, ClientOK, SessionsExact,
              MapsExact, HubLoopOK, Serves, Listeners
<1>2. ASSUME NEW c \in Client, OpenVerifyWS(c) PROVE IInv'
  <2>0. c \notin sessions
    BY <1>2 DEF IInv, SessionsExact, OpenVerifyWS
  <2>1. TypeOK'
    BY <1>2 DEF OpenVerifyWS, IInv, TypeOK, hubVars, chanVars
  <2>2. ClientOK'
    BY <1>2 DEF OpenVerifyWS, IInv, TypeOK, ClientOK, hubVars, chanVars
  <2>3. SessionsExact'
    BY <1>2 DEF OpenVerifyWS, IInv, TypeOK, SessionsExact, hubVars, chanVars
  <2>4. \A d \in sessions : key'[d] = key[d]
    BY <1>2, <2>0 DEF OpenVerifyWS, IInv, TypeOK
  <2>5. MapsExact' /\ HubLoopOK'
    BY <1>2, <2>4 DEF OpenVerifyWS, IInv, TypeOK, MapsExact, HubLoopOK, Serves, Listeners, hubVars
  <2>. QED  BY <2>1, <2>2, <2>3, <2>5 DEF IInv
<1>3. ASSUME NEW c \in Client, Register(c) PROVE IInv'
  <2>0. key[c] \in Key
    BY <1>3 DEF Register, IInv, TypeOK, ClientOK
  <2>1. TypeOK'
    BY <1>3, <2>0 DEF Register, IInv, TypeOK, loopVars, chanVars, Key
  <2>2. ClientOK'
    BY <1>3 DEF Register, IInv, TypeOK, ClientOK, loopVars, chanVars
  <2>3. SessionsExact'
    BY <1>3 DEF Register, IInv, TypeOK, ClientOK, SessionsExact, loopVars, chanVars
  <2>4. MapsExact'
    BY <1>3 DEF Register, IInv, MapsExact
  <2>5. HubLoopOK'
    BY <1>3 DEF Register, IInv, HubLoopOK, Serves, loopVars
  <2>. QED  BY <2>1, <2>2, <2>3, <2>4, <2>5 DEF IInv
<1>4. ASSUME NEW c \in Client, Start(c) PROVE IInv'
  <2>1. TypeOK'
    BY <1>4 DEF Start, IInv, TypeOK, hubVars, chanVars
  <2>2. ClientOK'
    BY <1>4 DEF Start, IInv, TypeOK, ClientOK, hubVars, chanVars
  <2>3. SessionsExact'
    BY <1>4 DEF Start, IInv, TypeOK, ClientOK, SessionsExact, hubVars, chanVars
  <2>4. MapsExact' /\ HubLoopOK'
    BY <1>4 DEF Start, IInv, MapsExact, HubLoopOK, Serves, Listeners, hubVars
  <2>. QED  BY <2>1, <2>2, <2>3, <2>4 DEF IInv
<1>5. ASSUME NEW c \in Client, ReadError(c) \/ ReaderExit(c) PROVE IInv'
  <2>1. TypeOK'
    BY <1>5 DEF ReadError, ReaderExit, IInv, TypeOK, hubVars, chanVars
  <2>2. ClientOK'
    BY <1>5 DEF ReadError, ReaderExit, IInv, TypeOK, ClientOK, hubVars, chanVars
  <2>3. SessionsExact'
    BY <1>5 DEF ReadError, ReaderExit, IInv, TypeOK, SessionsExact, hubVars, chanVars
  <2>4. MapsExact' /\ HubLoopOK'
    BY <1>5 DEF ReadError, ReaderExit, IInv, MapsExact, HubLoopOK, Serves, Listeners, hubVars
  <2>. QED  BY <2>1, <2>2, <2>3, <2>4 DEF IInv
<1>6. ASSUME NEW c \in Client, Unregister(c) PROVE IInv'
  <2>0. c \in sessions
    BY <1>6 DEF Unregister, IInv, SessionsExact, ClientOK, TypeOK
  <2>1. TypeOK'
    BY <1>6 DEF Unregister, IInv, TypeOK, loopVars, chanVars
  <2>2. ClientOK'
    BY <1>6 DEF Unregister, IInv, TypeOK, ClientOK, loopVars, chanVars
  <2>3. SessionsExact'
    BY <1>6, <2>0 DEF Unregister, IInv, TypeOK, SessionsExact, loopVars, chanVars
  <2>4. gameMaps' = {key[d] : d \in sessions \ {c}}
    BY <1>6, <2>0 DEF Unregister, IInv, MapsExact
  <2>5. userMaps' = {key[d][1] : d \in sessions \ {c}}
    BY <1>6, <2>0, <2>4 DEF Unregister, IInv, MapsExact
  <2>6. MapsExact'
    BY <1>6, <2>0, <2>4, <2>5 DEF Unregister, MapsExact
  <2>7. HubLoopOK'
    BY <1>6 DEF Unregister, IInv, HubLoopOK, Serves, loopVars
  <2>. QED  BY <2>1, <2>2, <2>3, <2>6, <2>7 DEF IInv
<1>7. ASSUME NEW c \in Client, WriterStep(c) PROVE IInv'
  BY <1>7, WriterStepIInv
<1>8. ASSUME NEW c \in Client, Deliver(c) PROVE IInv'
  <2>1. hubMsg \in Message
    BY <1>8 DEF Deliver, IInv, HubLoopOK
  <2>2. got' \in [Client -> Seq(Message)]
    BY <1>8, <2>1 DEF Deliver, IInv, TypeOK
  <2>3. TypeOK'
    BY <1>8, <2>2 DEF Deliver, IInv, TypeOK, mapVars, chanVars
  <2>4. ClientOK'
    BY <1>8 DEF Deliver, IInv, TypeOK, ClientOK, mapVars, chanVars
  <2>5. SessionsExact' /\ MapsExact'
    BY <1>8 DEF Deliver, IInv, SessionsExact, MapsExact, mapVars
  <2>6. HubLoopOK'
    <3>1. /\ UNCHANGED <<sessions, hubPc, hubMsg, hubTodo, key>>
          /\ hubAt = c /\ hubAt' = NoClient
      BY <1>8 DEF Deliver, mapVars
    <3>2. hubPc \in {"game", "profile"} /\ NoClient \notin hubTodo
      BY <3>1 DEF IInv, TypeOK, HubLoopOK
    <3>. QED  BY <3>1, <3>2 DEF IInv, HubLoopOK, Serves, Listeners
  <2>. QED  BY <2>3, <2>4, <2>5, <2>6 DEF IInv
<1>9. ASSUME NEW b \in Bot, Offer(b) PROVE IInv'
  <2>1. TypeOK'
    BY <1>9 DEF Offer, IInv, TypeOK, hubVars, wsVars
  <2>2. (ClientOK /\ SessionsExact /\ MapsExact /\ HubLoopOK)'
    BY <1>9 DEF Offer, IInv, ClientOK, SessionsExact, MapsExact, HubLoopOK, Serves, Listeners,
                hubVars, wsVars
  <2>. QED  BY <2>1, <2>2 DEF IInv
<1>10. ASSUME NEW b \in Bot, ReceiveBroadcast(b) PROVE IInv'
  <2>1. hubMsg' \in Message /\ hubMsg'.bot = b
    BY <1>10 DEF ReceiveBroadcast, IInv, TypeOK, Message
  <2>2. TypeOK'
    BY <1>10, <2>1 DEF ReceiveBroadcast, IInv, TypeOK, mapVars, wsVars, Listeners
  <2>3. (ClientOK /\ SessionsExact /\ MapsExact)'
    BY <1>10 DEF ReceiveBroadcast, IInv, ClientOK, SessionsExact, MapsExact, mapVars, wsVars
  <2>4. HubLoopOK'
    BY <1>10, <2>1 DEF ReceiveBroadcast, IInv, TypeOK, HubLoopOK, Serves, Listeners, mapVars, wsVars
  <2>. QED  BY <2>2, <2>3, <2>4 DEF IInv
<1>11. ASSUME HubLoop PROVE IInv'
  <2>1. (ClientOK /\ SessionsExact /\ MapsExact)'
    BY <1>11 DEF HubLoop, EndGameLoop, EndProfileLoop, RangeNext, IInv, ClientOK,
                 SessionsExact, MapsExact, mapVars, wsVars
  <2>2. TypeOK'
    BY <1>11 DEF HubLoop, EndGameLoop, EndProfileLoop, RangeNext, IInv, TypeOK, Listeners,
                 mapVars, chanVars, wsVars
  <2>3. ASSUME EndGameLoop PROVE HubLoopOK'
    <3>1. /\ hubPc = "game" /\ hubPc' = "profile" /\ UNCHANGED <<hubMsg, sessions, key>>
          /\ hubTodo' = Listeners(ProfileKey(hubMsg.bot)) /\ hubAt' = NoClient
      BY <2>3 DEF EndGameLoop, mapVars, wsVars
    <3>2. NoClient \notin Listeners(ProfileKey(hubMsg.bot))
      BY DEF IInv, TypeOK, Listeners
    <3>3. Listeners(ProfileKey(hubMsg.bot))' = Listeners(ProfileKey(hubMsg.bot))
      BY <3>1 DEF Listeners, ProfileKey
    <3>4. hubAt' \notin hubTodo' /\ hubMsg' \in Message
      BY <3>1, <3>2 DEF IInv, HubLoopOK
    <3>5. Serves(Listeners(ProfileKey(hubMsg.bot)))'
      BY <3>1, <3>3 DEF Serves
    <3>. QED  BY <3>1, <3>4, <3>5 DEF HubLoopOK
  <2>5. ASSUME EndProfileLoop PROVE HubLoopOK'
    BY <2>5 DEF EndProfileLoop, HubLoopOK, mapVars, chanVars, wsVars
  <2>4. ASSUME NEW c \in Client, RangeNext(c) PROVE HubLoopOK'
    BY <2>4 DEF RangeNext, IInv, HubLoopOK, Serves, Listeners, mapVars, wsVars
  <2>. QED  BY <1>11, <2>1, <2>2, <2>3, <2>5, <2>4 DEF HubLoop, IInv
<1>. QED
  BY <1>1, <1>2, <1>3, <1>4, <1>5, <1>6, <1>7, <1>8, <1>9, <1>10, <1>11
     DEF Next, ClientStep, WriterStep

LEMMA InvariantHolds == Spec => []IInv
  BY InitIInv, NextIInv, PTL DEF Spec
-----------------------------------------------------------------------------
(* Every variable keeps its type and no bot's goroutine runs more than one *)
(* status ahead of the hub (bots/bot_hub.go, bots/bot_client.go).          *)
THEOREM TypeCorrect == Spec => []TypeOK
  <1>1. IInv => TypeOK
    BY DEF IInv
  <1>. QED  BY <1>1, InvariantHolds, PTL

(* bot_hub.go:55,60: the hub never sends on a channel it has closed.       *)
THEOREM SendsAreSafe == Spec => []NoSendOnClosed
  <1>1. ASSUME IInv PROVE NoSendOnClosed
    <2>1. sessions \cap closed = {} /\ NoClient \notin closed
      BY <1>1, HubAssumption DEF IInv, TypeOK, SessionsExact
    <2>2. hubTodo \subseteq sessions /\ hubAt \in sessions \cup {NoClient}
      BY <1>1 DEF IInv, TypeOK, HubLoopOK, Serves, Listeners
    <2>. QED  BY <2>1, <2>2 DEF NoSendOnClosed
  <1>. QED  BY <1>1, InvariantHolds, PTL

(* h.sessions holds exactly the clients between registration and           *)
(* unregistration; a channel is closed exactly after the latter.           *)
THEOREM SessionsCorrect == Spec => []SessionsExact
  <1>1. IInv => SessionsExact
    BY DEF IInv
  <1>. QED  BY <1>1, InvariantHolds, PTL

(* No empty inner map stays in h.sessions and no needed one is deleted.    *)
THEOREM MapsCorrect == Spec => []MapsExact
  <1>1. IInv => MapsExact
    BY DEF IInv
  <1>. QED  BY <1>1, InvariantHolds, PTL

(* bot_client.go:76-79 against bot_hub.go:54-61: once the hub waits for a  *)
(* client whose writer has left its loop, no step of anybody ends the wait.*)
THEOREM BlockedForever == Spec => HubStuckForever
<1>1. IInv /\ [Next]_vars => (HubBlocked => HubBlocked')
  <2>. SUFFICES ASSUME IInv, [Next]_vars, HubBlocked PROVE HubBlocked'
    OBVIOUS
  <2>0. hubAt \in Client /\ writer[hubAt] \in {"exiting", "done"}
    BY DEF HubBlocked, IInv, TypeOK
  <2>1. CASE UNCHANGED vars
    BY <2>1 DEF vars, hubVars, wsVars, HubBlocked
  <2>2. ASSUME NEW c \in Client, ClientStep(c) PROVE HubBlocked'
    <3>1. hubAt' = hubAt
      BY <2>0, <2>2 DEF ClientStep, OpenVerifyWS, Register, Start, ReadError, Unregister,
         ReaderExit, WriteJSON, SeeClosed, Tick, PingOK, PingFail, WriterExit, Deliver,
         PeerGone, PeerStalls, PeerResumes, PeerMoves, hubVars, loopVars
    <3>2. handler[hubAt] # "starting"
      BY <2>0 DEF IInv, ClientOK
    <3>3. writer'[hubAt] \in {"exiting", "done"}
      BY <2>0, <2>2, <3>2 DEF IInv, TypeOK, ClientStep, OpenVerifyWS, Register, Start,
         ReadError, Unregister, ReaderExit, WriteJSON, SeeClosed, Tick, PingOK, PingFail,
         WriterExit, Deliver, PeerGone, PeerStalls, PeerResumes, PeerMoves
    <3>. QED  BY <2>0, <3>1, <3>3, HubAssumption DEF HubBlocked
  <2>3. ASSUME NEW b \in Bot, Offer(b) \/ ReceiveBroadcast(b) PROVE HubBlocked'
    BY <2>3 DEF Offer, ReceiveBroadcast, HubBlocked, hubVars, wsVars
  <2>4. CASE HubLoop
    BY <2>4, <2>0, HubAssumption DEF HubLoop, EndGameLoop, EndProfileLoop, RangeNext
  <2>. QED  BY <2>1, <2>2, <2>3, <2>4 DEF Next
<1>. QED  BY <1>1, InvariantHolds, PTL DEF Spec, HubStuckForever
-----------------------------------------------------------------------------
(* A step that leaves the entries, their keys, the broadcast and the       *)
(* received statuses alone is a stutter of the feed.                       *)
LEMMA FeedStutter ==
  ASSUME UNCHANGED <<sessions, hubPc, hubMsg, hubTodo, hubAt, taken, got>>,
         \A d \in sessions : key'[d] = key[d]
  PROVE  UNCHANGED Feed!vars
  <1>1. listeningBar' = listeningBar
    BY DEF listeningBar
  <1>2. \A k : Listeners(k)' = Listeners(k)
    BY DEF Listeners
  <1>3. \A c \in Client : Awaits(c)' <=> Awaits(c)
    BY DEF Awaits, Listeners
  <1>4. dueBar' = dueBar
    BY <1>3 DEF dueBar
  <1>. QED  BY <1>1, <1>4 DEF Feed!vars

(* Between broadcasts nothing is due. *)
LEMMA NothingDue == hubPc = "select" => dueBar = [c \in Client |-> <<>>]
  BY DEF dueBar, Awaits

LEMMA NextFeed == IInv /\ IInv' /\ [Next]_vars => [Feed!Next]_(Feed!vars)
<1>. SUFFICES ASSUME IInv, IInv', [Next]_vars PROVE [Feed!Next]_(Feed!vars)
  OBVIOUS
<1>. USE HubAssumption
<1>1. CASE UNCHANGED vars
  BY <1>1, FeedStutter DEF vars, hubVars, chanVars, wsVars
<1>2. ASSUME NEW c \in Client, OpenVerifyWS(c) PROVE UNCHANGED Feed!vars
  <2>1. c \notin sessions
    BY <1>2 DEF IInv, SessionsExact, OpenVerifyWS
  <2>2. \A d \in sessions : key'[d] = key[d]
    BY <1>2, <2>1 DEF OpenVerifyWS, IInv, TypeOK
  <2>. QED  BY <1>2, <2>2, FeedStutter DEF OpenVerifyWS, hubVars, chanVars
<1>3. ASSUME NEW c \in Client, Start(c) \/ ReadError(c) \/ ReaderExit(c) \/ WriterStep(c)
      PROVE UNCHANGED Feed!vars
  BY <1>3, FeedStutter DEF Start, ReadError, ReaderExit, WriterStep, WriteJSON, SeeClosed,
     Tick, PingOK, PingFail, WriterExit, PeerGone, PeerStalls, PeerResumes,
     PeerMoves, hubVars, chanVars
<1>4. ASSUME NEW c \in Client, Register(c) PROVE Feed!Subscribe(c)
  <2>1. listeningBar[c] = NoKey /\ key[c] \in Key
    BY <1>4 DEF Register, listeningBar, IInv, TypeOK, ClientOK, SessionsExact
  <2>2. listeningBar' = [listeningBar EXCEPT ![c] = key[c]]
    BY <1>4 DEF Register, listeningBar
  <2>3. dueBar' = dueBar /\ UNCHANGED <<taken, got>>
    BY <1>4, NothingDue DEF Register, dueBar, Awaits, loopVars, chanVars
  <2>4. \E k \in Key : listeningBar' = [listeningBar EXCEPT ![c] = k]
    BY <2>1, <2>2
  <2>. QED  BY <2>1, <2>3, <2>4 DEF Feed!Subscribe, Feed!Key, Feed!Topic, Key, Topic
<1>5. ASSUME NEW c \in Client, Unregister(c) PROVE Feed!Unsubscribe(c)
  <2>1. c \in sessions /\ key[c] # NoKey
    BY <1>5 DEF Unregister, IInv, SessionsExact, ClientOK, TypeOK
  <2>2. listeningBar[c] # NoKey /\ dueBar[c] = <<>>
    BY <1>5, <2>1, NothingDue DEF Unregister, listeningBar
  <2>3. listeningBar' = [listeningBar EXCEPT ![c] = NoKey]
    BY <1>5, <2>1 DEF Unregister, listeningBar
  <2>4. dueBar' = dueBar /\ UNCHANGED <<taken, got>>
    BY <1>5, NothingDue DEF Unregister, dueBar, Awaits, loopVars, chanVars
  <2>. QED  BY <2>2, <2>3, <2>4 DEF Feed!Unsubscribe
<1>6. ASSUME NEW c \in Client, Deliver(c) PROVE Feed!Receive(c)
  <2>1. /\ UNCHANGED <<sessions, hubPc, hubMsg, hubTodo, key, taken>>
        /\ hubAt = c /\ hubAt' = NoClient
        /\ got' = [got EXCEPT ![c] = Append(@, hubMsg)]
    BY <1>6 DEF Deliver, mapVars, chanVars
  <2>2. hubPc \in {"game", "profile"} /\ c \notin hubTodo /\ hubMsg.bot \in Bot
    BY <2>1 DEF IInv, TypeOK, HubLoopOK, Message
  <2>3. dueBar[c] = <<hubMsg>>
    BY <2>1, <2>2 DEF dueBar, Awaits
  <2>4. hubPc = "game" => key[c] = GameKey(hubMsg.bot)
    BY <2>1 DEF IInv, HubLoopOK, Serves, Listeners
  <2>5. GameKey(hubMsg.bot) # ProfileKey(hubMsg.bot)
    BY <2>2 DEF GameKey, ProfileKey
  <2>6. ~Awaits(c)'
    BY <2>1, <2>2, <2>4, <2>5 DEF Awaits, Listeners
  <2>7. \A d \in Client \ {c} : Awaits(d)' <=> Awaits(d)
    BY <2>1 DEF Awaits, Listeners
  <2>8. dueBar' = [dueBar EXCEPT ![c] = <<>>]
    BY <2>1, <2>6, <2>7 DEF dueBar
  <2>9. listeningBar' = listeningBar
    BY <2>1 DEF listeningBar
  <2>. QED  BY <2>1, <2>3, <2>8, <2>9 DEF Feed!Receive
<1>7. ASSUME NEW b \in Bot, Offer(b) PROVE UNCHANGED Feed!vars
  BY <1>7, FeedStutter DEF Offer, hubVars, wsVars
<1>8. ASSUME NEW b \in Bot, ReceiveBroadcast(b) PROVE Feed!Publish(b)
  <2>1. /\ UNCHANGED <<sessions, key, got, hubAt>> /\ hubPc = "select" /\ hubPc' = "game"
        /\ hubMsg' = [bot |-> b, n |-> taken[b] + 1] /\ hubTodo' = Listeners(GameKey(b))
        /\ taken[b] < MaxStatus[b] /\ taken' = [taken EXCEPT ![b] = @ + 1]
    BY <1>8 DEF ReceiveBroadcast, mapVars, wsVars, IInv, TypeOK
  <2>2. hubAt' = NoClient /\ hubMsg'.bot = b
    BY <2>1 DEF IInv, HubLoopOK
  <2>3. listeningBar' = listeningBar
    BY <2>1 DEF listeningBar
  <2>4. ASSUME NEW c \in Client PROVE Awaits(c)' <=> Feed!Hears(c, b)
    <3>1. Awaits(c)' <=> c \in Listeners(GameKey(b)) \/ c \in Listeners(ProfileKey(b))
      BY <2>1, <2>2 DEF Awaits, Listeners
    <3>2. NoKey \notin {GameKey(b), ProfileKey(b)}
      BY DEF GameKey, ProfileKey, Key, Topic
    <3>3. listeningBar[c] = IF c \in sessions THEN key[c] ELSE NoKey
      BY DEF listeningBar
    <3>4. Feed!Hears(c, b) <=> c \in sessions /\ key[c] \in {GameKey(b), ProfileKey(b)}
      BY <3>2, <3>3 DEF Feed!Hears, Feed!GameKey, Feed!ProfileKey, GameKey, ProfileKey
    <3>. QED  BY <3>1, <3>4 DEF Listeners
  <2>5. dueBar' = [c \in Client |-> IF Feed!Hears(c, b) THEN <<hubMsg'>> ELSE <<>>]
    BY <2>4 DEF dueBar
  <2>6. dueBar = [c \in Client |-> <<>>]
    BY <2>1, NothingDue
  <2>7. \A c \in Client : Append(dueBar[c], hubMsg') = <<hubMsg'>>
    BY <2>6
  <2>8. dueBar' = [c \in Client |-> IF Feed!Hears(c, b) THEN Append(dueBar[c], hubMsg')
                                                     ELSE dueBar[c]]
    BY <2>5, <2>6, <2>7
  <2>. QED  BY <2>1, <2>3, <2>8 DEF Feed!Publish
<1>9. ASSUME HubLoop PROVE UNCHANGED Feed!vars
  <2>1. UNCHANGED <<sessions, key, taken, got>>
    BY <1>9 DEF HubLoop, EndGameLoop, EndProfileLoop, RangeNext, mapVars, chanVars, wsVars
  <2>2. ASSUME NEW c \in Client PROVE Awaits(c)' <=> Awaits(c)
    <3>1. CASE EndGameLoop
      BY <3>1, <2>1 DEF EndGameLoop, Awaits, Listeners
    <3>2. CASE EndProfileLoop
      BY <3>2, <2>1 DEF EndProfileLoop, Awaits, Listeners
    <3>3. ASSUME NEW d \in Client, RangeNext(d) PROVE Awaits(c)' <=> Awaits(c)
      BY <3>3, <2>1 DEF RangeNext, Awaits, Listeners
    <3>. QED  BY <1>9, <3>1, <3>2, <3>3 DEF HubLoop
  <2>3. hubMsg' = hubMsg \/ \A c \in Client : ~Awaits(c)'
    BY <1>9 DEF HubLoop, EndGameLoop, EndProfileLoop, RangeNext, Awaits
  <2>4. dueBar' = dueBar
    BY <2>2, <2>3 DEF dueBar
  <2>. QED  BY <2>1, <2>4 DEF listeningBar, Feed!vars
<1>. QED
  BY <1>1, <1>2, <1>3, <1>4, <1>5, <1>6, <1>7, <1>8, <1>9
     DEF Next, ClientStep, WriterStep, Feed!Next

(* The hub's two loops over unbuffered channels give every listener what   *)
(* the abstract feed promises it: each step is a step of StatusFeed or a   *)
(* stutter.                                                                *)
THEOREM HubImplementsFeed == Spec => FeedSpec
  <1>1. Init => Feed!Init
    BY DEF Init, Feed!Init, listeningBar, dueBar, Awaits
  <1>. QED  BY <1>1, InvariantHolds, NextFeed, PTL DEF Spec, FeedSpec, Feed!Spec
=============================================================================
