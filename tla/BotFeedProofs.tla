---------------------------- MODULE BotFeedProofs ----------------------------
(***************************************************************************)
(* What a websocket receives from the verification hub, for any clients,   *)
(* users, games, bots and number of statuses: every status of a bot it     *)
(* listens to, once and in order, for as long as it is registered.         *)
(***************************************************************************)
EXTENDS BotHubProofs

(* Nobody has been told anything. *)
LEMMA InitFeedIInv == Init => FeedIInv
  BY InitIInv DEF Init, FeedIInv, FeedOK, NothingMissed, FeedContiguous

(* What was received are statuses of bots. *)
LEMMA HeardMessages ==
  ASSUME TypeOK, NEW c \in Client, NEW i \in 1..Len(got[c])
  PROVE  got[c] # <<>> /\ got[c][i] \in Message /\ got[c][i].bot \in Bot /\ got[c][i].n \in Nat
  <1>1. got[c] \in Seq(Message)
    BY DEF TypeOK
  <1>2. got[c][i] \in Message
    BY <1>1
  <1>3. got[c] # <<>>
    BY <1>1
  <1>. QED  BY <1>2, <1>3 DEF Message

(* A step that leaves the broadcast, what was received and whoever has     *)
(* received something alone keeps the invariant.                           *)
LEMMA FeedQuiet ==
  ASSUME FeedIInv, IInv',
         UNCHANGED <<taken, got>>,
         \A c \in Client : handler'[c] \in {"idle", "registering"} => got[c] = <<>>,
         \A c \in Client : got[c] # <<>> => key'[c] = key[c],
         hubPc' # "select" => hubMsg'.n = taken[hubMsg'.bot],
         \A c \in Client, b \in Bot : c \in sessions' /\ got[c] # <<>> =>
            /\ c \in sessions
            /\ (Awaits(c)' /\ hubMsg'.bot = b) <=> (Awaits(c) /\ hubMsg.bot = b)
  PROVE  FeedIInv'
  <1>1. \A c \in Client : \A i \in 1..Len(got[c]) : got[c] # <<>> /\ got[c][i].bot \in Bot
    BY HeardMessages DEF FeedIInv, IInv
  <1>2. FeedOK'
    BY <1>1 DEF FeedIInv, FeedOK, GameKey, ProfileKey
  <1>3. FeedContiguous'
    BY DEF FeedIInv, FeedContiguous
  <1>4. NothingMissed'
    <2>0. sessions' \subseteq Client
      BY DEF IInv, TypeOK
    <2>. SUFFICES ASSUME NEW c \in sessions', NEW i \in 1..Len(got[c]), LastOf(c, i)
                  PROVE  got[c][i].n = IF Awaits(c)' /\ hubMsg'.bot = got[c][i].bot
                                         THEN taken[got[c][i].bot] - 1 ELSE taken[got[c][i].bot]
      BY DEF NothingMissed, LastOf
    <2>1. c \in sessions /\ got[c][i].bot \in Bot /\ got[c] # <<>>
      BY <1>1, <2>0
    <2>2. (Awaits(c)' /\ hubMsg'.bot = got[c][i].bot) <=> (Awaits(c) /\ hubMsg.bot = got[c][i].bot)
      BY <2>0, <2>1
    <2>. QED  BY <2>1, <2>2 DEF FeedIInv, NothingMissed
  <1>. QED  BY <1>2, <1>3, <1>4 DEF FeedIInv

LEMMA NextFeedIInv == FeedIInv /\ [Next]_vars => FeedIInv'
<1>. SUFFICES ASSUME FeedIInv, [Next]_vars PROVE FeedIInv'
  OBVIOUS
<1>. USE HubAssumption
<1>0. IInv /\ IInv'
  BY NextIInv DEF FeedIInv
<1>1. ASSUME UNCHANGED <<sessions, hubPc, hubMsg, hubTodo, hubAt, taken, got>>,
             \A c \in Client : handler'[c] \in {"idle", "registering"} => got[c] = <<>>,
             \A c \in Client : (c \in sessions \/ got[c] # <<>>) => key'[c] = key[c]
      PROVE  FeedIInv'
  <2>1. \A c \in Client : Awaits(c)' <=> Awaits(c)
    BY <1>1 DEF Awaits, Listeners
  <2>2. hubPc' # "select" => hubMsg'.n = taken[hubMsg'.bot]
    BY <1>1 DEF FeedIInv, FeedOK
  <2>. QED  BY <1>0, <1>1, <2>1, <2>2, FeedQuiet
<1>2. CASE UNCHANGED vars
  BY <1>1, <1>2 DEF vars, hubVars, chanVars, wsVars, FeedIInv, FeedOK
<1>3. ASSUME NEW c \in Client, OpenVerifyWS(c) PROVE FeedIInv'
  <2>1. c \notin sessions /\ got[c] = <<>>
    BY <1>0, <1>3 DEF OpenVerifyWS, IInv, SessionsExact, FeedIInv, FeedOK
  <2>. QED  BY <1>0, <1>1, <1>3, <2>1
            DEF OpenVerifyWS, IInv, TypeOK, FeedIInv, FeedOK, hubVars, chanVars
<1>4. ASSUME NEW c \in Client,
             Start(c) \/ ReadError(c) \/ ReaderExit(c) \/ WriterStep(c)
      PROVE  FeedIInv'
  <2>1. UNCHANGED <<sessions, hubPc, hubMsg, hubTodo, hubAt, taken, got, key>>
    BY <1>4 DEF Start, ReadError, ReaderExit, WriterStep, WriteJSON, SeeClosed, Tick, PingOK,
       PingFail, WriterExit, PeerGone, PeerStalls, PeerResumes, PeerMoves, hubVars, chanVars
  <2>2. \A d \in Client : handler'[d] \in {"idle", "registering"} => got[d] = <<>>
    BY <1>0, <1>4 DEF Start, ReadError, ReaderExit, WriterStep, WriteJSON, SeeClosed, Tick, PingOK,
       PingFail, WriterExit, PeerGone, PeerStalls, PeerResumes, PeerMoves,
       IInv, TypeOK, FeedIInv, FeedOK
  <2>. QED  BY <1>1, <2>1, <2>2
<1>5. ASSUME NEW c \in Client, Register(c) \/ Unregister(c) PROVE FeedIInv'
  <2>1. /\ hubPc = "select" /\ UNCHANGED <<hubPc, hubMsg, hubTodo, hubAt, taken, got, key>>
        /\ \A d \in Client : got[d] # <<>> /\ d \in sessions' => d \in sessions
    BY <1>5 DEF Register, Unregister, FeedIInv, FeedOK, loopVars, chanVars
  <2>2. \A d \in Client : handler'[d] \in {"idle", "registering"} => got[d] = <<>>
    BY <1>0, <1>5 DEF Register, Unregister, IInv, TypeOK, FeedIInv, FeedOK
  <2>3. \A d \in Client : ~Awaits(d) /\ ~Awaits(d)'
    BY <2>1 DEF Awaits
  <2>. QED  BY <1>0, <2>1, <2>2, <2>3, FeedQuiet
<1>6. ASSUME NEW c \in Client, Deliver(c) PROVE FeedIInv'
  <2>1. /\ UNCHANGED <<sessions, hubPc, hubMsg, hubTodo, key, taken, handler>>
        /\ hubAt = c /\ hubAt' = NoClient
        /\ got' = [got EXCEPT ![c] = Append(@, hubMsg)]
    BY <1>6 DEF Deliver, mapVars, chanVars
  <2>2. /\ hubPc \in {"game", "profile"} /\ c \notin hubTodo
        /\ hubMsg \in Message /\ hubMsg.bot \in Bot /\ hubMsg.n \in Nat \ {0}
        /\ hubMsg.n = taken[hubMsg.bot]
    BY <1>0, <2>1 DEF IInv, TypeOK, HubLoopOK, Message, FeedIInv, FeedOK
  <2>3. /\ c \in sessions
        /\ hubPc = "game" => key[c] = GameKey(hubMsg.bot)
        /\ hubPc = "profile" => key[c] = ProfileKey(hubMsg.bot)
    BY <1>0, <2>1, <2>2 DEF IInv, HubLoopOK, Serves, Listeners
  <2>4. Awaits(c) /\ ~Awaits(c)'
    <3>1. GameKey(hubMsg.bot) # ProfileKey(hubMsg.bot)
      BY <2>2 DEF GameKey, ProfileKey
    <3>. QED  BY <2>1, <2>2, <2>3, <3>1 DEF Awaits, Listeners
  <2>5. \A d \in Client \ {c} : Awaits(d)' <=> Awaits(d)
    BY <2>1 DEF Awaits, Listeners
  <2>6. /\ got[c] \in Seq(Message) /\ Len(got'[c]) = Len(got[c]) + 1
        /\ got'[c][Len(got[c]) + 1] = hubMsg
        /\ \A i \in 1..Len(got[c]) : got'[c][i] = got[c][i]
        /\ \A d \in Client \ {c} : got'[d] = got[d]
    BY <1>0, <2>1, <2>2 DEF IInv, TypeOK
  <2>7. Len(got[c]) \in Nat
    BY <2>6
  (* The last status of this bot that the client has is the one before.    *)
  <2>8. ASSUME NEW i \in 1..Len(got[c]), got[c][i].bot = hubMsg.bot, LastOf(c, i)
        PROVE  hubMsg.n = got[c][i].n + 1
    <3>1. got[c][i].n = taken[hubMsg.bot] - 1
      BY <2>3, <2>4, <2>8 DEF FeedIInv, NothingMissed
    <3>. QED  BY <2>2, <3>1
  <2>9. FeedOK'
    <3>1. \A d \in Client : handler'[d] \in {"idle", "registering"} => got'[d] = <<>>
      BY <1>0, <2>1, <2>3, <2>6 DEF IInv, SessionsExact, FeedIInv, FeedOK
    <3>2. ASSUME NEW d \in Client, NEW i \in 1..Len(got'[d])
          PROVE  /\ key'[d] \in {GameKey(got'[d][i].bot), ProfileKey(got'[d][i].bot)}
                 /\ got'[d][i].n <= taken'[got'[d][i].bot]
      <4>1. CASE d = c /\ i = Len(got[c]) + 1
        BY <4>1, <2>1, <2>2, <2>3, <2>6
      <4>2. CASE ~(d = c /\ i = Len(got[c]) + 1)
        <5>1. i \in 1..Len(got[d]) /\ got'[d][i] = got[d][i]
          BY <4>2, <2>6, <2>7
        <5>. QED  BY <5>1, <2>1 DEF FeedIInv, FeedOK
      <4>. QED  BY <4>1, <4>2
    <3>. QED  BY <2>1, <2>2, <3>1, <3>2 DEF FeedOK, GameKey, ProfileKey
  <2>10. NothingMissed'
    <3>. SUFFICES ASSUME NEW d \in sessions, NEW i \in 1..Len(got'[d]), LastOf(d, i)'
                  PROVE  got'[d][i].n = IF Awaits(d)' /\ hubMsg.bot = got'[d][i].bot
                                          THEN taken[got'[d][i].bot] - 1 ELSE taken[got'[d][i].bot]
      BY <2>1 DEF NothingMissed
    <3>1. d \in Client
      BY <1>0 DEF IInv, TypeOK
    <3>2. CASE d # c
      <4>1. got'[d] = got[d] /\ (Awaits(d)' <=> Awaits(d))
        BY <3>1, <3>2, <2>5, <2>6
      <4>2. LastOf(d, i)
        BY <4>1 DEF LastOf
      <4>. QED  BY <4>1, <4>2, <2>5, <3>1, <3>2 DEF FeedIInv, NothingMissed
    <3>3. CASE d = c /\ i = Len(got[c]) + 1
      BY <3>3, <2>2, <2>4, <2>6
    <3>4. CASE d = c /\ i # Len(got[c]) + 1
      <4>1. i \in 1..Len(got[c]) /\ got'[c][i] = got[c][i]
        BY <3>4, <2>6, <2>7
      <4>2. got[c][i].bot # hubMsg.bot
        BY <3>4, <4>1, <2>6, <2>7 DEF LastOf
      <4>3. LastOf(c, i)
        BY <3>4, <4>1, <2>6, <2>7 DEF LastOf
      <4>4. got[c][i].n = taken[got[c][i].bot]
        BY <2>3, <4>1, <4>2, <4>3 DEF FeedIInv, NothingMissed
      <4>. QED  BY <3>4, <4>1, <4>4, <2>4
    <3>. QED  BY <3>2, <3>3, <3>4
  <2>11. FeedContiguous'
    <3>. SUFFICES ASSUME NEW d \in Client, NEW i \in 1..Len(got'[d]), NEW j \in 1..Len(got'[d]),
                         i < j, got'[d][i].bot = got'[d][j].bot,
                         \A k \in (i + 1)..(j - 1) : got'[d][k].bot # got'[d][i].bot
                  PROVE  got'[d][j].n = got'[d][i].n + 1
      BY DEF FeedContiguous
    <3>1. CASE d = c /\ j = Len(got[c]) + 1
      <4>1. i \in 1..Len(got[c]) /\ got'[c][i] = got[c][i] /\ got'[c][j] = hubMsg
        BY <3>1, <2>6, <2>7
      <4>2. LastOf(c, i)
        <5>. SUFFICES ASSUME NEW k \in (i + 1)..Len(got[c]) PROVE got[c][k].bot # got[c][i].bot
          BY DEF LastOf
        <5>1. k \in (i + 1)..(j - 1) /\ k \in 1..Len(got[c])
          BY <3>1, <2>7, <4>1
        <5>2. got'[c][k] = got[c][k]
          BY <5>1, <2>6
        <5>. QED  BY <3>1, <4>1, <5>1, <5>2
      <4>. QED  BY <3>1, <4>1, <4>2, <2>8
    <3>2. CASE ~(d = c /\ j = Len(got[c]) + 1)
      <4>1. i \in 1..Len(got[d]) /\ j \in 1..Len(got[d])
        BY <3>2, <2>6, <2>7
      <4>2. \A k \in 1..Len(got[d]) : got'[d][k] = got[d][k]
        BY <2>6
      <4>3. Len(got[d]) \in Nat
        BY <1>0 DEF IInv, TypeOK
      <4>4. ASSUME NEW k \in (i + 1)..(j - 1) PROVE got[d][k].bot # got[d][i].bot
        <5>1. k \in 1..Len(got[d])
          BY <4>1, <4>3
        <5>. QED  BY <4>1, <4>2, <5>1
      <4>. QED  BY <4>1, <4>2, <4>4 DEF FeedIInv, FeedContiguous
    <3>. QED  BY <3>1, <3>2
  <2>. QED  BY <1>0, <2>9, <2>10, <2>11 DEF FeedIInv
<1>7. ASSUME NEW b \in Bot, Offer(b) PROVE FeedIInv'
  BY <1>1, <1>7 DEF Offer, hubVars, wsVars, FeedIInv, FeedOK
<1>8. ASSUME NEW b \in Bot, ReceiveBroadcast(b) PROVE FeedIInv'
  <2>1. /\ UNCHANGED <<sessions, key, got, hubAt, handler>> /\ hubPc = "select" /\ hubPc' = "game"
        /\ hubMsg' = [bot |-> b, n |-> taken[b] + 1] /\ hubTodo' = Listeners(GameKey(b))
        /\ taken' = [taken EXCEPT ![b] = @ + 1] /\ taken \in [Bot -> Nat]
    BY <1>0, <1>8 DEF ReceiveBroadcast, mapVars, wsVars, IInv, TypeOK
  <2>0. got' = got /\ sessions' = sessions
    BY <2>1
  <2>2. hubAt' = NoClient /\ hubMsg'.bot = b /\ hubMsg'.n = taken'[b]
    BY <1>0, <2>1 DEF IInv, HubLoopOK
  <2>3. FeedOK' /\ FeedContiguous'
    <3>1. FeedOK'
      <4>1. \A a \in Bot : taken[a] \in Nat /\ taken'[a] \in Nat /\ taken[a] <= taken'[a]
        BY <2>1
      <4>2. ASSUME NEW c \in Client, NEW i \in 1..Len(got[c])
            PROVE  got[c][i].n <= taken'[got[c][i].bot]
        <5>1. got[c][i].bot \in Bot /\ got[c][i].n \in Nat
          BY <1>0, HeardMessages DEF IInv
        <5>2. got[c][i].n <= taken[got[c][i].bot]
          BY DEF FeedIInv, FeedOK
        <5>. QED  BY <4>1, <5>1, <5>2
      <4>3. \A c \in Client : \A i \in 1..Len(got'[c]) :
              /\ key'[c] \in {GameKey(got'[c][i].bot), ProfileKey(got'[c][i].bot)}
              /\ got'[c][i].n <= taken'[got'[c][i].bot]
        BY <2>1, <4>2 DEF FeedIInv, FeedOK
      <4>4. \A c \in Client : handler'[c] \in {"idle", "registering"} => got'[c] = <<>>
        BY <2>1 DEF FeedIInv, FeedOK
      <4>. QED  BY <2>2, <4>3, <4>4 DEF FeedOK, GameKey, ProfileKey
    <3>2. FeedContiguous
      BY DEF FeedIInv
    <3>3. FeedContiguous'
      BY <2>0, <3>2 DEF FeedContiguous
    <3>. QED  BY <3>1, <3>3
  <2>4. NothingMissed'
    <3>. SUFFICES ASSUME NEW c \in sessions, NEW i \in 1..Len(got[c]), LastOf(c, i)
                  PROVE  got[c][i].n = IF Awaits(c)' /\ hubMsg'.bot = got[c][i].bot
                                         THEN taken'[got[c][i].bot] - 1 ELSE taken'[got[c][i].bot]
      BY <2>0 DEF NothingMissed, LastOf
    <3>1. c \in Client /\ got[c][i].bot \in Bot
      BY <1>0, HeardMessages DEF IInv, TypeOK
    <3>2. got[c][i].n = taken[got[c][i].bot]
      BY <2>1 DEF FeedIInv, NothingMissed, Awaits
    (* Whoever has heard of the bot listens to it. *)
    <3>3. got[c][i].bot = b => Awaits(c)'
      <4>1. key[c] \in {GameKey(got[c][i].bot), ProfileKey(got[c][i].bot)}
        BY <3>1 DEF FeedIInv, FeedOK
      <4>. QED  BY <2>1, <2>2, <4>1 DEF Awaits, Listeners, ProfileKey
    <3>4. taken[got[c][i].bot] \in Nat
      BY <2>1, <3>1
    <3>5. taken'[got[c][i].bot] = IF got[c][i].bot = b THEN taken[got[c][i].bot] + 1
                                                       ELSE taken[got[c][i].bot]
      BY <2>1, <3>1
    <3>6. CASE got[c][i].bot = b
      BY <2>2, <3>2, <3>3, <3>4, <3>5, <3>6
    <3>7. CASE got[c][i].bot # b
      BY <2>2, <3>2, <3>5, <3>7
    <3>. QED  BY <3>6, <3>7
  <2>. QED  BY <1>0, <2>3, <2>4 DEF FeedIInv
<1>9. ASSUME HubLoop PROVE FeedIInv'
  <2>1. UNCHANGED <<sessions, key, taken, got, handler>>
    BY <1>9 DEF HubLoop, EndGameLoop, EndProfileLoop, RangeNext, mapVars, chanVars, wsVars
  <2>2. ASSUME NEW c \in Client PROVE Awaits(c)' <=> Awaits(c)
    <3>1. CASE EndGameLoop
      BY <3>1, <2>1 DEF EndGameLoop, Awaits, Listeners
    <3>2. CASE EndProfileLoop
      BY <3>2, <2>1 DEF EndProfileLoop, Awaits, Listeners
    <3>3. ASSUME NEW d \in Client, RangeNext(d) PROVE Awaits(c)' <=> Awaits(c)
      BY <3>3, <2>1 DEF RangeNext, Awaits, Listeners
    <3>. QED  BY <1>9, <3>1, <3>2, <3>3 DEF HubLoop
  <2>3. hubMsg' = hubMsg \/ \A c \in Client : ~Awaits(c)'
    BY <1>9 DEF HubLoop, EndGameLoop, EndProfileLoop, RangeNext, Awaits
  <2>4. hubPc' # "select" => hubMsg'.n = taken[hubMsg'.bot]
    BY <1>9, <2>1 DEF HubLoop, EndGameLoop, EndProfileLoop, RangeNext, FeedIInv, FeedOK
  <2>5. \A c \in Client : handler'[c] \in {"idle", "registering"} => got[c] = <<>>
    BY <2>1 DEF FeedIInv, FeedOK
  <2>. QED  BY <1>0, <2>1, <2>2, <2>3, <2>4, <2>5, FeedQuiet
<1>. QED
  BY <1>2, <1>3, <1>4, <1>5, <1>6, <1>7, <1>8, <1>9 DEF Next, ClientStep, WriterStep

(* What the hub has taken, holds and has delivered agree at every step of  *)
(* every goroutine (bot_hub.go:47-62).                                     *)
THEOREM FeedInvariantHolds == Spec => []FeedIInv
  BY InitFeedIInv, NextFeedIInv, PTL DEF Spec
-----------------------------------------------------------------------------
(* A websocket is told of the bots it listens to and of no other, and only *)
(* once registered (bot_hub.go:47-62).                                     *)
THEOREM OnlyListenersHear == Spec => []FeedOK
  <1>1. FeedIInv => FeedOK
    BY DEF FeedIInv
  <1>. QED  BY <1>1, FeedInvariantHolds, PTL

(* bot_hub.go:55,60: a registered websocket that has heard of a bot has    *)
(* its last status, but for the one the hub is handing out.                *)
THEOREM ListenersUpToDate == Spec => []NothingMissed
  <1>1. FeedIInv => NothingMissed
    BY DEF FeedIInv
  <1>. QED  BY <1>1, FeedInvariantHolds, PTL

(* bot_hub.go:52-62: the statuses of one bot that a websocket receives are *)
(* consecutive: none is skipped and none repeated.                         *)
THEOREM FeedHasNoGaps == Spec => []FeedContiguous
  <1>1. FeedIInv => FeedContiguous
    BY DEF FeedIInv
  <1>. QED  BY <1>1, FeedInvariantHolds, PTL
=============================================================================
