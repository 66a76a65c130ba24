----------------------- MODULE VerificationSystemProofs -----------------------
(***************************************************************************)
(* The uploads and the hub together, for any clients, users, bots, uploads *)
(* and numbers of replies: what the uploads assume of the hub is true of   *)
(* it, the two sides of h.broadcast agree, and what a websocket receives   *)
(* comes from the tester.                                                  *)
(***************************************************************************)
EXTENDS VerificationSystem, SequenceTheorems, TLAPS

(* The theorems about the parts, for this use of them. *)
HP == INSTANCE BotFeedProofs
VP == INSTANCE BotVerificationProofs
        WITH Request <- Bot, MaxReplies <- MaxStatus, MaxRestarts <- 0,
             hub <- hubBar, restarts <- 0

LEMMA SameHub == H!Spec => HP!Spec
<1>1. H!Init => HP!Init
  BY DEF H!Init, HP!Init
<1>2. H!Next => HP!Next
  BY DEF H!Next, H!ClientStep, H!HubLoop, H!OpenVerifyWS, H!Register, H!Start, H!ReadError, H!Unregister,
     H!ReaderExit, H!WriteJSON, H!SeeClosed, H!Tick, H!PingOK, H!PingFail, H!WriterExit, H!Deliver,
     H!PeerGone, H!PeerStalls, H!PeerResumes, H!PeerMoves, H!Offer, H!ReceiveBroadcast,
     H!EndGameLoop, H!EndProfileLoop, H!RangeNext, H!Listeners, H!GameKey, H!ProfileKey,
     H!Key, H!Topic, H!hubVars, H!chanVars, H!wsVars, H!mapVars, H!loopVars,
     HP!Next, HP!ClientStep, HP!HubLoop, HP!OpenVerifyWS, HP!Register, HP!Start, HP!ReadError, HP!Unregister,
     HP!ReaderExit, HP!WriteJSON, HP!SeeClosed, HP!Tick, HP!PingOK, HP!PingFail, HP!WriterExit, HP!Deliver,
     HP!PeerGone, HP!PeerStalls, HP!PeerResumes, HP!PeerMoves, HP!Offer, HP!ReceiveBroadcast,
     HP!EndGameLoop, HP!EndProfileLoop, HP!RangeNext, HP!Listeners, HP!GameKey, HP!ProfileKey,
     HP!Key, HP!Topic, HP!hubVars, HP!chanVars, HP!wsVars, HP!mapVars, HP!loopVars
<1>3. UNCHANGED H!vars => UNCHANGED HP!vars
  BY DEF H!vars, HP!vars, H!hubVars, H!chanVars, H!wsVars, HP!hubVars, HP!chanVars, HP!wsVars
<1>4. [H!Next]_(H!vars) => [HP!Next]_(HP!vars)
  BY <1>2, <1>3
<1>. QED  BY <1>1, <1>4, PTL DEF H!Spec, HP!Spec

LEMMA SameVerification == V!Spec => VP!Spec
<1>1. V!Init => VP!Init
  BY DEF V!Init, VP!Init, V!Nothing, VP!Nothing
<1>2. V!Next => VP!Next
  BY DEF V!Next, V!ReadGame, V!Handler, V!TesterReplies, V!Forwarder, V!Forward, V!Processor,
     V!ChannelLost, V!HubMoves, V!Restart, V!CreateNoGame, V!CreateTaken, V!CreateFails,
     V!CommitUnclear, V!CreateOK, V!Declare, V!Consume, V!Publish, V!RPCFails, V!Respond,
     V!StartProcessor, V!RespondOK,
     V!Duplicate, V!ConsumerEnds, V!FwdReceive, V!FwdClose, V!Cancel, V!Broadcast, V!Save,
     V!SaveFails, V!ProcEnd, V!IsWin, V!Announced, V!Closing, V!Verdict,
     V!dbVars, V!envVars, V!reqVars, V!brokerVars, V!fwdVars, V!procVars,
     VP!Next, VP!ReadGame, VP!Handler, VP!TesterReplies, VP!Forwarder, VP!Forward, VP!Processor,
     VP!ChannelLost, VP!HubMoves, VP!Restart, VP!CreateNoGame, VP!CreateTaken, VP!CreateFails,
     VP!CommitUnclear, VP!CreateOK, VP!Declare, VP!Consume, VP!Publish, VP!RPCFails, VP!Respond,
     VP!StartProcessor, VP!RespondOK,
     VP!Duplicate, VP!ConsumerEnds, VP!FwdReceive, VP!FwdClose, VP!Cancel, VP!Broadcast, VP!Save,
     VP!SaveFails, VP!ProcEnd, VP!IsWin, VP!Announced, VP!Closing, VP!Verdict,
     VP!dbVars, VP!envVars, VP!reqVars, VP!brokerVars, VP!fwdVars, VP!procVars
<1>3. UNCHANGED V!vars => UNCHANGED VP!vars
  BY DEF V!vars, VP!vars, V!dbVars, V!envVars, V!reqVars, V!brokerVars, V!fwdVars, V!procVars,
     VP!dbVars, VP!envVars, VP!reqVars, VP!brokerVars, VP!fwdVars, VP!procVars
<1>4. [V!Next]_(V!vars) => [VP!Next]_(VP!vars)
  BY <1>2, <1>3
<1>. QED  BY <1>1, <1>4, PTL DEF V!Spec, VP!Spec
-----------------------------------------------------------------------------
(* The composition is built of the steps of BotHub, so that what BotHub    *)
(* keeps the composition keeps.                                            *)
LEMMA SystemHub == Spec => H!Spec
<1>1. Init => H!Init
  BY DEF Init
<1>2. [Next]_vars => [H!Next]_(H!vars)
  BY DEF Next, vars, HubStep, LoseChannel, UploadStep, Hand, Tell, hubSideVars, H!Next, H!vars,
     H!hubVars, H!chanVars, H!wsVars
<1>. QED  BY <1>1, <1>2, PTL DEF Spec, H!Spec

(* The hub's invariants hold of the composition. *)
LEMMA HubInvariant == Spec => []HP!FeedIInv
<1>1. NoKey \notin HP!Key /\ NoMsg \notin HP!Message
  BY HubAssumption DEF HP!Key, Key, HP!Topic, Topic, HP!Message, Message
<1>2. HP!Spec => []HP!FeedIInv
  BY <1>1, HubAssumption, HP!FeedInvariantHolds, PTL
<1>. QED  BY <1>2, SystemHub, SameHub, PTL
-----------------------------------------------------------------------------
(* A client the hub waits for has its channel open and its goroutines      *)
(* started or about to be.                                                 *)
LEMMA WaitedFor ==
  ASSUME HP!FeedIInv, hubAt # NoClient
  PROVE  /\ hubAt \in Client /\ hubAt \notin closed
         /\ writer[hubAt] # "off" => handler[hubAt] = "done"
         /\ DOMAIN writer = Client /\ DOMAIN conn = Client
  <1>1. HP!TypeOK /\ HP!ClientOK /\ HP!SessionsExact /\ HP!HubLoopOK
    BY DEF HP!FeedIInv, HP!IInv
  <1>2. hubAt \in Client
    BY <1>1 DEF HP!TypeOK
  <1>3. hubAt \in sessions
    BY <1>1 DEF HP!TypeOK, HP!HubLoopOK, HP!Serves, HP!Listeners
  <1>4. hubAt \notin closed
    BY <1>1, <1>3 DEF HP!SessionsExact
  <1>. QED  BY <1>1, <1>2, <1>4 DEF HP!TypeOK, HP!ClientOK

(* A hub that is stuck stays so, and one that waits for a stalled peer     *)
(* does not get stuck before the peer moves: the writer it waits for is    *)
(* in the middle of a write.                                               *)
LEMMA HubStepMoves ==
  ASSUME HP!FeedIInv, HubStep
  PROVE  /\ hubBar = "stuck" => hubBar' = "stuck"
         /\ hubBar = "waiting" => hubBar' # "stuck"
  <1>. SUFFICES ASSUME hubAt # NoClient, H!HubBlocked \/ H!HubHeldUp
                PROVE  /\ H!HubBlocked => H!HubBlocked'
                       /\ ~H!HubBlocked /\ H!HubHeldUp => ~H!HubBlocked'
    BY DEF hubBar, H!HubBlocked, H!HubHeldUp
  <1>1. /\ hubAt \in Client /\ hubAt \notin closed
        /\ writer[hubAt] # "off" => handler[hubAt] = "done"
        /\ DOMAIN writer = Client /\ DOMAIN conn = Client
    BY WaitedFor
  <1>2. ~H!HubLoop \/ (UNCHANGED <<hubAt, writer>>)
    BY DEF H!HubLoop, H!EndGameLoop, H!EndProfileLoop, H!RangeNext, H!wsVars
  <1>3. ASSUME NEW c \in Client, H!ClientStep(c)
        PROVE  \/ hubAt' = hubAt /\ writer'[hubAt] = writer[hubAt]
               \/ hubAt' = NoClient /\ writer[hubAt] = "select"
               \/ /\ hubAt' = hubAt
                  /\ writer[hubAt] \notin {"exiting", "done"}
                  /\ \/ writer'[hubAt] \notin {"exiting", "done"}
                     \/ conn[hubAt] # "stalled"
               \/ hubAt' = hubAt /\ writer[hubAt] = "exiting" /\ writer'[hubAt] = "done"
    <2>1. CASE H!Deliver(c)
      BY <2>1, <1>1 DEF H!Deliver
    <2>2. CASE H!Start(c)
      BY <2>2, <1>1 DEF H!Start, H!hubVars
    <2>3. CASE H!WriteJSON(c) \/ H!SeeClosed(c) \/ H!Tick(c)
      BY <2>3, <1>1 DEF H!WriteJSON, H!SeeClosed, H!Tick, H!hubVars
    <2>4. CASE H!PingOK(c) \/ H!PingFail(c) \/ H!WriterExit(c)
      BY <2>4, <1>1 DEF H!PingOK, H!PingFail, H!WriterExit, H!hubVars
    <2>5. CASE H!OpenVerifyWS(c) \/ H!Register(c) \/ H!ReadError(c) \/ H!Unregister(c)
               \/ H!ReaderExit(c)
      BY <2>5 DEF H!OpenVerifyWS, H!Register, H!ReadError, H!Unregister, H!ReaderExit,
         H!hubVars, H!loopVars
    <2>6. CASE H!PeerGone(c) \/ H!PeerStalls(c) \/ H!PeerResumes(c)
      BY <2>6 DEF H!PeerGone, H!PeerStalls, H!PeerResumes, H!PeerMoves, H!hubVars
    <2>. QED  BY <1>3, <2>1, <2>2, <2>3, <2>4, <2>5, <2>6 DEF H!ClientStep
  <1>4. CASE H!HubLoop
    BY <1>2, <1>4 DEF H!HubBlocked
  <1>5. CASE \E c \in Client : H!ClientStep(c)
    BY <1>3, <1>5 DEF H!HubBlocked, H!HubHeldUp
  <1>. QED  BY <1>4, <1>5 DEF HubStep

(* What BotVerification assumes of the hub it broadcasts to is true of     *)
(* BotHub, and the composition does nothing to the uploads that            *)
(* BotVerification could not do (bot_verify.go:146, bot_hub.go:55).        *)
THEOREM SystemRefinesVerification == Spec => VerificationSpec
<1>1. Init => V!Init
  <2>1. H!Init => hubBar = "serving"
    BY DEF H!Init, hubBar, H!HubBlocked, H!HubHeldUp
  <2>. QED  BY <2>1 DEF Init, V!Init
<1>2. HP!FeedIInv /\ [Next]_vars => [V!Next]_(V!vars)
  <2>. SUFFICES ASSUME HP!FeedIInv, [Next]_vars PROVE [V!Next]_(V!vars)
    OBVIOUS
  <2>1. CASE HubStep
    <3>1. hubBar \in {"stuck", "waiting", "serving"} /\ hubBar' \in {"stuck", "waiting", "serving"}
      BY DEF hubBar
    <3>2. CASE hubBar' = hubBar
      BY <2>1, <3>2 DEF HubStep, uploadVars, V!vars, V!dbVars, V!envVars, V!reqVars,
         V!brokerVars, V!fwdVars, V!procVars
    <3>3. CASE hubBar' # hubBar
      <4>1. V!HubMoves
        BY <2>1, <3>1, <3>3, HubStepMoves DEF HubStep, uploadVars, V!HubMoves, V!dbVars, V!reqVars,
           V!brokerVars, V!fwdVars, V!procVars
      <4>. QED  BY <4>1 DEF V!Next
    <3>. QED  BY <3>2, <3>3
  <2>2. CASE LoseChannel
    BY <2>2 DEF LoseChannel, V!Next
  <2>3. ASSUME NEW b \in Bot, UploadStep(b) \/ Hand(b) \/ Tell(b)
        PROVE  V!Next
    BY <2>3 DEF UploadStep, Hand, Tell, V!Next, V!Processor
  <2>4. CASE UNCHANGED vars
    <3>1. hubBar' = hubBar
      BY <2>4 DEF vars, hubSideVars, hubBar, H!HubBlocked, H!HubHeldUp
    <3>. QED  BY <2>4, <3>1 DEF vars, uploadVars, V!vars, V!dbVars, V!envVars, V!reqVars,
         V!brokerVars, V!fwdVars, V!procVars
  <2>. QED  BY <2>1, <2>2, <2>3, <2>4 DEF Next
<1>. QED  BY <1>1, <1>2, HubInvariant, PTL DEF Spec, VerificationSpec, V!Spec

(* The constants are those that the theorems about the uploads ask for. *)
LEMMA UploadConstants ==
  /\ UploadOf \in [Bot -> Upload] /\ GameExists \subseteq Upload
  /\ Replies \subseteq VP!Reply /\ MaxStatus \in [Bot -> Nat] /\ 0 \in Nat
BY SystemAssumption, HubAssumption DEF V!Reply, VP!Reply, V!Closing, VP!Closing, V!Verdict, VP!Verdict

(* The uploads' invariants hold of the composition. *)
LEMMA VerificationInvariant == Spec => []VP!IInv
<1>2. VP!Spec => []VP!IInv
  BY UploadConstants, VP!InvariantHolds, PTL
<1>. QED  BY <1>2, SystemRefinesVerification, SameVerification, PTL DEF VerificationSpec
-----------------------------------------------------------------------------
(* A step that leaves the channel, what was told and who broadcasts as     *)
(* they are does not disturb the agreement.                                *)
LEMMA CoupledQuiet ==
  ASSUME Coupled, UNCHANGED <<taken, offered, told>>,
         \A b \in Bot : proc'[b] = "broadcast" <=> proc[b] = "broadcast"
  PROVE  Coupled'
BY DEF Coupled

(* Every step of an upload keeps the agreement of the two sides. *)
LEMMA NextCoupled == HP!FeedIInv /\ VP!IInv /\ Coupled /\ [Next]_vars => Coupled'
<1>. SUFFICES ASSUME HP!FeedIInv, VP!IInv, Coupled, [Next]_vars PROVE Coupled'
  OBVIOUS
<1>1. /\ taken \in [Bot -> Nat] /\ offered \in [Bot -> Nat]
  BY DEF HP!FeedIInv, HP!IInv, HP!TypeOK
<1>2. /\ proc \in [Bot -> {"off", "range", "broadcast", "save", "done"}]
      /\ \A b \in Bot : told[b] \in Seq(VP!Announced)
      /\ DOMAIN told = Bot
  BY DEF VP!IInv, VP!TypeOK
<1>3. CASE HubStep
  <2>1. UNCHANGED <<taken, offered>>
    BY <1>3 DEF HubStep, H!ClientStep, H!HubLoop, H!OpenVerifyWS, H!Register, H!Start, H!ReadError,
       H!Unregister, H!ReaderExit, H!WriteJSON, H!SeeClosed, H!Tick, H!PingOK, H!PingFail,
       H!WriterExit, H!Deliver, H!PeerGone, H!PeerStalls, H!PeerResumes, H!PeerMoves,
       H!EndGameLoop, H!EndProfileLoop, H!RangeNext, H!chanVars
  <2>. QED  BY <1>3, <2>1, CoupledQuiet DEF HubStep, uploadVars
<1>4. CASE LoseChannel
  BY <1>4, CoupledQuiet DEF LoseChannel, V!ChannelLost, V!procVars, hubSideVars
<1>5. CASE UNCHANGED vars
  BY <1>5, CoupledQuiet DEF vars, hubSideVars, uploadVars
<1>6. ASSUME NEW b \in Bot, UploadStep(b) PROVE Coupled'
  <2>1. UNCHANGED <<taken, offered>>
    BY <1>6 DEF UploadStep, hubSideVars
  <2>2. CASE V!ReadGame(b) \/ V!TesterReplies(b) \/ V!Forwarder(b)
    BY <2>1, <2>2, CoupledQuiet DEF V!ReadGame, V!TesterReplies, V!Forwarder, V!FwdReceive,
       V!FwdClose, V!Cancel, V!procVars
  <2>3. CASE V!Handler(b) /\ ~V!StartProcessor(b)
    BY <2>1, <2>3, CoupledQuiet DEF V!Handler, V!CreateNoGame, V!CreateTaken, V!CreateFails,
       V!CommitUnclear, V!CreateOK, V!Declare, V!Consume, V!RPCFails, V!Publish,
       V!RespondOK, V!procVars
  <2>4. CASE V!StartProcessor(b)
    <3>1. proc[b] = "off"
      BY <2>4 DEF V!StartProcessor, VP!IInv, VP!StagesOK
    <3>. QED  BY <1>2, <2>1, <2>4, <3>1, CoupledQuiet DEF V!StartProcessor
  <2>5. CASE V!Save(b) \/ V!SaveFails(b) \/ V!ProcEnd(b)
    BY <1>2, <2>1, <2>5, CoupledQuiet DEF V!Save, V!SaveFails, V!ProcEnd
  <2>. QED  BY <1>6, <2>2, <2>3, <2>4, <2>5 DEF UploadStep
<1>7. ASSUME NEW b \in Bot, Hand(b) PROVE Coupled'
  <2>1. /\ proc[b] = "range" /\ told' = told
        /\ proc' = [proc EXCEPT ![b] = IF fwdMsg[b] \in V!Announced THEN "broadcast" ELSE "range"]
    BY <1>7 DEF Hand, V!Forward
  <2>2. CASE fwdMsg[b] \in V!Announced
    <3>1. taken' = taken /\ offered' = [offered EXCEPT ![b] = @ + 1]
      BY <1>7, <2>2 DEF Hand, H!Offer
    <3>. QED  BY <1>1, <1>2, <2>1, <2>2, <3>1 DEF Coupled
  <2>3. CASE fwdMsg[b] \notin V!Announced
    BY <1>2, <1>7, <2>1, <2>3, CoupledQuiet DEF Hand, hubSideVars
  <2>. QED  BY <2>2, <2>3
<1>8. ASSUME NEW b \in Bot, Tell(b) PROVE Coupled'
  <2>1. taken' = [taken EXCEPT ![b] = @ + 1] /\ offered' = offered
    BY <1>8 DEF Tell, H!ReceiveBroadcast
  <2>2. /\ proc[b] = "broadcast" /\ told' = [told EXCEPT ![b] = Append(@, procMsg[b])]
        /\ proc' = [proc EXCEPT ![b] = IF procMsg[b] \in V!Verdict THEN "save" ELSE "range"]
    BY <1>8 DEF Tell, V!Broadcast
  <2>3. Len(told'[b]) = Len(told[b]) + 1
    <3>1. procMsg[b] \in VP!Announced
      BY <2>2 DEF VP!IInv, VP!StagesOK
    <3>. QED  BY <1>2, <2>2, <3>1, AppendProperties
  <2>. QED  BY <1>1, <1>2, <2>1, <2>2, <2>3 DEF Coupled
<1>. QED  BY <1>3, <1>4, <1>5, <1>6, <1>7, <1>8 DEF Next

(* The goroutine of an upload and the hub agree on what went through       *)
(* h.broadcast and on who is blocked on it (bot_verify.go:146,             *)
(* bot_hub.go:52).                                                         *)
THEOREM ChannelAgreed == Spec => []Coupled
<1>1. Init => Coupled
  BY DEF Init, H!Init, V!Init, Coupled
<1>. QED  BY <1>1, NextCoupled, HubInvariant, VerificationInvariant, PTL DEF Spec

(* From end to end: whatever a websocket receives was published by the     *)
(* tester for a bot of the user who opened it (bot_verify.go:94-146,       *)
(* bot_hub.go:54-61).                                                      *)
THEOREM OnlyTestersWord == Spec => []HeardFromTester
<1>1. HP!FeedIInv /\ VP!IInv /\ Coupled => HeardFromTester
  <2>. SUFFICES ASSUME HP!FeedIInv, VP!IInv, Coupled,
                       NEW c \in Client, NEW i \in 1..Len(got[c])
                PROVE  LET m == got[c][i] IN
                         /\ BotAuthor[m.bot] = key[c][1]
                         /\ m.n <= Len(told[m.bot])
                         /\ \E j \in 1..Len(sent[m.bot]) : sent[m.bot][j] = told[m.bot][m.n]
    BY DEF HeardFromTester
  <2>. DEFINE m == got[c][i]
  <2>1. m \in HP!Message
    <3>1. got[c] \in Seq(HP!Message)
      BY DEF HP!FeedIInv, HP!IInv, HP!TypeOK
    <3>. QED  BY <3>1, ElementOfSeq
  <2>2. m.bot \in Bot /\ m.n \in Nat \ {0}
    BY <2>1 DEF HP!Message
  <2>3. key[c] \in {HP!GameKey(m.bot), HP!ProfileKey(m.bot)} /\ m.n <= taken[m.bot]
    BY DEF HP!FeedIInv, HP!FeedOK
  <2>4. taken[m.bot] = Len(told[m.bot])
    BY <2>2 DEF Coupled
  <2>5. BotAuthor[m.bot] = key[c][1]
    BY <2>3 DEF HP!GameKey, HP!ProfileKey
  <2>6. m.n \in 1..Len(told[m.bot])
    <3>1. Len(told[m.bot]) \in Nat
      BY <2>2, LenProperties DEF VP!IInv, VP!TypeOK
    <3>. QED  BY <2>2, <2>3, <2>4, <3>1
  <2>. HIDE DEF m
  <2>7. \E j \in 1..Len(sent[m.bot]) : sent[m.bot][j] = told[m.bot][m.n]
    BY <2>2, <2>6, UploadConstants, VP!ToldWasSent
  <2>. QED  BY <2>3, <2>4, <2>5, <2>7 DEF m
<1>. QED  BY <1>1, ChannelAgreed, HubInvariant, VerificationInvariant, PTL
=============================================================================
