-------------------------- MODULE VerificationSystem --------------------------
(***************************************************************************)
(* The verification of uploaded bots (BotVerification) and the hub that    *)
(* tells their authors (BotHub), joined at the channel h.broadcast: the    *)
(* goroutine processTestingStatus of a request is the sender of its bot.   *)
(* One run of the process: what a restart leaves is in BotVerification.    *)
(***************************************************************************)
EXTENDS HubTypes

CONSTANTS Upload, UploadOf, GameExists, Replies   \* as in BotVerification

VARIABLES sessions, gameMaps, userMaps, hubPc, hubMsg, hubTodo, hubAt,
          offered, taken, handler, key, writer, reader, conn, closed, got

H == INSTANCE BotHub

VARIABLES amqp, rows, verified, req, game, answer, tasks, queue, sent, inbox,
          fwd, fwdMsg, proc, procMsg, told, unsaved

(* What the goroutines of the uploads see of the hub. *)
hubBar == IF H!HubBlocked THEN "stuck" ELSE IF H!HubHeldUp THEN "waiting" ELSE "serving"

V == INSTANCE BotVerification
       WITH Request <- Bot, MaxReplies <- MaxStatus, MaxRestarts <- 0,
            hub <- hubBar, restarts <- 0

ASSUME SystemAssumption ==
  /\ UploadOf \in [Bot -> Upload]
  /\ GameExists \subseteq Upload
  /\ Replies \subseteq V!Reply

hubSideVars == <<sessions, gameMaps, userMaps, hubPc, hubMsg, hubTodo, hubAt,
                 offered, taken, handler, key, writer, reader, conn, closed, got>>
uploadVars == <<amqp, rows, verified, req, game, answer, tasks, queue, sent, inbox,
                fwd, fwdMsg, proc, procMsg, told, unsaved>>
vars == <<hubSideVars, uploadVars>>

Init == H!Init /\ V!Init
-----------------------------------------------------------------------------
(* The hub and the websockets, without the channel h.broadcast. *)
HubStep ==
  /\ (\E c \in Client : H!ClientStep(c)) \/ H!HubLoop
  /\ UNCHANGED uploadVars

(* The uploads, without the channel h.broadcast. *)
UploadStep(b) ==
  /\ UNCHANGED hubSideVars
  /\ V!ReadGame(b) \/ V!Handler(b) \/ V!TesterReplies(b) \/ V!Forwarder(b)
     \/ V!Save(b) \/ V!SaveFails(b) \/ V!ProcEnd(b)

LoseChannel == UNCHANGED hubSideVars /\ V!ChannelLost

(* processTestingStatus reads a reply and, if it is one to announce,       *)
(* begins to send it to the hub.                                           *)
Hand(b) ==
  /\ IF fwdMsg[b] \in V!Announced THEN H!Offer(b) ELSE UNCHANGED hubSideVars
  /\ V!Forward(b)

(* Variant: go func() { broadcast <- message }(). *)
Tell_Async(b) == UNCHANGED hubSideVars /\ V!Broadcast(b)

Tell(b) == H!ReceiveBroadcast(b) /\ V!Broadcast(b)    \* the send meets the receive

Next ==
  \/ HubStep \/ LoseChannel
  \/ \E b \in Bot : UploadStep(b) \/ Hand(b) \/ Tell(b)

Spec == Init /\ [][Next]_vars

(***************************************************************************)
(* Fairness as in BotHub, as far as it is needed here, for the goroutines  *)
(* of a websocket and of the hub; the goroutines of an upload run when     *)
(* they need nobody else, and a send to the hub is taken when the hub      *)
(* keeps coming back to its select.  The tester, the broker and the peers  *)
(* owe nothing.                                                            *)
(***************************************************************************)
UploadRuns(b) ==
  /\ UNCHANGED hubSideVars
  /\ V!Handler(b) \/ V!Forwarder(b) \/ V!Save(b) \/ V!SaveFails(b) \/ V!ProcEnd(b)

ClientRuns(c) ==
  /\ WF_vars(H!Start(c) /\ UNCHANGED uploadVars)
  /\ WF_vars(H!WriterRuns(c) /\ UNCHANGED uploadVars)
  /\ SF_vars((H!Deliver(c) \/ H!SeeClosed(c)) /\ UNCHANGED uploadVars)

Fairness ==
  /\ \A c \in Client : ClientRuns(c)
  /\ \A b \in Bot : WF_vars(UploadRuns(b)) /\ WF_vars(Hand(b)) /\ SF_vars(Tell(b))
  /\ WF_vars(H!HubLoop /\ UNCHANGED uploadVars)

FairSpec == Spec /\ Fairness
-----------------------------------------------------------------------------
(* The system does nothing that BotVerification alone could not do: a      *)
(* broadcast meets a hub that serves, and the hub stops serving, resumes   *)
(* or sticks as HubMoves says (bot_verify.go:146, bot_hub.go:55).          *)
VerificationSpec == V!Spec

(* The two sides of h.broadcast agree: the hub has taken what the          *)
(* goroutine has told, and one status more is under way exactly while the  *)
(* goroutine is blocked on the channel (bot_verify.go:146, bot_hub.go:52). *)
Coupled ==
  \A b \in Bot :
    /\ taken[b] = Len(told[b])
    /\ offered[b] = taken[b] + (IF proc[b] = "broadcast" THEN 1 ELSE 0)

(* From end to end: whatever a websocket receives is a reply the tester    *)
(* sent for a bot of the user who opened it, be it on the profile or on a  *)
(* game (bot_verify.go:94-146, bot_hub.go:54-61).                          *)
HeardFromTester ==
  \A c \in Client : \A i \in 1..Len(got[c]) :
    LET m == got[c][i] IN
      /\ BotAuthor[m.bot] = key[c][1]
      /\ m.n <= Len(told[m.bot])
      /\ \E j \in 1..Len(sent[m.bot]) : sent[m.bot][j] = told[m.bot][m.n]

(* A verdict the forwarder has read is told and the reply queue deleted,   *)
(* unless the hub waits for a writer that has returned, or is held up by   *)
(* stalled peers over and over (bot_verify.go:105-116,146).                *)
VerdictHandled == <>[]~H!HubHeldUp =>
  \A b \in Bot :
    (fwd[b] = "send" /\ fwdMsg[b] \in V!Verdict) ~>
      \/ queue[b] = "deleted" /\ \E i \in 1..Len(told[b]) : told[b][i] \in V!Verdict
      \/ H!HubBlocked

(* Once the tester has sent a result or an error, or the consumer is gone  *)
(* with the channel, both goroutines of the request return, with the same  *)
(* exceptions (bot_verify.go:94,107,119,135).                              *)
PipelinesEnd == <>[]~H!HubHeldUp =>
  \A b \in Bot :
    (queue[b] = "deleted" \/ \E i \in 1..Len(sent[b]) : sent[b][i] \in V!Closing) ~>
      (fwd[b] \in {"off", "closed"} /\ proc[b] \in {"off", "done"}) \/ H!HubBlocked

(* An author who listens when a verdict is about to be told receives it,   *)
(* unless the websocket leaves before that, with the same exceptions       *)
(* (bot_verify.go:146, bot_hub.go:54-61, bot_client.go:62).                *)
Received(c, b) == \E i \in 1..Len(got[c]) :
                    got[c][i].bot = b /\ told[b][got[c][i].n] \in V!Verdict
AuthorHears == <>[]~H!HubHeldUp =>
  \A c \in Client, b \in Bot :
    ( /\ proc[b] = "broadcast" /\ procMsg[b] \in V!Verdict
      /\ c \in sessions /\ key[c] \in {GameKey(b), ProfileKey(b)} ) ~>
      Received(c, b) \/ c \notin sessions \/ H!HubBlocked
=============================================================================
