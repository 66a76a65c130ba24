-------------------------- MODULE BotVerification --------------------------
(***************************************************************************)
(* POST /bots (CreateBot) and what it starts: the row in the table bots,   *)
(* the RPC to the tester over RabbitMQ (sendForVerifyRPC), the goroutine   *)
(* that forwards the replies and the one that turns them into broadcasts   *)
(* and into bots.is_verified (processTestingStatus).  The hub is the       *)
(* receiver of h.broadcast only; BotHub models it.                         *)
(***************************************************************************)
EXTENDS Naturals, Sequences

CONSTANTS
  Request,      \* authenticated POST /bots with a decodable, valid form
  Upload,       \* (code, language, author, game): the columns of unique_code
  UploadOf,     \* the upload of each request
  GameExists,   \* the uploads whose game_slug names a game
  Replies,      \* bound: what the tester may publish to a reply queue
  MaxReplies,   \* bound: messages published to each reply queue
  MaxRestarts   \* bound: restarts of the server

(* What may arrive on a reply queue.  "garbage" is no JSON envelope;       *)
(* "badresult" is a result or an error whose body does not decode;         *)
(* "ignored" a status whose body does not, or an unknown type; "foreign"   *)
(* is a win under another correlation id, in reply to something else.      *)
Verdict == {"win", "loss", "error"}
Closing == Verdict \cup {"badresult"}             \* Type == "result" || Type == "error"
Reply == Closing \cup {"status", "ignored", "garbage", "foreign"}
Announced == Verdict \cup {"status"}             \* replies that are broadcast
Nothing == "nothing"

ASSUME VerificationAssumption ==
  /\ UploadOf \in [Request -> Upload]
  /\ GameExists \subseteq Upload
  /\ Replies \subseteq Reply
  /\ MaxReplies \in [Request -> Nat] /\ MaxRestarts \in Nat

VARIABLES
  amqp,       \* queue.Channel: "nil" (never connected), "up", "down" (closed, for good)
  hub,        \* "serving"; "waiting" for a peer that does not read; "stuck" for good
  restarts,
  rows,       \* requests whose bot row is committed
  verified,   \* those with is_verified
  req,        \* CreateBot: "idle", "create", "declare", "consume", "publish", "start",
              \*   "respond", "answered", or "gone" with the process
  game,       \* did the first GetGameBySlug return a game?
  answer,     \* "none", "200", "not_exists", "taken", "500"
  tasks,      \* history: requests whose task was published to tester_rpc_queue
  queue,      \* reply queue: "none", "declared", "consumed", "deleted"
  sent,       \* history: what was published to the reply queue
  inbox,      \* deliveries buffered in the client, not yet read
  fwd,        \* forwarding goroutine: "off", "range", "send", "cancel", "closed"
  fwdMsg,
  proc,       \* processTestingStatus: "off", "range", "broadcast", "save", "done"
  procMsg,
  told,       \* history: what was broadcast
  unsaved     \* history: requests for which SetBotVerifiedByID last failed

dbVars == <<rows, verified>>
envVars == <<amqp, hub, restarts>>
reqVars == <<req, game, answer>>
brokerVars == <<tasks, queue, sent, inbox>>
fwdVars == <<fwd, fwdMsg>>
procVars == <<proc, procMsg, told, unsaved>>
vars == <<dbVars, envVars, reqVars, brokerVars, fwdVars, procVars>>

Init ==
  /\ amqp \in {"nil", "up"}                        \* main.go:92-98 has it commented out
  /\ hub = "serving" /\ restarts = 0
  /\ rows = {} /\ verified = {} /\ unsaved = {} /\ tasks = {}
  /\ req = [r \in Request |-> "idle"]
  /\ game = [r \in Request |-> FALSE]
  /\ answer = [r \in Request |-> "none"]
  /\ queue = [r \in Request |-> "none"]
  /\ sent = [r \in Request |-> <<>>]
  /\ inbox = [r \in Request |-> <<>>]
  /\ fwd = [r \in Request |-> "off"] /\ fwdMsg = [r \in Request |-> Nothing]
  /\ proc = [r \in Request |-> "off"] /\ procMsg = [r \in Request |-> Nothing]
  /\ told = [r \in Request |-> <<>>]
-----------------------------------------------------------------------------
(* CreateBot.  The error of the first read of the game is dropped.         *)
ReadGame(r) ==
  /\ req[r] = "idle"
  /\ req' = [req EXCEPT ![r] = "create"]
  /\ \E found \in {UploadOf[r] \in GameExists, FALSE} : game' = [game EXCEPT ![r] = found]
  /\ UNCHANGED <<answer, dbVars, envVars, brokerVars, fwdVars, procVars>>

Respond(r, a) ==
  /\ req' = [req EXCEPT ![r] = "answered"]
  /\ answer' = [answer EXCEPT ![r] = a]
  /\ UNCHANGED game

(* Bots.Create: the game is read again, any error being ErrNotExists; the  *)
(* insert meets unique_code; begin, insert or commit fail.                 *)
CreateNoGame(r) ==
  /\ req[r] = "create"
  /\ Respond(r, "not_exists")                      \* also when the database failed
  /\ UNCHANGED <<dbVars, envVars, brokerVars, fwdVars, procVars>>

Duplicate(r) == \E d \in rows : UploadOf[d] = UploadOf[r]

CreateTaken(r) ==
  /\ req[r] = "create"
  /\ UploadOf[r] \in GameExists /\ Duplicate(r)
  /\ Respond(r, "taken")
  /\ UNCHANGED <<dbVars, envVars, brokerVars, fwdVars, procVars>>

(* Variant: the error of tx.Commit is dropped. *)
CreateFails_Ignored(r) ==
  /\ req[r] = "create"
  /\ req' = [req EXCEPT ![r] = "declare"]
  /\ UNCHANGED <<game, answer, dbVars, envVars, brokerVars, fwdVars, procVars>>

CreateFails(r) ==
  /\ req[r] = "create"
  /\ Respond(r, "500")
  /\ UNCHANGED <<dbVars, envVars, brokerVars, fwdVars, procVars>>

CommitUnclear(r) ==                                \* committed, but Commit reports an error
  /\ req[r] = "create"
  /\ UploadOf[r] \in GameExists /\ ~Duplicate(r)
  /\ rows' = rows \cup {r}
  /\ Respond(r, "500")
  /\ UNCHANGED <<verified, envVars, brokerVars, fwdVars, procVars>>

(* Variant: the table has no unique_code. *)
CreateOK_Unchecked(r) ==
  /\ req[r] = "create"
  /\ UploadOf[r] \in GameExists
  /\ rows' = rows \cup {r}
  /\ req' = [req EXCEPT ![r] = "declare"]
  /\ UNCHANGED <<game, answer, verified, envVars, brokerVars, fwdVars, procVars>>

CreateOK(r) ==
  /\ req[r] = "create"
  /\ UploadOf[r] \in GameExists /\ ~Duplicate(r)
  /\ rows' = rows \cup {r}
  /\ req' = [req EXCEPT ![r] = "declare"]
  /\ UNCHANGED <<game, answer, verified, envVars, brokerVars, fwdVars, procVars>>
-----------------------------------------------------------------------------
(* sendForVerifyRPC; the panic of a nil game (bot_handle.go:78) or of a    *)
(* nil Channel is answered 500 by RecoverMiddleware, after the commit.     *)
Declare(r) ==
  /\ req[r] = "declare"
  /\ game[r] /\ amqp = "up"
  /\ req' = [req EXCEPT ![r] = "consume"]
  /\ queue' = [queue EXCEPT ![r] = "declared"]
  /\ UNCHANGED <<game, answer, tasks, sent, inbox, dbVars, envVars, fwdVars, procVars>>

Consume(r) ==
  /\ req[r] = "consume"
  /\ amqp = "up"
  /\ req' = [req EXCEPT ![r] = "publish"]
  /\ queue' = [queue EXCEPT ![r] = "consumed"]
  /\ UNCHANGED <<game, answer, tasks, sent, inbox, dbVars, envVars, fwdVars, procVars>>

Publish(r) ==                                      \* and the forwarding goroutine starts
  /\ req[r] = "publish"
  /\ amqp = "up"
  /\ req' = [req EXCEPT ![r] = "start"]
  /\ tasks' = tasks \cup {r}
  /\ fwd' = [fwd EXCEPT ![r] = "range"]
  /\ UNCHANGED <<game, answer, fwdMsg, queue, sent, inbox, dbVars, envVars, procVars>>

(* Variant: the error of sendForVerifyRPC is only logged. *)
RPCFails_Ignored(r) ==
  /\ req[r] \in {"declare", "consume", "publish"}
  /\ amqp # "up"
  /\ Respond(r, "200")
  /\ UNCHANGED <<dbVars, envVars, brokerVars, fwdVars, procVars>>

RPCFails(r) ==
  /\ req[r] \in {"declare", "consume", "publish"}
  /\ amqp # "up" \/ (req[r] = "declare" /\ ~game[r])
  /\ Respond(r, "500")
  /\ UNCHANGED <<dbVars, envVars, brokerVars, fwdVars, procVars>>

StartProcessor(r) ==                               \* go processTestingStatus(...)
  /\ req[r] = "start"
  /\ req' = [req EXCEPT ![r] = "respond"]
  /\ proc' = [proc EXCEPT ![r] = "range"]
  /\ UNCHANGED <<game, answer, procMsg, told, unsaved, dbVars, envVars, brokerVars, fwdVars>>

RespondOK(r) ==                                    \* both goroutines run by now
  /\ req[r] = "respond"
  /\ Respond(r, "200")
  /\ UNCHANGED <<dbVars, envVars, brokerVars, fwdVars, procVars>>
-----------------------------------------------------------------------------
(* The tester, or anybody who publishes to the queue, replies; a consumer  *)
(* without prefetch limit and with autoAck buffers what the queue holds.   *)
TesterReplies(r) ==
  /\ r \in tasks /\ queue[r] = "consumed" /\ Len(sent[r]) < MaxReplies[r]
  /\ \E m \in Replies :
       /\ sent' = [sent EXCEPT ![r] = Append(@, m)]
       /\ inbox' = [inbox EXCEPT ![r] = Append(@, m)]
  /\ UNCHANGED <<tasks, queue, dbVars, envVars, reqVars, fwdVars, procVars>>

(* The deliveries still on their way when a consumer ends are lost. *)
ConsumerEnds(S) ==
  /\ queue' = [r \in Request |-> IF r \in S THEN "deleted" ELSE queue[r]]
  /\ \E kept \in [S -> UNION {0..Len(inbox[r]) : r \in S}] :
       /\ \A r \in S : kept[r] <= Len(inbox[r])
       /\ inbox' = [r \in Request |-> IF r \in S THEN SubSeq(inbox[r], 1, kept[r])
                                               ELSE inbox[r]]

(* The connection or the channel is lost; nothing reconnects.  A queue     *)
(* that had a consumer is deleted with it (autoDelete).                    *)
ChannelLost ==
  /\ amqp = "up"
  /\ amqp' = "down"
  /\ ConsumerEnds({r \in Request : queue[r] = "consumed"})
  /\ UNCHANGED <<hub, restarts, tasks, sent, dbVars, reqVars, fwdVars, procVars>>

(* BotHub: HubHeldUp begins or ends, or HubBlocked begins. *)
HubMoves ==
  /\ \/ hub = "serving" /\ hub' \in {"waiting", "stuck"}
     \/ hub = "waiting" /\ hub' = "serving"
  /\ UNCHANGED <<amqp, restarts, dbVars, reqVars, brokerVars, fwdVars, procVars>>
-----------------------------------------------------------------------------
(* Variant: the correlation id of a reply is not compared. *)
FwdReceive_AnyCorrelation(r) ==
  /\ fwd[r] = "range"
  /\ inbox[r] # <<>>
  /\ inbox' = [inbox EXCEPT ![r] = Tail(@)]
  /\ LET m == IF Head(inbox[r]) = "foreign" THEN "win" ELSE Head(inbox[r]) IN
       \/ m = "garbage" /\ fwd' = [fwd EXCEPT ![r] = "closed"] /\ UNCHANGED fwdMsg
       \/ /\ m # "garbage"
          /\ fwd' = [fwd EXCEPT ![r] = "send"]
          /\ fwdMsg' = [fwdMsg EXCEPT ![r] = m]
  /\ UNCHANGED <<tasks, queue, sent, dbVars, envVars, reqVars, procVars>>

(* The forwarding goroutine: for resp := range in. *)
FwdReceive(r) ==
  /\ fwd[r] = "range"
  /\ inbox[r] # <<>>
  /\ inbox' = [inbox EXCEPT ![r] = Tail(@)]
  /\ LET m == Head(inbox[r]) IN
       \/ m = "foreign" /\ UNCHANGED fwdVars
       \/ m = "garbage" /\ fwd' = [fwd EXCEPT ![r] = "closed"] /\ UNCHANGED fwdMsg
       \/ /\ m \notin {"foreign", "garbage"}
          /\ fwd' = [fwd EXCEPT ![r] = "send"]
          /\ fwdMsg' = [fwdMsg EXCEPT ![r] = m]
  /\ UNCHANGED <<tasks, queue, sent, dbVars, envVars, reqVars, procVars>>

(* Variant: the goroutine returns without close(out). *)
FwdClose_NoClose(r) ==
  /\ fwd[r] = "range"
  /\ inbox[r] = <<>> /\ queue[r] = "deleted"
  /\ fwd' = [fwd EXCEPT ![r] = "off"]
  /\ UNCHANGED <<fwdMsg, dbVars, envVars, reqVars, brokerVars, procVars>>

FwdClose(r) ==                                     \* in is closed and drained
  /\ fwd[r] = "range"
  /\ inbox[r] = <<>> /\ queue[r] = "deleted"
  /\ fwd' = [fwd EXCEPT ![r] = "closed"]
  /\ UNCHANGED <<fwdMsg, dbVars, envVars, reqVars, brokerVars, procVars>>

(* Variant: a verdict does not end the subscription. *)
Forward_NoCancel(r) ==
  /\ fwd[r] = "send" /\ proc[r] = "range"
  /\ fwd' = [fwd EXCEPT ![r] = "range"]
  /\ procMsg' = [procMsg EXCEPT ![r] = fwdMsg[r]]
  /\ proc' = [proc EXCEPT ![r] = IF fwdMsg[r] \in Announced THEN "broadcast" ELSE "range"]
  /\ UNCHANGED <<fwdMsg, told, unsaved, dbVars, envVars, reqVars, brokerVars>>

(* Variant: select { case out <- testerResp: default: }. *)
Forward_DropIfBusy(r) ==
  /\ fwd[r] = "send"
  /\ fwd' = [fwd EXCEPT ![r] = IF fwdMsg[r] \in Closing THEN "cancel" ELSE "range"]
  /\ IF proc[r] = "range"
       THEN /\ procMsg' = [procMsg EXCEPT ![r] = fwdMsg[r]]
            /\ proc' = [proc EXCEPT ![r] = IF fwdMsg[r] \in Announced THEN "broadcast"
                                                                      ELSE "range"]
       ELSE UNCHANGED <<proc, procMsg>>
  /\ UNCHANGED <<fwdMsg, told, unsaved, dbVars, envVars, reqVars, brokerVars>>

(* Variant: the processor returns at a body that does not decode. *)
Forward_StopAtBadBody(r) ==
  /\ fwd[r] = "send" /\ proc[r] = "range"
  /\ fwd' = [fwd EXCEPT ![r] = IF fwdMsg[r] \in Closing THEN "cancel" ELSE "range"]
  /\ procMsg' = [procMsg EXCEPT ![r] = fwdMsg[r]]
  /\ proc' = [proc EXCEPT ![r] = IF fwdMsg[r] \in Announced THEN "broadcast" ELSE "done"]
  /\ UNCHANGED <<fwdMsg, told, unsaved, dbVars, envVars, reqVars, brokerVars>>

(* out <- testerResp meets range events; an unknown type or a body that    *)
(* does not decode is only logged.                                         *)
Forward(r) ==
  /\ fwd[r] = "send" /\ proc[r] = "range"
  /\ fwd' = [fwd EXCEPT ![r] = IF fwdMsg[r] \in Closing THEN "cancel" ELSE "range"]
  /\ procMsg' = [procMsg EXCEPT ![r] = fwdMsg[r]]
  /\ proc' = [proc EXCEPT ![r] = IF fwdMsg[r] \in Announced THEN "broadcast" ELSE "range"]
  /\ UNCHANGED <<fwdMsg, told, unsaved, dbVars, envVars, reqVars, brokerVars>>

Cancel(r) ==                                       \* an error is only logged
  /\ fwd[r] = "cancel"
  /\ fwd' = [fwd EXCEPT ![r] = "range"]
  /\ IF amqp = "up" /\ queue[r] = "consumed"
       THEN ConsumerEnds({r})
       ELSE UNCHANGED <<queue, inbox>>
  /\ UNCHANGED <<fwdMsg, tasks, sent, dbVars, envVars, reqVars, procVars>>
-----------------------------------------------------------------------------
(* processTestingStatus: broadcast <- message, then the verdict is saved.  *)
Broadcast(r) ==
  /\ proc[r] = "broadcast"
  /\ hub = "serving"
  /\ told' = [told EXCEPT ![r] = Append(@, procMsg[r])]
  /\ proc' = [proc EXCEPT ![r] = IF procMsg[r] \in Verdict THEN "save" ELSE "range"]
  /\ UNCHANGED <<procMsg, unsaved, dbVars, envVars, reqVars, brokerVars, fwdVars>>

IsWin(m) == m = "win"                              \* res.Winner == 1

(* Variant: the "error" case does not touch the row. *)
Save_ResultOnly(r) ==
  /\ proc[r] = "save"
  /\ proc' = [proc EXCEPT ![r] = "range"]
  /\ verified' = CASE procMsg[r] = "win" -> verified \cup {r}
                   [] procMsg[r] = "loss" -> verified \ {r}
                   [] OTHER -> verified
  /\ unsaved' = unsaved \ {r}
  /\ UNCHANGED <<procMsg, told, rows, envVars, reqVars, brokerVars, fwdVars>>

(* Variant: the verdict is saved before the listeners are told. *)
Save_First(r) ==
  /\ proc[r] = "broadcast" /\ procMsg[r] \in Verdict
  /\ proc' = proc
  /\ verified' = IF IsWin(procMsg[r]) THEN verified \cup {r} ELSE verified \ {r}
  /\ unsaved' = unsaved \ {r}
  /\ UNCHANGED <<procMsg, told, rows, envVars, reqVars, brokerVars, fwdVars>>

Save(r) ==                                         \* SetBotVerifiedByID
  /\ proc[r] = "save"
  /\ proc' = [proc EXCEPT ![r] = "range"]
  /\ verified' = IF IsWin(procMsg[r]) THEN verified \cup {r} ELSE verified \ {r}
  /\ unsaved' = unsaved \ {r}
  /\ UNCHANGED <<procMsg, told, rows, envVars, reqVars, brokerVars, fwdVars>>

(* Logged, and nothing retries it; an UPDATE whose reply was lost may have *)
(* been made.                                                              *)
SaveFails(r) ==
  /\ proc[r] = "save"
  /\ proc' = [proc EXCEPT ![r] = "range"]
  /\ verified' \in {verified, IF IsWin(procMsg[r]) THEN verified \cup {r} ELSE verified \ {r}}
  /\ unsaved' = unsaved \cup {r}
  /\ UNCHANGED <<procMsg, told, rows, envVars, reqVars, brokerVars, fwdVars>>

ProcEnd(r) ==                                      \* out is closed
  /\ proc[r] = "range" /\ fwd[r] = "closed"
  /\ proc' = [proc EXCEPT ![r] = "done"]
  /\ UNCHANGED <<procMsg, told, unsaved, dbVars, envVars, reqVars, brokerVars, fwdVars>>
-----------------------------------------------------------------------------
(* The process dies and starts again: the rows are all that is left. *)
Restart ==
  /\ restarts < MaxRestarts
  /\ restarts' = restarts + 1
  /\ amqp' = IF amqp = "nil" THEN "nil" ELSE "up"
  /\ hub' = "serving"
  /\ req' = [r \in Request |-> IF req[r] \in {"idle", "answered"} THEN req[r] ELSE "gone"]
  /\ queue' = [r \in Request |-> IF queue[r] = "consumed" THEN "deleted" ELSE queue[r]]
  /\ inbox' = [r \in Request |-> <<>>]
  /\ fwd' = [r \in Request |-> "off"]
  /\ proc' = [r \in Request |-> "off"]
  /\ UNCHANGED <<dbVars, game, answer, tasks, sent, fwdMsg, procMsg, told, unsaved>>

Handler(r) ==
  \/ CreateNoGame(r) \/ CreateTaken(r) \/ CreateFails(r) \/ CommitUnclear(r) \/ CreateOK(r)
  \/ Declare(r) \/ Consume(r) \/ Publish(r) \/ RPCFails(r)
  \/ StartProcessor(r) \/ RespondOK(r)
Forwarder(r) == FwdReceive(r) \/ FwdClose(r) \/ Cancel(r)
Processor(r) == Broadcast(r) \/ Save(r) \/ SaveFails(r) \/ ProcEnd(r)

Next ==
  \/ \E r \in Request :
       ReadGame(r) \/ Handler(r) \/ TesterReplies(r) \/ Forwarder(r) \/ Forward(r) \/ Processor(r)
  \/ ChannelLost \/ HubMoves \/ Restart

Spec == Init /\ [][Next]_vars
-----------------------------------------------------------------------------
(* The type of every variable; a reply queue's buffer never holds more     *)
(* than was published to it.                                               *)
TypeOK ==
  /\ amqp \in {"nil", "up", "down"} /\ hub \in {"serving", "waiting", "stuck"}
  /\ restarts \in 0..MaxRestarts
  /\ verified \subseteq rows /\ rows \subseteq Request /\ unsaved \subseteq rows
  /\ tasks \subseteq rows
  /\ req \in [Request -> {"idle", "create", "declare", "consume", "publish", "start", "respond",
                         "answered", "gone"}]
  /\ game \in [Request -> BOOLEAN]
  /\ answer \in [Request -> {"none", "200", "not_exists", "taken", "500"}]
  /\ queue \in [Request -> {"none", "declared", "consumed", "deleted"}]
  /\ sent \in [Request -> Seq(Reply)] /\ inbox \in [Request -> Seq(Reply)]
  /\ \A r \in Request : Len(inbox[r]) <= Len(sent[r]) /\ Len(sent[r]) <= MaxReplies[r]
  /\ fwd \in [Request -> {"off", "range", "send", "cancel", "closed"}]
  /\ proc \in [Request -> {"off", "range", "broadcast", "save", "done"}]
  /\ fwdMsg \in [Request -> Reply \cup {Nothing}] /\ procMsg \in [Request -> Reply \cup {Nothing}]
  /\ told \in [Request -> Seq(Announced)]

(* The client is told the truth about the row and the test: 200 means that *)
(* the bot is stored and its task was published for the tester, "taken"    *)
(* that another request stored it, a game that does not exist that nothing *)
(* was stored; after a 500 nobody is told anything of a test, and a bot    *)
(* that is stored but whose task was not published is answered nothing     *)
(* else (bot_handle.go:47-61,82-89).                                       *)
AnswersTruthful ==
  \A r \in Request :
    /\ answer[r] = "200" => r \in rows \cap tasks
    /\ answer[r] = "taken" => r \notin rows /\ Duplicate(r)
    /\ answer[r] = "not_exists" => r \notin rows
    /\ answer[r] = "500" => r \notin tasks /\ fwd[r] = "off" /\ told[r] = <<>>
    /\ r \in rows \ tasks => answer[r] \in {"none", "500"}

(* A forwarding goroutine that may still send on the unbuffered channel    *)
(* events always has its reader: processTestingStatus is about to be       *)
(* started, or runs and has not returned (bot_handle.go:76-88,             *)
(* bot_verify.go:105,135,143,159).                                         *)
ForwarderHeard ==
  \A r \in Request :
    fwd[r] \in {"range", "send", "cancel"} =>
      proc[r] # "done" /\ (proc[r] = "off" => req[r] = "start")

(* A bot is marked verified only if the tester said, in reply to this very *)
(* request, that it won; a win under another correlation id does not count *)
(* (bot_verify.go:95,163,174).                                             *)
VerifiedByTester ==
  \A r \in verified : \E i \in 1..Len(sent[r]) : sent[r][i] = "win"

(* The listeners are told every reply that means something once, in the    *)
(* order the tester gave them, without a gap (bot_verify.go:94-105,135):   *)
(* what was told lists all the announced ones among the first n published. *)
Announces(t, s, n) ==
  \E at \in [1..Len(t) -> 1..n] :
    /\ \A i, j \in 1..Len(t) : i < j => at[i] < at[j]
    /\ \A i \in 1..Len(t) : t[i] = s[at[i]]
    /\ \A k \in 1..n : s[k] \in Announced => \E i \in 1..Len(t) : at[i] = k
ToldInOrder ==
  \A r \in Request : \E n \in 0..Len(sent[r]) : Announces(told[r], sent[r], n)

(* The last verdict among the first n of s is a win. *)
SaysWin(s, n) == \E i \in 1..n : /\ IsWin(s[i])
                                /\ \A j \in (i + 1)..n : s[j] \notin Verdict

(* What is stored is the last verdict that was told; while that one is     *)
(* being saved it is the last but one, and a process that dies loses no    *)
(* more than that one, unless the UPDATE failed (bot_verify.go:167-178).   *)
AsTold(r, n) == r \in verified <=> SaysWin(told[r], n)
LastVerdictStored ==
  \A r \in Request \ unsaved :
    LET n == Len(told[r]) IN
      /\ proc[r] = "save" => AsTold(r, n - 1)
      /\ proc[r] = "off" => AsTold(r, n - 1) \/ AsTold(r, n)
      /\ proc[r] \notin {"save", "off"} => AsTold(r, n)

(* is_verified never changes to something the listeners have not been told *)
(* (bot_verify.go:167-174,191-198: the broadcast comes first).             *)
ToldBeforeStored ==
  [][\A r \in Request :
       (r \in verified) # (r \in verified') =>
         (r \in verified' <=> SaysWin(told[r], Len(told[r])))]_vars

(* How far a request has come, and what that says of its row, its queue    *)
(* and its goroutines.                                                     *)
StagesOK ==
  \A r \in Request :
    /\ answer[r] = "none" <=> req[r] # "answered"
    /\ req[r] \in {"idle", "create"} => r \notin rows
    /\ req[r] \in {"declare", "consume", "publish"} => r \in rows
    /\ r \in tasks => req[r] \in {"start", "respond", "gone"} \/ answer[r] = "200"
    /\ r \notin tasks =>
         /\ req[r] \notin {"start", "respond"} /\ answer[r] # "200"
         /\ fwd[r] = "off" /\ sent[r] = <<>> /\ told[r] = <<>> /\ r \notin verified
    /\ req[r] \in {"start", "respond"} => fwd[r] # "off"
    /\ req[r] = "start" => proc[r] = "off" /\ told[r] = <<>> /\ r \notin verified
    /\ fwd[r] = "off" => proc[r] = "off"
    /\ proc[r] = "off" => fwd[r] = "off" \/ req[r] = "start"
    /\ proc[r] = "done" => fwd[r] = "closed"
    /\ proc[r] = "broadcast" => procMsg[r] \in Announced
    /\ proc[r] = "save" =>
         procMsg[r] \in Verdict /\ told[r] # <<>> /\ procMsg[r] = told[r][Len(told[r])]

(* The forwarder has read n replies: the buffer goes on from there, to the *)
(* last one published while the queue has its consumer, and what was told  *)
(* and what the two goroutines hold are the announced ones of those n.     *)
InFlight(r) ==
  (IF proc[r] = "broadcast" THEN <<procMsg[r]>> ELSE <<>>) \o
  (IF fwd[r] = "send" /\ fwdMsg[r] \in Announced THEN <<fwdMsg[r]>> ELSE <<>>)
ReadSoFar(r, n) ==
  /\ n + Len(inbox[r]) <= Len(sent[r])
  /\ queue[r] = "consumed" => n + Len(inbox[r]) = Len(sent[r])
  /\ \A i \in 1..Len(inbox[r]) : inbox[r][i] = sent[r][n + i]
  /\ Announces(told[r] \o InFlight(r), sent[r], n)
PipelineOK == \A r \in Request : \E n \in 0..Len(sent[r]) : ReadSoFar(r, n)

IInv == /\ TypeOK /\ StagesOK /\ PipelineOK
        /\ AnswersTruthful /\ ForwarderHeard /\ VerifiedByTester /\ LastVerdictStored

(* What the author is promised (BotLedger): a verdict counts as told, and  *)
(* not yet recorded, while the goroutine is about to save it.              *)
toldBar == [r \in Request |-> IF proc[r] = "save" THEN procMsg[r] ELSE "none"]
Ledger == INSTANCE BotLedger WITH told <- toldBar
LedgerSpec == Ledger!Spec

(* bot_verify.go:49: the reply queue is deleted "after the procedure has   *)
(* run", that is once the forwarding goroutine has returned.               *)
QueueDeletedAfterwards ==
  \A r \in Request : fwd[r] = "closed" => queue[r] = "deleted"
=============================================================================
