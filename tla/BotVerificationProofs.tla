------------------------ MODULE BotVerificationProofs ------------------------
(***************************************************************************)
(* Uploads and their verification keep their invariants, tell the tester's *)
(* replies in order and implement BotLedger, for any requests, uploads,    *)
(* numbers of replies and numbers of restarts.                             *)
(***************************************************************************)
EXTENDS BotVerification, SequenceTheorems, TLAPS

(* The announced replies among the first n of s are those among the first  *)
(* n of any sequence that begins with the same n.                          *)
LEMMA AnnouncesSameStart ==
  ASSUME NEW t, NEW s, NEW s2, NEW n \in Nat, Announces(t, s, n),
         \A k \in 1..n : s2[k] = s[k]
  PROVE  Announces(t, s2, n)
  <1>1. PICK at \in [1..Len(t) -> 1..n] :
          /\ \A i, j \in 1..Len(t) : i < j => at[i] < at[j]
          /\ \A i \in 1..Len(t) : t[i] = s[at[i]]
          /\ \A k \in 1..n : s[k] \in Announced => \E i \in 1..Len(t) : at[i] = k
    BY DEF Announces
  <1>2. \A i \in 1..Len(t) : t[i] = s2[at[i]]
    BY <1>1
  <1>3. \A k \in 1..n : s2[k] \in Announced => \E i \in 1..Len(t) : at[i] = k
    BY <1>1
  <1>. QED  BY <1>1, <1>2, <1>3 DEF Announces

(* A reply that is not announced is passed over. *)
LEMMA AnnouncesSkip ==
  ASSUME NEW t, NEW s, NEW n \in Nat, Announces(t, s, n), s[n + 1] \notin Announced
  PROVE  Announces(t, s, n + 1)
  <1>1. PICK at \in [1..Len(t) -> 1..n] :
          /\ \A i, j \in 1..Len(t) : i < j => at[i] < at[j]
          /\ \A i \in 1..Len(t) : t[i] = s[at[i]]
          /\ \A k \in 1..n : s[k] \in Announced => \E i \in 1..Len(t) : at[i] = k
    BY DEF Announces
  <1>2. at \in [1..Len(t) -> 1..(n + 1)]
    BY <1>1
  <1>3. \A k \in 1..(n + 1) : s[k] \in Announced => k \in 1..n
    OBVIOUS
  <1>. QED  BY <1>1, <1>2, <1>3 DEF Announces

(* An announced reply is the next to be told. *)
LEMMA AnnouncesNext ==
  ASSUME NEW t \in Seq(Announced), NEW s, NEW n \in Nat, Announces(t, s, n),
         s[n + 1] \in Announced
  PROVE  Announces(Append(t, s[n + 1]), s, n + 1)
  <1>1. PICK at \in [1..Len(t) -> 1..n] :
          /\ \A i, j \in 1..Len(t) : i < j => at[i] < at[j]
          /\ \A i \in 1..Len(t) : t[i] = s[at[i]]
          /\ \A k \in 1..n : s[k] \in Announced => \E i \in 1..Len(t) : at[i] = k
    BY DEF Announces
  <1>. DEFINE u == Append(t, s[n + 1])
              at2 == [i \in 1..Len(u) |-> IF i <= Len(t) THEN at[i] ELSE n + 1]
  <1>2. /\ Len(t) \in Nat /\ Len(u) = Len(t) + 1 /\ u[Len(t) + 1] = s[n + 1]
        /\ \A i \in 1..Len(t) : u[i] = t[i]
    BY AppendProperties
  <1>3. \A i \in 1..Len(u) : i \in 1..Len(t) \/ i = Len(t) + 1
    BY <1>2
  <1>4. /\ \A i \in 1..Len(t) : i \in 1..Len(u) /\ at2[i] = at[i]
        /\ Len(t) + 1 \in 1..Len(u) /\ at2[Len(t) + 1] = n + 1
    BY <1>2
  <1>. HIDE DEF u
  <1>5. \A i \in 1..Len(t) : at[i] \in 1..n
    BY <1>1
  <1>6. at2 \in [1..Len(u) -> 1..(n + 1)]
    BY <1>2, <1>3, <1>5
  <1>. HIDE DEF at2
  <1>7. \A i, j \in 1..Len(u) : i < j => at2[i] < at2[j]
    <2>. SUFFICES ASSUME NEW i \in 1..Len(u), NEW j \in 1..Len(u), i < j
                  PROVE  at2[i] < at2[j]
      OBVIOUS
    <2>1. i \in 1..Len(t) /\ at2[i] = at[i] /\ at[i] \in 1..n
      BY <1>2, <1>4, <1>5
    <2>2. CASE j \in 1..Len(t)
      BY <2>1, <2>2, <1>1, <1>4
    <2>3. CASE j = Len(t) + 1
      BY <2>1, <2>3, <1>4
    <2>. QED  BY <1>3, <2>2, <2>3
  <1>8. \A i \in 1..Len(u) : u[i] = s[at2[i]]
    BY <1>1, <1>2, <1>3, <1>4
  <1>9. \A k \in 1..(n + 1) : s[k] \in Announced => \E i \in 1..Len(u) : at2[i] = k
    <2>. SUFFICES ASSUME NEW k \in 1..(n + 1), s[k] \in Announced
                  PROVE  \E i \in 1..Len(u) : at2[i] = k
      OBVIOUS
    <2>1. CASE k = n + 1
      BY <2>1, <1>4
    <2>2. CASE k \in 1..n
      BY <2>2, <1>1, <1>4
    <2>. QED  BY <2>1, <2>2
  <1>10. Announces(u, s, n + 1)
    BY <1>6, <1>7, <1>8, <1>9 DEF Announces
  <1>. QED  BY <1>10 DEF u

(* What is told first is the announced replies of a shorter start. *)
LEMMA AnnouncesFront ==
  ASSUME NEW t \in Seq(Announced), NEW u \in Seq(Announced), NEW s, NEW n \in Nat,
         Announces(t \o u, s, n)
  PROVE  \E m \in 0..n : Announces(t, s, m)
  <1>. DEFINE w == t \o u
  <1>1. PICK at \in [1..Len(w) -> 1..n] :
          /\ \A i, j \in 1..Len(w) : i < j => at[i] < at[j]
          /\ \A i \in 1..Len(w) : w[i] = s[at[i]]
          /\ \A k \in 1..n : s[k] \in Announced => \E i \in 1..Len(w) : at[i] = k
    BY DEF Announces
  <1>2. /\ Len(t) \in Nat /\ Len(u) \in Nat /\ Len(w) = Len(t) + Len(u)
        /\ \A i \in 1..Len(t) : w[i] = t[i]
    BY ConcatProperties, LenProperties
  <1>. HIDE DEF w
  <1>3. CASE Len(t) = 0
    <2>. DEFINE none == [i \in 1..Len(t) |-> i]
    <2>1. none \in [1..Len(t) -> 1..0] /\ 1..Len(t) = {} /\ 1..0 = {}
      BY <1>3
    <2>2. Announces(t, s, 0)
      BY <2>1 DEF Announces
    <2>. QED  BY <2>2
  <1>4. CASE Len(t) # 0
    <2>. DEFINE m == at[Len(t)]
                at2 == [i \in 1..Len(t) |-> at[i]]
    <2>1. /\ Len(t) \in 1..Len(t) /\ m \in 1..n
          /\ \A i \in 1..Len(t) : i \in 1..Len(w) /\ at2[i] = at[i] /\ at[i] \in 1..n
      BY <1>1, <1>2, <1>4
    <2>2. \A i \in 1..Len(t) : at[i] \in 1..m
      BY <1>1, <1>2, <2>1
    <2>3. at2 \in [1..Len(t) -> 1..m]
      BY <2>2
    <2>4. \A k \in 1..m : s[k] \in Announced => \E i \in 1..Len(t) : at[i] = k
      <3>. SUFFICES ASSUME NEW k \in 1..m, s[k] \in Announced
                    PROVE  \E i \in 1..Len(t) : at[i] = k
        OBVIOUS
      <3>1. PICK i \in 1..Len(w) : at[i] = k
        BY <1>1, <2>1
      <3>2. ~(Len(t) < i)
        BY <1>1, <2>1, <3>1
      <3>. QED  BY <1>2, <3>1, <3>2
    <2>. HIDE DEF m, at2
    <2>5. /\ \A i, j \in 1..Len(t) : i < j => at2[i] < at2[j]
          /\ \A i \in 1..Len(t) : t[i] = s[at2[i]]
          /\ \A k \in 1..m : s[k] \in Announced => \E i \in 1..Len(t) : at2[i] = k
      BY <1>1, <1>2, <2>1, <2>4
    <2>6. Announces(t, s, m)
      BY <2>3, <2>5 DEF Announces
    <2>. QED  BY <2>1, <2>6
  <1>. QED  BY <1>3, <1>4

(* Whatever is told was published. *)
LEMMA AnnouncedWasSent ==
  ASSUME NEW t, NEW s, NEW n \in Nat, Announces(t, s, n), NEW i \in 1..Len(t)
  PROVE  \E k \in 1..n : s[k] = t[i]
  BY DEF Announces
-----------------------------------------------------------------------------
LEMMA EmptyAnnounces == ASSUME NEW s PROVE Announces(<<>>, s, 0)
  <1>. DEFINE none == [i \in 1..0 |-> i]
  <1>1. none \in [1..0 -> 1..0] /\ 1..0 = {} /\ Len(<<>>) = 0
    OBVIOUS
  <1>. QED  BY <1>1 DEF Announces

LEMMA InitIInv == Init => IInv
<1>. SUFFICES ASSUME Init PROVE IInv
  OBVIOUS
<1>. USE VerificationAssumption
<1>1. TypeOK
  BY DEF Init, TypeOK, Reply, Closing, Verdict, Announced
<1>2. StagesOK /\ AnswersTruthful /\ ForwarderHeard /\ VerifiedByTester
  BY DEF Init, StagesOK, AnswersTruthful, ForwarderHeard, VerifiedByTester
<1>3. LastVerdictStored
  <2>1. ASSUME NEW r \in Request PROVE AsTold(r, Len(told[r]))
    <3>1. r \notin verified /\ told[r] = <<>> /\ 1..Len(told[r]) = {}
      BY DEF Init
    <3>. QED  BY <3>1 DEF AsTold, SaysWin
  <2>2. \A r \in Request : proc[r] = "off"
    BY DEF Init
  <2>. QED  BY <2>1, <2>2 DEF LastVerdictStored
<1>4. PipelineOK
  <2>. SUFFICES ASSUME NEW r \in Request PROVE ReadSoFar(r, 0) /\ 0 \in 0..Len(sent[r])
    BY DEF PipelineOK
  <2>1. told[r] = <<>> /\ InFlight(r) = <<>> /\ sent[r] = <<>> /\ inbox[r] = <<>>
    BY DEF Init, InFlight
  <2>2. Announces(told[r] \o InFlight(r), sent[r], 0)
    BY <2>1, EmptyAnnounces
  <2>. QED  BY <2>1, <2>2 DEF Init, ReadSoFar
<1>. QED  BY <1>1, <1>2, <1>3, <1>4 DEF IInv

(* What the end of a consumer leaves of the buffers: a start of each. *)
LEMMA ConsumerEndsBuffers ==
  ASSUME TypeOK, NEW S \in SUBSET Request, ConsumerEnds(S)
  PROVE  /\ queue' = [r \in Request |-> IF r \in S THEN "deleted" ELSE queue[r]]
         /\ inbox' \in [Request -> Seq(Reply)]
         /\ \A r \in Request : /\ Len(inbox'[r]) <= Len(inbox[r])
                               /\ \A i \in 1..Len(inbox'[r]) : inbox'[r][i] = inbox[r][i]
         /\ \A r \in Request \ S : inbox'[r] = inbox[r]
  <1>1. PICK kept \in [S -> UNION {0..Len(inbox[r]) : r \in S}] :
          /\ \A r \in S : kept[r] <= Len(inbox[r])
          /\ inbox' = [r \in Request |-> IF r \in S THEN SubSeq(inbox[r], 1, kept[r])
                                                  ELSE inbox[r]]
    BY DEF ConsumerEnds
  <1>0. inbox \in [Request -> Seq(Reply)]
    BY DEF TypeOK
  <1>2. \A r \in Request : inbox[r] \in Seq(Reply) /\ Len(inbox[r]) \in Nat
    BY <1>0, LenProperties
  <1>3. ASSUME NEW r \in S
        PROVE  /\ inbox'[r] \in Seq(Reply) /\ Len(inbox'[r]) <= Len(inbox[r])
               /\ \A i \in 1..Len(inbox'[r]) : inbox'[r][i] = inbox[r][i]
    <2>1. PICK d \in S : kept[r] \in 0..Len(inbox[d])
      BY <1>1
    <2>2. kept[r] \in Nat /\ kept[r] <= Len(inbox[r])
      BY <1>1, <1>2, <2>1
    <2>3. \A i \in 1..kept[r] : inbox[r][i] \in Reply
      BY <1>2, <2>2
    <2>4. inbox'[r] = SubSeq(inbox[r], 1, kept[r])
      BY <1>1
    <2>5. /\ inbox'[r] \in Seq(Reply) /\ Len(inbox'[r]) = kept[r]
          /\ \A i \in 1..kept[r] : inbox'[r][i] = inbox[r][i]
      BY <2>2, <2>3, <2>4, SubSeqProperties
    <2>. QED  BY <1>2, <2>2, <2>5
  <1>4. \A r \in Request \ S : inbox'[r] = inbox[r]
    BY <1>1
  <1>5. inbox' \in [Request -> Seq(Reply)]
    BY <1>1, <1>2, <1>3
  <1>6. ASSUME NEW r \in Request
        PROVE  /\ Len(inbox'[r]) <= Len(inbox[r])
               /\ \A i \in 1..Len(inbox'[r]) : inbox'[r][i] = inbox[r][i]
    BY <1>2, <1>3, <1>4
  <1>7. queue' = [r \in Request |-> IF r \in S THEN "deleted" ELSE queue[r]]
    BY DEF ConsumerEnds
  <1>. QED  BY <1>4, <1>5, <1>6, <1>7

(* The steps of CreateBot up to its answer. *)
CreateStep(r) ==
  \/ ReadGame(r) \/ CreateNoGame(r) \/ CreateTaken(r) \/ CreateFails(r)
  \/ CommitUnclear(r) \/ CreateOK(r)
  \/ Declare(r) \/ Consume(r) \/ RPCFails(r) \/ Publish(r)
  \/ StartProcessor(r) \/ RespondOK(r)

LEMMA NextTypeOK == IInv /\ [Next]_vars => TypeOK'
<1>. SUFFICES ASSUME IInv, [Next]_vars PROVE TypeOK'
  OBVIOUS
<1>. USE VerificationAssumption
<1>0. TypeOK
  BY DEF IInv
<1>1. CASE UNCHANGED vars
  BY <1>0, <1>1 DEF vars, dbVars, envVars, reqVars, brokerVars, fwdVars, procVars, TypeOK
<1>2. ASSUME NEW r \in Request, CreateStep(r) PROVE TypeOK'
  <2>1. ASSUME ReadGame(r) PROVE TypeOK'
    <3>1. PICK found \in {UploadOf[r] \in GameExists, FALSE} :
            game' = [game EXCEPT ![r] = found]
      BY <2>1 DEF ReadGame
    <3>2. found \in BOOLEAN
      <4>1. (UploadOf[r] \in GameExists) \in BOOLEAN
        OBVIOUS
      <4>2. \A g \in BOOLEAN : \A f \in {g, FALSE} : f \in BOOLEAN
        OBVIOUS
      <4>. QED  BY <3>1, <4>1, <4>2, Zenon
    <3>3. game' \in [Request -> BOOLEAN]
      BY <1>0, <3>1, <3>2 DEF TypeOK
    <3>. QED  BY <1>0, <2>1, <3>3 DEF ReadGame, TypeOK,
              dbVars, envVars, brokerVars, fwdVars, procVars
  <2>2. ASSUME CreateNoGame(r) \/ CreateTaken(r) \/ CreateFails(r) \/ RPCFails(r) \/ RespondOK(r)
        PROVE  TypeOK'
    BY <1>0, <2>2 DEF CreateNoGame, CreateTaken, CreateFails, RPCFails, RespondOK, Respond, TypeOK,
       dbVars, envVars, brokerVars, fwdVars, procVars
  <2>3. ASSUME CommitUnclear(r) \/ CreateOK(r) PROVE TypeOK'
    BY <1>0, <2>3 DEF CommitUnclear, CreateOK, Respond, TypeOK,
       envVars, brokerVars, fwdVars, procVars
  <2>4. ASSUME Declare(r) \/ Consume(r) PROVE TypeOK'
    BY <1>0, <2>4 DEF Declare, Consume, TypeOK, dbVars, envVars, fwdVars, procVars
  <2>5. ASSUME Publish(r) PROVE TypeOK'
    <3>1. r \in rows
      BY <2>5 DEF IInv, StagesOK, Publish
    <3>. QED  BY <1>0, <2>5, <3>1 DEF Publish, TypeOK, dbVars, envVars, procVars
  <2>6. ASSUME StartProcessor(r) PROVE TypeOK'
    BY <1>0, <2>6 DEF StartProcessor, TypeOK, dbVars, envVars, brokerVars, fwdVars
  <2>. QED  BY <1>2, <2>1, <2>2, <2>3, <2>4, <2>5, <2>6 DEF CreateStep
<1>3. ASSUME NEW r \in Request, TesterReplies(r) PROVE TypeOK'
  <2>1. PICK m \in Reply : /\ sent' = [sent EXCEPT ![r] = Append(@, m)]
                           /\ inbox' = [inbox EXCEPT ![r] = Append(@, m)]
    BY <1>3 DEF TesterReplies
  <2>2. sent \in [Request -> Seq(Reply)] /\ inbox \in [Request -> Seq(Reply)]
    BY <1>0 DEF TypeOK
  <2>3. /\ Append(sent[r], m) \in Seq(Reply) /\ Len(Append(sent[r], m)) = Len(sent[r]) + 1
        /\ Append(inbox[r], m) \in Seq(Reply) /\ Len(Append(inbox[r], m)) = Len(inbox[r]) + 1
        /\ Len(sent[r]) \in Nat /\ Len(inbox[r]) \in Nat
    BY <2>2, AppendProperties, LenProperties
  <2>4. sent' \in [Request -> Seq(Reply)] /\ inbox' \in [Request -> Seq(Reply)]
    BY <2>1, <2>2, <2>3
  <2>5. \A d \in Request : Len(inbox'[d]) <= Len(sent'[d]) /\ Len(sent'[d]) <= MaxReplies[d]
    BY <1>0, <1>3, <2>1, <2>2, <2>3 DEF TesterReplies, TypeOK
  <2>. QED  BY <1>0, <1>3, <2>4, <2>5 DEF TesterReplies, TypeOK,
            dbVars, envVars, reqVars, fwdVars, procVars
<1>4. ASSUME NEW S \in SUBSET Request, ConsumerEnds(S),
             UNCHANGED <<tasks, sent, dbVars, reqVars, procVars>>,
             UNCHANGED <<hub, restarts, fwdMsg>>, amqp' \in {"nil", "up", "down"},
             fwd' \in [Request -> {"off", "range", "send", "cancel", "closed"}]
      PROVE  TypeOK'
  <2>1. /\ inbox' \in [Request -> Seq(Reply)]
        /\ \A r \in Request : Len(inbox'[r]) <= Len(inbox[r])
        /\ queue' \in [Request -> {"none", "declared", "consumed", "deleted"}]
    BY <1>0, <1>4, ConsumerEndsBuffers DEF TypeOK
  <2>2. \A r \in Request : Len(inbox'[r]) \in Nat /\ Len(inbox[r]) \in Nat /\ Len(sent[r]) \in Nat
    BY <1>0, <2>1, LenProperties DEF TypeOK
  <2>3. \A r \in Request : Len(inbox'[r]) <= Len(sent'[r]) /\ Len(sent'[r]) <= MaxReplies[r]
    BY <1>0, <1>4, <2>1, <2>2 DEF TypeOK
  <2>. QED  BY <1>0, <1>4, <2>1, <2>3 DEF TypeOK, dbVars, reqVars, procVars
<1>5. CASE ChannelLost
  BY <1>0, <1>4, <1>5 DEF ChannelLost, TypeOK, fwdVars
<1>6. ASSUME NEW r \in Request, Cancel(r) PROVE TypeOK'
  <2>1. fwd' \in [Request -> {"off", "range", "send", "cancel", "closed"}]
    BY <1>0, <1>6 DEF Cancel, TypeOK
  <2>2. CASE ConsumerEnds({r})
    <3>1. /\ UNCHANGED <<tasks, sent, dbVars, reqVars, procVars>>
          /\ UNCHANGED <<hub, restarts, fwdMsg>> /\ amqp' \in {"nil", "up", "down"}
      BY <1>0, <1>6 DEF Cancel, TypeOK, envVars
    <3>2. {r} \in SUBSET Request
      OBVIOUS
    <3>. QED  BY <1>4, <2>1, <2>2, <3>1, <3>2
  <2>3. CASE UNCHANGED <<queue, inbox>>
    BY <1>0, <1>6, <2>1, <2>3 DEF Cancel, TypeOK, dbVars, envVars, reqVars, procVars
  <2>. QED  BY <1>6, <2>2, <2>3 DEF Cancel
<1>7. CASE HubMoves
  BY <1>0, <1>7 DEF HubMoves, TypeOK, dbVars, reqVars, brokerVars, fwdVars, procVars
<1>8. ASSUME NEW r \in Request, FwdReceive(r) PROVE TypeOK'
  <2>1. inbox \in [Request -> Seq(Reply)] /\ sent \in [Request -> Seq(Reply)]
    BY <1>0 DEF TypeOK
  <2>2. /\ Head(inbox[r]) \in Reply /\ Tail(inbox[r]) \in Seq(Reply)
        /\ Len(Tail(inbox[r])) = Len(inbox[r]) - 1 /\ Len(inbox[r]) \in Nat /\ Len(sent[r]) \in Nat
    BY <1>8, <2>1, HeadTailProperties, LenProperties DEF FwdReceive
  <2>3. inbox' = [inbox EXCEPT ![r] = Tail(@)] /\ inbox' \in [Request -> Seq(Reply)]
    BY <1>8, <2>1, <2>2 DEF FwdReceive
  <2>4. \A d \in Request : Len(inbox'[d]) <= Len(sent[d])
    BY <1>0, <2>1, <2>2, <2>3 DEF TypeOK
  <2>5. /\ fwd' \in [Request -> {"off", "range", "send", "cancel", "closed"}]
        /\ fwdMsg' \in [Request -> Reply \cup {Nothing}]
    BY <1>0, <1>8, <2>2 DEF FwdReceive, TypeOK, fwdVars
  <2>. QED  BY <1>0, <1>8, <2>3, <2>4, <2>5 DEF FwdReceive, TypeOK, dbVars, envVars, reqVars, procVars
<1>9. ASSUME NEW r \in Request, FwdClose(r) \/ Forward(r) PROVE TypeOK'
  <2>1. CASE FwdClose(r)
    BY <1>0, <2>1 DEF FwdClose, TypeOK, dbVars, envVars, reqVars, brokerVars, procVars
  <2>2. CASE Forward(r)
    BY <1>0, <2>2 DEF Forward, TypeOK, dbVars, envVars, reqVars, brokerVars
  <2>. QED  BY <1>9, <2>1, <2>2
<1>10. ASSUME NEW r \in Request, Broadcast(r) PROVE TypeOK'
  <2>1. procMsg[r] \in Announced /\ told \in [Request -> Seq(Announced)]
    BY <1>0, <1>10 DEF Broadcast, IInv, StagesOK, TypeOK
  <2>2. told' \in [Request -> Seq(Announced)]
    BY <1>10, <2>1, AppendProperties DEF Broadcast
  <2>. QED  BY <1>0, <1>10, <2>2 DEF Broadcast, TypeOK, dbVars, envVars, reqVars, brokerVars, fwdVars
<1>11. ASSUME NEW r \in Request, Save(r) \/ SaveFails(r) \/ ProcEnd(r) PROVE TypeOK'
  <2>1. proc[r] = "save" => r \in rows
    BY <1>0 DEF IInv, StagesOK, TypeOK
  <2>. QED  BY <1>0, <1>11, <2>1 DEF Save, SaveFails, ProcEnd, TypeOK,
            dbVars, envVars, reqVars, brokerVars, fwdVars
<1>12. CASE Restart
  <2>1. \A r \in Request : inbox'[r] = <<>> /\ Len(inbox'[r]) <= Len(sent[r])
    BY <1>0, <1>12, LenProperties DEF Restart, TypeOK
  <2>2. inbox' \in [Request -> Seq(Reply)]
    BY <1>12 DEF Restart
  <2>. QED  BY <1>0, <1>12, <2>1, <2>2 DEF Restart, TypeOK, dbVars
<1>. QED
  BY <1>1, <1>2, <1>3, <1>5, <1>6, <1>7, <1>8, <1>9, <1>10, <1>11, <1>12
     DEF Next, Handler, Forwarder, Processor, CreateStep

LEMMA NextStagesOK == IInv /\ [Next]_vars => StagesOK'
<1>. SUFFICES ASSUME IInv, [Next]_vars PROVE StagesOK'
  OBVIOUS
<1>. USE VerificationAssumption
<1>0. TypeOK /\ StagesOK /\ AnswersTruthful
  BY DEF IInv
<1>1. CASE UNCHANGED vars
  BY <1>0, <1>1 DEF vars, dbVars, envVars, reqVars, brokerVars, fwdVars, procVars, StagesOK
<1>2. ASSUME NEW r \in Request, CreateStep(r) PROVE StagesOK'
  BY <1>0, <1>2 DEF CreateStep, ReadGame, CreateNoGame, CreateTaken, CreateFails, CommitUnclear,
     CreateOK, Declare, Consume, RPCFails, Publish, StartProcessor, RespondOK, Respond,
     TypeOK, StagesOK,
     dbVars, envVars, reqVars, brokerVars, fwdVars, procVars
<1>3. ASSUME NEW r \in Request, TesterReplies(r) PROVE StagesOK'
  BY <1>0, <1>3 DEF TesterReplies, TypeOK, StagesOK,
     dbVars, envVars, reqVars, fwdVars, procVars
<1>4. CASE ChannelLost
  BY <1>0, <1>4 DEF ChannelLost, StagesOK, dbVars, reqVars, fwdVars, procVars
<1>5. CASE HubMoves
  BY <1>0, <1>5 DEF HubMoves, StagesOK, dbVars, reqVars, brokerVars, fwdVars, procVars
<1>6. ASSUME NEW r \in Request, Forwarder(r) PROVE StagesOK'
  BY <1>0, <1>6 DEF Forwarder, FwdReceive, FwdClose, Cancel, StagesOK, TypeOK,
     dbVars, envVars, reqVars, brokerVars, fwdVars, procVars
<1>7. ASSUME NEW r \in Request, Forward(r) PROVE StagesOK'
  BY <1>0, <1>7 DEF Forward, StagesOK, TypeOK, Announced,
     dbVars, envVars, reqVars, brokerVars
<1>8. ASSUME NEW r \in Request, Broadcast(r) PROVE StagesOK'
  <2>1. procMsg[r] \in Announced /\ told \in [Request -> Seq(Announced)]
    BY <1>0, <1>8 DEF Broadcast, StagesOK, TypeOK
  <2>2. /\ told'[r] = Append(told[r], procMsg[r]) /\ told'[r] # <<>>
        /\ told'[r][Len(told'[r])] = procMsg[r]
        /\ \A d \in Request \ {r} : told'[d] = told[d]
    BY <1>8, <2>1, AppendProperties DEF Broadcast
  <2>3. r \in tasks /\ req[r] # "start"
    BY <1>0, <1>8 DEF Broadcast, StagesOK
  <2>. QED  BY <1>0, <1>8, <2>1, <2>2, <2>3 DEF Broadcast, StagesOK, TypeOK,
            dbVars, envVars, reqVars, brokerVars, fwdVars
<1>9. ASSUME NEW r \in Request, Save(r) \/ SaveFails(r) \/ ProcEnd(r) PROVE StagesOK'
  BY <1>0, <1>9 DEF Save, SaveFails, ProcEnd, StagesOK, TypeOK,
     dbVars, envVars, reqVars, brokerVars, fwdVars
<1>10. CASE Restart
  BY <1>0, <1>10 DEF Restart, StagesOK, TypeOK, dbVars
<1>. QED
  BY <1>1, <1>2, <1>3, <1>4, <1>5, <1>6, <1>7, <1>8, <1>9, <1>10
     DEF Next, Handler, Processor, CreateStep

LEMMA NextAnswersTruthful == IInv /\ [Next]_vars => AnswersTruthful'
<1>. SUFFICES ASSUME IInv, [Next]_vars PROVE AnswersTruthful'
  OBVIOUS
<1>0. TypeOK /\ StagesOK /\ AnswersTruthful
  BY DEF IInv
<1>1. ASSUME UNCHANGED <<rows, tasks, answer>>,
             \A r \in Request \ tasks : fwd'[r] = fwd[r] /\ told'[r] = told[r]
      PROVE  AnswersTruthful'
  BY <1>0, <1>1 DEF AnswersTruthful, Duplicate
<1>2. ASSUME NEW r \in Request, CreateStep(r) PROVE AnswersTruthful'
  BY <1>0, <1>2 DEF CreateStep, ReadGame, CreateNoGame, CreateTaken, CreateFails, CommitUnclear,
     CreateOK, Declare, Consume, RPCFails, Publish, StartProcessor, RespondOK, Respond,
     TypeOK, StagesOK, AnswersTruthful, Duplicate,
     dbVars, envVars, reqVars, brokerVars, fwdVars, procVars
(* Only what was given to the tester is ever in the pipeline. *)
<1>3. ASSUME NEW r \in Request,
             TesterReplies(r) \/ Forwarder(r) \/ Forward(r) \/ Processor(r)
      PROVE  /\ UNCHANGED <<rows, tasks, answer>>
             /\ \A d \in Request \ tasks : fwd'[d] = fwd[d] /\ told'[d] = told[d]
  <2>1. Forwarder(r) \/ Forward(r) \/ Processor(r) => r \in tasks
    BY <1>0 DEF Forwarder, FwdReceive, FwdClose, Cancel, Forward, Processor, Broadcast,
       Save, SaveFails, ProcEnd, StagesOK
  <2>. QED  BY <1>0, <1>3, <2>1 DEF TesterReplies, Forwarder, FwdReceive, FwdClose, Cancel, Forward,
            Processor, Broadcast, Save, SaveFails, ProcEnd, TypeOK,
            dbVars, reqVars, brokerVars, fwdVars, procVars
<1>4. CASE Restart
  <2>1. \A r \in Request \ tasks : fwd[r] = "off" /\ fwd'[r] = "off"
    BY <1>0, <1>4 DEF Restart, StagesOK
  <2>. QED  BY <1>1, <1>4, <2>1 DEF Restart, dbVars
<1>5. ChannelLost \/ HubMoves \/ UNCHANGED vars => UNCHANGED <<rows, tasks, answer, fwd, told>>
  BY DEF ChannelLost, HubMoves, vars, dbVars, reqVars, brokerVars, fwdVars, procVars
<1>. QED
  BY <1>1, <1>2, <1>3, <1>4, <1>5 DEF Next, Handler, CreateStep
-----------------------------------------------------------------------------
LEMMA StreamAssociative ==
  \A x, y, z \in Seq(Announced) : (x \o y) \o z = x \o (y \o z)
  BY ConcatAssociative

LEMMA StreamTyped ==
  ASSUME TypeOK, StagesOK, NEW r \in Request
  PROVE  told[r] \in Seq(Announced) /\ InFlight(r) \in Seq(Announced)
  <1>1. told[r] \in Seq(Announced)
    BY DEF TypeOK
  <1>2. proc[r] = "broadcast" => <<procMsg[r]>> \in Seq(Announced)
    BY DEF StagesOK
  <1>3. fwdMsg[r] \in Announced => <<fwdMsg[r]>> \in Seq(Announced)
    OBVIOUS
  <1>4. <<>> \in Seq(Announced)
    OBVIOUS
  <1>. QED  BY <1>1, <1>2, <1>3, <1>4, ConcatProperties DEF InFlight

(* Nothing of a request moves along the pipeline. *)
Quiet(r) ==
  /\ sent'[r] = sent[r] /\ inbox'[r] = inbox[r]
  /\ queue'[r] = "consumed" => queue[r] = "consumed"
  /\ told'[r] \o InFlight(r)' = told[r] \o InFlight(r)

LEMMA PipelineStep ==
  ASSUME PipelineOK,
         \A r \in Request : Quiet(r) \/ \E n \in 0..Len(sent'[r]) : ReadSoFar(r, n)'
  PROVE  PipelineOK'
  <1>. SUFFICES ASSUME NEW r \in Request PROVE \E n \in 0..Len(sent'[r]) : ReadSoFar(r, n)'
    BY DEF PipelineOK
  <1>1. CASE Quiet(r)
    <2>1. PICK n \in 0..Len(sent[r]) : ReadSoFar(r, n)
      BY DEF PipelineOK
    <2>2. ReadSoFar(r, n)'
      BY <1>1, <2>1 DEF Quiet, ReadSoFar
    <2>. QED  BY <1>1, <2>2 DEF Quiet
  <1>. QED  BY <1>1

(* The steps that move a reply from one hand to the next. *)
LEMMA ForwardQuiet ==
  ASSUME TypeOK, StagesOK, NEW r \in Request, Forward(r) PROVE \A d \in Request : Quiet(d)
<1>1. /\ fwd[r] = "send" /\ proc[r] = "range" /\ fwd'[r] # "send"
      /\ procMsg'[r] = fwdMsg[r] /\ UNCHANGED <<fwdMsg, told, sent, inbox, queue>>
      /\ proc'[r] = IF fwdMsg[r] \in Announced THEN "broadcast" ELSE "range"
  BY DEF Forward, TypeOK, brokerVars
<1>2. \A d \in Request \ {r} : proc'[d] = proc[d] /\ procMsg'[d] = procMsg[d] /\ fwd'[d] = fwd[d]
  BY DEF Forward, TypeOK
<1>3. InFlight(r)' = InFlight(r)
  <2>1. CASE fwdMsg[r] \in Announced
    <3>1. InFlight(r) = <<>> \o <<fwdMsg[r]>> /\ InFlight(r)' = <<fwdMsg[r]>> \o <<>>
      BY <1>1, <2>1 DEF InFlight
    <3>2. <<fwdMsg[r]>> \in Seq(Announced)
      BY <2>1
    <3>. QED  BY <3>1, <3>2, ConcatEmptySeq
  <2>2. CASE fwdMsg[r] \notin Announced
    BY <1>1, <2>2 DEF InFlight
  <2>. QED  BY <2>1, <2>2
<1>4. \A d \in Request \ {r} : InFlight(d)' = InFlight(d)
  BY <1>1, <1>2 DEF InFlight
<1>. QED  BY <1>1, <1>3, <1>4 DEF Quiet

LEMMA BroadcastQuiet ==
  ASSUME TypeOK, StagesOK, NEW r \in Request, Broadcast(r) PROVE \A d \in Request : Quiet(d)
<1>. DEFINE F == IF fwd[r] = "send" /\ fwdMsg[r] \in Announced THEN <<fwdMsg[r]>> ELSE <<>>
            p == procMsg[r]
            q == <<p>>
<1>1. /\ proc[r] = "broadcast" /\ proc'[r] # "broadcast" /\ told'[r] = Append(told[r], p)
      /\ UNCHANGED <<procMsg, fwd, fwdMsg, sent, inbox, queue>> /\ p \in Announced
  BY DEF Broadcast, TypeOK, StagesOK, brokerVars, fwdVars
<1>2. \A d \in Request \ {r} : proc'[d] = proc[d] /\ told'[d] = told[d]
  BY DEF Broadcast, TypeOK
<1>3. told'[r] \o InFlight(r)' = told[r] \o InFlight(r)
  <2>1. InFlight(r) = <<p>> \o F /\ InFlight(r)' = <<>> \o F
    BY <1>1 DEF InFlight
  <2>2. told[r] \in Seq(Announced) /\ <<p>> \in Seq(Announced) /\ F \in Seq(Announced)
    BY <1>1, StreamTyped
  <2>3. InFlight(r)' = F
    BY <2>1, <2>2, ConcatEmptySeq
  <2>4. told'[r] = told[r] \o <<p>>
    BY <1>1, <2>2, AppendIsConcat
  <2>5. InFlight(r) = q \o F /\ q \in Seq(Announced) /\ told'[r] = told[r] \o q
    BY <2>1, <2>2, <2>4
  <2>. HIDE DEF F, q
  <2>6. (told[r] \o q) \o F = told[r] \o (q \o F)
    BY <2>2, <2>5, StreamAssociative
  <2>. QED  BY <2>3, <2>5, <2>6
<1>4. \A d \in Request \ {r} : InFlight(d)' = InFlight(d)
  BY <1>1, <1>2 DEF InFlight
<1>. QED  BY <1>1, <1>2, <1>3, <1>4 DEF Quiet

(* The forwarder takes the next reply off the buffer. *)
LEMMA FwdReceivePipeline ==
  ASSUME IInv, NEW r \in Request, FwdReceive(r) PROVE PipelineOK'
<1>0. TypeOK /\ StagesOK /\ PipelineOK
  BY DEF IInv
<1>. DEFINE m == Head(inbox[r])
<1>1. /\ fwd[r] = "range" /\ inbox[r] # <<>> /\ inbox'[r] = Tail(inbox[r])
      /\ UNCHANGED <<queue, sent, told, proc, procMsg>>
      /\ \/ fwd'[r] # "send" /\ m \notin Announced
         \/ fwd'[r] = "send" /\ fwdMsg'[r] = m
  BY <1>0 DEF FwdReceive, TypeOK, procVars, fwdVars, Announced, Verdict
<1>2. \A d \in Request \ {r} : /\ inbox'[d] = inbox[d] /\ fwd'[d] = fwd[d]
                               /\ fwdMsg'[d] = fwdMsg[d]
  BY <1>0 DEF FwdReceive, TypeOK, fwdVars
<1>3. \A d \in Request \ {r} : Quiet(d)
  BY <1>1, <1>2 DEF Quiet, InFlight
<1>4. PICK n \in 0..Len(sent[r]) : ReadSoFar(r, n)
  BY <1>0 DEF PipelineOK
<1>5. inbox[r] \in Seq(Reply) /\ sent[r] \in Seq(Reply) /\ Len(sent[r]) \in Nat
  BY <1>0 DEF TypeOK
<1>6. /\ Len(inbox[r]) \in Nat \ {0} /\ Len(inbox'[r]) = Len(inbox[r]) - 1
      /\ \A i \in 1..Len(inbox'[r]) : inbox'[r][i] = inbox[r][i + 1]
      /\ m = inbox[r][1]
  BY <1>1, <1>5, HeadTailProperties, EmptySeq
<1>7. n \in Nat /\ n + 1 \in 0..Len(sent[r]) /\ m = sent[r][n + 1]
  BY <1>4, <1>5, <1>6 DEF ReadSoFar
<1>8. ASSUME NEW i \in 1..Len(inbox'[r]) PROVE inbox'[r][i] = sent'[r][(n + 1) + i]
  <2>1. i + 1 \in 1..Len(inbox[r]) /\ n + (i + 1) = (n + 1) + i
    BY <1>6, <1>7
  <2>2. inbox[r][i + 1] = sent[r][n + (i + 1)]
    BY <1>4, <2>1 DEF ReadSoFar
  <2>. QED  BY <1>1, <1>6, <2>1, <2>2
<1>9. /\ (n + 1) + Len(inbox'[r]) <= Len(sent'[r])
      /\ queue'[r] = "consumed" => (n + 1) + Len(inbox'[r]) = Len(sent'[r])
  <2>1. /\ n + Len(inbox[r]) <= Len(sent[r]) /\ sent' = sent /\ queue' = queue
        /\ queue[r] = "consumed" => n + Len(inbox[r]) = Len(sent[r])
    BY <1>1, <1>4 DEF ReadSoFar
  <2>2. Len(inbox[r]) \in Nat /\ Len(inbox'[r]) = Len(inbox[r]) - 1
    BY <1>6
  <2>3. (n + 1) + Len(inbox'[r]) = n + Len(inbox[r])
    <3>1. \A a, b \in Nat : (a + 1) + (b - 1) = a + b
      OBVIOUS
    <3>2. n \in Nat
      BY <1>7
    <3>. QED  BY <2>2, <3>1, <3>2
  <2>. QED  BY <2>1, <2>3
<1>10. Announces(told'[r] \o InFlight(r)', sent'[r], n + 1)
  <2>. DEFINE P == IF proc[r] = "broadcast" THEN <<procMsg[r]>> ELSE <<>>
              t == told[r] \o InFlight(r)
  <2>1. P \in Seq(Announced) /\ told[r] \in Seq(Announced)
    BY <1>0, StreamTyped DEF StagesOK
  <2>2. InFlight(r) = P
    <3>1. InFlight(r) = P \o <<>>
      BY <1>1 DEF InFlight
    <3>. QED  BY <2>1, <3>1, ConcatEmptySeq
  <2>3. Announces(t, sent[r], n) /\ t \in Seq(Announced)
    BY <1>4, <2>1, <2>2, ConcatProperties DEF ReadSoFar
  <2>4. CASE m \notin Announced
    <3>1. InFlight(r)' = P \o <<>>
      BY <1>1, <2>4 DEF InFlight
    <3>2. InFlight(r)' = InFlight(r)
      BY <2>1, <2>2, <3>1, ConcatEmptySeq
    <3>3. Announces(t, sent[r], n + 1)
      BY <1>7, <2>3, <2>4, AnnouncesSkip
    <3>. QED  BY <1>1, <3>2, <3>3
  <2>5. CASE m \in Announced
    <3>. DEFINE q == <<m>>
    <3>1. InFlight(r)' = P \o q /\ q \in Seq(Announced)
      BY <1>1, <2>5 DEF InFlight
    <3>2. Announces(Append(t, m), sent[r], n + 1)
      BY <1>7, <2>3, <2>5, AnnouncesNext
    <3>3. Append(t, m) = (told[r] \o P) \o q
      BY <2>2, <2>3, <2>5, AppendIsConcat
    <3>. HIDE DEF P, m, q
    <3>4. (told[r] \o P) \o q = told[r] \o (P \o q)
      BY <2>1, <3>1, StreamAssociative
    <3>5. told'[r] \o InFlight(r)' = Append(t, m)
      BY <1>1, <3>1, <3>3, <3>4
    <3>. QED  BY <1>1, <3>2, <3>5
  <2>. QED  BY <2>4, <2>5
<1>11. ReadSoFar(r, n + 1)'
  BY <1>8, <1>9, <1>10 DEF ReadSoFar
<1>12. \E k \in 0..Len(sent'[r]) : ReadSoFar(r, k)'
  BY <1>1, <1>7, <1>11
<1>. QED  BY <1>0, <1>3, <1>12, PipelineStep

(* A reply arrives at the broker and in the buffer. *)
LEMMA TesterRepliesPipeline ==
  ASSUME IInv, NEW r \in Request, TesterReplies(r) PROVE PipelineOK'
<1>0. TypeOK /\ StagesOK /\ PipelineOK
  BY DEF IInv
<1>1. PICK m \in Reply : /\ sent' = [sent EXCEPT ![r] = Append(@, m)]
                         /\ inbox' = [inbox EXCEPT ![r] = Append(@, m)]
  BY VerificationAssumption DEF TesterReplies
<1>2. queue[r] = "consumed" /\ UNCHANGED <<queue, told, proc, procMsg, fwd, fwdMsg>>
  BY DEF TesterReplies, procVars, fwdVars
<1>3. \A d \in Request : InFlight(d)' = InFlight(d)
  BY <1>2 DEF InFlight
<1>4. \A d \in Request \ {r} : Quiet(d)
  BY <1>0, <1>1, <1>2, <1>3 DEF Quiet, TypeOK
<1>5. PICK n \in 0..Len(sent[r]) : ReadSoFar(r, n)
  BY <1>0 DEF PipelineOK
<1>6. inbox[r] \in Seq(Reply) /\ sent[r] \in Seq(Reply)
  BY <1>0 DEF TypeOK
<1>7. sent'[r] = Append(sent[r], m) /\ inbox'[r] = Append(inbox[r], m)
  BY <1>0, <1>1 DEF TypeOK
<1>8. /\ Len(inbox[r]) \in Nat /\ Len(sent[r]) \in Nat
      /\ Len(sent'[r]) = Len(sent[r]) + 1 /\ Len(inbox'[r]) = Len(inbox[r]) + 1
      /\ sent'[r][Len(sent[r]) + 1] = m /\ inbox'[r][Len(inbox[r]) + 1] = m
      /\ \A i \in 1..Len(sent[r]) : sent'[r][i] = sent[r][i]
      /\ \A i \in 1..Len(inbox[r]) : inbox'[r][i] = inbox[r][i]
  BY <1>6, <1>7, AppendProperties, LenProperties
<1>9. n \in Nat /\ n + Len(inbox[r]) = Len(sent[r])
  BY <1>2, <1>5, <1>8 DEF ReadSoFar
<1>10. ASSUME NEW i \in 1..Len(inbox'[r]) PROVE inbox'[r][i] = sent'[r][n + i]
  <2>1. CASE i = Len(inbox[r]) + 1
    BY <2>1, <1>8, <1>9
  <2>2. CASE i \in 1..Len(inbox[r])
    <3>1. inbox[r][i] = sent[r][n + i] /\ n + i \in 1..Len(sent[r])
      BY <2>2, <1>5, <1>8, <1>9 DEF ReadSoFar
    <3>. QED  BY <2>2, <3>1, <1>8
  <2>. QED  BY <2>1, <2>2, <1>8
<1>11. Announces(told'[r] \o InFlight(r)', sent'[r], n)
  <2>1. \A k \in 1..n : sent'[r][k] = sent[r][k]
    BY <1>8, <1>9
  <2>2. Announces(told[r] \o InFlight(r), sent'[r], n)
    BY <1>5, <1>9, <2>1, AnnouncesSameStart DEF ReadSoFar
  <2>. QED  BY <1>2, <1>3, <2>2
<1>12. ReadSoFar(r, n)'
  <2>1. n + Len(inbox'[r]) = Len(sent'[r]) /\ Len(sent'[r]) \in Nat
    BY <1>8, <1>9
  <2>. QED  BY <1>10, <1>11, <2>1 DEF ReadSoFar
<1>13. \E k \in 0..Len(sent'[r]) : ReadSoFar(r, k)'
  BY <1>8, <1>9, <1>12
<1>. QED  BY <1>0, <1>4, <1>13, PipelineStep

(* A consumer that ends loses the end of the buffers, and no more comes. *)
LEMMA ConsumerEndsPipeline ==
  ASSUME IInv, NEW S \in SUBSET Request, ConsumerEnds(S), UNCHANGED <<sent, procVars, fwdMsg>>,
         \A r \in Request : fwd'[r] = "send" <=> fwd[r] = "send"
  PROVE  PipelineOK'
<1>0. TypeOK /\ StagesOK /\ PipelineOK
  BY DEF IInv
<1>1. /\ queue' = [r \in Request |-> IF r \in S THEN "deleted" ELSE queue[r]]
      /\ inbox' \in [Request -> Seq(Reply)]
      /\ \A r \in Request : /\ Len(inbox'[r]) <= Len(inbox[r])
                            /\ \A i \in 1..Len(inbox'[r]) : inbox'[r][i] = inbox[r][i]
      /\ \A r \in Request \ S : inbox'[r] = inbox[r]
  BY <1>0, ConsumerEndsBuffers
<1>2. \A r \in Request : told'[r] = told[r] /\ InFlight(r)' = InFlight(r) /\ sent'[r] = sent[r]
  BY DEF InFlight, procVars
<1>3. \A r \in Request \ S : Quiet(r)
  BY <1>1, <1>2 DEF Quiet
<1>4. ASSUME NEW r \in S PROVE \E n \in 0..Len(sent'[r]) : ReadSoFar(r, n)'
  <2>1. PICK n \in 0..Len(sent[r]) : ReadSoFar(r, n)
    BY <1>0 DEF PipelineOK
  <2>2. Len(inbox[r]) \in Nat /\ Len(inbox'[r]) \in Nat /\ Len(sent[r]) \in Nat
    BY <1>0, <1>1, LenProperties DEF TypeOK
  <2>3. n + Len(inbox'[r]) <= Len(sent'[r]) /\ queue'[r] # "consumed"
    BY <1>1, <1>2, <2>1, <2>2 DEF ReadSoFar
  <2>4. \A i \in 1..Len(inbox'[r]) : inbox'[r][i] = sent'[r][n + i]
    BY <1>1, <1>2, <2>1, <2>2 DEF ReadSoFar
  <2>5. Announces(told'[r] \o InFlight(r)', sent'[r], n)
    BY <1>2, <2>1 DEF ReadSoFar
  <2>6. ReadSoFar(r, n)'
    BY <2>3, <2>4, <2>5 DEF ReadSoFar
  <2>. QED  BY <1>2, <2>1, <2>6
<1>. QED  BY <1>0, <1>3, <1>4, PipelineStep

(* What a restart drops had not been told. *)
LEMMA RestartPipeline == ASSUME IInv, Restart PROVE PipelineOK'
<1>0. TypeOK /\ StagesOK /\ PipelineOK
  BY DEF IInv
<1>. SUFFICES ASSUME NEW r \in Request PROVE \E n \in 0..Len(sent'[r]) : ReadSoFar(r, n)'
  BY DEF PipelineOK
<1>1. /\ UNCHANGED <<sent, told>> /\ inbox'[r] = <<>> /\ Len(inbox'[r]) = 0
      /\ fwd'[r] = "off" /\ proc'[r] = "off" /\ queue'[r] # "consumed"
  BY DEF Restart
<1>2. PICK n \in 0..Len(sent[r]) : ReadSoFar(r, n)
  BY <1>0 DEF PipelineOK
<1>3. told[r] \in Seq(Announced) /\ InFlight(r) \in Seq(Announced) /\ Len(sent[r]) \in Nat
  BY <1>0, StreamTyped DEF TypeOK
<1>4. PICK m \in 0..n : Announces(told[r], sent[r], m)
  BY <1>2, <1>3, AnnouncesFront DEF ReadSoFar
<1>5. InFlight(r)' = <<>> /\ told[r] \o <<>> = told[r]
  BY <1>1, <1>3, ConcatEmptySeq DEF InFlight
<1>6. ReadSoFar(r, m)'
  BY <1>1, <1>2, <1>3, <1>4, <1>5 DEF ReadSoFar
<1>. QED  BY <1>1, <1>2, <1>3, <1>6

LEMMA NextPipelineOK == IInv /\ [Next]_vars => PipelineOK'
<1>. SUFFICES ASSUME IInv, [Next]_vars PROVE PipelineOK'
  OBVIOUS
<1>0. TypeOK /\ StagesOK /\ PipelineOK
  BY DEF IInv
<1>1. ASSUME UNCHANGED <<sent, inbox, told, procMsg, fwdMsg>>,
             \A r \in Request : queue'[r] = "consumed" => queue[r] = "consumed",
             \A r \in Request : fwd'[r] = "send" <=> fwd[r] = "send",
             \A r \in Request : proc'[r] = "broadcast" <=> proc[r] = "broadcast"
      PROVE  PipelineOK'
  <2>1. \A r \in Request : Quiet(r)
    BY <1>1 DEF Quiet, InFlight
  <2>. QED  BY <1>0, <2>1, PipelineStep
<1>2. CASE UNCHANGED vars \/ HubMoves
  BY <1>1, <1>2 DEF vars, HubMoves, brokerVars, fwdVars, procVars
<1>3. ASSUME NEW r \in Request, CreateStep(r), ~Consume(r) PROVE PipelineOK'
  <2>1. CASE Publish(r) \/ StartProcessor(r)
    <3>1. /\ Publish(r) => fwd[r] = "off"
          /\ StartProcessor(r) => proc[r] = "off"
      BY <1>0 DEF Publish, StartProcessor, StagesOK
    <3>2. /\ UNCHANGED <<sent, inbox, queue, told, procMsg, fwdMsg>>
          /\ fwd' \in {fwd, [fwd EXCEPT ![r] = "range"]}
          /\ proc' \in {proc, [proc EXCEPT ![r] = "range"]}
          /\ fwd' # fwd => Publish(r)
          /\ proc' # proc => StartProcessor(r)
      BY <2>1 DEF Publish, StartProcessor, brokerVars, fwdVars, procVars
    <3>3. \A d \in Request : /\ fwd'[d] = "send" <=> fwd[d] = "send"
                             /\ proc'[d] = "broadcast" <=> proc[d] = "broadcast"
      BY <1>0, <3>1, <3>2 DEF TypeOK
    <3>. QED  BY <1>1, <3>2, <3>3
  <2>2. CASE Declare(r)
    BY <1>0, <1>1, <2>2 DEF Declare, TypeOK, fwdVars, procVars
  <2>. QED  BY <1>1, <1>3, <2>1, <2>2 DEF CreateStep, ReadGame, CreateNoGame, CreateTaken,
            CreateFails, CommitUnclear, CreateOK, RPCFails, RespondOK,
            brokerVars, fwdVars, procVars
<1>4. ASSUME NEW r \in Request, Consume(r) PROVE PipelineOK'
  <2>1. /\ UNCHANGED <<sent, inbox, told, fwd, fwdMsg, proc, procMsg>>
        /\ \A d \in Request \ {r} : queue'[d] = queue[d]
    BY <1>0, <1>4 DEF Consume, TypeOK, fwdVars, procVars
  <2>2. \A d \in Request : InFlight(d)' = InFlight(d)
    BY <2>1 DEF InFlight
  <2>3. \A d \in Request \ {r} : Quiet(d)
    BY <2>1, <2>2 DEF Quiet
  <2>4. sent[r] = <<>>
    BY <1>0, <1>4 DEF Consume, StagesOK
  <2>5. PICK n \in 0..Len(sent[r]) : ReadSoFar(r, n)
    BY <1>0 DEF PipelineOK
  <2>6. n = 0 /\ Len(inbox[r]) = 0 /\ Len(sent[r]) = 0
    BY <1>0, <2>4, <2>5, LenProperties DEF ReadSoFar, TypeOK
  <2>7. ReadSoFar(r, n)'
    BY <2>1, <2>2, <2>5, <2>6 DEF ReadSoFar
  <2>8. \E k \in 0..Len(sent'[r]) : ReadSoFar(r, k)'
    BY <2>1, <2>5, <2>7
  <2>. QED  BY <1>0, <2>3, <2>8, PipelineStep
<1>5. ASSUME NEW r \in Request, FwdClose(r) PROVE PipelineOK'
  BY <1>0, <1>1, <1>5 DEF FwdClose, TypeOK, brokerVars, procVars
<1>6. ASSUME NEW r \in Request, Cancel(r) PROVE PipelineOK'
  <2>1. /\ UNCHANGED <<sent, told, proc, procMsg, unsaved, fwdMsg>>
        /\ \A d \in Request : fwd'[d] = "send" <=> fwd[d] = "send"
    BY <1>0, <1>6 DEF Cancel, TypeOK, procVars
  <2>2. CASE ConsumerEnds({r})
    <3>1. {r} \in SUBSET Request /\ UNCHANGED <<sent, procVars, fwdMsg>>
      BY <2>1 DEF procVars
    <3>. QED  BY <2>1, <2>2, <3>1, ConsumerEndsPipeline
  <2>3. CASE UNCHANGED <<queue, inbox>>
    BY <1>1, <2>1, <2>3
  <2>. QED  BY <1>6, <2>2, <2>3 DEF Cancel
<1>7. CASE ChannelLost
  <2>1. /\ ConsumerEnds({r \in Request : queue[r] = "consumed"})
        /\ {r \in Request : queue[r] = "consumed"} \in SUBSET Request
        /\ UNCHANGED <<sent, procVars, fwdMsg>> /\ UNCHANGED fwd
    BY <1>7 DEF ChannelLost, fwdVars
  <2>. QED  BY <2>1, ConsumerEndsPipeline
<1>8. ASSUME NEW r \in Request, Forward(r) PROVE PipelineOK'
  BY <1>0, <1>8, ForwardQuiet, PipelineStep
<1>9. ASSUME NEW r \in Request, Broadcast(r) PROVE PipelineOK'
  BY <1>0, <1>9, BroadcastQuiet, PipelineStep
<1>10. ASSUME NEW r \in Request, Save(r) \/ SaveFails(r) \/ ProcEnd(r) PROVE PipelineOK'
  BY <1>0, <1>1, <1>10 DEF Save, SaveFails, ProcEnd, TypeOK, brokerVars, fwdVars
<1>. QED
  BY <1>2, <1>3, <1>4, <1>5, <1>6, <1>7, <1>8, <1>9, <1>10,
     FwdReceivePipeline, TesterRepliesPipeline, RestartPipeline
     DEF Next, Handler, Forwarder, Processor, CreateStep
-----------------------------------------------------------------------------
(* What was told of a request was published to its queue. *)
LEMMA ToldWasSent ==
  ASSUME IInv, NEW r \in Request, NEW i \in 1..Len(told[r])
  PROVE  \E k \in 1..Len(sent[r]) : sent[r][k] = told[r][i]
  <1>0. TypeOK /\ StagesOK /\ PipelineOK
    BY DEF IInv
  <1>1. PICK n \in 0..Len(sent[r]) : ReadSoFar(r, n)
    BY <1>0 DEF PipelineOK
  <1>2. told[r] \in Seq(Announced) /\ InFlight(r) \in Seq(Announced) /\ Len(sent[r]) \in Nat
    BY <1>0, StreamTyped, LenProperties DEF TypeOK
  <1>3. PICK m \in 0..n : Announces(told[r], sent[r], m)
    BY <1>1, <1>2, AnnouncesFront DEF ReadSoFar
  <1>4. PICK k \in 1..m : sent[r][k] = told[r][i]
    BY <1>3, AnnouncedWasSent
  <1>. QED  BY <1>1, <1>2, <1>3, <1>4

LEMMA NextVerifiedByTester == IInv /\ [Next]_vars => VerifiedByTester'
<1>. SUFFICES ASSUME IInv, [Next]_vars PROVE VerifiedByTester'
  OBVIOUS
<1>0. TypeOK /\ StagesOK /\ VerifiedByTester
  BY DEF IInv
<1>1. ASSUME verified' \subseteq verified, sent' = sent PROVE VerifiedByTester'
  BY <1>0, <1>1 DEF VerifiedByTester
<1>2. ASSUME NEW r \in Request, TesterReplies(r) PROVE VerifiedByTester'
  <2>1. PICK m \in Reply : sent' = [sent EXCEPT ![r] = Append(@, m)]
    BY <1>2, VerificationAssumption DEF TesterReplies
  <2>2. /\ sent \in [Request -> Seq(Reply)] /\ verified' = verified /\ verified \subseteq Request
    BY <1>0, <1>2 DEF TesterReplies, TypeOK, dbVars
  <2>3. \A d \in Request : \A i \in 1..Len(sent[d]) : i \in 1..Len(sent'[d]) /\ sent'[d][i] = sent[d][i]
    BY <2>1, <2>2, AppendProperties
  <2>. QED  BY <1>0, <2>2, <2>3 DEF VerifiedByTester
<1>3. ASSUME NEW r \in Request, Save(r) \/ SaveFails(r) PROVE VerifiedByTester'
  <2>1. /\ UNCHANGED sent
        /\ verified' \in {verified, IF procMsg[r] = "win" THEN verified \cup {r}
                                                          ELSE verified \ {r}}
    BY <1>3 DEF Save, SaveFails, IsWin, brokerVars
  <2>2. told[r] # <<>> /\ told[r] \in Seq(Announced) /\ procMsg[r] = told[r][Len(told[r])]
    BY <1>0, <1>3 DEF Save, SaveFails, StagesOK, TypeOK
  <2>3. Len(told[r]) \in 1..Len(told[r])
    BY <2>2, EmptySeq
  <2>4. \E k \in 1..Len(sent[r]) : sent[r][k] = procMsg[r]
    BY <2>2, <2>3, ToldWasSent
  <2>. QED  BY <1>0, <2>1, <2>4 DEF VerifiedByTester
<1>4. ASSUME NEW r \in Request, CreateStep(r) \/ Forwarder(r) \/ Forward(r)
                                \/ Broadcast(r) \/ ProcEnd(r)
      PROVE  verified' = verified /\ sent' = sent
  BY <1>4 DEF CreateStep, ReadGame, CreateNoGame, CreateTaken, CreateFails, CommitUnclear,
     CreateOK, Declare, Consume, RPCFails, Publish, StartProcessor, RespondOK,
     Forwarder, FwdReceive, FwdClose, Cancel, Forward, Broadcast, ProcEnd, dbVars, brokerVars
<1>5. ChannelLost \/ HubMoves \/ Restart \/ UNCHANGED vars => verified' = verified /\ sent' = sent
  BY DEF ChannelLost, HubMoves, Restart, vars, dbVars, brokerVars
<1>. QED
  BY <1>1, <1>2, <1>3, <1>4, <1>5 DEF Next, Handler, Processor, CreateStep

LEMMA NextForwarderHeard == IInv /\ [Next]_vars => ForwarderHeard'
  <1>1. StagesOK' => ForwarderHeard'
    BY DEF StagesOK, ForwarderHeard
  <1>. QED  BY <1>1, NextStagesOK

(* The last verdict decides what a sequence of announcements says. *)
LEMMA SaysWinLast ==
  ASSUME NEW t \in Seq(Announced), t # <<>>, t[Len(t)] \in Verdict
  PROVE  SaysWin(t, Len(t)) <=> IsWin(t[Len(t)])
  <1>1. Len(t) \in Nat \ {0}
    BY EmptySeq
  <1>2. \A i \in 1..Len(t) : i # Len(t) => Len(t) \in (i + 1)..Len(t)
    BY <1>1
  <1>3. Len(t) \in 1..Len(t) /\ (Len(t) + 1)..Len(t) = {}
    BY <1>1
  <1>. QED  BY <1>2, <1>3 DEF SaysWin

(* One more announcement leaves the first ones alone. *)
LEMMA SaysWinFront ==
  ASSUME NEW t \in Seq(Announced), NEW m \in Announced
  PROVE  SaysWin(Append(t, m), Len(t)) <=> SaysWin(t, Len(t))
  <1>. DEFINE u == Append(t, m)
  <1>1. Len(t) \in Nat /\ \A i \in 1..Len(t) : u[i] = t[i]
    BY AppendProperties, LenProperties
  <1>. HIDE DEF u
  <1>2. \A i \in 1..Len(t) : \A j \in (i + 1)..Len(t) : u[j] = t[j]
    BY <1>1
  <1>3. SaysWin(u, Len(t)) <=> SaysWin(t, Len(t))
    BY <1>1, <1>2 DEF SaysWin
  <1>. QED  BY <1>3 DEF u

(* A status changes nothing. *)
LEMMA SaysWinStatus ==
  ASSUME NEW t \in Seq(Announced), NEW m \in Announced \ Verdict
  PROVE  SaysWin(Append(t, m), Len(t) + 1) <=> SaysWin(t, Len(t))
  <1>. DEFINE u == Append(t, m)
  <1>1. Len(t) \in Nat /\ u[Len(t) + 1] = m
    BY AppendProperties, LenProperties
  <1>2. SaysWin(u, Len(t)) <=> SaysWin(t, Len(t))
    BY SaysWinFront
  <1>. HIDE DEF u
  <1>3. ~IsWin(m)
    BY DEF IsWin, Verdict
  <1>4. ASSUME NEW i \in 1..Len(t)
        PROVE  (\A j \in (i + 1)..(Len(t) + 1) : u[j] \notin Verdict)
               <=> (\A j \in (i + 1)..Len(t) : u[j] \notin Verdict)
    <2>1. \A j \in (i + 1)..(Len(t) + 1) : j \in (i + 1)..Len(t) \/ j = Len(t) + 1
      BY <1>1
    <2>2. \A j \in (i + 1)..Len(t) : j \in (i + 1)..(Len(t) + 1)
      BY <1>1
    <2>. QED  BY <1>1, <2>1, <2>2
  <1>5. \A i \in 1..(Len(t) + 1) : i \in 1..Len(t) \/ i = Len(t) + 1
    BY <1>1
  <1>6. \A i \in 1..Len(t) : i \in 1..(Len(t) + 1)
    BY <1>1
  <1>7. SaysWin(u, Len(t) + 1) <=> SaysWin(u, Len(t))
    BY <1>1, <1>3, <1>4, <1>5, <1>6 DEF SaysWin
  <1>. QED  BY <1>2, <1>7 DEF u

(* The verdict about to be saved is the last the listeners have been told. *)
LEMMA SavesTold ==
  ASSUME IInv, NEW r \in Request, proc[r] = "save"
  PROVE  IsWin(procMsg[r]) <=> SaysWin(told[r], Len(told[r]))
  <1>1. /\ procMsg[r] \in Verdict /\ told[r] # <<>> /\ told[r] \in Seq(Announced)
        /\ procMsg[r] = told[r][Len(told[r])]
    BY DEF IInv, TypeOK, StagesOK
  <1>. QED  BY <1>1, SaysWinLast

LEMMA NextLastVerdictStored == IInv /\ [Next]_vars => LastVerdictStored'
<1>. SUFFICES ASSUME IInv, [Next]_vars PROVE LastVerdictStored'
  OBVIOUS
<1>0. TypeOK /\ StagesOK /\ LastVerdictStored
  BY DEF IInv
<1>1. ASSUME UNCHANGED <<unsaved, verified, told>>,
             \A r \in Request : \/ proc'[r] = proc[r]
                               \/ {proc[r], proc'[r]} \cap {"save", "off"} = {}
      PROVE  LastVerdictStored'
  BY <1>0, <1>1 DEF LastVerdictStored, AsTold
<1>2. ASSUME NEW r \in Request, StartProcessor(r) PROVE LastVerdictStored'
  <2>1. told[r] = <<>> /\ r \notin verified /\ 1..Len(told[r]) = {}
    BY <1>0, <1>2 DEF StartProcessor, StagesOK
  <2>2. AsTold(r, Len(told[r]))
    BY <2>1 DEF AsTold, SaysWin
  <2>3. /\ UNCHANGED <<unsaved, verified, told>> /\ proc'[r] = "range"
        /\ \A d \in Request \ {r} : proc'[d] = proc[d]
    BY <1>0, <1>2 DEF StartProcessor, TypeOK, dbVars
  <2>. QED  BY <1>0, <2>2, <2>3 DEF LastVerdictStored, AsTold
<1>3. ASSUME NEW r \in Request, Forward(r) \/ ProcEnd(r) PROVE LastVerdictStored'
  <2>1. /\ UNCHANGED <<unsaved, verified, told>>
        /\ proc[r] = "range" /\ proc'[r] \in {"range", "broadcast", "done"}
        /\ \A d \in Request \ {r} : proc'[d] = proc[d]
    BY <1>0, <1>3 DEF Forward, ProcEnd, TypeOK, dbVars
  <2>. QED  BY <1>1, <2>1
<1>4. ASSUME NEW r \in Request, Broadcast(r) PROVE LastVerdictStored'
  <2>1. /\ UNCHANGED <<unsaved, verified>> /\ proc[r] = "broadcast"
        /\ proc'[r] = IF procMsg[r] \in Verdict THEN "save" ELSE "range"
        /\ told'[r] = Append(told[r], procMsg[r])
        /\ \A d \in Request \ {r} : proc'[d] = proc[d] /\ told'[d] = told[d]
    BY <1>0, <1>4 DEF Broadcast, TypeOK, dbVars
  <2>2. procMsg[r] \in Announced /\ told[r] \in Seq(Announced)
    BY <1>0, <1>4 DEF Broadcast, TypeOK, StagesOK
  <2>3. Len(told'[r]) = Len(told[r]) + 1 /\ Len(told'[r]) - 1 = Len(told[r])
    BY <2>1, <2>2, AppendProperties, LenProperties
  <2>4. /\ SaysWin(told'[r], Len(told[r])) <=> SaysWin(told[r], Len(told[r]))
        /\ procMsg[r] \notin Verdict =>
             (SaysWin(told'[r], Len(told'[r])) <=> SaysWin(told[r], Len(told[r])))
    BY <2>1, <2>2, <2>3, SaysWinFront, SaysWinStatus
  <2>5. r \notin unsaved => AsTold(r, Len(told[r]))
    BY <1>0, <2>1 DEF LastVerdictStored
  <2>6. ASSUME r \notin unsaved
        PROVE  /\ proc'[r] = "save" => AsTold(r, Len(told[r]) - 1)'
               /\ proc'[r] # "save" => AsTold(r, Len(told[r]))'
    BY <2>1, <2>3, <2>4, <2>5, <2>6 DEF AsTold
  <2>7. \A d \in Request \ {r} : \A k : AsTold(d, k)' <=> AsTold(d, k)
    BY <2>1 DEF AsTold
  <2>8. proc'[r] # "off"
    BY <2>1
  <2>. QED  BY <1>0, <2>1, <2>6, <2>7, <2>8 DEF LastVerdictStored
<1>5. ASSUME NEW r \in Request, Save(r) PROVE LastVerdictStored'
  <2>1. /\ unsaved' = unsaved \ {r} /\ told' = told /\ proc[r] = "save" /\ proc'[r] = "range"
        /\ r \in verified' <=> IsWin(procMsg[r])
        /\ \A d \in Request \ {r} : proc'[d] = proc[d] /\ (d \in verified' <=> d \in verified)
    BY <1>0, <1>5 DEF Save, TypeOK
  <2>2. IsWin(procMsg[r]) <=> SaysWin(told[r], Len(told[r]))
    BY <2>1, SavesTold
  <2>3. AsTold(r, Len(told[r]))'
    BY <2>1, <2>2 DEF AsTold
  <2>4. \A d \in Request \ {r} : \A k : AsTold(d, k)' <=> AsTold(d, k)
    BY <2>1 DEF AsTold
  <2>. QED  BY <1>0, <2>1, <2>3, <2>4 DEF LastVerdictStored
<1>6. ASSUME NEW r \in Request, SaveFails(r) PROVE LastVerdictStored'
  <2>1. /\ unsaved' = unsaved \cup {r} /\ told' = told
        /\ \A d \in Request \ {r} : proc'[d] = proc[d] /\ (d \in verified' <=> d \in verified)
    BY <1>0, <1>6 DEF SaveFails, TypeOK
  <2>2. \A d \in Request \ {r} : \A k : AsTold(d, k)' <=> AsTold(d, k)
    BY <2>1 DEF AsTold
  <2>. QED  BY <1>0, <2>1, <2>2 DEF LastVerdictStored
<1>7. CASE Restart
  <2>1. UNCHANGED <<unsaved, verified, told>> /\ \A r \in Request : proc'[r] = "off"
    BY <1>7 DEF Restart, dbVars
  <2>. QED  BY <1>0, <2>1 DEF LastVerdictStored, AsTold
<1>8. ASSUME NEW r \in Request,
             (CreateStep(r) /\ ~StartProcessor(r)) \/ TesterReplies(r) \/ Forwarder(r)
      PROVE  UNCHANGED <<unsaved, verified, told, proc>>
  BY <1>8 DEF CreateStep, ReadGame, CreateNoGame, CreateTaken, CreateFails, CommitUnclear,
     CreateOK, Declare, Consume, RPCFails, Publish, RespondOK, TesterReplies, Forwarder,
     FwdReceive, FwdClose, Cancel, dbVars, procVars
<1>9. ChannelLost \/ HubMoves \/ UNCHANGED vars => UNCHANGED <<unsaved, verified, told, proc>>
  BY DEF ChannelLost, HubMoves, vars, dbVars, procVars
<1>. QED
  BY <1>1, <1>2, <1>3, <1>4, <1>5, <1>6, <1>7, <1>8, <1>9 DEF Next, Handler, Processor, CreateStep

(* The pipeline's invariant: what was told, what the two goroutines hold   *)
(* and what is buffered are the replies that were published, in order, and *)
(* the rows agree with what was told (bot_verify.go:94-178).               *)
THEOREM InvariantHolds == Spec => []IInv
  <1>1. IInv /\ [Next]_vars => IInv'
    BY NextTypeOK, NextStagesOK, NextPipelineOK, NextAnswersTruthful, NextVerifiedByTester,
       NextForwarderHeard, NextLastVerdictStored DEF IInv
  <1>. QED  BY InitIInv, <1>1, PTL DEF Spec
-----------------------------------------------------------------------------
(* Every variable keeps its type, and the client never buffers more        *)
(* replies than were published (bots/bot_handle.go, bots/bot_verify.go).   *)
THEOREM TypeCorrect == Spec => []TypeOK
  <1>1. IInv => TypeOK
    BY DEF IInv
  <1>. QED  BY <1>1, InvariantHolds, PTL

(* bot_handle.go:47-61,82-89: the answer to an upload agrees with the rows *)
(* of bots and with what the tester was given, whatever fails.             *)
THEOREM AnswersAreTrue == Spec => []AnswersTruthful
  <1>1. IInv => AnswersTruthful
    BY DEF IInv
  <1>. QED  BY <1>1, InvariantHolds, PTL

(* bot_handle.go:88, bot_verify.go:105,135: the forwarding goroutine never *)
(* sends to a channel that nobody will read: the one that processes the    *)
(* replies is yet to be started, or has not returned.                      *)
THEOREM ForwarderHasReader == Spec => []ForwarderHeard
  <1>1. IInv => ForwarderHeard
    BY DEF IInv
  <1>. QED  BY <1>1, InvariantHolds, PTL

(* bot_verify.go:95,163,174: no bot is marked verified unless the tester   *)
(* published to the queue of that very request that it won.                *)
THEOREM OnlyTesterVerifies == Spec => []VerifiedByTester
  <1>1. IInv => VerifiedByTester
    BY DEF IInv
  <1>. QED  BY <1>1, InvariantHolds, PTL

(* bot_verify.go:94-105,135: the two goroutines hand on the tester's       *)
(* replies in order, without a gap or a repetition, across lost            *)
(* connections and restarts.                                               *)
THEOREM RepliesToldInOrder == Spec => []ToldInOrder
<1>1. ASSUME IInv PROVE ToldInOrder
  <2>. SUFFICES ASSUME NEW r \in Request
                PROVE  \E n \in 0..Len(sent[r]) : Announces(told[r], sent[r], n)
    BY DEF ToldInOrder
  <2>0. TypeOK /\ StagesOK /\ PipelineOK
    BY <1>1 DEF IInv
  <2>1. PICK n \in 0..Len(sent[r]) : ReadSoFar(r, n)
    BY <2>0 DEF PipelineOK
  <2>2. told[r] \in Seq(Announced) /\ InFlight(r) \in Seq(Announced) /\ Len(sent[r]) \in Nat
    BY <2>0, StreamTyped, LenProperties DEF TypeOK
  <2>3. PICK m \in 0..n : Announces(told[r], sent[r], m)
    BY <2>1, <2>2, AnnouncesFront DEF ReadSoFar
  <2>. QED  BY <2>1, <2>2, <2>3
<1>. QED  BY <1>1, InvariantHolds, PTL

(* bot_verify.go:167-178: between two replies is_verified is the last      *)
(* verdict the listeners were told, and after the process has died that or *)
(* the one before, unless saving it failed.                                *)
THEOREM StoredIsLastTold == Spec => []LastVerdictStored
  <1>1. IInv => LastVerdictStored
    BY DEF IInv
  <1>. QED  BY <1>1, InvariantHolds, PTL

(* bot_verify.go:167-174,191-198: a step that changes is_verified changes  *)
(* it to what the listeners have already been told.                        *)
THEOREM ToldFirst == Spec => ToldBeforeStored
<1>1. IInv /\ [Next]_vars =>
        \A r \in Request :
          (r \in verified) # (r \in verified') =>
            (r \in verified' <=> SaysWin(told[r], Len(told[r])))
  <2>. SUFFICES ASSUME IInv, [Next]_vars, NEW r \in Request,
                       ~((r \in verified) <=> (r \in verified'))
                PROVE  r \in verified' <=> SaysWin(told[r], Len(told[r]))
    OBVIOUS
  <2>1. ASSUME NEW d \in Request, Save(d) \/ SaveFails(d)
        PROVE  r \in verified' <=> SaysWin(told[r], Len(told[r]))
    <3>1. /\ proc[d] = "save"
          /\ verified' \in {verified, IF IsWin(procMsg[d]) THEN verified \cup {d}
                                                           ELSE verified \ {d}}
      BY <2>1 DEF Save, SaveFails
    <3>2. d = r /\ (r \in verified' <=> IsWin(procMsg[r]))
      BY <3>1
    <3>. QED  BY <3>1, <3>2, SavesTold
  <2>2. ASSUME NEW d \in Request,
               CreateStep(d) \/ TesterReplies(d) \/ Forwarder(d) \/ Forward(d)
               \/ Broadcast(d) \/ ProcEnd(d)
        PROVE  verified' = verified
    BY <2>2 DEF CreateStep, ReadGame, CreateNoGame, CreateTaken, CreateFails, CommitUnclear,
       CreateOK, Declare, Consume, RPCFails, Publish, StartProcessor, RespondOK, TesterReplies,
       Forwarder, FwdReceive, FwdClose, Cancel, Forward, Broadcast, ProcEnd, dbVars
  <2>3. ChannelLost \/ HubMoves \/ Restart \/ UNCHANGED vars => verified' = verified
    BY DEF ChannelLost, HubMoves, Restart, vars, dbVars
  <2>. QED  BY <2>1, <2>2, <2>3 DEF Next, Handler, Processor, CreateStep
<1>. QED  BY <1>1, InvariantHolds, PTL DEF Spec, ToldBeforeStored
-----------------------------------------------------------------------------
(* A step that touches neither the rows nor an answer, and saves nothing   *)
(* and is about to save nothing new, is a stutter of the ledger.           *)
LEMMA LedgerStutter ==
  ASSUME UNCHANGED <<rows, verified, tasks, answer>>,
         \A r \in Request : /\ proc'[r] = "save" <=> proc[r] = "save"
                            /\ proc[r] = "save" => procMsg'[r] = procMsg[r]
  PROVE  UNCHANGED Ledger!vars
  <1>1. toldBar' = toldBar
    BY DEF toldBar
  <1>. QED  BY <1>1 DEF Ledger!vars

LEMMA NextLedger == IInv /\ [Next]_vars => [Ledger!Next]_(Ledger!vars)
<1>. SUFFICES ASSUME IInv, [Next]_vars PROVE [Ledger!Next]_(Ledger!vars)
  OBVIOUS
<1>0. TypeOK /\ StagesOK /\ AnswersTruthful
  BY DEF IInv
<1>1. CASE UNCHANGED vars
  BY <1>1, LedgerStutter DEF vars, dbVars, reqVars, brokerVars, procVars
(* The answers without a test. *)
<1>2. ASSUME NEW r \in Request, CreateNoGame(r) \/ CreateTaken(r) \/ CreateFails(r) \/ RPCFails(r)
      PROVE  Ledger!Reply(r)
  <2>1. PICK a \in {"taken", "not_exists", "500"} :
          /\ answer' = [answer EXCEPT ![r] = a]
          /\ a # "500" => req[r] = "create"
          /\ a = "taken" => Duplicate(r)
    BY <1>2 DEF CreateNoGame, CreateTaken, CreateFails, RPCFails, Respond
  <2>2. answer[r] = "none" /\ r \notin tasks /\ (req[r] = "create" => r \notin rows)
    BY <1>0, <1>2 DEF CreateNoGame, CreateTaken, CreateFails, RPCFails, StagesOK
  <2>3. UNCHANGED <<rows, verified, tasks, proc, procMsg>>
    BY <1>2 DEF CreateNoGame, CreateTaken, CreateFails, RPCFails, dbVars, brokerVars, procVars
  <2>4. toldBar' = toldBar
    BY <2>3 DEF toldBar
  <2>5. a = "taken" => \E d \in rows : Ledger!Same(r, d)
    BY <2>1 DEF Duplicate, Ledger!Same
  <2>. QED  BY <2>1, <2>2, <2>3, <2>4, <2>5 DEF Ledger!Reply
<1>3. ASSUME NEW r \in Request, CommitUnclear(r) \/ CreateOK(r) PROVE Ledger!Store(r)
  <2>1. /\ UploadOf[r] \in GameExists /\ ~Duplicate(r) /\ rows' = rows \cup {r}
        /\ answer' \in {answer, [answer EXCEPT ![r] = "500"]}
        /\ req[r] = "create" /\ UNCHANGED <<verified, tasks, proc, procMsg>>
    BY <1>3 DEF CommitUnclear, CreateOK, Respond, brokerVars, procVars
  <2>2. answer[r] = "none" /\ toldBar' = toldBar
    BY <1>0, <2>1 DEF StagesOK, toldBar
  <2>. QED  BY <2>1, <2>2 DEF Ledger!Store, Ledger!Same, Duplicate
<1>4. ASSUME NEW r \in Request, Publish(r) PROVE Ledger!Send(r)
  <2>1. /\ answer[r] = "none" /\ r \in rows /\ tasks' = tasks \cup {r}
        /\ UNCHANGED <<rows, verified, answer, proc, procMsg>>
    BY <1>0, <1>4 DEF Publish, StagesOK, dbVars, procVars
  <2>2. toldBar' = toldBar
    BY <2>1 DEF toldBar
  <2>. QED  BY <2>1, <2>2 DEF Ledger!Send
<1>13. ASSUME NEW r \in Request, RespondOK(r) PROVE Ledger!Reply(r)
  <2>1. /\ answer[r] = "none" /\ r \in tasks /\ answer' = [answer EXCEPT ![r] = "200"]
        /\ UNCHANGED <<rows, verified, tasks, proc, procMsg>>
    BY <1>0, <1>13 DEF RespondOK, Respond, StagesOK, dbVars, brokerVars, procVars
  <2>2. toldBar' = toldBar
    BY <2>1 DEF toldBar
  <2>. QED  BY <2>1, <2>2 DEF Ledger!Reply
<1>5. ASSUME NEW r \in Request,
             ReadGame(r) \/ Declare(r) \/ Consume(r) \/ TesterReplies(r) \/ Forwarder(r)
      PROVE  UNCHANGED Ledger!vars
  <2>1. UNCHANGED <<rows, verified, tasks, answer, proc, procMsg>>
    BY <1>5 DEF ReadGame, Declare, Consume, TesterReplies, Forwarder, FwdReceive, FwdClose,
       Cancel, dbVars, reqVars, brokerVars, procVars
  <2>. QED  BY <2>1, LedgerStutter
<1>6. ASSUME NEW r \in Request, StartProcessor(r) \/ Forward(r) \/ ProcEnd(r)
      PROVE  UNCHANGED Ledger!vars
  <2>1. /\ UNCHANGED <<rows, verified, tasks, answer>>
        /\ proc[r] # "save" /\ proc'[r] # "save"
        /\ \A d \in Request \ {r} : proc'[d] = proc[d] /\ procMsg'[d] = procMsg[d]
    BY <1>0, <1>6 DEF StartProcessor, Forward, ProcEnd, TypeOK, StagesOK,
       dbVars, reqVars, brokerVars
  <2>2. \A d \in Request : /\ proc'[d] = "save" <=> proc[d] = "save"
                           /\ proc[d] = "save" => procMsg'[d] = procMsg[d]
    BY <2>1
  <2>. QED  BY <2>1, <2>2, LedgerStutter
(* Telling a verdict is a step of the ledger, telling a status is not. *)
<1>7. ASSUME NEW r \in Request, Broadcast(r) PROVE [Ledger!Tell(r)]_(Ledger!vars)
  <2>1. /\ UNCHANGED <<rows, verified, tasks, answer, procMsg>> /\ proc[r] = "broadcast"
        /\ proc' = [proc EXCEPT ![r] = IF procMsg[r] \in Verdict THEN "save" ELSE "range"]
    BY <1>7 DEF Broadcast, dbVars, reqVars, brokerVars
  <2>2. r \in tasks
    BY <1>0, <2>1 DEF StagesOK
  <2>3. CASE procMsg[r] \in Verdict
    <3>1. toldBar[r] = "none"
      BY <2>1 DEF toldBar
    <3>2. toldBar' = [toldBar EXCEPT ![r] = procMsg[r]]
      BY <1>0, <2>1, <2>3 DEF toldBar, TypeOK
    <3>. QED  BY <2>1, <2>2, <2>3, <3>1, <3>2 DEF Ledger!Tell, Ledger!Verdict, Verdict
  <2>4. CASE procMsg[r] \notin Verdict
    <3>1. \A d \in Request : proc'[d] = "save" <=> proc[d] = "save"
      BY <1>0, <2>1, <2>4 DEF TypeOK
    <3>. QED  BY <2>1, <3>1, LedgerStutter
  <2>. QED  BY <2>3, <2>4
<1>8. ASSUME NEW r \in Request, Save(r) \/ SaveFails(r),
             verified' = IF IsWin(procMsg[r]) THEN verified \cup {r} ELSE verified \ {r}
      PROVE  Ledger!Record(r)
  <2>1. /\ proc[r] = "save" /\ proc' = [proc EXCEPT ![r] = "range"]
        /\ verified' = IF procMsg[r] = "win" THEN verified \cup {r} ELSE verified \ {r}
        /\ UNCHANGED <<rows, tasks, answer, procMsg>>
    BY <1>8 DEF Save, SaveFails, IsWin, reqVars, brokerVars
  <2>2. toldBar[r] = procMsg[r] /\ procMsg[r] # "none"
    BY <1>0, <2>1 DEF toldBar, StagesOK, Verdict
  <2>3. toldBar' = [toldBar EXCEPT ![r] = "none"]
    BY <1>0, <2>1 DEF toldBar, TypeOK
  <2>. QED  BY <2>1, <2>2, <2>3 DEF Ledger!Record
(* A verdict that is not saved is given up: one, or all with the process. *)
<1>9. ASSUME NEW S \in SUBSET Request, UNCHANGED <<rows, verified, tasks, answer, procMsg>>,
             \A r \in S : proc'[r] # "save",
             \A r \in Request \ S : proc'[r] = proc[r]
      PROVE  Ledger!GiveUp
  <2>1. toldBar' = [r \in Request |-> IF r \in S THEN "none" ELSE toldBar[r]]
    BY <1>9 DEF toldBar
  <2>. QED  BY <1>9, <2>1 DEF Ledger!GiveUp
<1>10. ASSUME NEW r \in Request, Save(r) \/ SaveFails(r)
       PROVE  Ledger!Record(r) \/ Ledger!GiveUp
  <2>1. CASE verified' = IF IsWin(procMsg[r]) THEN verified \cup {r} ELSE verified \ {r}
    BY <1>8, <1>10, <2>1
  <2>2. CASE SaveFails(r) /\ verified' = verified
    <3>1. /\ UNCHANGED <<rows, verified, tasks, answer, procMsg>> /\ {r} \in SUBSET Request
          /\ proc'[r] # "save" /\ \A d \in Request \ {r} : proc'[d] = proc[d]
      BY <1>0, <2>2 DEF SaveFails, TypeOK, reqVars, brokerVars
    <3>. QED  BY <1>9, <3>1
  <2>. QED  BY <1>10, <2>1, <2>2 DEF Save, SaveFails
<1>11. CASE Restart
  <2>1. /\ UNCHANGED <<rows, verified, tasks, answer, procMsg>> /\ Request \in SUBSET Request
        /\ \A r \in Request : proc'[r] # "save"
    BY <1>11 DEF Restart, dbVars
  <2>2. Ledger!GiveUp
    BY <1>9, <2>1
  <2>. QED  BY <2>2 DEF Ledger!Next
<1>12. CASE ChannelLost \/ HubMoves
  BY <1>12, LedgerStutter DEF ChannelLost, HubMoves, dbVars, reqVars, brokerVars, procVars
<1>. QED
  BY <1>1, <1>2, <1>3, <1>4, <1>5, <1>6, <1>7, <1>10, <1>11, <1>12, <1>13
     DEF Next, Handler, Processor, Ledger!Next

(* The upload, its queue and its two goroutines keep BotLedger's promise   *)
(* to the author: each step is a step of it or a stutter, with every       *)
(* failure of the database, of the broker and of the process.              *)
THEOREM VerificationImplementsLedger == Spec => LedgerSpec
  <1>1. Init => Ledger!Init
    BY DEF Init, Ledger!Init, toldBar
  <1>. QED  BY <1>1, InvariantHolds, NextLedger, PTL DEF Spec, LedgerSpec, Ledger!Spec
=============================================================================
