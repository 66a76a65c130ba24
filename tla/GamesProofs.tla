---------------------------- MODULE GamesProofs ----------------------------
(***************************************************************************)
(* Leaderboards for any games, players and scores: the rank of a leader,   *)
(* what consecutive pages cover, and what a count promises.                *)
(***************************************************************************)
EXTENDS Games, FiniteSetTheorems, SequenceTheorems, TLAPS

(* The smaller of two integers.                                            *)
LEMMA MinOfTwo ==
  ASSUME NEW a \in Int, NEW b \in Int
  PROVE  Min({a, b}) = IF a <= b THEN a ELSE b
  <1>. DEFINE m == IF a <= b THEN a ELSE b
  <1>1. m \in {a, b} /\ \A y \in {a, b} : m <= y
    OBVIOUS
  <1>2. \A x \in {a, b} : (\A y \in {a, b} : x <= y) => x = m
    OBVIOUS
  <1>. QED  BY <1>1, <1>2 DEF Min
-----------------------------------------------------------------------------
(* What the players of a board are worth.                                  *)
LEMMA ScoresAreInts ==
  ASSUME NEW b \in Board
  PROVE  /\ \A p \in Player : b[p] \in Score \cup {None}
         /\ \A p \in Played(b) : p \in Player /\ b[p] \in Score
         /\ Score \subseteq Int /\ None \notin Int
         /\ Played(b) \subseteq Player /\ IsFiniteSet(Played(b)) /\ Cardinality(Played(b)) \in Nat
  <1>1. Score \subseteq Int /\ None \notin Int
    BY GamesAssumption DEF Score
  <1>2. Played(b) \subseteq Player
    BY DEF Played
  <1>3. IsFiniteSet(Played(b)) /\ Cardinality(Played(b)) \in Nat
    BY <1>2, GamesAssumption, FS_Subset, FS_CardinalityType
  <1>. QED  BY <1>1, <1>2, <1>3 DEF Board, Played

(* A list of the rows of a board that somebody has played: its length, and *)
(* the one place of each player in it.                                     *)
LEMMA Listed ==
  ASSUME NEW b \in Board, Played(b) # {}, NEW s \in Ordered(Rows(b))
  PROVE  /\ s \in Seq(Rows(b)) /\ Len(s) = Cardinality(Played(b)) /\ DOMAIN s = 1..Len(s)
         /\ \A k \in 1..Len(s) : s[k].who \in Played(b) /\ s[k].score = b[s[k].who]
         /\ \A p \in Played(b) : \E k \in 1..Len(s) : s[k].who = p
         /\ \A j, k \in 1..Len(s) : s[j].who = s[k].who => j = k
         /\ \A j, k \in 1..Len(s) : j <= k => s[j].score >= s[k].score
  <1>. DEFINE row == [p \in Played(b) |-> [who |-> p, score |-> b[p]]]
              N == Cardinality(Played(b))
              n == Cardinality(Rows(b))
  <1>1. Rows(b) = {row[p] : p \in Played(b)}
    BY DEF Rows
  <1>2. \A p \in Played(b) : row[p].who = p /\ row[p].score = b[p]
    OBVIOUS
  <1>3. row \in Surjection(Played(b), Rows(b)) /\ row \in Injection(Played(b), Rows(b))
    BY <1>1, <1>2 DEF Surjection, Injection, IsInjective
  <1>. HIDE DEF row
  <1>4. IsFiniteSet(Rows(b)) /\ n = N /\ N \in Nat
    BY <1>3, FS_Surjection, ScoresAreInts
  <1>5. /\ s \in [1..n -> Rows(b)] /\ \A i, j \in 1..n : i # j => s[i] # s[j]
        /\ \A i, j \in DOMAIN s : i < j => s[i].score >= s[j].score
    BY DEF Ordered, SetToSeqs
  <1>. HIDE DEF n, N
  <1>6. s \in Seq(Rows(b)) /\ Len(s) = n /\ DOMAIN s = 1..n
    BY <1>4, <1>5
  <1>7. s \in Injection(1..n, Rows(b))
    BY <1>5 DEF Injection, IsInjective
  <1>8. s \in Surjection(1..n, Rows(b))
    <2>1. Cardinality(1..n) = n
      BY <1>4, FS_Interval
    <2>. QED  BY <1>4, <1>7, <2>1, FS_Injection DEF n
  <1>9. \A k \in 1..n : \E p \in Played(b) : s[k] = row[p]
    BY <1>1, <1>5
  <1>10. \A p \in Played(b) : \E k \in 1..n : s[k] = row[p]
    BY <1>1, <1>8 DEF Surjection
  <1>11. \A k \in 1..n : s[k].who \in Played(b) /\ s[k].score = b[s[k].who]
    BY <1>2, <1>9
  <1>12. \A j, k \in 1..n : s[j].who = s[k].who => j = k
    <2>1. \A k \in 1..n : s[k] = row[s[k].who]
      BY <1>2, <1>9
    <2>. QED  BY <2>1, <1>5
  <1>13. \A j, k \in 1..n : j <= k => s[j].score >= s[k].score
    <2>1. \A k \in 1..n : s[k].score \in Int
      BY <1>11, ScoresAreInts
    <2>2. n \in Nat
      BY <1>4
    <2>. QED  BY <1>5, <1>6, <2>1, <2>2
  <1>. QED  BY <1>2, <1>4, <1>6, <1>10, <1>11, <1>12, <1>13 DEF N

(* Before the k-th leader are all who are better, and none who are worse.  *)
LEMMA Position ==
  ASSUME NEW b \in Board, Played(b) # {}, NEW s \in Ordered(Rows(b)), NEW k \in 1..Len(s)
  PROVE  /\ Cardinality(Better(b, s[k].score)) < k
         /\ k <= Cardinality(AtLeast(b, s[k].score))
  <1>1. /\ DOMAIN s = 1..Len(s) /\ Len(s) \in Nat
        /\ \A j \in 1..Len(s) : s[j].who \in Played(b) /\ s[j].score = b[s[j].who] /\ s[j].score \in Int
        /\ \A p \in Played(b) : \E j \in 1..Len(s) : s[j].who = p
        /\ \A i, j \in 1..Len(s) : s[i].who = s[j].who => i = j
        /\ \A i, j \in 1..Len(s) : i <= j => s[i].score >= s[j].score
    BY Listed, ScoresAreInts
  <1>. DEFINE up == Better(b, s[k].score)
              upTo == AtLeast(b, s[k].score)
              at == [p \in up |-> CHOOSE j \in 1..Len(s) : s[j].who = p]
              who == [j \in 1..k |-> s[j].who]
  <1>2. up \subseteq Played(b) /\ upTo \subseteq Played(b) /\ IsFiniteSet(upTo)
    BY ScoresAreInts, FS_Subset DEF Better, AtLeast
  <1>3. \A p \in up : at[p] \in 1..Len(s) /\ s[at[p]].who = p
    BY <1>1, <1>2
  <1>4. \A p \in up : at[p] \in 1..(k - 1)
    <2>. SUFFICES ASSUME NEW p \in up PROVE at[p] \in 1..(k - 1)
      OBVIOUS
    <2>1. b[p] > s[k].score
      BY DEF Better
    <2>2. at[p] \in 1..Len(s) /\ s[at[p]].score = b[p] /\ b[p] \in Int
      BY <1>1, <1>2, <1>3
    <2>. HIDE DEF at
    <2>3. ~(k <= at[p])
      BY <1>1, <2>1, <2>2
    <2>. QED  BY <1>1, <2>2, <2>3
  <1>5. at \in Injection(up, 1..(k - 1))
    BY <1>3, <1>4 DEF Injection, IsInjective
  <1>6. Cardinality(up) <= k - 1 /\ Cardinality(up) \in Nat
    <2>0. 1 \in Int /\ k - 1 \in Int /\ (IF 1 > k - 1 THEN 0 ELSE (k - 1) - 1 + 1) = k - 1
      BY <1>1
    <2>1. IsFiniteSet(1..(k - 1)) /\ Cardinality(1..(k - 1)) = k - 1
      BY <2>0, FS_Interval
    <2>. HIDE DEF at, up
    <2>. QED  BY <1>5, <2>1, FS_Injection, FS_CardinalityType
  <1>7. \A j \in 1..k : j \in 1..Len(s) /\ s[j].who \in upTo
    BY <1>1 DEF AtLeast
  <1>8. who \in Injection(1..k, upTo)
    BY <1>1, <1>7 DEF Injection, IsInjective
  <1>9. k <= Cardinality(upTo)
    <2>0. k \in Int /\ 1 \in Int /\ ~(1 > k) /\ k - 1 + 1 = k
      BY <1>1
    <2>1. Cardinality(1..k) = k
      BY <2>0, FS_Interval
    <2>. HIDE DEF who, upTo
    <2>. QED  BY <1>2, <1>8, <2>1, FS_Injection
  <1>. QED  BY <1>1, <1>6, <1>9

(* Whatever was played, a list of the rows has one entry for each.         *)
LEMMA ListLength ==
  ASSUME NEW b \in Board, NEW s \in Ordered(Rows(b))
  PROVE  /\ s \in Seq(Rows(b)) /\ Len(s) \in Nat
         /\ Len(s) = IF Played(b) = {} THEN 1 ELSE Cardinality(Played(b))
         /\ Cardinality(Played(b)) <= Len(s)
  <1>1. CASE Played(b) # {}
    BY <1>1, Listed, ScoresAreInts
  <1>2. CASE Played(b) = {}
    <2>1. Cardinality(Rows(b)) = 1
      BY <1>2, FS_Singleton DEF Rows
    <2>2. s \in [1..1 -> Rows(b)]
      BY <2>1 DEF Ordered, SetToSeqs
    <2>3. Cardinality(Played(b)) = 0
      BY <1>2, FS_EmptySet
    <2>4. s \in Seq(Rows(b)) /\ Len(s) = 1
      BY <2>2
    <2>. QED  BY <1>2, <2>3, <2>4
  <1>. QED  BY <1>1, <1>2

(* Every row is a leader, or the one that stands for nobody.               *)
LEMMA RowsAreLeaders ==
  ASSUME NEW b \in Board PROVE Rows(b) \subseteq Leader
  <1>1. 0 \in Score
    BY GamesAssumption DEF Score
  <1>2. \A p \in Played(b) : p \in Player /\ b[p] \in Score
    BY ScoresAreInts
  <1>. QED  BY <1>1, <1>2 DEF Rows, Leader

(* OFFSET and LIMIT: which entries a window shows, and how many.           *)
WindowSize(len, limit, offset) ==
  IF offset >= len THEN 0 ELSE IF limit <= len - offset THEN limit ELSE len - offset

LEMMA WindowShows ==
  ASSUME NEW S, NEW s \in Seq(S), NEW limit \in Nat, NEW offset \in Nat
  PROVE  LET w == Window(s, limit, offset) IN
         /\ w \in Seq(S) /\ Len(w) = WindowSize(Len(s), limit, offset)
         /\ \A i \in 1..Len(w) : offset + i \in 1..Len(s) /\ w[i] = s[offset + i]
  <1>. DEFINE first == offset + 1
              last == Min({offset + limit, Len(s)})
              size == WindowSize(Len(s), limit, offset)
  <1>1. Len(s) \in Nat /\ \A i \in 1..Len(s) : s[i] \in S
    BY LenProperties, ElementOfSeq
  <1>2. last = IF offset + limit <= Len(s) THEN offset + limit ELSE Len(s)
    BY <1>1, MinOfTwo
  <1>. HIDE DEF last
  <1>3. /\ first \in Int /\ last \in Int
        /\ \A i \in first..last : i \in 1..Len(s)
        /\ (IF first <= last THEN last - first + 1 ELSE 0) = size
        /\ \A i \in 1..size : /\ i \in 1..(last - first + 1)
                              /\ first + i - 1 = offset + i /\ offset + i \in 1..Len(s)
    BY <1>1, <1>2 DEF WindowSize
  <1>. HIDE DEF size
  <1>4. /\ SubSeq(s, first, last) \in Seq(S)
        /\ Len(SubSeq(s, first, last)) = size
        /\ \A i \in 1..(last - first + 1) : SubSeq(s, first, last)[i] = s[first + i - 1]
    <2>1. \A i \in first..last : s[i] \in S
      BY <1>1, <1>3
    <2>2. /\ SubSeq(s, first, last) \in Seq(S)
          /\ Len(SubSeq(s, first, last)) = IF first <= last THEN last - first + 1 ELSE 0
          /\ \A i \in 1..(last - first + 1) : SubSeq(s, first, last)[i] = s[first + i - 1]
      BY <2>1, <1>3, SubSeqProperties
    <2>. QED  BY <1>3, <2>2
  <1>5. Window(s, limit, offset) = SubSeq(s, first, last)
    BY DEF Window, last
  <1>. QED  BY <1>3, <1>4, <1>5 DEF size

(* What a page of a board shows, and how long it is.                       *)
LEMMA PageShows ==
  ASSUME NEW r \in Request, FromBoard(r), NEW s \in Ordered(Rows(seen[r])), PageOf(r, s),
         Limit(ask[r]) \in Int, Offset(ask[r]) \in Int
  PROVE  LET page == result[r].page
             size == WindowSize(Len(s), Limit(ask[r]), Offset(ask[r])) IN
         /\ page \in Seq(Rows(seen[r])) /\ Len(page) \in Nat /\ Len(page) <= size
         /\ ~cut[r] => Len(page) = size
         /\ \A i \in 1..Len(page) :
              Offset(ask[r]) + i \in 1..Len(s) /\ page[i] = s[Offset(ask[r]) + i]
  <1>. DEFINE S == Rows(seen[r])
              limit == Limit(ask[r])
              offset == Offset(ask[r])
              w == Window(s, limit, offset)
  <1>1. limit \in Nat /\ offset \in Nat /\ seen[r] \in Board
    BY DEF FromBoard
  <1>2. s \in Seq(S)
    BY <1>1, ListLength
  <1>. HIDE DEF S, limit, offset
  <1>3. /\ w \in Seq(S) /\ Len(w) = WindowSize(Len(s), limit, offset)
        /\ \A i \in 1..Len(w) : offset + i \in 1..Len(s) /\ w[i] = s[offset + i]
    BY <1>1, <1>2, WindowShows
  <1>. HIDE DEF w
  <1>4. PICK n \in 0..Len(w) : result[r].page = SubSeq(w, 1, n) /\ (n < Len(w) => cut[r])
    BY DEF PageOf, w, limit, offset
  <1>5. Len(w) \in Nat /\ \A i \in 1..Len(w) : w[i] \in S
    BY <1>3, LenProperties, ElementOfSeq
  <1>6. /\ n \in Nat /\ n <= Len(w) /\ \A i \in 1..n : i \in 1..Len(w) /\ w[i] \in S
        /\ (IF 1 <= n THEN n - 1 + 1 ELSE 0) = n
        /\ \A i \in 1..n : i \in 1..(n - 1 + 1) /\ 1 + i - 1 = i
    BY <1>5
  <1>7. /\ SubSeq(w, 1, n) \in Seq(S) /\ Len(SubSeq(w, 1, n)) = n
        /\ \A i \in 1..n : SubSeq(w, 1, n)[i] = w[i]
    <2>1. /\ SubSeq(w, 1, n) \in Seq(S)
          /\ Len(SubSeq(w, 1, n)) = IF 1 <= n THEN n - 1 + 1 ELSE 0
          /\ \A i \in 1..(n - 1 + 1) : SubSeq(w, 1, n)[i] = w[1 + i - 1]
      BY <1>6, SubSeqProperties
    <2>. QED  BY <1>6, <2>1
  <1>8. /\ result[r].page \in Seq(S) /\ Len(result[r].page) = n
        /\ \A i \in 1..n : offset + i \in 1..Len(s) /\ result[r].page[i] = s[offset + i]
    BY <1>3, <1>4, <1>6, <1>7
  <1>9. ~cut[r] => n = Len(w)
    BY <1>4, <1>5, <1>6
  <1>. QED  BY <1>3, <1>6, <1>8, <1>9 DEF S, limit, offset
-----------------------------------------------------------------------------
(* Nothing is asked at the start.                                          *)
LEMMA InitIInv == Init => IInv
  <1>. SUFFICES ASSUME Init PROVE IInv
    OBVIOUS
  <1>1. "ok" # None /\ "not_exists" # None
    BY GamesAssumption DEF Result
  <1>2. TypeOK
    BY <1>1 DEF Init, TypeOK, Board
  <1>3. \A r \in Request : RequestOK(r)
    BY <1>1 DEF Init, RequestOK, Got
  <1>. QED  BY <1>2, <1>3 DEF IInv

(* A step is one of a player, or of one request that is not yet answered.  *)
Stays(q) == /\ pc'[q] = pc[q] /\ ask'[q] = ask[q] /\ answer'[q] = answer[q]
            /\ result'[q] = result[q] /\ seen'[q] = seen[q] /\ cut'[q] = cut[q]
RequestStep(r) == \/ Arrive(r) \/ Fails(r) \/ GetGame(r) \/ GetGameList(r)
                  \/ FindGame(r) \/ CountPlayers(r)
                  \/ GetGameLeaderboard(r) \/ EmptyLeaderboard(r)

(* Every step keeps the types, but for what a request is answered.         *)
LEMMA NextTyped ==
  ASSUME IInv, [Next]_vars
  PROVE  /\ score' \in [Game -> Board]
         /\ pc' \in [Request -> {"idle", "asked", "count", "done"}]
         /\ ask' \in [Request -> Ask \cup {None}]
         /\ answer' \in [Request -> Result \cup {None}]
         /\ seen' \in [Request -> Board \cup {None}] /\ cut' \in [Request -> BOOLEAN]
         /\ DOMAIN result' = Request
  <1>1. /\ TypeOK
        /\ \A r \in Request : pc[r] # "idle" => ask[r] \in Ask
        /\ \A r \in Request : pc[r] = "count" => ask[r].slug \in Game
    BY DEF IInv, RequestOK
  <1>. USE <1>1 DEF TypeOK, Answer, At, Result
  <1>2. CASE UNCHANGED vars
    BY <1>2 DEF vars
  <1>3. CASE Play
    <2>1. PICK g \in Game, p \in Player, x \in Score : score' = [score EXCEPT ![g][p] = x]
      BY <1>3 DEF Play
    <2>2. [score[g] EXCEPT ![p] = x] \in Board
      BY DEF Board
    <2>. QED  BY <1>3, <2>1, <2>2 DEF Play
  <1>4. ASSUME NEW r \in Request, RequestStep(r)
        PROVE  /\ score' \in [Game -> Board]
               /\ pc' \in [Request -> {"idle", "asked", "count", "done"}]
               /\ ask' \in [Request -> Ask \cup {None}]
               /\ answer' \in [Request -> Result \cup {None}]
               /\ seen' \in [Request -> Board \cup {None}] /\ cut' \in [Request -> BOOLEAN]
               /\ DOMAIN result' = Request
    <2>1. CASE Arrive(r) \/ Fails(r) \/ GetGame(r) \/ FindGame(r)
      BY <2>1 DEF Arrive, Fails, GetGame, NoSuchGame, FindGame
    <2>2. CASE GetGameList(r)
      <3>1. PICK got \in SUBSET Game : cut' = [cut EXCEPT ![r] = (got # Game)]
        BY <2>2 DEF GetGameList
      <3>2. (got # Game) \in BOOLEAN
        OBVIOUS
      <3>. QED  BY <2>2, <3>1, <3>2 DEF GetGameList
    <2>3. CASE CountPlayers(r)
      BY <2>3 DEF CountPlayers
    <2>4. CASE GetGameLeaderboard(r)
      <3>1. \E x \in BOOLEAN : cut' = [cut EXCEPT ![r] = x]
        <4>1. PICK page, n : cut' = [cut EXCEPT ![r] = (n < Len(page))]
          BY <2>4 DEF GetGameLeaderboard
        <4>2. (n < Len(page)) \in BOOLEAN
          OBVIOUS
        <4>. QED  BY <4>1, <4>2
      <3>. QED  BY <2>4, <3>1 DEF GetGameLeaderboard, Leaders
    <2>5. CASE EmptyLeaderboard(r)
      BY <2>5 DEF EmptyLeaderboard, Leaders
    <2>. QED  BY <1>4, <2>1, <2>2, <2>3, <2>4, <2>5 DEF RequestStep
  <1>. QED  BY <1>2, <1>3, <1>4 DEF Next, RequestStep

(* What a request knows is its own, and an answer stands.                  *)
LEMMA OneMoves ==
  ASSUME TypeOK, [Next]_vars, NEW q \in Request
  PROVE  Stays(q) \/ RequestStep(q)
  <1>. USE DEF TypeOK, Stays, Answer
  <1>1. CASE UNCHANGED vars \/ Play
    BY <1>1 DEF vars, Play
  <1>2. ASSUME NEW r \in Request, r # q, RequestStep(r) PROVE Stays(q)
    <2>1. CASE Arrive(r) \/ Fails(r) \/ GetGame(r) \/ FindGame(r)
      BY <1>2, <2>1 DEF Arrive, Fails, GetGame, NoSuchGame, FindGame
    <2>2. CASE GetGameList(r) \/ CountPlayers(r)
      BY <1>2, <2>2 DEF GetGameList, CountPlayers
    <2>3. CASE GetGameLeaderboard(r) \/ EmptyLeaderboard(r)
      BY <1>2, <2>3 DEF GetGameLeaderboard, EmptyLeaderboard, Leaders
    <2>. QED  BY <1>2, <2>1, <2>2, <2>3 DEF RequestStep
  <1>. QED  BY <1>1, <1>2 DEF Next, RequestStep

(* What Limit and Offset ask for are integers.                             *)
LEMMA AskedInts ==
  ASSUME NEW a \in Ask PROVE Limit(a) \in Int /\ Offset(a) \in Int
  <1>1. a.limit \in Int \cup {None} /\ a.offset \in Int \cup {None}
    BY GamesAssumption DEF Ask
  <1>. QED  BY <1>1 DEF Limit, Offset, Atoi

(* What a request is answered is what it asked for, of the board it saw.   *)
LEMMA NextRequestOK ==
  ASSUME IInv, [Next]_vars, NEW r \in Request
  PROVE  RequestOK(r)'
  <1>1. TypeOK /\ RequestOK(r)
    BY DEF IInv
  <1>2. /\ "ok" # None /\ "not_exists" # None /\ "error" # None
    BY GamesAssumption DEF Result
  <1>3. CASE Stays(r)
    <2>1. FromBoard(r) => FromBoard(r)'
      BY <1>3 DEF Stays, FromBoard, PageOf
    <2>. QED  BY <1>1, <1>3, <2>1 DEF Stays, RequestOK, Got
  <1>4. CASE RequestStep(r)
    <2>. USE <1>1, <1>2 DEF TypeOK, RequestOK, Got, Answer, At
    <2>1. CASE Arrive(r)
      BY <2>1 DEF Arrive
    <2>2. CASE Fails(r)
      BY <2>2 DEF Fails
    <2>3. CASE GetGame(r) \/ FindGame(r)
      BY <2>3 DEF GetGame, FindGame, NoSuchGame
    <2>4. CASE GetGameList(r)
      BY <2>4 DEF GetGameList
    <2>5. CASE CountPlayers(r)
      <3>1. score[ask[r].slug] \in Board /\ ask[r].slug \in Game
        BY <2>5 DEF CountPlayers
      <3>. QED  BY <2>5, <3>1 DEF CountPlayers
    <2>6. CASE GetGameLeaderboard(r)
      <3>1. /\ ask[r] \in Ask /\ ask[r].to = "leaders" /\ ask[r].slug \in Game /\ ask' = ask
            /\ Limit(ask[r]) >= 0 /\ Offset(ask[r]) >= 0
            /\ seen'[r] = score[ask[r].slug] /\ score[ask[r].slug] \in Board /\ pc'[r] = "done"
        BY <2>6 DEF GetGameLeaderboard, Leaders
      <3>2. PICK s \in Ordered(Rows(score[ask[r].slug])) :
              LET page == Window(s, Limit(ask[r]), Offset(ask[r])) IN
                \E n \in 0..Len(page) :
                  /\ Leaders(r, SubSeq(page, 1, n))
                  /\ cut' = [cut EXCEPT ![r] = (n < Len(page))]
        BY <2>6 DEF GetGameLeaderboard
      <3>. DEFINE page == Window(s, Limit(ask[r]), Offset(ask[r]))
      <3>3. PICK n \in 0..Len(page) : /\ Leaders(r, SubSeq(page, 1, n))
                                      /\ cut' = [cut EXCEPT ![r] = (n < Len(page))]
        BY <3>2
      <3>4. /\ result'[r].page = SubSeq(page, 1, n)
            /\ answer'[r] = IF SubSeq(page, 1, n) = <<>> THEN "not_exists" ELSE "ok"
        BY <3>3 DEF Leaders
      <3>5. cut'[r] = (n < Len(page))
        BY <3>3
      <3>6. PageOf(r, s)'
        BY <3>1, <3>3, <3>4, <3>5 DEF PageOf
      <3>7. s \in Ordered(Rows(seen'[r]))
        BY <3>1
      <3>8. FromBoard(r)'
        <4>. HIDE DEF page
        <4>. QED  BY <3>1, <3>4, <3>6, <3>7 DEF FromBoard
      <3>9. answer'[r] # None /\ ask'[r].to # "count"
        BY <3>1, <3>4
      <3>. HIDE DEF page
      <3>. QED  BY <3>1, <3>8, <3>9
    <2>7. CASE EmptyLeaderboard(r)
      BY <2>7 DEF EmptyLeaderboard, Leaders
    <2>. QED  BY <1>4, <2>1, <2>2, <2>3, <2>4, <2>5, <2>6, <2>7 DEF RequestStep
  <1>. QED  BY <1>1, <1>3, <1>4, OneMoves

(* A count is one of the players, a page one of leaders.                   *)
LEMMA AnswersTyped ==
  ASSUME NEW r \in Request, RequestOK(r), answer[r] = "ok", pc[r] = "done"
  PROVE  /\ ask[r] \in Ask
         /\ ask[r].to = "count" => result[r].count \in 0..Cardinality(Player)
         /\ ask[r].to = "leaders" => result[r].page \in Seq(Leader) \ {<<>>}
  <1>1. ask[r] \in Ask
    BY DEF RequestOK
  <1>2. ASSUME ask[r].to = "count" PROVE result[r].count \in 0..Cardinality(Player)
    <2>1. seen[r] \in Board /\ result[r].count = Cardinality(Played(seen[r]))
      BY <1>2 DEF RequestOK, Got
    <2>2. /\ Cardinality(Played(seen[r])) <= Cardinality(Player) /\ Cardinality(Player) \in Nat
          /\ Cardinality(Played(seen[r])) \in Nat
      BY <2>1, ScoresAreInts, GamesAssumption, FS_Subset, FS_CardinalityType
    <2>. QED  BY <2>1, <2>2
  <1>3. ASSUME ask[r].to = "leaders" PROVE result[r].page \in Seq(Leader) \ {<<>>}
    <2>1. FromBoard(r)
      BY <1>3 DEF RequestOK
    <2>2. PICK s \in Ordered(Rows(seen[r])) : PageOf(r, s)
      BY <2>1 DEF FromBoard
    <2>3. result[r].page \in Seq(Rows(seen[r])) /\ seen[r] \in Board
      BY <1>1, <2>1, <2>2, AskedInts, PageShows DEF FromBoard
    <2>4. result[r].page # <<>>
      BY <2>1 DEF FromBoard
    <2>. QED  BY <2>3, <2>4, RowsAreLeaders
  <1>. QED  BY <1>1, <1>2, <1>3

(* The invariant is inductive.                                             *)
LEMMA NextIInv == IInv /\ [Next]_vars => IInv'
<1>. SUFFICES ASSUME IInv, [Next]_vars PROVE IInv'
  OBVIOUS
<1>1. \A r \in Request : RequestOK(r)'
  BY NextRequestOK
<1>2. ASSUME NEW r \in Request, answer'[r] = "ok"
      PROVE  CASE ask'[r].to = "game" -> result'[r].game \in Game
               [] ask'[r].to = "list" -> result'[r].list \subseteq Game
               [] ask'[r].to = "count" -> result'[r].count \in 0..Cardinality(Player)
               [] ask'[r].to = "leaders" -> result'[r].page \in Seq(Leader) \ {<<>>}
  <2>1. "ok" # None
    BY GamesAssumption DEF Result
  <2>2. /\ ask'[r] \in Ask
        /\ ask'[r].to = "count" => result'[r].count \in 0..Cardinality(Player)
        /\ ask'[r].to = "leaders" => result'[r].page \in Seq(Leader) \ {<<>>}
    <3>1. RequestOK(r)' /\ answer'[r] = "ok" /\ pc'[r] = "done"
      BY <1>1, <1>2, <2>1 DEF RequestOK
    <3>2. (RequestOK(r) /\ answer[r] = "ok" /\ pc[r] = "done" =>
            /\ ask[r] \in Ask
            /\ ask[r].to = "count" => result[r].count \in 0..Cardinality(Player)
            /\ ask[r].to = "leaders" => result[r].page \in Seq(Leader) \ {<<>>})'
      BY AnswersTyped, PTL
    <3>. QED  BY <3>1, <3>2
  <2>3. ask'[r].to \in {"game", "list", "count", "leaders"}
    BY <2>2 DEF Ask
  <2>4. /\ ask'[r].to = "game" => result'[r].game \in Game
        /\ ask'[r].to = "list" => result'[r].list \subseteq Game
    <3>1. CASE Stays(r)
      BY <1>2, <2>1, <3>1 DEF IInv, TypeOK, Stays, RequestOK
    <3>2. CASE GetGame(r)
      BY <1>2, <2>1, <3>2 DEF IInv, TypeOK, GetGame, NoSuchGame, Answer, At
    <3>3. CASE GetGameList(r)
      BY <1>2, <2>1, <3>3 DEF IInv, TypeOK, GetGameList, Answer, At
    <3>4. CASE Arrive(r) \/ Fails(r) \/ FindGame(r)
      BY <1>2, <2>1, <3>4 DEF IInv, TypeOK, RequestOK, Arrive, Fails, FindGame, NoSuchGame, Answer, At
    <3>5. CASE CountPlayers(r) \/ GetGameLeaderboard(r) \/ EmptyLeaderboard(r)
      BY <1>2, <2>1, <3>5 DEF IInv, TypeOK, CountPlayers, GetGameLeaderboard, EmptyLeaderboard, Leaders,
         Answer, At
    <3>. QED  BY <3>1, <3>2, <3>3, <3>4, <3>5, OneMoves DEF IInv, RequestStep
  <2>. QED  BY <2>2, <2>3, <2>4
<1>. QED  BY <1>1, <1>2, NextTyped DEF IInv, TypeOK

(* What the requests were answered is true of the boards they saw.         *)
THEOREM GamesInvariant == Spec => []IInv
<1>. QED  BY InitIInv, NextIInv, PTL DEF Spec

(* Every variable keeps its type, and so does every answer.                *)
THEOREM TypeCorrect == Spec => []TypeOK
<1>1. IInv => TypeOK
  BY DEF IInv
<1>. QED  BY <1>1, GamesInvariant, PTL
-----------------------------------------------------------------------------
(* A leaderboard that is sent has a list of its board behind it.           *)
LEMMA PageSent ==
  ASSUME IInv, NEW r \in Request, Got(r, "leaders")
  PROVE  /\ FromBoard(r) /\ seen[r] \in Board /\ result[r].page \in Seq(Leader)
         /\ Limit(ask[r]) \in Nat /\ Offset(ask[r]) \in Nat
  <1>1. /\ TypeOK /\ RequestOK(r) /\ answer[r] = "ok" /\ ask[r].to = "leaders"
    BY DEF IInv, Got
  <1>2. FromBoard(r) /\ ask[r] \in Ask
    <2>1. "ok" # None
      BY GamesAssumption DEF Result
    <2>. QED  BY <1>1, <2>1 DEF RequestOK
  <1>3. Limit(ask[r]) \in Int /\ Offset(ask[r]) \in Int
    BY <1>2, AskedInts
  <1>4. result[r].page \in Seq(Leader)
    BY <1>1 DEF TypeOK
  <1>. QED  BY <1>2, <1>3, <1>4 DEF FromBoard

(* The board of a game somebody has played: who is untied has one place.   *)
LEMMA UntiedPlace ==
  ASSUME NEW b \in Board, Played(b) # {}, NEW s \in Ordered(Rows(b)), NEW k \in 1..Len(s),
         ~ \E o \in Player \ {s[k].who} : b[o] = b[s[k].who]
  PROVE  k = Cardinality(Better(b, b[s[k].who])) + 1
  <1>. DEFINE p == s[k].who
              up == Better(b, b[p])
              upTo == AtLeast(b, b[p])
  <1>1. p \in Played(b) /\ s[k].score = b[p] /\ b[p] \in Int /\ k \in Int
    BY Listed, ScoresAreInts
  <1>2. up \subseteq Played(b) /\ IsFiniteSet(up) /\ Cardinality(up) \in Nat
    BY ScoresAreInts, FS_Subset, FS_CardinalityType DEF Better
  <1>3. upTo = up \cup {p} /\ p \notin up
    <2>1. \A o \in Played(b) : o \in Player /\ b[o] \in Int
      BY ScoresAreInts
    <2>2. \A o \in Played(b) : b[o] >= b[p] <=> b[o] > b[p] \/ o = p
      BY <1>1, <2>1
    <2>3. ~(b[p] > b[p])
      BY <1>1
    <2>. HIDE DEF p
    <2>. QED  BY <1>1, <2>2, <2>3 DEF Better, AtLeast
  <1>4. Cardinality(upTo) = Cardinality(up) + 1
    BY <1>2, <1>3, FS_AddElement
  <1>5. Cardinality(up) < k /\ k <= Cardinality(upTo)
    BY <1>1, Position
  <1>. QED  BY <1>1, <1>2, <1>4, <1>5

(* The list behind a page gives its leaders their ranks.                   *)
LEMMA RanksFollow == IInv => PageRanks
<1>1. ASSUME IInv, NEW r \in Request, Got(r, "leaders"), NEW i \in DOMAIN result[r].page
      PROVE  LET l == result[r].page[i]
                 rank == Offset(ask[r]) + i
             IN IF l.who = None
                  THEN rank = 1 /\ Played(seen[r]) = {}
                  ELSE /\ l.who \in Played(seen[r]) /\ l.score = seen[r][l.who]
                       /\ Cardinality(Better(seen[r], l.score)) < rank
                       /\ rank <= Cardinality(AtLeast(seen[r], l.score))
  <2>. DEFINE b == seen[r]
              rank == Offset(ask[r]) + i
  <2>1. /\ FromBoard(r) /\ b \in Board /\ result[r].page \in Seq(Leader)
        /\ Limit(ask[r]) \in Nat /\ Offset(ask[r]) \in Nat
    BY <1>1, PageSent
  <2>2. PICK s \in Ordered(Rows(b)) : PageOf(r, s)
    BY <2>1 DEF FromBoard
  <2>3. i \in 1..Len(result[r].page)
    BY <1>1, <2>1
  <2>4. rank \in 1..Len(s) /\ result[r].page[i] = s[rank]
    BY <2>1, <2>2, <2>3, PageShows
  <2>. HIDE DEF rank, b
  <2>5. CASE Played(b) = {}
    <3>1. s \in Seq(Rows(b)) /\ Len(s) = 1 /\ Rows(b) = {[who |-> None, score |-> 0]}
      BY <2>1, <2>5, ListLength DEF Rows
    <3>2. rank = 1 /\ s[rank].who = None
      BY <2>4, <3>1, ElementOfSeq
    <3>. QED  BY <2>4, <2>5, <3>2 DEF rank, b
  <2>6. CASE Played(b) # {}
    <3>1. s[rank].who \in Played(b) /\ s[rank].score = b[s[rank].who]
      BY <2>1, <2>4, <2>6, Listed
    <3>2. s[rank].who # None
      BY <3>1, GamesAssumption DEF Played
    <3>3. /\ Cardinality(Better(b, s[rank].score)) < rank
          /\ rank <= Cardinality(AtLeast(b, s[rank].score))
      BY <2>1, <2>4, <2>6, Position
    <3>. QED  BY <2>4, <3>1, <3>2, <3>3 DEF rank, b
  <2>. QED  BY <2>5, <2>6
<1>. QED  BY <1>1 DEF PageRanks

(* game_model.go:66-126, game_handle.go:78-85: a leader stands where the   *)
(* scores put him, whatever the limit, the offset and the ties.            *)
THEOREM RanksAreTrue == Spec => []PageRanks
<1>. QED  BY RanksFollow, GamesInvariant, PTL

(* The whole window of a board that has been played shows the untied       *)
(* players whose rank is in it, and no others that are untied.             *)
LEMMA PageCovers ==
  ASSUME IInv, NEW r \in Request, Got(r, "leaders"), ~cut[r], Played(seen[r]) # {},
         NEW p \in Played(seen[r]), ~ \E o \in Player \ {p} : seen[r][o] = seen[r][p]
  PROVE  LET rank == Cardinality(Better(seen[r], seen[r][p])) + 1 IN
         /\ rank \in Nat
         /\ p \in {result[r].page[i].who : i \in DOMAIN result[r].page} <=>
              Offset(ask[r]) < rank /\ rank <= Offset(ask[r]) + Limit(ask[r])
  <1>. DEFINE b == seen[r]
              page == result[r].page
              limit == Limit(ask[r])
              offset == Offset(ask[r])
              rank == Cardinality(Better(b, b[p])) + 1
  <1>1. FromBoard(r) /\ b \in Board /\ page \in Seq(Leader) /\ limit \in Nat /\ offset \in Nat
    BY PageSent
  <1>2. PICK s \in Ordered(Rows(b)) : PageOf(r, s)
    BY <1>1 DEF FromBoard
  <1>3. /\ Len(page) = WindowSize(Len(s), limit, offset)
        /\ \A i \in 1..Len(page) : offset + i \in 1..Len(s) /\ page[i] = s[offset + i]
    BY <1>1, <1>2, PageShows
  <1>4. PICK k \in 1..Len(s) : s[k].who = p
    BY <1>1, Listed
  <1>5. \A j \in 1..Len(s) : s[j].who = p => j = k
    BY <1>1, <1>4, Listed
  <1>6. k = rank /\ Len(s) \in Nat
    BY <1>1, <1>4, UntiedPlace, ListLength
  <1>7. DOMAIN page = 1..Len(page) /\ Len(page) \in Nat
    BY <1>1
  <1>. HIDE DEF b, page, limit, offset, rank
  <1>8. (\E i \in 1..Len(page) : offset + i = k) <=> offset < k /\ k <= offset + limit
    <2>1. ASSUME NEW i \in 1..Len(page), offset + i = k PROVE offset < k /\ k <= offset + limit
      BY <1>1, <1>3, <1>6, <1>7, <2>1 DEF WindowSize
    <2>2. ASSUME offset < k, k <= offset + limit PROVE k - offset \in 1..Len(page) /\ offset + (k - offset) = k
      BY <1>1, <1>3, <1>6, <2>2 DEF WindowSize
    <2>. QED  BY <2>1, <2>2
  <1>9. (\E i \in 1..Len(page) : page[i].who = p) <=> (\E i \in 1..Len(page) : offset + i = k)
    BY <1>3, <1>4, <1>5
  <1>10. p \in {page[i].who : i \in DOMAIN page} <=> (\E i \in 1..Len(page) : page[i].who = p)
    BY <1>7
  <1>11. rank \in Nat
    BY <1>6
  <1>. QED  BY <1>6, <1>8, <1>9, <1>10, <1>11 DEF b, page, limit, offset, rank

(* game_handle.go:78-85: while the table stays as it is, two pages in a    *)
(* row neither skip nor repeat anybody who is not tied.                    *)
THEOREM PagesFitTogether == Spec => []PagesTile
<1>1. ASSUME IInv, NEW r \in Request, NEW q \in Request,
             Got(r, "leaders"), Got(q, "leaders"), ~cut[r], ~cut[q],
             seen[r] = seen[q], Played(seen[r]) # {},
             Offset(ask[r]) = 0, Offset(ask[q]) = Limit(ask[r])
      PROVE  LET b == seen[r]
                 On(x) == {result[x].page[i].who : i \in DOMAIN result[x].page}
                 Tied(p) == \E o \in Player \ {p} : b[o] = b[p]
             IN /\ \A p \in On(r) \cap On(q) : Tied(p)
                /\ \A p \in Played(b) :
                     Cardinality(Better(b, b[p])) < Limit(ask[r]) + Limit(ask[q]) =>
                       Tied(p) \/ p \in On(r) \cup On(q)
  <2>. DEFINE b == seen[r]
              On(x) == {result[x].page[i].who : i \in DOMAIN result[x].page}
              Tied(p) == \E o \in Player \ {p} : b[o] = b[p]
              Rank(p) == Cardinality(Better(b, b[p])) + 1
              limit == Limit(ask[r])
              more == Limit(ask[q])
  <2>1. limit \in Nat /\ more \in Nat /\ b \in Board
    BY <1>1, PageSent
  <2>2. On(r) \subseteq Played(b)
    <3>. SUFFICES ASSUME NEW i \in DOMAIN result[r].page PROVE result[r].page[i].who \in Played(b)
      OBVIOUS
    <3>1. PageRanks
      BY <1>1, RanksFollow
    <3>. QED  BY <1>1, <3>1 DEF PageRanks
  <2>3. ASSUME NEW p \in Played(b), ~Tied(p)
        PROVE  /\ Cardinality(Better(b, b[p])) \in Nat
               /\ p \in On(r) <=> 0 < Rank(p) /\ Rank(p) <= 0 + limit
               /\ p \in On(q) <=> limit < Rank(p) /\ Rank(p) <= limit + more
    <3>1. Rank(p) \in Nat /\ (p \in On(r) <=> 0 < Rank(p) /\ Rank(p) <= 0 + limit)
      BY <1>1, <2>3, PageCovers
    <3>2. p \in On(q) <=> limit < Rank(p) /\ Rank(p) <= limit + more
      BY <1>1, <2>3, PageCovers
    <3>3. Cardinality(Better(b, b[p])) \in Nat
      <4>1. Better(b, b[p]) \subseteq Played(b)
        BY DEF Better
      <4>. QED  BY <2>1, <4>1, ScoresAreInts, FS_Subset, FS_CardinalityType
    <3>. QED  BY <3>1, <3>2, <3>3
  <2>. HIDE DEF On, Tied, b, limit, more
  <2>4. \A p \in On(r) \cap On(q) : Tied(p)
    BY <2>1, <2>2, <2>3
  <2>5. \A p \in Played(b) :
          Cardinality(Better(b, b[p])) < limit + more => Tied(p) \/ p \in On(r) \cup On(q)
    BY <2>1, <2>3
  <2>. QED  BY <2>4, <2>5 DEF On, Tied, b, limit, more
<1>2. IInv => PagesTile
  BY <1>1 DEF PagesTile
<1>. QED  BY <1>2, GamesInvariant, PTL

(* game_model.go:66-126: a count promises the pages that begin below it,   *)
(* also when more is played before they are asked for.                     *)
THEOREM CountsPromisePages == Spec => []CountThenPage
<1>1. ASSUME IInv, NEW c \in Request, NEW p \in Request,
             Got(c, "count"), ask[p].to = "leaders", ask[p].slug = ask[c].slug,
             pc[p] = "done", answer[p] # "error", ~cut[p],
             Played(seen[c]) \subseteq Played(seen[p]),
             ask[p].limit = None \/ ask[p].limit > 0
      PROVE  /\ Offset(ask[p]) < result[c].count =>
                  answer[p] = "ok" /\ result[p].page[1].who # None
             /\ seen[p] = seen[c] /\ result[c].count = 0 =>
                  (answer[p] = "ok" <=> Offset(ask[p]) = 0)
  <2>. DEFINE b == seen[p]
              page == result[p].page
              limit == Limit(ask[p])
              offset == Offset(ask[p])
              count == result[c].count
  <2>1. /\ TypeOK /\ RequestOK(c) /\ RequestOK(p) /\ "ok" # None
    BY <1>1, GamesAssumption DEF IInv, Result
  <2>2. /\ ask[c].slug \in Game /\ seen[c] \in Board /\ count = Cardinality(Played(seen[c]))
    BY <1>1, <2>1 DEF RequestOK
  <2>3. answer[p] \in {"ok", "not_exists"} /\ ask[p] \in Ask
    BY <1>1, <2>1 DEF RequestOK, TypeOK, Result
  <2>4. FromBoard(p)
    BY <1>1, <2>1, <2>2, <2>3 DEF RequestOK
  <2>5. /\ b \in Board /\ limit \in Nat /\ limit >= 1 /\ offset \in Nat
    <3>1. ask[p].limit \in Int \cup {None}
      BY <2>3, GamesAssumption DEF Ask
    <3>2. limit \in Int /\ offset \in Int
      BY <2>3, AskedInts
    <3>3. limit >= 1
      BY <1>1, <3>1, GamesAssumption DEF Limit, Atoi
    <3>. QED  BY <2>4, <3>2, <3>3 DEF FromBoard
  <2>6. PICK s \in Ordered(Rows(b)) : PageOf(p, s)
    BY <2>4 DEF FromBoard
  <2>7. /\ Len(s) \in Nat /\ Cardinality(Played(b)) <= Len(s)
        /\ Len(s) = IF Played(b) = {} THEN 1 ELSE Cardinality(Played(b))
    BY <2>5, ListLength
  <2>8. /\ Len(page) = WindowSize(Len(s), limit, offset) /\ page \in Seq(Rows(b))
        /\ \A i \in 1..Len(page) : offset + i \in 1..Len(s) /\ page[i] = s[offset + i]
    BY <1>1, <2>4, <2>5, <2>6, PageShows
  <2>9. answer[p] = "ok" <=> page # <<>>
    BY <2>4 DEF FromBoard
  <2>10. page # <<>> <=> offset < Len(s)
    <3>. HIDE DEF page, limit, offset
    <3>1. Len(page) \in Nat /\ (page = <<>> <=> Len(page) = 0)
      BY <2>8, LenProperties, EmptySeq
    <3>. QED  BY <2>5, <2>7, <2>8, <3>1 DEF WindowSize
  <2>11. ASSUME offset < count PROVE answer[p] = "ok" /\ page[1].who # None
    <3>1. /\ count <= Cardinality(Played(b)) /\ count \in Nat /\ Cardinality(Played(b)) \in Nat
      BY <1>1, <2>2, <2>5, ScoresAreInts, FS_Subset
    <3>2. Played(b) # {} /\ offset < Len(s)
      <4>1. Cardinality(Played(b)) # 0
        <5>. HIDE DEF offset, count, b
        <5>. QED  BY <2>5, <2>11, <3>1
      <4>2. Played(b) # {}
        BY <4>1, FS_EmptySet
      <4>3. Len(s) = Cardinality(Played(b))
        BY <2>7, <4>2
      <4>. HIDE DEF offset, count, b
      <4>. QED  BY <2>5, <2>11, <3>1, <4>2, <4>3
    <3>3. 1 \in 1..Len(page)
      <4>. HIDE DEF offset, limit, page
      <4>. QED  BY <2>5, <2>7, <2>8, <3>2 DEF WindowSize
    <3>4. page[1].who \in Played(b)
      <4>1. offset + 1 \in 1..Len(s) /\ page[1] = s[offset + 1]
        BY <2>8, <3>3
      <4>2. s[offset + 1].who \in Played(b)
        BY <2>5, <3>2, <4>1, Listed
      <4>. QED  BY <4>1, <4>2
    <3>. QED  BY <2>9, <2>10, <3>2, <3>4, GamesAssumption DEF Played
  <2>12. ASSUME seen[p] = seen[c], count = 0 PROVE answer[p] = "ok" <=> offset = 0
    <3>1. Played(b) = {}
      BY <2>2, <2>5, <2>12, ScoresAreInts, FS_EmptySet
    <3>2. Len(s) = 1
      BY <2>7, <3>1
    <3>. HIDE DEF offset, page
    <3>. QED  BY <2>5, <2>9, <2>10, <3>2
  <2>. QED  BY <2>11, <2>12
<1>2. IInv => CountThenPage
  BY <1>1 DEF CountThenPage
<1>. QED  BY <1>2, GamesInvariant, PTL
=============================================================================
