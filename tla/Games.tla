------------------------------- MODULE Games -------------------------------
(***************************************************************************)
(* Games and leaderboards: GetGame, GetGameList, GetGameLeaderboard and    *)
(* GetGameTotalPlayers, concurrent with whoever writes users_games, which  *)
(* no code in src does.  The rows of a query come from the snapshot its    *)
(* statement took, so a query and the loop that reads it are one step.     *)
(***************************************************************************)
EXTENDS Integers, FiniteSets, SequencesExt

CONSTANTS
  Request,    \* HTTP requests
  Slug, Game, \* slugs (CITEXT: up to case), and the games there are
  Player,     \* users
  MaxScore,   \* bound: the scores are 0..MaxScore
  Param,      \* what "limit" and "offset" may be: integers, or None
  None        \* absent or no integer; NULL; no answer yet

Result == {"ok", "not_exists", "error"}

ASSUME GamesAssumption ==
  /\ Game \subseteq Slug
  /\ Param \subseteq Int \cup {None}
  /\ IsFiniteSet(Player) /\ MaxScore \in Nat
  /\ None \notin Int \cup Slug \cup Player \cup Result

Score == 0..MaxScore
Board == [Player -> Score \cup {None}]             \* users_games of one game
Leader == [who : Player \cup {None}, score : Score]
Ask == [to : {"game", "list", "count"}, slug : Slug, limit : {None}, offset : {None}]
         \cup [to : {"leaders"}, slug : Slug, limit : Param, offset : Param]

VARIABLES
  score,      \* the table users_games, by game
  pc,         \* where each request is
  ask,        \* what it asks for
  answer,     \* its Result, None before
  result,     \* what an "ok" carries
  seen,       \* history: the board its statement saw
  cut         \* history: rows.Next ended with an error

vars == <<score, pc, ask, answer, result, seen, cut>>

Init ==
  /\ score = [g \in Game |-> [p \in Player |-> None]]
  /\ pc = [r \in Request |-> "idle"] /\ ask = [r \in Request |-> None]
  /\ answer = [r \in Request |-> None] /\ result = [r \in Request |-> None]
  /\ seen = [r \in Request |-> None] /\ cut = [r \in Request |-> FALSE]

Play ==                                            \* a row is inserted or its score set
  /\ \E r \in Request : pc[r] # "done"              \* bound: nobody would read it any more
  /\ \E g \in Game, p \in Player, s \in Score : score' = [score EXCEPT ![g][p] = s]
  /\ UNCHANGED <<pc, ask, answer, result, seen, cut>>

Arrive(r) ==
  /\ pc[r] = "idle"
  /\ \E a \in Ask : ask' = [ask EXCEPT ![r] = a]
  /\ pc' = [pc EXCEPT ![r] = "asked"]
  /\ UNCHANGED <<score, answer, result, seen, cut>>

At(r, stage, to) == pc[r] = stage /\ ask[r].to = to
Answer(r, a) == pc' = [pc EXCEPT ![r] = "done"] /\ answer' = [answer EXCEPT ![r] = a]

Fails(r) ==                                        \* a statement, a Scan or the Commit
  /\ pc[r] \in {"asked", "count"}
  /\ Answer(r, "error")
  /\ UNCHANGED <<score, ask, result, seen, cut>>
-----------------------------------------------------------------------------
NoSuchGame(r, to) ==                               \* pgx.ErrNoRows
  /\ At(r, "asked", to) /\ ask[r].slug \notin Game
  /\ Answer(r, "not_exists")
  /\ UNCHANGED <<score, ask, result, seen, cut>>

GetGame(r) ==
  \/ NoSuchGame(r, "game")
  \/ /\ At(r, "asked", "game") /\ ask[r].slug \in Game
     /\ Answer(r, "ok")
     /\ result' = [result EXCEPT ![r] = [game |-> ask[r].slug]]
     /\ UNCHANGED <<score, ask, seen, cut>>

(* The error of the rows is not looked at: a list that breaks off is sent. *)
GetGameList(r) ==
  /\ At(r, "asked", "list")
  /\ Answer(r, "ok")
  /\ \E got \in SUBSET Game :
       /\ result' = [result EXCEPT ![r] = [list |-> got]]
       /\ cut' = [cut EXCEPT ![r] = (got # Game)]
  /\ UNCHANGED <<score, ask, seen>>

(* The game and the count are two statements of one transaction (READ      *)
(* COMMITTED).                                                             *)
FindGame(r) ==
  \/ NoSuchGame(r, "count")
  \/ /\ At(r, "asked", "count") /\ ask[r].slug \in Game
     /\ pc' = [pc EXCEPT ![r] = "count"]
     /\ UNCHANGED <<score, ask, answer, result, seen, cut>>

Played(b) == {p \in Player : b[p] # None}

CountPlayers(r) ==
  /\ At(r, "count", "count")
  /\ seen' = [seen EXCEPT ![r] = score[ask[r].slug]]
  /\ result' = [result EXCEPT ![r] = [count |-> Cardinality(Played(score[ask[r].slug]))]]
  /\ Answer(r, "ok")
  /\ UNCHANGED <<score, ask, cut>>
-----------------------------------------------------------------------------
(* strconv.Atoi and the handler's defaults. Variant: its 0 is kept. *)
Atoi_Zero(v, default) == IF v = None THEN 0 ELSE v
Atoi(v, default) == IF v = None THEN default ELSE v

Limit(a) == Atoi(a.limit, 5)
Offset(a) == Atoi(a.offset, 0)

(* users LEFT JOIN users_games RIGHT JOIN games: a row for each user who   *)
(* has played, or one of NULLs, which the handler sends as id 0, score 0.  *)
(* Variant: the users who have not played are in the join.                 *)
Rows_AllUsers(b) ==
  {[who |-> p, score |-> IF b[p] = None THEN 0 ELSE b[p]] : p \in Player}
Rows(b) == IF Played(b) = {} THEN {[who |-> None, score |-> 0]}
           ELSE {[who |-> p, score |-> b[p]] : p \in Played(b)}

(* ORDER BY score DESC: equal scores come in any order. Variant: ascending.*)
Ordered_Ascending(rows) ==
  {s \in SetToSeqs(rows) : \A i, j \in DOMAIN s : i < j => s[i].score <= s[j].score}
Ordered(rows) ==
  {s \in SetToSeqs(rows) : \A i, j \in DOMAIN s : i < j => s[i].score >= s[j].score}

(* OFFSET $2 LIMIT $3. Variant: LIMIT counts from the first row.    *)
Window_ToLimit(s, limit, offset) == SubSeq(s, offset + 1, Min({limit, Len(s)}))
Window(s, limit, offset) == SubSeq(s, offset + 1, Min({offset + limit, Len(s)}))

(* GetGameLeaderboardBySlug answers ErrNotExists when it has no leaders.   *)
(* Variant: an empty page is sent.                                         *)
Leaders_Empty(r, page) ==
  /\ Answer(r, "ok")
  /\ result' = [result EXCEPT ![r] = [page |-> page]]
  /\ UNCHANGED <<score, ask>>

Leaders(r, page) ==
  /\ Answer(r, IF page = <<>> THEN "not_exists" ELSE "ok")
  /\ result' = [result EXCEPT ![r] = [page |-> page]]
  /\ UNCHANGED <<score, ask>>

GetGameLeaderboard(r) ==
  /\ At(r, "asked", "leaders") /\ ask[r].slug \in Game
  /\ Limit(ask[r]) >= 0 /\ Offset(ask[r]) >= 0
  /\ seen' = [seen EXCEPT ![r] = score[ask[r].slug]]
  /\ \E s \in Ordered(Rows(score[ask[r].slug])) :
       LET page == Window(s, Limit(ask[r]), Offset(ask[r])) IN
         \E n \in 0..Len(page) :                   \* n < Len(page): rows.Err is not looked at
           /\ Leaders(r, SubSeq(page, 1, n))
           /\ cut' = [cut EXCEPT ![r] = (n < Len(page))]

(* No row has the slug; or LIMIT and OFFSET must not be negative, which    *)
(* Postgres says when it executes the statement, so that rows.Next is      *)
(* false at once and the answer is "not exists" too.                       *)
EmptyLeaderboard(r) ==
  /\ At(r, "asked", "leaders")
  /\ \/ ask[r].slug \notin Game /\ UNCHANGED cut
     \/ /\ Limit(ask[r]) < 0 \/ Offset(ask[r]) < 0
        /\ cut' = [cut EXCEPT ![r] = TRUE]
  /\ Leaders(r, <<>>)
  /\ UNCHANGED seen

Next ==
  \/ Play
  \/ \E r \in Request :
       \/ Arrive(r) \/ Fails(r) \/ GetGame(r) \/ GetGameList(r)
       \/ FindGame(r) \/ CountPlayers(r)
       \/ GetGameLeaderboard(r) \/ EmptyLeaderboard(r)

Spec == Init /\ [][Next]_vars
-----------------------------------------------------------------------------
(* The type of every variable. *)
TypeOK ==
  /\ score \in [Game -> Board]
  /\ pc \in [Request -> {"idle", "asked", "count", "done"}]
  /\ ask \in [Request -> Ask \cup {None}]
  /\ answer \in [Request -> Result \cup {None}]
  /\ seen \in [Request -> Board \cup {None}] /\ cut \in [Request -> BOOLEAN]
  /\ DOMAIN result = Request
  /\ \A r \in Request : answer[r] = "ok" =>
       CASE ask[r].to = "game" -> result[r].game \in Game
         [] ask[r].to = "list" -> result[r].list \subseteq Game
         [] ask[r].to = "count" -> result[r].count \in 0..Cardinality(Player)
         [] ask[r].to = "leaders" -> result[r].page \in Seq(Leader) \ {<<>>}

Got(r, to) == answer[r] = "ok" /\ ask[r].to = to
Better(b, s) == {p \in Played(b) : b[p] > s}
AtLeast(b, s) == {p \in Played(b) : b[p] >= s}

(* The i-th leader of a page has a rank that the scores give him: before   *)
(* him, on this page and the ones skipped, is everybody who is better and  *)
(* nobody who is worse. A leader that is nobody (id 0) stands only in the  *)
(* board of a game nobody has played (game_model.go:100-103).              *)
PageRanks ==
  \A r \in Request : Got(r, "leaders") =>
    \A i \in DOMAIN result[r].page :
      LET l == result[r].page[i]
          rank == Offset(ask[r]) + i
      IN IF l.who = None
           THEN rank = 1 /\ Played(seen[r]) = {}
           ELSE /\ l.who \in Played(seen[r]) /\ l.score = seen[r][l.who]
                /\ Cardinality(Better(seen[r], l.score)) < rank
                /\ rank <= Cardinality(AtLeast(seen[r], l.score))

(* Two pages of one game, the second asked for where the first ends: while *)
(* the table is as it was, nobody is on both unless he is tied with        *)
(* another player, and every player ranked before the end of the second    *)
(* without a tie is on one of them (game_handle.go:78-85).                 *)
PagesTile ==
  \A r, q \in Request :
    /\ Got(r, "leaders") /\ Got(q, "leaders") /\ ~cut[r] /\ ~cut[q]
    /\ ask[r].slug = ask[q].slug /\ seen[r] = seen[q] /\ Played(seen[r]) # {}
    /\ Offset(ask[r]) = 0 /\ Offset(ask[q]) = Limit(ask[r])
    => LET b == seen[r]
           On(x) == {result[x].page[i].who : i \in DOMAIN result[x].page}
           Tied(p) == \E o \in Player \ {p} : b[o] = b[p]
       IN /\ \A p \in On(r) \cap On(q) : Tied(p)
          /\ \A p \in Played(b) :
               Cardinality(Better(b, b[p])) < Limit(ask[r]) + Limit(ask[q]) =>
                 Tied(p) \/ p \in On(r) \cup On(q)

(* Who has been told that a game has n players and then asks for leaders   *)
(* from an offset below n gets some, whatever is played in between, unless *)
(* the database fails; and if n is 0 the first page is one nobody          *)
(* (game_model.go:66-126).                                                 *)
CountThenPage ==
  \A c, p \in Request :
    /\ Got(c, "count") /\ ask[p] # None /\ ask[p].to = "leaders" /\ ask[p].slug = ask[c].slug
    /\ pc[p] = "done" /\ answer[p] # "error" /\ ~cut[p]
    /\ Played(seen[c]) \subseteq Played(seen[p])
    /\ ask[p].limit = None \/ ask[p].limit > 0
    => /\ Offset(ask[p]) < result[c].count =>
            answer[p] = "ok" /\ result[p].page[1].who # None
       /\ seen[p] = seen[c] /\ result[c].count = 0 =>
            (answer[p] = "ok" <=> Offset(ask[p]) = 0)

(* What a request was answered: a count is that of the board its statement *)
(* saw; a page is a start of the window of that board it asked for, in an  *)
(* order the scores give, and the whole of it unless the rows broke off.   *)
PageOf(r, s) ==
  LET page == Window(s, Limit(ask[r]), Offset(ask[r])) IN
    \E n \in 0..Len(page) : result[r].page = SubSeq(page, 1, n) /\ (n < Len(page) => cut[r])
FromBoard(r) ==
  /\ ask[r].slug \in Game /\ seen[r] \in Board
  /\ Limit(ask[r]) >= 0 /\ Offset(ask[r]) >= 0
  /\ \E s \in Ordered(Rows(seen[r])) : PageOf(r, s)
  /\ answer[r] = IF result[r].page = <<>> THEN "not_exists" ELSE "ok"
RequestOK(r) ==
  /\ pc[r] # "idle" => ask[r] \in Ask
  /\ pc[r] = "count" => ask[r].to = "count" /\ ask[r].slug \in Game
  /\ answer[r] # None <=> pc[r] = "done"
  /\ Got(r, "count") =>
       /\ ask[r].slug \in Game /\ seen[r] \in Board
       /\ result[r].count = Cardinality(Played(seen[r]))
  /\ answer[r] \in {"ok", "not_exists"} /\ ask[r].to = "leaders" =>
       FromBoard(r) \/ (answer[r] = "not_exists" /\ (cut[r] \/ ask[r].slug \notin Game))

IInv == TypeOK /\ \A r \in Request : RequestOK(r)
=============================================================================
