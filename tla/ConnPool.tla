------------------------------ MODULE ConnPool ------------------------------
(***************************************************************************)
(* How the handlers use database.Conn, the pgx pool of connections.  A     *)
(* query takes a connection and gives it back; a transaction keeps its own *)
(* from Begin to Commit or Rollback.  Bots.Create reads the game on a      *)
(* second connection while its transaction holds the first.                *)
(***************************************************************************)
EXTENDS Naturals, FiniteSets

CONSTANTS
  Uploads,   \* POST /bots: a read, then a transaction with a read inside
  Txs,       \* one transaction: Users.Create, Users.Save, GetGameTotalPlayersBySlug
  Queries,   \* one query: the other reads, SetBotVerifiedByID
  MaxConn    \* connections of the pool (database.Connect leaves pgx's default: 5)

ASSUME PoolAssumption ==
  /\ Uploads \cap Txs = {} /\ Uploads \cap Queries = {} /\ Txs \cap Queries = {}
  /\ IsFiniteSet(Uploads) /\ IsFiniteSet(Txs) /\ IsFiniteSet(Queries)
  /\ MaxConn \in Nat \ {0}

Request == Uploads \cup Txs \cup Queries

VARIABLES
  free,   \* connections the pool may still hand out
  pc      \* where each request is

vars == <<free, pc>>

(* The stages that wait for a connection, what each becomes with one, and  *)
(* how many connections a request holds in a stage.                        *)
Waiting == {"game?", "tx?", "game2?", "query?"}
Taken(stage) == CASE stage = "game?" -> "game"   [] stage = "tx?" -> "tx"
                  [] stage = "game2?" -> "game2" [] stage = "query?" -> "query"

Held(stage) == CASE stage \in {"game", "tx", "query", "game2?", "insert"} -> 1
                 [] stage = "game2" -> 2
                 [] OTHER -> 0

Init == free = MaxConn /\ pc = [r \in Request |-> "idle"]

GoTo(r, stage) == pc' = [pc EXCEPT ![r] = stage]

(* CreateUser and UpdateUser take a connection twice, one after the other  *)
(* and none while they hold one: each taking counts as a request.          *)
Arrive(r) ==
  /\ pc[r] = "idle"
  /\ GoTo(r, IF r \in Uploads THEN "game?" ELSE IF r \in Txs THEN "tx?" ELSE "query?")
  /\ UNCHANGED free

Acquire(r) ==                                \* waits as long as it takes: no AcquireTimeout
  /\ pc[r] \in Waiting /\ free > 0
  /\ free' = free - 1
  /\ GoTo(r, Taken(pc[r]))

(* GetGameBySlug outside the transaction: its result and its error are     *)
(* no matter here.                                                         *)
GameRead(r) ==
  /\ pc[r] = "game"
  /\ free' = free + 1
  /\ GoTo(r, "tx?")

(* Variant: every transaction reads on a connection of the pool. *)
InsideTx_AllNest(r) ==
  /\ pc[r] = "tx"
  /\ GoTo(r, "game2?")
  /\ UNCHANGED free

(* The transaction of Bots.Create goes for its second connection; the      *)
(* other transactions run their statements on the one they have.           *)
InsideTx(r) ==
  /\ pc[r] = "tx"
  /\ GoTo(r, IF r \in Uploads THEN "game2?" ELSE "insert")
  /\ UNCHANGED free

Game2Read(r) ==
  /\ pc[r] = "game2"
  /\ free' = free + 1
  /\ GoTo(r, "insert")

(* Variant: a row that is not scanned keeps its connection. *)
Finish_RowNotScanned(r) ==
  /\ pc[r] \in {"insert", "query"}
  /\ free' = IF pc[r] = "query" THEN free ELSE free + 1
  /\ GoTo(r, "done")

Finish(r) ==                                 \* Commit, or the row is scanned
  /\ pc[r] \in {"insert", "query"}
  /\ free' = free + 1
  /\ GoTo(r, "done")

(* Variant: no deferred Rollback. *)
Fail_NoRollback(r) ==
  /\ \/ pc[r] \in {"game2", "insert", "query"}
     \/ pc[r] \in Waiting /\ free > 0
  /\ free' = free + Held(pc[r]) - (IF pc[r] \in {"game2", "insert", "game2?"} THEN 1 ELSE 0)
  /\ GoTo(r, IF pc[r] = "game?" THEN "tx?" ELSE "done")

(* A statement fails, or a connection cannot be opened: everything held    *)
(* goes back, by Scan and by the deferred Rollback.  Only the error of the *)
(* first read of the game is dropped (bot_handle.go:46).                   *)
Fail(r) ==
  /\ \/ pc[r] \in {"game2", "insert", "query"}
     \/ pc[r] \in Waiting /\ free > 0
  /\ free' = free + Held(pc[r])
  /\ GoTo(r, IF pc[r] = "game?" THEN "tx?" ELSE "done")

Runs(r) == GameRead(r) \/ InsideTx(r) \/ Game2Read(r) \/ Finish(r)
Next == \E r \in Request : Arrive(r) \/ Acquire(r) \/ Runs(r) \/ Fail(r)

Spec == Init /\ [][Next]_vars

(* Statements end; a released connection wakes a waiter, though a newcomer *)
(* may be quicker.                                                         *)
Fairness == \A r \in Request : WF_vars(Runs(r)) /\ SF_vars(Acquire(r))
FairSpec == Spec /\ Fairness
-----------------------------------------------------------------------------
At(stages) == {r \in Request : pc[r] \in stages}
HoldOne == {"game", "tx", "query", "game2?", "insert"}

(* The type of every variable; an upload alone reads the game, on one      *)
(* connection and then on two.                                             *)
TypeOK ==
  /\ free \in 0..MaxConn
  /\ pc \in [Request -> {"idle", "done"} \cup Waiting \cup HoldOne \cup {"game2"}]
  /\ At({"game?", "game", "game2?", "game2"}) \subseteq Uploads

(* No connection is lost or given back twice, whichever statement of a     *)
(* transaction fails (bot_model.go:53-82, user_model.go:59-83,99-129).     *)
Conserved == free + Cardinality(At(HoldOne)) + 2 * Cardinality(At({"game2"})) = MaxConn

InFlight == At(Waiting \cup HoldOne \cup {"game2"})
CanGoOn(r) == (pc[r] \in Waiting /\ free > 0) \/ pc[r] \in (HoldOne \cup {"game2"}) \ Waiting

(* The handlers never all wait for each other, except when as many uploads *)
(* as the pool has connections have begun their transaction and wait for   *)
(* the connection to read the game on (bot_model.go:53-59).                *)
SomebodyCanGoOn ==
  InFlight # {} => (\E r \in InFlight : CanGoOn(r)) \/ Cardinality(At({"game2?"})) = MaxConn

(* Every request that arrives is answered (bot_test.go:160-171 expects 200 *)
(* of an upload).                                                          *)
Answered == \A r \in Request : pc[r] # "idle" ~> pc[r] = "done"
=============================================================================
