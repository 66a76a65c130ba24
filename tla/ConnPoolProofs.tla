--------------------------- MODULE ConnPoolProofs ---------------------------
(***************************************************************************)
(* The pool loses no connection and, with fewer uploads than connections,  *)
(* its users never all wait for each other, for any sets of requests.      *)
(***************************************************************************)
EXTENDS ConnPool, FiniteSetTheorems, TLAPS

Stages == {"idle", "done"} \cup Waiting \cup HoldOne \cup {"game2"}

LEMMA RequestFinite == IsFiniteSet(Request)
  BY PoolAssumption, FS_Union DEF Request

LEMMA AtFinite == ASSUME NEW S PROVE IsFiniteSet(At(S)) /\ Cardinality(At(S)) \in Nat
  BY RequestFinite, FS_Subset, FS_CardinalityType DEF At

(* A set has one element more than it has without x, if x is in it.        *)
LEMMA CardWithout ==
  ASSUME NEW S, IsFiniteSet(S), NEW x
  PROVE  Cardinality(S) = Cardinality(S \ {x}) + (IF x \in S THEN 1 ELSE 0)
<1>1. CASE x \in S
  <2>1. Cardinality(S \ {x}) = Cardinality(S) - 1 /\ Cardinality(S) \in Nat
    BY <1>1, FS_RemoveElement, FS_CardinalityType
  <2>. QED  BY <1>1, <2>1
<1>2. CASE x \notin S
  <2>1. S \ {x} = S /\ Cardinality(S) \in Nat
    BY <1>2, FS_CardinalityType
  <2>. QED  BY <1>2, <2>1
<1>. QED  BY <1>1, <1>2

(* One request changes its stage and the pool gets back what it held       *)
(* before, less what it holds now.                                         *)
LEMMA GoToConserves ==
  ASSUME TypeOK, Conserved, NEW r \in Request, NEW s \in Stages,
         pc' = [pc EXCEPT ![r] = s],
         free' = free + Held(pc[r]) - Held(s)
  PROVE  Conserved'
<1>. DEFINE One == At(HoldOne)  Two == At({"game2"})
<1>1. /\ pc[r] \in Stages /\ pc'[r] = s
      /\ \A q \in Request \ {r} : pc'[q] = pc[q]
      /\ free \in Nat
  BY PoolAssumption DEF TypeOK, Stages
<1>2. One' \ {r} = One \ {r} /\ Two' \ {r} = Two \ {r}
  BY <1>1 DEF At
<1>3. /\ IsFiniteSet(One) /\ IsFiniteSet(Two)
      /\ Cardinality(One \ {r}) \in Nat /\ Cardinality(Two \ {r}) \in Nat
  BY AtFinite, FS_Subset, FS_CardinalityType
<1>4. IsFiniteSet(One') /\ IsFiniteSet(Two')
  BY RequestFinite, FS_Subset DEF At
<1>5. Held(pc[r]) = (IF r \in One THEN 1 ELSE 0) + 2 * (IF r \in Two THEN 1 ELSE 0)
  BY <1>1 DEF Held, At, HoldOne, Stages, Waiting
<1>6. Held(s) = (IF r \in One' THEN 1 ELSE 0) + 2 * (IF r \in Two' THEN 1 ELSE 0)
  BY <1>1 DEF Held, At, HoldOne, Stages, Waiting
<1>. HIDE DEF One, Two
<1>7. /\ Cardinality(One) = Cardinality(One \ {r}) + (IF r \in One THEN 1 ELSE 0)
      /\ Cardinality(Two) = Cardinality(Two \ {r}) + (IF r \in Two THEN 1 ELSE 0)
      /\ Cardinality(One') = Cardinality(One \ {r}) + (IF r \in One' THEN 1 ELSE 0)
      /\ Cardinality(Two') = Cardinality(Two \ {r}) + (IF r \in Two' THEN 1 ELSE 0)
  BY <1>2, <1>3, <1>4, CardWithout
<1>8. free + Cardinality(One) + 2 * Cardinality(Two) = MaxConn
  BY DEF Conserved, One, Two
<1>9. free' + Cardinality(One') + 2 * Cardinality(Two') = MaxConn
  BY <1>1, <1>3, <1>5, <1>6, <1>7, <1>8, PoolAssumption
<1>. QED  BY <1>9 DEF Conserved, One, Two

IInv == TypeOK /\ Conserved

LEMMA InitIInv == Init => IInv
<1>. SUFFICES ASSUME Init PROVE IInv
  OBVIOUS
<1>1. At(HoldOne) = {} /\ At({"game2"}) = {}
  BY DEF Init, At, HoldOne
<1>2. Conserved
  BY <1>1, FS_EmptySet, PoolAssumption DEF Init, Conserved
<1>3. TypeOK
  BY PoolAssumption DEF Init, TypeOK, At
<1>. QED  BY <1>2, <1>3 DEF IInv

LEMMA HeldValues ==
  /\ \A s \in {"idle", "done", "game?", "tx?", "query?"} : Held(s) = 0
  /\ \A s \in HoldOne : Held(s) = 1
  /\ Held("game2") = 2
  BY DEF Held, HoldOne

(* What every step does to the request that takes it. *)
LEMMA StepIsGoTo ==
  ASSUME IInv, NEW r \in Request, Arrive(r) \/ Acquire(r) \/ Runs(r) \/ Fail(r)
  PROVE  \E s \in Stages : /\ pc' = [pc EXCEPT ![r] = s]
                           /\ free' = free + Held(pc[r]) - Held(s)
                           /\ free' >= 0 /\ free' \in Int
                           /\ s \in {"game?", "game", "game2?", "game2"} => r \in Uploads
<1>0. /\ free \in 0..MaxConn /\ MaxConn \in Nat
      /\ pc[r] \in {"game?", "game", "game2?", "game2"} => r \in Uploads
  BY PoolAssumption DEF IInv, TypeOK, At
<1>1. CASE Arrive(r)
  <2>1. PICK s \in {"game?", "tx?", "query?"} :
          pc' = [pc EXCEPT ![r] = s] /\ (s = "game?" => r \in Uploads)
    BY <1>1 DEF Arrive, GoTo
  <2>2. Held(pc[r]) = 0 /\ Held(s) = 0 /\ free' = free
    BY <1>1, HeldValues DEF Arrive
  <2>3. /\ s \in Stages
        /\ free' = free + Held(pc[r]) - Held(s)
        /\ free' >= 0 /\ free' \in Int
        /\ s \in {"game?", "game", "game2?", "game2"} => r \in Uploads
    BY <1>0, <2>1, <2>2 DEF Stages, Waiting
  <2>. QED  BY <2>1, <2>3
<1>2. CASE Acquire(r)
  <2>1. /\ pc[r] \in Waiting /\ free > 0 /\ free' = free - 1
        /\ pc' = [pc EXCEPT ![r] = Taken(pc[r])]
    BY <1>2 DEF Acquire, GoTo
  <2>2. CASE pc[r] \in {"game?", "tx?", "query?"}
    <3>1. Taken(pc[r]) \in {"game", "tx", "query"} /\ (Taken(pc[r]) = "game" => pc[r] = "game?")
      BY <2>2 DEF Taken
    <3>2. Held(pc[r]) = 0 /\ Held(Taken(pc[r])) = 1
      BY <2>2, <3>1, HeldValues DEF HoldOne
    <3>3. /\ Taken(pc[r]) \in Stages
          /\ free' = free + Held(pc[r]) - Held(Taken(pc[r]))
          /\ free' >= 0 /\ free' \in Int
          /\ Taken(pc[r]) \in {"game?", "game", "game2?", "game2"} => r \in Uploads
      BY <1>0, <2>1, <3>1, <3>2 DEF Stages, HoldOne
    <3>. QED  BY <2>1, <3>3
  <2>3. CASE pc[r] = "game2?"
    <3>1. Taken(pc[r]) = "game2"
      BY <2>3 DEF Taken
    <3>2. Held(pc[r]) = 1 /\ Held(Taken(pc[r])) = 2
      BY <2>3, <3>1, HeldValues DEF HoldOne
    <3>3. /\ Taken(pc[r]) \in Stages
          /\ free' = free + Held(pc[r]) - Held(Taken(pc[r]))
          /\ free' >= 0 /\ free' \in Int
          /\ Taken(pc[r]) \in {"game?", "game", "game2?", "game2"} => r \in Uploads
      BY <1>0, <2>1, <2>3, <3>1, <3>2 DEF Stages
    <3>. QED  BY <2>1, <3>3
  <2>. QED  BY <2>1, <2>2, <2>3 DEF Waiting
<1>3. CASE GameRead(r) \/ InsideTx(r) \/ Game2Read(r) \/ Finish(r)
  BY <1>0, <1>3, HeldValues DEF GameRead, InsideTx, Game2Read, Finish, GoTo, HoldOne, Stages, Waiting
<1>4. CASE Fail(r)
  <2>1. /\ pc[r] \in {"game?", "tx?", "query?", "game2?", "insert", "query", "game2"}
        /\ free' = free + Held(pc[r])
    BY <1>4 DEF Fail, Waiting
  <2>2. Held(pc[r]) \in Nat
    BY <2>1, HeldValues DEF HoldOne
  <2>3. PICK s \in {"tx?", "done"} : pc' = [pc EXCEPT ![r] = s]
    BY <1>4 DEF Fail, GoTo
  <2>4. Held(s) = 0
    BY <2>3, HeldValues
  <2>5. /\ s \in Stages
        /\ free' = free + Held(pc[r]) - Held(s)
        /\ free' >= 0 /\ free' \in Int
        /\ s \in {"game?", "game", "game2?", "game2"} => r \in Uploads
    BY <1>0, <2>1, <2>2, <2>3, <2>4 DEF Stages, Waiting
  <2>. QED  BY <2>3, <2>5
<1>. QED  BY <1>1, <1>2, <1>3, <1>4 DEF Runs

LEMMA NextIInv == IInv /\ [Next]_vars => IInv'
<1>. SUFFICES ASSUME IInv, [Next]_vars PROVE IInv'
  OBVIOUS
<1>1. CASE UNCHANGED vars
  BY <1>1 DEF vars, IInv, TypeOK, Conserved, At
<1>2. ASSUME NEW r \in Request, Arrive(r) \/ Acquire(r) \/ Runs(r) \/ Fail(r) PROVE IInv'
  <2>1. PICK s \in Stages : /\ pc' = [pc EXCEPT ![r] = s]
                            /\ free' = free + Held(pc[r]) - Held(s)
                            /\ free' >= 0 /\ free' \in Int
                            /\ s \in {"game?", "game", "game2?", "game2"} => r \in Uploads
    BY <1>2, StepIsGoTo
  <2>2. Conserved'
    BY <2>1, GoToConserves DEF IInv
  <2>3. free' <= MaxConn
    <3>. DEFINE m == Cardinality(At(HoldOne)')  n == Cardinality(At({"game2"})')
    <3>1. m \in Nat /\ n \in Nat
      BY RequestFinite, FS_Subset, FS_CardinalityType DEF At
    <3>2. free' + m + 2 * n = MaxConn
      BY <2>2 DEF Conserved
    <3>. HIDE DEF m, n
    <3>. QED  BY <2>1, <3>1, <3>2, PoolAssumption
  <2>4. TypeOK'
    BY <2>1, <2>3, PoolAssumption DEF IInv, TypeOK, Stages, At
  <2>. QED  BY <2>2, <2>4 DEF IInv
<1>. QED  BY <1>1, <1>2 DEF Next

LEMMA InvariantHolds == Spec => []IInv
  BY InitIInv, NextIInv, PTL DEF Spec
-----------------------------------------------------------------------------
(* free stays within the pool and only uploads read a game while a         *)
(* transaction is open.                                                    *)
THEOREM TypeCorrect == Spec => []TypeOK
  <1>1. IInv => TypeOK
    BY DEF IInv
  <1>. QED  BY <1>1, InvariantHolds, PTL

(* Every path of every handler gives back each connection exactly once.    *)
THEOREM NoConnectionLost == Spec => []Conserved
  <1>1. IInv => Conserved
    BY DEF IInv
  <1>. QED  BY <1>1, InvariantHolds, PTL

LEMMA StuckAtGame2 == IInv => SomebodyCanGoOn
<1>. SUFFICES ASSUME IInv, InFlight # {}, \A r \in InFlight : ~CanGoOn(r)
              PROVE  Cardinality(At({"game2?"})) = MaxConn
  BY DEF SomebodyCanGoOn
<1>1. free = 0
  BY PoolAssumption DEF IInv, TypeOK, InFlight, At, CanGoOn, Waiting, HoldOne
<1>2. At({"game2"}) = {}
  BY DEF InFlight, At, CanGoOn, Waiting, HoldOne
<1>3. At(HoldOne) = At({"game2?"})
  BY DEF InFlight, At, CanGoOn, Waiting, HoldOne
<1>4. Cardinality(At({"game2?"})) \in Nat
  BY AtFinite
<1>5. Cardinality(At({"game2"})) = 0
  BY <1>2, FS_EmptySet
<1>6. free + Cardinality(At(HoldOne)) + 2 * Cardinality(At({"game2"})) = MaxConn
  BY DEF IInv, Conserved
<1>. QED  BY <1>1, <1>3, <1>4, <1>5, <1>6

(* The only way for all handlers to wait for each other: every connection  *)
(* is in the transaction of an upload that waits for a second one.         *)
THEOREM DeadlockOnlyByUploads == Spec => []SomebodyCanGoOn
  BY StuckAtGame2, InvariantHolds, PTL

(* With fewer uploads at a time than connections nobody is stuck.          *)
THEOREM FewUploadsNoDeadlock ==
  Cardinality(Uploads) < MaxConn =>
    (Spec => [](InFlight # {} => \E r \in InFlight : CanGoOn(r)))
<1>. SUFFICES ASSUME Cardinality(Uploads) < MaxConn
              PROVE  Spec => [](InFlight # {} => \E r \in InFlight : CanGoOn(r))
  OBVIOUS
<1>1. IInv => (InFlight # {} => \E r \in InFlight : CanGoOn(r))
  <2>. SUFFICES ASSUME IInv PROVE InFlight # {} => \E r \in InFlight : CanGoOn(r)
    OBVIOUS
  <2>1. At({"game2?"}) \subseteq Uploads
    BY DEF IInv, TypeOK, At
  <2>2. Cardinality(At({"game2?"})) <= Cardinality(Uploads)
    BY <2>1, FS_Subset, PoolAssumption
  <2>3. Cardinality(At({"game2?"})) \in Nat /\ Cardinality(Uploads) \in Nat
    BY AtFinite, FS_CardinalityType, PoolAssumption
  <2>4. Cardinality(At({"game2?"})) # MaxConn
    BY <2>2, <2>3, PoolAssumption
  <2>. QED  BY <2>4, StuckAtGame2 DEF SomebodyCanGoOn
<1>. QED  BY <1>1, InvariantHolds, PTL
=============================================================================
