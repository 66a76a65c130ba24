--------------------------- MODULE AccountsProofs ---------------------------
(***************************************************************************)
(* Accounts and sessions keep their invariants, and an update is lost only *)
(* to another one, for any requests, accounts, names and passwords.        *)
(***************************************************************************)
EXTENDS Accounts, SequenceTheorems, TLAPS

(* None is no row, no form and no answer. *)
LEMMA NoneIsNothing == None \notin Row /\ None \notin Form /\ None \notin Result
  BY AccountsAssumption

(* The first account has its one hash, and nobody is under way. *)
LEMMA InitIInv == Init => IInv
  <1>. SUFFICES ASSUME Init PROVE IInv
    OBVIOUS
  <1>. USE AccountsAssumption DEF Init
  <1>1. [name |-> FirstName, hash |-> [pwd |-> FirstPassword, by |-> None],
         photo |-> FirstPhoto, ver |-> 0] \in Row
    BY DEF Row, Hash
  <1>2. TypeOK
    BY <1>1 DEF TypeOK
  <1>3. Rows \subseteq {First}
    BY DEF Rows
  <1>4. VersionCountsHashes
    BY <1>3 DEF VersionCountsHashes
  <1>5. StagesOK /\ HistoryOK /\ RacesKnown /\ NamesOwn /\ RegistrationsOwn
    BY <1>3 DEF StagesOK, StageOK, HistoryOK, RacesKnown, NamesOwn, RegistrationsOwn
  <1>. QED  BY <1>2, <1>4, <1>5 DEF IInv
-----------------------------------------------------------------------------
(* What an update is about to write is a row. *)
LEMMA SavedRow ==
  ASSUME TypeOK, StagesOK, NEW r \in Request, pc[r] = "save"
  PROVE  /\ who[r] \in Account /\ users[who[r]] \in Row
         /\ Saved(r) \in Row
         /\ Saved(r).hash = users[who[r]].hash => Saved(r).ver = users[who[r]].ver
         /\ Saved(r).hash # users[who[r]].hash => Saved(r).ver = users[who[r]].ver + 1
  <1>1. /\ form[r] \in Form /\ base[r] \in Row /\ who[r] \in Rows
    BY DEF StagesOK, StageOK
  <1>2. who[r] \in Account /\ users[who[r]] \in Row
    BY <1>1 DEF TypeOK, Rows
  <1>. DEFINE hash == IF form[r].new = None THEN base[r].hash ELSE [pwd |-> form[r].new, by |-> r]
  <1>3. hash \in Hash
    BY <1>1 DEF Form, Row, Hash
  <1>4. Or(form[r].name, base[r].name) \in Name /\ Or(form[r].photo, base[r].photo) \in Photo
    BY <1>1 DEF Form, Row, Or
  <1>5. PwdVer(users[who[r]], hash) \in Nat
    BY <1>2 DEF PwdVer, Row
  <1>6. Saved(r) = [name |-> Or(form[r].name, base[r].name), photo |-> Or(form[r].photo, base[r].photo),
                    hash |-> hash, ver |-> PwdVer(users[who[r]], hash)]
    BY DEF Saved
  <1>. HIDE DEF hash
  <1>7. Saved(r) \in Row
    BY <1>3, <1>4, <1>5, <1>6 DEF Row
  <1>8. Saved(r).hash = hash /\ Saved(r).ver = PwdVer(users[who[r]], hash)
    BY <1>6
  <1>. QED  BY <1>2, <1>7, <1>8 DEF PwdVer

(* A step changes the table and the passwords in two ways only. *)
LEMMA TableSteps ==
  ASSUME [Next]_vars
  PROVE  \/ UNCHANGED <<users, passwords>>
         \/ \E r \in Request : InsertRow(r) \/ SaveRow(r)
  BY DEF vars, reqVars, history, Next, Expire, RequestStep, CreateUser, CreateSession, BeginForm,
     CheckName, InsertFails, Insert, CommitUnclear, Lookup, LookupFails, SetSession, SetSessionFails,
     UpdateUser, ReadUser, Save, SaveUnclear, SaveTaken, UpdateFails, DeleteSession, CheckUsername, GetUser, GetSession,
     GetUserByID, ReadFails

(* What is known of races and of names changes when an update is saved.    *)
LEMMA HistorySteps ==
  ASSUME [Next]_vars
  PROVE  UNCHANGED <<raced, renamed>> \/ \E r \in Request : SaveRow(r)
  BY DEF vars, reqVars, history, Next, Expire, RequestStep, CreateUser, CreateSession, BeginForm,
     CheckName, InsertFails, Insert, CommitUnclear, InsertRow, Lookup, LookupFails, SetSession,
     SetSessionFails, UpdateUser, ReadUser, Save, SaveUnclear, SaveTaken, UpdateFails, DeleteSession,
     CheckUsername, GetUser, GetSession, GetUserByID, ReadFails

(* A row that is there stays, and what was one of its passwords remains    *)
(* one, at the same place.                                                 *)
LEMMA RowsStay ==
  ASSUME TypeOK, StagesOK, VersionCountsHashes, [Next]_vars
  PROVE  /\ Rows \subseteq Rows'
         /\ \A u \in Rows, ver \in Nat, p \in Password :
              WasPassword(u, ver, p) => WasPassword(u, ver, p)'
  <1>1. CASE UNCHANGED <<users, passwords>>
    BY <1>1 DEF Rows, WasPassword
  <1>2. ASSUME NEW r \in Request, InsertRow(r)
        PROVE  /\ Rows \subseteq Rows'
               /\ \A u \in Rows : passwords'[u] = passwords[u]
    <2>1. PICK a \in Account \ Rows :
            /\ users' = [users EXCEPT ![a] =
                           [name |-> form[r].name, hash |-> [pwd |-> form[r].old, by |-> r],
                            photo |-> NoPhoto, ver |-> 0]]
            /\ passwords' = [passwords EXCEPT ![a] = <<form[r].old>>]
      BY <1>2 DEF InsertRow
    <2>. QED  BY <2>1 DEF TypeOK, Rows
  <1>3. ASSUME NEW r \in Request, SaveRow(r)
        PROVE  /\ Rows \subseteq Rows'
               /\ \A u \in Rows, ver \in Nat, p \in Password :
                    WasPassword(u, ver, p) => WasPassword(u, ver, p)'
    <2>1. Saved(r) \in Row /\ who[r] \in Account
      BY <1>3, SavedRow DEF SaveRow
    <2>2. users' = [users EXCEPT ![who[r]] = Saved(r)]
      BY <1>3 DEF SaveRow
    <2>3. Rows \subseteq Rows'
      BY <2>1, <2>2, NoneIsNothing DEF TypeOK, Rows
    <2>4. \/ passwords' = passwords
          \/ passwords' = [passwords EXCEPT ![who[r]] = Append(@, Saved(r).hash.pwd)]
      BY <1>3 DEF SaveRow
    <2>5. passwords \in [Account -> Seq(Password)] /\ Saved(r).hash.pwd \in Password
      BY <2>1 DEF TypeOK, Row, Hash
    <2>6. ASSUME NEW u \in Account, NEW ver \in Nat, ver < Len(passwords[u])
          PROVE  ver < Len(passwords'[u]) /\ passwords'[u][ver + 1] = passwords[u][ver + 1]
      <3>1. /\ Len(passwords[u]) \in Nat /\ Len(Append(passwords[u], Saved(r).hash.pwd)) = Len(passwords[u]) + 1
            /\ \A i \in 1..Len(passwords[u]) :
                 Append(passwords[u], Saved(r).hash.pwd)[i] = passwords[u][i]
        BY <2>5, AppendProperties, LenProperties
      <3>2. ver + 1 \in 1..Len(passwords[u])
        BY <2>6, <3>1
      <3>3. passwords'[u] = passwords[u] \/ passwords'[u] = Append(passwords[u], Saved(r).hash.pwd)
        BY <2>4, <2>5
      <3>. QED  BY <2>6, <3>1, <3>2, <3>3
    <2>. QED  BY <2>3, <2>6 DEF WasPassword, Rows
  <1>. QED  BY <1>1, <1>2, <1>3, TableSteps DEF WasPassword
-----------------------------------------------------------------------------
(* A registration inserts a row at a free place, with its password.        *)
LEMMA InsertedRow ==
  ASSUME TypeOK, StagesOK, NEW r \in Request, InsertRow(r)
  PROVE  \E a \in Account \ Rows :
           /\ \E row \in Row : /\ users' = [users EXCEPT ![a] = row]
                              /\ row.ver = 0 /\ row.hash.pwd = form[r].old
                              /\ row.name = form[r].name
           /\ made' = [made EXCEPT ![r] = a]
           /\ form[r].old \in Password
           /\ passwords' = [passwords EXCEPT ![a] = <<form[r].old>>]
  <1>1. form[r].name \in Name /\ form[r].old \in Password
    BY DEF InsertRow, StagesOK, StageOK, Form
  <1>. DEFINE row == [name |-> form[r].name, hash |-> [pwd |-> form[r].old, by |-> r],
                      photo |-> NoPhoto, ver |-> 0]
  <1>2. row \in Row /\ row.ver = 0 /\ row.hash.pwd = form[r].old /\ row.name = form[r].name
    BY <1>1, AccountsAssumption DEF Row, Hash
  <1>3. PICK a \in Account \ Rows :
          /\ users' = [users EXCEPT ![a] = row]
          /\ made' = [made EXCEPT ![r] = a]
          /\ passwords' = [passwords EXCEPT ![a] = <<form[r].old>>]
    BY DEF InsertRow
  <1>. HIDE DEF row
  <1>. QED  BY <1>1, <1>2, <1>3

(* Sessions are only made by logins that have read their account.          *)
LEMMA NewSession ==
  ASSUME [Next]_vars, NEW s \in sessions', s \notin sessions
  PROVE  \E r \in Request :
           /\ pc[r] = "set session"
           /\ s = [token |-> r, user |-> who[r], ver |-> base[r].ver, pwd |-> form[r].old]
  BY DEF vars, reqVars, history, Next, Expire, RequestStep, CreateUser, CreateSession, BeginForm,
     CheckName, InsertFails, Insert, CommitUnclear, InsertRow, Lookup, LookupFails, SetSession, SetSessionFails,
     UpdateUser, ReadUser, Save, SaveUnclear, SaveRow, SaveTaken, UpdateFails, DeleteSession, CheckUsername,
     GetUser, GetSession, GetUserByID, ReadFails

(* Who is logged in has, or had, an account.                               *)
LEMMA SessionsAccount == sessions \subseteq Session => Authenticated \subseteq Account
  BY DEF Authenticated, Session

(* A step keeps the type of every variable.                                *)
LEMMA NextTypeOK == IInv /\ [Next]_vars => TypeOK'
<1>. SUFFICES ASSUME TypeOK, StagesOK, HistoryOK, [Next]_vars PROVE TypeOK'
  BY DEF IInv
<1>1. users' \in [Account -> Row \cup {None}] /\ passwords' \in [Account -> Seq(Password)]
  <2>1. ASSUME NEW r \in Request, InsertRow(r)
        PROVE  users' \in [Account -> Row \cup {None}] /\ passwords' \in [Account -> Seq(Password)]
    <3>1. PICK a \in Account, row \in Row :
            /\ users' = [users EXCEPT ![a] = row]
            /\ form[r].old \in Password
            /\ passwords' = [passwords EXCEPT ![a] = <<form[r].old>>]
      BY <2>1, InsertedRow
    <3>2. <<form[r].old>> \in Seq(Password)
      BY <3>1
    <3>. QED  BY <3>1, <3>2 DEF TypeOK
  <2>2. ASSUME NEW r \in Request, SaveRow(r)
        PROVE  users' \in [Account -> Row \cup {None}] /\ passwords' \in [Account -> Seq(Password)]
    <3>1. who[r] \in Account /\ Saved(r) \in Row /\ Saved(r).hash.pwd \in Password
      BY <2>2, SavedRow DEF SaveRow, Row, Hash
    <3>2. Append(passwords[who[r]], Saved(r).hash.pwd) \in Seq(Password)
      BY <3>1, AppendProperties DEF TypeOK
    <3>. QED  BY <2>2, <3>1, <3>2 DEF SaveRow, TypeOK
  <2>. QED  BY <2>1, <2>2, TableSteps DEF TypeOK
<1>2. sessions' \subseteq Session
  <2>1. ASSUME NEW r \in Request, pc[r] = "set session"
        PROVE  [token |-> r, user |-> who[r], ver |-> base[r].ver, pwd |-> form[r].old] \in Session
    <3>1. who[r] \in Account /\ base[r] \in Row /\ form[r] \in Form /\ form[r].old # None
      BY <2>1 DEF StagesOK, StageOK, Rows
    <3>. QED  BY <3>1 DEF Session, Row, Form
  <2>. QED  BY <2>1, NewSession DEF TypeOK
<1>. DEFINE Stage == {"idle", "check name", "insert", "lookup", "set session", "read", "save", "done"}
            ReqsTyped == /\ pc' \in [Request -> Stage]
                         /\ form' \in [Request -> Form \cup {None}]
                         /\ who' \in [Request -> Account \cup {None}]
                         /\ made' \in [Request -> Account \cup {None}]
                         /\ base' \in [Request -> Row \cup {None}]
                         /\ answer' \in [Request -> Result \cup {None}]
<1>3. ASSUME UNCHANGED <<pc, form, who, made, base, answer>> PROVE ReqsTyped
  BY <1>3 DEF TypeOK
<1>4. ASSUME NEW r \in Request, RequestStep(r) PROVE ReqsTyped
  <2>. USE DEF TypeOK, Goto, Answer, reqVars, history, Result
  <2>1. Authenticated \subseteq Account /\ Rows \subseteq Account
    BY SessionsAccount DEF Rows
  <2>2. CASE CreateUser(r) \/ CreateSession(r)
    <3>1. ASSUME NEW to \in {"register", "log in"}, NEW stage \in Stage, BeginForm(r, to, stage)
          PROVE  ReqsTyped
      <4>1. PICK n \in Name, p \in Password :
              form' = [form EXCEPT ![r] = [to |-> to, name |-> n, photo |-> None,
                                           new |-> None, old |-> p]]
        BY <3>1 DEF BeginForm
      <4>2. [to |-> to, name |-> n, photo |-> None, new |-> None, old |-> p] \in Form
        BY DEF Form
      <4>3. form' \in [Request -> Form \cup {None}]
        BY <4>1, <4>2
      <4>. QED  BY <3>1, <4>3 DEF BeginForm
    <3>. QED  BY <2>2, <3>1 DEF CreateUser, CreateSession
  <2>3. CASE CheckName(r) \/ InsertFails(r) \/ LookupFails(r) \/ SetSession(r) \/ SetSessionFails(r)
    BY <2>3 DEF CheckName, InsertFails, LookupFails, SetSession, SetSessionFails
  <2>4. CASE Insert(r) \/ CommitUnclear(r)
    <3>1. PICK a \in Account : made' = [made EXCEPT ![r] = a]
      BY <2>4 DEF Insert, CommitUnclear, InsertRow
    <3>. QED  BY <2>4, <3>1 DEF Insert, CommitUnclear, InsertRow
  <2>5. CASE Lookup(r)
    <3>1. PICK u \in Rows : /\ who' = [who EXCEPT ![r] = u]
                            /\ base' = [base EXCEPT ![r] = users[u]]
      BY <2>5 DEF Lookup, Holder
    <3>2. u \in Account /\ users[u] \in Row
      BY <2>1 DEF Rows
    <3>. QED  BY <2>5, <3>1, <3>2 DEF Lookup
  <2>6. CASE UpdateUser(r)
    <3>1. PICK u \in Account, f \in Form : form' = [form EXCEPT ![r] = f] /\ who' = [who EXCEPT ![r] = u]
      BY <2>1, <2>6 DEF UpdateUser
    <3>. QED  BY <2>6, <3>1 DEF UpdateUser
  <2>7. CASE ReadUser(r)
    <3>1. who[r] \in Account /\ users[who[r]] \in Row
      BY <2>1, <2>7 DEF ReadUser, StagesOK, StageOK, Rows
    <3>. QED  BY <2>7, <3>1 DEF ReadUser
  <2>8. CASE Save(r) \/ SaveUnclear(r) \/ SaveTaken(r) \/ UpdateFails(r) \/ DeleteSession(r)
             \/ CheckUsername(r) \/ ReadFails(r)
    BY <2>8 DEF Save, SaveUnclear, SaveRow, SaveTaken, UpdateFails, DeleteSession, CheckUsername, ReadFails
  <2>9. CASE GetUser(r) \/ GetSession(r)
    <3>1. PICK u \in Account : GetUserByID(r, u)
      BY <2>1, <2>9 DEF GetUser, GetSession
    <3>2. users[u] \in Row \cup {None}
      OBVIOUS
    <3>. QED  BY <3>1, <3>2 DEF GetUserByID
  <2>. QED  BY <1>4, <2>2, <2>3, <2>4, <2>5, <2>6, <2>7, <2>8, <2>9 DEF RequestStep
<1>5. ReqsTyped
  BY <1>3, <1>4 DEF Next, Expire, vars, reqVars, history
<1>6. raced' \subseteq Request /\ renamed' \subseteq Account
  <2>1. ASSUME NEW r \in Request, SaveRow(r) PROVE who[r] \in Account
    BY <2>1, SavedRow DEF SaveRow
  <2>2. \/ UNCHANGED <<raced, renamed>>
        \/ \E r \in Request : SaveRow(r)
    BY HistorySteps
  <2>. QED  BY <2>1, <2>2 DEF SaveRow, TypeOK
<1>. QED  BY <1>1, <1>2, <1>5, <1>6 DEF TypeOK
-----------------------------------------------------------------------------
(* A step that changes the hash of an account adds its password to those   *)
(* the account has had and one to its version.                             *)
LEMMA NextVersionCountsHashes == IInv /\ [Next]_vars => VersionCountsHashes'
<1>. SUFFICES ASSUME TypeOK, StagesOK, VersionCountsHashes, [Next]_vars PROVE VersionCountsHashes'
  BY DEF IInv
<1>1. CASE UNCHANGED <<users, passwords>>
  BY <1>1 DEF VersionCountsHashes, Rows
<1>2. ASSUME NEW r \in Request, InsertRow(r) PROVE VersionCountsHashes'
  <2>1. PICK a \in Account \ Rows, row \in Row :
          /\ users' = [users EXCEPT ![a] = row] /\ row.ver = 0 /\ row.hash.pwd = form[r].old
          /\ passwords' = [passwords EXCEPT ![a] = <<form[r].old>>]
    BY <1>2, InsertedRow
  <2>2. users'[a] = row /\ passwords'[a] = <<form[r].old>>
    BY <2>1 DEF TypeOK
  <2>3. Len(passwords'[a]) = users'[a].ver + 1 /\ passwords'[a][users'[a].ver + 1] = users'[a].hash.pwd
    <3>1. Len(<<form[r].old>>) = 1 /\ <<form[r].old>>[1] = form[r].old
      OBVIOUS
    <3>2. 0 + 1 = 1
      OBVIOUS
    <3>. QED  BY <2>1, <2>2, <3>1, <3>2
  <2>4. \A u \in Account \ {a} : users'[u] = users[u] /\ passwords'[u] = passwords[u]
    BY <2>1 DEF TypeOK
  <2>. QED  BY <2>3, <2>4 DEF VersionCountsHashes, Rows
<1>3. ASSUME NEW r \in Request, SaveRow(r) PROVE VersionCountsHashes'
  <2>. DEFINE u == who[r]
              pwd == Saved(r).hash.pwd
  <2>1. /\ u \in Account /\ users[u] \in Row /\ Saved(r) \in Row
        /\ Saved(r).hash = users[u].hash => Saved(r).ver = users[u].ver
        /\ Saved(r).hash # users[u].hash => Saved(r).ver = users[u].ver + 1
    BY <1>3, SavedRow DEF SaveRow
  <2>2. /\ users' = [users EXCEPT ![u] = Saved(r)]
        /\ passwords' = IF Saved(r).hash = users[u].hash THEN passwords
                        ELSE [passwords EXCEPT ![u] = Append(@, pwd)]
    BY <1>3 DEF SaveRow
  <2>3. pwd \in Password /\ users[u].ver \in Nat /\ u \in Rows
    BY <2>1, NoneIsNothing DEF Row, Hash, Rows
  <2>4. /\ Len(passwords[u]) = users[u].ver + 1
        /\ passwords[u][users[u].ver + 1] = users[u].hash.pwd
        /\ passwords[u] \in Seq(Password)
    BY <2>3 DEF VersionCountsHashes, TypeOK, Rows
  <2>5. users'[u] = Saved(r) /\ \A v \in Account \ {u} : users'[v] = users[v] /\ passwords'[v] = passwords[v]
    BY <2>1, <2>2 DEF TypeOK
  <2>6. CASE Saved(r).hash = users[u].hash
    BY <2>1, <2>2, <2>4, <2>5, <2>6 DEF VersionCountsHashes, Rows
  <2>7. CASE Saved(r).hash # users[u].hash
    <3>1. passwords'[u] = Append(passwords[u], pwd)
      BY <2>1, <2>2, <2>7 DEF TypeOK
    <3>2. Len(passwords'[u]) = Len(passwords[u]) + 1 /\ passwords'[u][Len(passwords[u]) + 1] = pwd
      BY <2>3, <2>4, <3>1, AppendProperties
    <3>3. Len(passwords'[u]) = users'[u].ver + 1 /\ passwords'[u][users'[u].ver + 1] = users'[u].hash.pwd
      BY <2>1, <2>3, <2>4, <2>5, <2>7, <3>2
    <3>. QED  BY <2>5, <3>3 DEF VersionCountsHashes, Rows
  <2>. QED  BY <2>6, <2>7
<1>. QED  BY <1>1, <1>2, <1>3, TableSteps
-----------------------------------------------------------------------------
(* What a request knows is its own: a step of another leaves it alone, and *)
(* one that has been answered takes no step.                               *)
Stays(q) == /\ pc'[q] = pc[q] /\ form'[q] = form[q] /\ who'[q] = who[q]
            /\ base'[q] = base[q] /\ answer'[q] = answer[q] /\ made'[q] = made[q]

LEMMA OthersStay ==
  ASSUME TypeOK, NEW r \in Request, NEW q \in Request, q # r, RequestStep(r)
  PROVE  Stays(q)
  <1>. USE DEF TypeOK, Goto, Answer, reqVars, history, Stays
  <1>1. CASE CreateUser(r) \/ CreateSession(r)
    BY <1>1 DEF CreateUser, CreateSession, BeginForm
  <1>2. CASE CheckName(r) \/ InsertFails(r) \/ LookupFails(r) \/ SetSession(r) \/ SetSessionFails(r)
    BY <1>2 DEF CheckName, InsertFails, LookupFails, SetSession, SetSessionFails
  <1>3. CASE Insert(r) \/ CommitUnclear(r)
    BY <1>3 DEF Insert, CommitUnclear, InsertRow
  <1>4. CASE Lookup(r) \/ UpdateUser(r) \/ ReadUser(r)
    BY <1>4 DEF Lookup, UpdateUser, ReadUser
  <1>5. CASE Save(r) \/ SaveUnclear(r) \/ SaveTaken(r) \/ UpdateFails(r) \/ DeleteSession(r)
             \/ CheckUsername(r) \/ ReadFails(r)
    BY <1>5 DEF Save, SaveUnclear, SaveRow, SaveTaken, UpdateFails, DeleteSession, CheckUsername, ReadFails
  <1>6. CASE GetUser(r) \/ GetSession(r)
    BY <1>6 DEF GetUser, GetSession, GetUserByID
  <1>. QED  BY <1>1, <1>2, <1>3, <1>4, <1>5, <1>6 DEF RequestStep

LEMMA OneMoves ==
  ASSUME TypeOK, [Next]_vars, NEW q \in Request
  PROVE  Stays(q) \/ (pc[q] # "done" /\ RequestStep(q))
  <1>1. ASSUME RequestStep(q) PROVE pc[q] # "done"
    BY <1>1 DEF RequestStep, CreateUser, CreateSession, BeginForm, CheckName, InsertFails, Insert,
       CommitUnclear, InsertRow, Lookup, LookupFails, SetSession, SetSessionFails, UpdateUser, ReadUser,
       Save, SaveUnclear, SaveRow, SaveTaken, UpdateFails, DeleteSession, CheckUsername, GetUser,
       GetSession, GetUserByID, ReadFails
  <1>2. CASE UNCHANGED vars \/ Expire
    BY <1>2 DEF vars, reqVars, history, Expire, Stays
  <1>. QED  BY <1>1, <1>2, OthersStay DEF Next

(* Every stage of a request finds what the earlier ones left.              *)
LEMMA NextStagesOK == IInv /\ [Next]_vars => StagesOK'
<1>. SUFFICES ASSUME TypeOK, StagesOK, VersionCountsHashes, HistoryOK, [Next]_vars,
                     NEW r \in Request
              PROVE  StageOK(r)'
  BY DEF IInv, StagesOK
<1>. USE DEF StageOK
<1>0. StageOK(r)
  BY DEF StagesOK
<1>1. Rows \subseteq Rows'
  BY RowsStay
<1>2. CASE Stays(r)
  BY <1>0, <1>1, <1>2 DEF Stays
<1>3. CASE RequestStep(r)
  <2>. USE DEF Goto, Answer, reqVars, history, TypeOK
  <2>1. CASE CreateUser(r) \/ CreateSession(r)
    <3>1. ASSUME NEW to \in {"register", "log in"}, NEW stage \in {"check name", "lookup"},
                 to = "register" <=> stage = "check name", BeginForm(r, to, stage)
          PROVE  StageOK(r)'
      <4>1. PICK n \in Name, p \in Password :
              form' = [form EXCEPT ![r] = [to |-> to, name |-> n, photo |-> None,
                                           new |-> None, old |-> p]]
        BY <3>1 DEF BeginForm
      <4>. DEFINE f == [to |-> to, name |-> n, photo |-> None, new |-> None, old |-> p]
      <4>2. f \in Form /\ f.name # None /\ f.old # None /\ f.to = to
        BY AccountsAssumption DEF Form
      <4>3. form'[r] = f
        BY <4>1
      <4>. HIDE DEF f
      <4>. QED  BY <1>0, <1>1, <3>1, <4>2, <4>3 DEF BeginForm
    <3>. QED  BY <2>1, <3>1 DEF CreateUser, CreateSession
  <2>2. CASE CheckName(r) \/ InsertFails(r) \/ LookupFails(r) \/ SetSession(r) \/ SetSessionFails(r)
    BY <1>0, <1>1, <2>2 DEF CheckName, InsertFails, LookupFails, SetSession, SetSessionFails
  <2>3. CASE Insert(r) \/ CommitUnclear(r)
    <3>. HIDE DEF TypeOK
    <3>0. InsertRow(r)
      BY <2>3 DEF Insert, CommitUnclear
    <3>1. PICK a \in Account \ Rows, row \in Row :
            made' = [made EXCEPT ![r] = a] /\ users' = [users EXCEPT ![a] = row]
      BY <3>0, InsertedRow
    <3>. USE DEF TypeOK
    <3>2. made'[r] = a /\ a # None /\ a \in Rows'
      BY <3>1, AccountsAssumption, NoneIsNothing DEF Rows
    <3>. QED  BY <1>0, <1>1, <2>3, <3>2 DEF Insert, CommitUnclear, InsertRow
  <2>4. CASE Lookup(r)
    <3>1. PICK u \in Rows : who' = [who EXCEPT ![r] = u] /\ base' = [base EXCEPT ![r] = users[u]]
      BY <2>4 DEF Lookup, Holder
    <3>2. who'[r] \in Rows' /\ base'[r] \in Row
      BY <1>1, <3>1 DEF Rows
    <3>. QED  BY <1>0, <1>1, <2>4, <3>2 DEF Lookup
  <2>5. CASE UpdateUser(r)
    <3>1. Authenticated \subseteq Rows
      BY DEF Authenticated, HistoryOK
    <3>. QED  BY <1>0, <1>1, <2>5, <3>1 DEF UpdateUser
  <2>6. CASE ReadUser(r)
    <3>1. who[r] \in Rows /\ users[who[r]] \in Row
      BY <1>0, <2>6 DEF ReadUser, Rows
    <3>. QED  BY <1>0, <1>1, <2>6, <3>1 DEF ReadUser
  <2>7. CASE Save(r) \/ SaveUnclear(r) \/ SaveTaken(r) \/ UpdateFails(r) \/ DeleteSession(r)
             \/ CheckUsername(r) \/ ReadFails(r)
    BY <1>0, <1>1, <2>7 DEF Save, SaveUnclear, SaveRow, SaveTaken, UpdateFails, DeleteSession,
       CheckUsername, ReadFails
  <2>8. CASE GetUser(r) \/ GetSession(r)
    BY <1>0, <1>1, <2>8 DEF GetUser, GetSession, GetUserByID
  <2>. QED  BY <1>3, <2>1, <2>2, <2>3, <2>4, <2>5, <2>6, <2>7, <2>8 DEF RequestStep
<1>. QED  BY <1>2, <1>3, OneMoves
-----------------------------------------------------------------------------
(* A version that is handed on goes on naming the same password.           *)
LEMMA NextHistoryOK == IInv /\ [Next]_vars => HistoryOK'
<1>. SUFFICES ASSUME TypeOK, StagesOK, VersionCountsHashes, HistoryOK, [Next]_vars
              PROVE  HistoryOK'
  BY DEF IInv
<1>1. /\ Rows \subseteq Rows'
      /\ \A u \in Rows, ver \in Nat, p \in Password :
           WasPassword(u, ver, p) => WasPassword(u, ver, p)'
  BY RowsStay
<1>2. ASSUME NEW r \in Request, pc[r] = "set session"
      PROVE  /\ who[r] \in Rows /\ base[r].ver \in Nat /\ form[r].old \in Password
             /\ base[r].ver < Len(passwords'[who[r]])
             /\ passwords'[who[r]][base[r].ver + 1] = form[r].old
  <2>1. who[r] \in Rows /\ base[r] \in Row /\ form[r] \in Form /\ form[r].old # None
    BY <1>2 DEF StagesOK, StageOK
  <2>2. base[r].ver \in Nat /\ form[r].old \in Password
    BY <2>1 DEF Row, Form
  <2>3. WasPassword(who[r], base[r].ver, form[r].old)
    BY <1>2 DEF HistoryOK
  <2>4. \A u \in Rows, ver \in Nat, p \in Password :
          WasPassword(u, ver, p) => ver < Len(passwords'[u]) /\ passwords'[u][ver + 1] = p
    BY <1>1 DEF WasPassword
  <2>. QED  BY <2>1, <2>2, <2>3, <2>4
<1>3. ASSUME NEW s \in sessions'
      PROVE  s.user \in Rows' /\ WasPassword(s.user, s.ver, s.pwd)'
  <2>1. CASE s \in sessions
    <3>1. s.user \in Rows /\ s.ver \in Nat /\ s.pwd \in Password /\ WasPassword(s.user, s.ver, s.pwd)
      BY <2>1 DEF HistoryOK, TypeOK, Session
    <3>. QED  BY <1>1, <3>1
  <2>2. CASE s \notin sessions
    <3>1. PICK r \in Request :
            /\ pc[r] = "set session"
            /\ s = [token |-> r, user |-> who[r], ver |-> base[r].ver, pwd |-> form[r].old]
      BY <2>2, NewSession
    <3>2. s.user = who[r] /\ s.ver = base[r].ver /\ s.pwd = form[r].old
      BY <3>1
    <3>3. base[r].ver < Len(passwords'[who[r]]) /\ passwords'[who[r]][base[r].ver + 1] = form[r].old
      BY <1>2, <3>1
    <3>. QED  BY <1>1, <1>2, <3>1, <3>2, <3>3 DEF WasPassword
  <2>. QED  BY <2>1, <2>2
<1>4. ASSUME NEW r \in Request, pc'[r] = "set session"
      PROVE  WasPassword(who[r], base[r].ver, form[r].old)'
  <2>1. CASE Stays(r)
    <3>1. base[r].ver < Len(passwords'[who[r]]) /\ passwords'[who[r]][base[r].ver + 1] = form[r].old
      BY <1>2, <1>4, <2>1 DEF Stays
    <3>. QED  BY <2>1, <3>1 DEF Stays, WasPassword
  <2>2. CASE RequestStep(r)
    <3>1. Lookup(r)
      BY <1>4, <2>2 DEF TypeOK, Goto, Answer, RequestStep, CreateUser, CreateSession, BeginForm,
         CheckName, InsertFails, Insert, CommitUnclear, LookupFails, SetSession,
         SetSessionFails, UpdateUser, ReadUser, Save, SaveUnclear, SaveTaken, UpdateFails,
         DeleteSession, CheckUsername, GetUser, GetSession, GetUserByID, ReadFails
    <3>2. PICK u \in Rows : /\ who' = [who EXCEPT ![r] = u] /\ base' = [base EXCEPT ![r] = users[u]]
                            /\ users[u].hash.pwd = form[r].old
                            /\ form' = form /\ passwords' = passwords
      BY <1>4, <3>1 DEF Lookup, Holder, TypeOK, Goto, Answer, history
    <3>3. /\ Len(passwords[u]) = users[u].ver + 1 /\ users[u].ver \in Nat
          /\ passwords[u][users[u].ver + 1] = form[r].old
      BY <3>2 DEF VersionCountsHashes, TypeOK, Rows, Row
    <3>4. who'[r] = u /\ base'[r] = users[u]
      BY <3>2 DEF TypeOK
    <3>. QED  BY <3>2, <3>3, <3>4 DEF WasPassword
  <2>. QED  BY <2>1, <2>2, OneMoves
<1>. QED  BY <1>3, <1>4 DEF HistoryOK

(* Only an update that is saved changes a row.                             *)
LEMMA SavedBy ==
  ASSUME TypeOK, StagesOK, [Next]_vars, NEW u \in Rows, users'[u] # users[u]
  PROVE  \E r \in Request : /\ who[r] = u /\ pc[r] = "save" /\ pc'[r] = "done"
                            /\ users'[u] = Saved(r)
                            /\ SaveRow(r)
  <1>1. PICK r \in Request : Insert(r) \/ CommitUnclear(r) \/ Save(r) \/ SaveUnclear(r)
    BY DEF vars, reqVars, history, Next, Expire, RequestStep, CreateUser, CreateSession, BeginForm, CheckName,
       InsertFails, Lookup, LookupFails, SetSession, SetSessionFails, UpdateUser, ReadUser, SaveTaken,
       UpdateFails, DeleteSession, CheckUsername, GetUser, GetSession, GetUserByID, ReadFails
  <1>2. ~InsertRow(r)
    <2>. SUFFICES ASSUME InsertRow(r) PROVE FALSE
      OBVIOUS
    <2>1. PICK a \in Account \ Rows : \E row \in Row : users' = [users EXCEPT ![a] = row]
      BY InsertedRow
    <2>. QED  BY <2>1 DEF TypeOK, Rows
  <1>3. Save(r) \/ SaveUnclear(r)
    BY <1>1, <1>2 DEF Insert, CommitUnclear
  <1>4. users' = [users EXCEPT ![who[r]] = Saved(r)] /\ pc[r] = "save"
    BY <1>3 DEF Save, SaveUnclear, SaveRow
  <1>5. who[r] = u /\ users'[u] = Saved(r)
    BY <1>4 DEF TypeOK, Rows
  <1>6. pc'[r] = "done" /\ SaveRow(r)
    BY <1>3 DEF Save, SaveUnclear, Goto, Answer, TypeOK
  <1>. QED  BY <1>4, <1>5, <1>6

(* An update whose row has changed under it is known to have raced.        *)
LEMMA NextRacesKnown == IInv /\ [Next]_vars => RacesKnown'
<1>. SUFFICES ASSUME TypeOK, StagesOK, RacesKnown, [Next]_vars,
                     NEW r \in Request, pc'[r] = "save", base'[r] # users'[who'[r]]
              PROVE  r \in raced'
  BY DEF IInv, RacesKnown
<1>1. CASE Stays(r)
  <2>1. pc[r] = "save" /\ base'[r] = base[r] /\ who'[r] = who[r] /\ who[r] \in Rows
    BY <1>1 DEF Stays, StagesOK, StageOK
  <2>2. CASE users'[who[r]] = users[who[r]]
    <3>1. r \in raced
      BY <2>1, <2>2 DEF RacesKnown
    <3>. QED  BY <3>1, HistorySteps DEF SaveRow
  <2>3. CASE users'[who[r]] # users[who[r]]
    <3>1. PICK q \in Request : who[q] = who[r] /\ pc'[q] = "done" /\ SaveRow(q)
      BY <2>1, <2>3, SavedBy
    <3>. QED  BY <2>1, <3>1 DEF SaveRow
  <2>. QED  BY <2>2, <2>3
<1>2. CASE RequestStep(r)
  <2>1. ReadUser(r)
    BY <1>2 DEF TypeOK, Goto, Answer, RequestStep, CreateUser, CreateSession, BeginForm,
       CheckName, InsertFails, Insert, CommitUnclear, Lookup, LookupFails, SetSession,
       SetSessionFails, UpdateUser, Save, SaveUnclear, SaveTaken, UpdateFails,
       DeleteSession, CheckUsername, GetUser, GetSession, GetUserByID, ReadFails
  <2>. QED  BY <2>1 DEF ReadUser, TypeOK
<1>. QED  BY <1>1, <1>2, OneMoves

(* A row keeps its name, or an update is known to have changed it.         *)
LEMMA NameStays ==
  ASSUME TypeOK, StagesOK, [Next]_vars
  PROVE  /\ renamed \subseteq renamed'
         /\ \A u \in Rows : users'[u].name = users[u].name \/ u \in renamed'
  <1>1. renamed \subseteq renamed'
    BY HistorySteps DEF SaveRow
  <1>2. ASSUME NEW u \in Rows, users'[u] # users[u]
        PROVE  users'[u].name = users[u].name \/ u \in renamed'
    <2>1. PICK r \in Request : who[r] = u /\ users'[u] = Saved(r) /\ SaveRow(r)
      BY <1>2, SavedBy
    <2>. QED  BY <2>1 DEF SaveRow
  <1>. QED  BY <1>1, <1>2

(* No step gives two accounts one name: an insert and an update look for   *)
(* a holder of it first.                                                   *)
LEMMA NextNamesUnique ==
  ASSUME TypeOK, StagesOK, [Next]_vars,
         \A u, v \in Rows : users[u].name = users[v].name => u = v
  PROVE  (\A u, v \in Rows : users[u].name = users[v].name => u = v)'
  <1>1. CASE UNCHANGED <<users, passwords>>
    BY <1>1 DEF Rows
  <1>2. ASSUME NEW r \in Request, InsertRow(r)
        PROVE  (\A u, v \in Rows : users[u].name = users[v].name => u = v)'
    <2>1. PICK a \in Account \ Rows, row \in Row :
            users' = [users EXCEPT ![a] = row] /\ row.name = form[r].name
      BY <1>2, InsertedRow
    <2>2. \A u \in Rows : users[u].name # form[r].name
      BY <1>2 DEF InsertRow, Holder
    <2>3. users'[a].name = form[r].name /\ \A u \in Account \ {a} : users'[u] = users[u]
      BY <2>1 DEF TypeOK
    <2>. QED  BY <2>2, <2>3 DEF Rows
  <1>3. ASSUME NEW r \in Request, SaveRow(r)
        PROVE  (\A u, v \in Rows : users[u].name = users[v].name => u = v)'
    <2>1. who[r] \in Account /\ users' = [users EXCEPT ![who[r]] = Saved(r)]
      BY <1>3, SavedRow DEF SaveRow
    <2>2. \A u \in Rows : users[u].name = Saved(r).name => u = who[r]
      BY <1>3 DEF SaveRow, Holder
    <2>3. /\ users'[who[r]].name = Saved(r).name
          /\ \A u \in Account \ {who[r]} : users'[u] = users[u]
      BY <2>1 DEF TypeOK
    <2>. QED  BY <2>2, <2>3 DEF Rows
  <1>. QED  BY <1>1, <1>2, <1>3, TableSteps

(* The login after a registration finds the account the registration has   *)
(* made, if that has kept its name.                                        *)
LEMMA NextNamesOwn == IInv /\ [Next]_vars => NamesOwn'
<1>. SUFFICES ASSUME TypeOK, StagesOK, VersionCountsHashes, NamesOwn, [Next]_vars PROVE NamesOwn'
  BY DEF IInv
<1>1. (\A u, v \in Rows : users[u].name = users[v].name => u = v)'
  BY NextNamesUnique DEF NamesOwn
<1>2. ASSUME NEW r \in Request, pc'[r] = "lookup", form'[r].to = "register"
      PROVE  users'[made'[r]].name = form'[r].name \/ made'[r] \in renamed'
  <2>1. CASE Stays(r)
    <3>1. made[r] \in Rows
      BY <1>2, <2>1 DEF Stays, StagesOK, StageOK
    <3>2. users[made[r]].name = form[r].name \/ made[r] \in renamed
      BY <1>2, <2>1 DEF Stays, NamesOwn
    <3>. QED  BY <2>1, <3>1, <3>2, NameStays DEF Stays
  <2>2. CASE RequestStep(r)
    <3>1. Insert(r) \/ CreateSession(r)
      BY <1>2, <2>2 DEF TypeOK, Goto, Answer, RequestStep, CreateUser, BeginForm, CheckName,
         InsertFails, CommitUnclear, Lookup, LookupFails, SetSession, SetSessionFails, UpdateUser,
         ReadUser, Save, SaveUnclear, SaveTaken, UpdateFails, DeleteSession, CheckUsername, GetUser,
         GetSession, GetUserByID, ReadFails
    <3>2. Insert(r)
      <4>. SUFFICES ASSUME CreateSession(r) PROVE FALSE
        BY <3>1
      <4>1. PICK n \in Name, p \in Password :
              form' = [form EXCEPT ![r] = [to |-> "log in", name |-> n, photo |-> None,
                                           new |-> None, old |-> p]]
        BY DEF CreateSession, BeginForm
      <4>2. form'[r].to = "log in"
        BY <4>1 DEF TypeOK
      <4>. QED  BY <1>2, <4>2
    <3>3. PICK a \in Account \ Rows, row \in Row :
            /\ users' = [users EXCEPT ![a] = row] /\ row.name = form[r].name
            /\ made' = [made EXCEPT ![r] = a]
      BY <3>2, InsertedRow DEF Insert
    <3>4. form' = form
      BY <3>2 DEF Insert, InsertRow
    <3>. QED  BY <3>3, <3>4 DEF TypeOK
  <2>. QED  BY <2>1, <2>2, OneMoves
<1>3. ASSUME NEW r \in Request, pc'[r] = "set session", form'[r].to = "register"
      PROVE  OwnOrRenamed(r)'
  <2>1. CASE Stays(r)
    <3>1. OwnOrRenamed(r)
      BY <1>3, <2>1 DEF Stays, NamesOwn
    <3>. QED  BY <2>1, <3>1, NameStays DEF Stays, OwnOrRenamed
  <2>2. CASE RequestStep(r)
    <3>1. Lookup(r)
      BY <1>3, <2>2 DEF TypeOK, Goto, Answer, RequestStep, CreateUser, CreateSession, BeginForm,
         CheckName, InsertFails, Insert, CommitUnclear, LookupFails, SetSession,
         SetSessionFails, UpdateUser, ReadUser, Save, SaveUnclear, SaveTaken, UpdateFails,
         DeleteSession, CheckUsername, GetUser, GetSession, GetUserByID, ReadFails
    <3>2. /\ form' = form /\ made' = made /\ renamed' = renamed
          /\ pc[r] = "lookup" /\ form[r].to = "register"
      BY <1>3, <3>1 DEF Lookup, history
    <3>3. PICK u \in Rows : who'[r] = u /\ users[u].name = form[r].name
      BY <3>1 DEF Lookup, Holder, TypeOK
    <3>4. made[r] \in Rows
      BY <3>2 DEF StagesOK, StageOK
    <3>5. users[made[r]].name = form[r].name \/ made[r] \in renamed
      BY <3>2 DEF NamesOwn
    <3>6. users[made[r]].name = form[r].name => u = made[r]
      BY <3>3, <3>4 DEF NamesOwn
    <3>. QED  BY <3>2, <3>3, <3>5, <3>6 DEF OwnOrRenamed
  <2>. QED  BY <2>1, <2>2, OneMoves
<1>. QED  BY <1>1, <1>2, <1>3 DEF NamesOwn

(* A registration that succeeds has made an account nobody else has made,  *)
(* and its login is to that account.                                       *)
LEMMA NextRegistrationsOwn == IInv /\ [Next]_vars => RegistrationsOwn'
<1>. SUFFICES ASSUME TypeOK, StagesOK, NamesOwn, RegistrationsOwn, [Next]_vars
              PROVE  RegistrationsOwn'
  BY DEF IInv
<1>1. ASSUME NEW r \in Request, pc'[r] = "done", form'[r] # None, form'[r].to = "register",
             answer'[r] = "ok"
      PROVE  made'[r] # None /\ OwnOrRenamed(r)'
  <2>1. CASE Stays(r)
    <3>1. made[r] # None /\ OwnOrRenamed(r)
      BY <1>1, <2>1 DEF Stays, RegistrationsOwn
    <3>. QED  BY <2>1, <3>1, NameStays DEF Stays, OwnOrRenamed
  <2>2. CASE RequestStep(r) /\ ~Stays(r)
    <3>1. SetSession(r) \/ Save(r) \/ DeleteSession(r) \/ GetUser(r) \/ GetSession(r)
      BY <1>1, <2>2 DEF TypeOK, Goto, Answer, RequestStep, CreateUser, CreateSession, BeginForm,
         CheckName, InsertFails, Insert, CommitUnclear, Lookup, LookupFails, SetSessionFails, UpdateUser,
         ReadUser, SaveUnclear, SaveTaken, UpdateFails, CheckUsername, ReadFails
    <3>2. SetSession(r)
      BY <1>1, <3>1 DEF Save, SaveRow, DeleteSession, GetUser, GetSession, GetUserByID, reqVars,
         StagesOK, StageOK
    <3>3. made[r] # None /\ OwnOrRenamed(r)
      BY <1>1, <3>2 DEF SetSession, reqVars, StagesOK, StageOK, NamesOwn
    <3>. QED  BY <3>2, <3>3 DEF SetSession, reqVars, history, OwnOrRenamed
  <2>. QED  BY <2>1, <2>2, OneMoves
<1>2. CASE made' = made
  BY <1>1, <1>2 DEF RegistrationsOwn
<1>3. CASE made' # made
  <2>1. PICK x \in Request : InsertRow(x)
    BY <1>3 DEF vars, reqVars, Next, Expire, RequestStep, CreateUser, CreateSession, BeginForm, CheckName,
       InsertFails, Insert, CommitUnclear, Lookup, LookupFails, SetSession, SetSessionFails, UpdateUser,
       ReadUser, Save, SaveUnclear, SaveRow, SaveTaken, UpdateFails, DeleteSession, CheckUsername,
       GetUser, GetSession, GetUserByID, ReadFails
  <2>2. PICK a \in Account \ Rows : made' = [made EXCEPT ![x] = a]
    BY <2>1, InsertedRow
  <2>3. \A q \in Request : made[q] # a
    <3>1. \A q \in Request : made[q] # None => made[q] \in Rows
      BY DEF StagesOK, StageOK
    <3>. QED  BY <3>1, <2>2, AccountsAssumption
  <2>4. made'[x] = a /\ \A q \in Request \ {x} : made'[q] = made[q]
    BY <2>2 DEF TypeOK
  <2>5. \A r \in Request : made'[r] # None => \A q \in Request \ {r} : made'[q] # made'[r]
    BY <2>3, <2>4 DEF RegistrationsOwn
  <2>. QED  BY <1>1, <2>5 DEF RegistrationsOwn
<1>. QED  BY <1>2, <1>3
-----------------------------------------------------------------------------
(* The invariant is inductive, so that it holds of every account, session  *)
(* and request there ever is.                                              *)
THEOREM AccountsInvariant == Spec => []IInv
  <1>1. IInv /\ [Next]_vars => IInv'
    BY NextTypeOK, NextStagesOK, NextVersionCountsHashes, NextHistoryOK, NextRacesKnown,
       NextNamesOwn, NextRegistrationsOwn DEF IInv
  <1>. QED  BY <1>1, InitIInv, PTL DEF Spec

(* Every variable keeps its type.                                          *)
THEOREM TypeCorrect == Spec => []TypeOK
  <1>1. IInv => TypeOK
    BY DEF IInv
  <1>. QED  BY <1>1, AccountsInvariant, PTL

(* users.sql:14-24, user_model.go:112-119: pwd_ver counts the hashes of an *)
(* account, whatever logins and updates run at the same time.              *)
THEOREM VersionIsCount == Spec => []VersionCountsHashes
  <1>1. IInv => VersionCountsHashes
    BY DEF IInv
  <1>. QED  BY <1>1, AccountsInvariant, PTL

(* session_handle.go:66-91: a session with the account's present version   *)
(* was opened with its present password.                                   *)
THEOREM VersionTellsSessions == Spec => []SessionMatchesVersion
  <1>1. IInv => SessionMatchesVersion
    <2>. SUFFICES ASSUME IInv, NEW s \in sessions
                  PROVE  /\ s.ver <= users[s.user].ver
                         /\ s.ver = users[s.user].ver => s.pwd = users[s.user].hash.pwd
      BY DEF SessionMatchesVersion
    <2>1. /\ s.user \in Rows /\ s.ver \in Nat /\ users[s.user] \in Row
          /\ s.ver < Len(passwords[s.user]) /\ passwords[s.user][s.ver + 1] = s.pwd
      BY DEF IInv, TypeOK, HistoryOK, WasPassword, Session, Rows
    <2>2. /\ Len(passwords[s.user]) = users[s.user].ver + 1 /\ users[s.user].ver \in Nat
          /\ passwords[s.user][users[s.user].ver + 1] = users[s.user].hash.pwd
      BY <2>1 DEF IInv, VersionCountsHashes, Row
    <2>. QED  BY <2>1, <2>2
  <1>. QED  BY <1>1, AccountsInvariant, PTL

(* user_model.go:65-83, user_handle.go:217-229: two registrations never    *)
(* make one account, and the cookie a registration is answered with is for *)
(* the account it made, unless an update has taken that one's name away.   *)
THEOREM OwnAccount == Spec => []RegistrationsOwn
  <1>1. IInv => RegistrationsOwn
    BY DEF IInv
  <1>. QED  BY <1>1, AccountsInvariant, PTL

(* user_handle.go:132-158, user_model.go:87-122: an update undoes another  *)
(* one's change only if that one was saved after it had read the row.      *)
THEOREM LostUpdatesRaced == Spec => OnlyRacesLoseUpdates
  <1>1. IInv /\ [Next]_vars =>
          [\A u \in Rows : users'[u] # users[u] =>
             \E r \in Request :
               /\ who[r] = u /\ pc[r] = "save" /\ pc'[r] = "done"
               /\ \A f \in {"name", "photo", "hash"} :
                    LET asked == CASE f = "name" -> form[r].name
                                   [] f = "photo" -> form[r].photo
                                   [] f = "hash" -> form[r].new
                    IN asked = None /\ users'[u][f] # users[u][f] =>
                         users'[u][f] = base[r][f] /\ r \in raced]_vars
    <2>. SUFFICES ASSUME TypeOK, StagesOK, RacesKnown, [Next]_vars, NEW u \in Rows, users'[u] # users[u]
                  PROVE  \E r \in Request :
                           /\ who[r] = u /\ pc[r] = "save" /\ pc'[r] = "done"
                           /\ \A f \in {"name", "photo", "hash"} :
                                LET asked == CASE f = "name" -> form[r].name
                                               [] f = "photo" -> form[r].photo
                                               [] f = "hash" -> form[r].new
                                IN asked = None /\ users'[u][f] # users[u][f] =>
                                     users'[u][f] = base[r][f] /\ r \in raced
      BY DEF IInv
    <2>1. PICK r \in Request : /\ who[r] = u /\ pc[r] = "save" /\ pc'[r] = "done"
                               /\ users'[u] = Saved(r)
      BY SavedBy
    <2>2. /\ form[r].name = None => Saved(r).name = base[r].name
          /\ form[r].photo = None => Saved(r).photo = base[r].photo
          /\ form[r].new = None => Saved(r).hash = base[r].hash
      BY DEF Saved, Or
    <2>3. base[r] # users[u] => r \in raced
      BY <2>1 DEF RacesKnown
    <2>4. ASSUME NEW f \in {"name", "photo", "hash"}, users'[u][f] # users[u][f],
                 (CASE f = "name" -> form[r].name
                    [] f = "photo" -> form[r].photo
                    [] f = "hash" -> form[r].new) = None
          PROVE  users'[u][f] = base[r][f] /\ r \in raced
      <3>1. users'[u][f] = base[r][f]
        BY <2>1, <2>2, <2>4
      <3>. QED  BY <2>3, <2>4, <3>1
    <2>. QED  BY <2>1, <2>4
  <1>. QED  BY <1>1, AccountsInvariant, PTL DEF Spec, OnlyRacesLoseUpdates
=============================================================================
