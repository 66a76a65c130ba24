------------------------------ MODULE Accounts ------------------------------
(***************************************************************************)
(* Accounts in Postgres and sessions in Redis: CreateUser, CreateSession,  *)
(* UpdateUser, DeleteSession, CheckUsername, GetUser and GetSession run    *)
(* concurrently, one goroutine per request; each statement is a step.      *)
(***************************************************************************)
EXTENDS Naturals, Sequences

CONSTANTS
  Request,    \* HTTP requests
  Account,    \* user ids
  Name,       \* usernames (CITEXT: up to case)
  Password,
  Photo,      \* values of photo_uuid
  NoPhoto,    \* NULL, an empty string in a form
  First,      \* the account there is at the start
  FirstName, FirstPassword, FirstPhoto,
  None        \* an undefined field of a form; no row; no answer yet

(* bcrypt salts every hash afresh: no two calls give the same one. *)
Hash == [pwd : Password, by : Request \cup {None}]
Row == [name : Name, hash : Hash, photo : Photo, ver : Nat]
Form == [to : {"register", "log in", "update"}, name : Name \cup {None}, photo : Photo \cup {None},
         new : Password \cup {None}, old : Password \cup {None}]
Session == [token : Request, user : Account, ver : Nat, pwd : Password]
Result == {"ok", "taken", "free", "not_exists", "invalid", "required", "error"}

ASSUME AccountsAssumption ==
  /\ First \in Account /\ FirstName \in Name
  /\ FirstPassword \in Password /\ {FirstPhoto, NoPhoto} \subseteq Photo
  /\ None \notin Request \cup Account \cup Name \cup Password \cup Photo
  /\ None \notin Row \cup Form \cup Result

VARIABLES
  users,      \* the table: [Account -> Row or None]
  sessions,   \* Redis; "pwd", the password given at login, is a history field
  pc,         \* where each request is
  form,       \* its form
  who,        \* the account it is about, once known
  base,       \* the row it has read (UserModel)
  answer,     \* its Result, None before
  made,       \* history: the account a registration inserted
  passwords,  \* history: the passwords of an account, one per stored hash
  raced,      \* history: the updates that have read a row another has since saved
  renamed     \* history: the accounts an update has given another name

history == <<passwords, raced, renamed>>
reqVars == <<form, who, base, made>>
vars == <<users, sessions, pc, answer, reqVars, history>>

Rows == {u \in Account : users[u] # None}
Holder(n) == {u \in Rows : users[u].name = n}      \* at most one: unique_username

Init ==
  /\ users = [u \in Account |->
                IF u = First
                  THEN [name |-> FirstName, hash |-> [pwd |-> FirstPassword, by |-> None],
                        photo |-> FirstPhoto, ver |-> 0]
                  ELSE None]
  /\ sessions = {}
  /\ pc = [r \in Request |-> "idle"]
  /\ form = [r \in Request |-> None] /\ who = [r \in Request |-> None]
  /\ base = [r \in Request |-> None] /\ answer = [r \in Request |-> None]
  /\ made = [r \in Request |-> None]
  /\ passwords = [u \in Account |-> IF u = First THEN <<FirstPassword>> ELSE <<>>]
  /\ raced = {} /\ renamed = {}

Goto(r, stage) == pc' = [pc EXCEPT ![r] = stage]
Answer(r, a) == Goto(r, "done") /\ answer' = [answer EXCEPT ![r] = a]
-----------------------------------------------------------------------------
(* CreateUser: Users.Create looks for the name, then inserts; afterwards   *)
(* the handler logs the user in like CreateSession.                        *)
BeginForm(r, to, stage) ==
  /\ pc[r] = "idle"
  /\ \E n \in Name, p \in Password :
       form' = [form EXCEPT ![r] = [to |-> to, name |-> n, photo |-> None,
                                    new |-> None, old |-> p]]
  /\ Goto(r, stage)
  /\ UNCHANGED <<users, sessions, who, base, answer, made, history>>

CreateUser(r) == BeginForm(r, "register", "check name")
CreateSession(r) == BeginForm(r, "log in", "lookup")

CheckName(r) ==
  /\ pc[r] = "check name"
  /\ IF Holder(form[r].name) = {} THEN Goto(r, "insert") /\ UNCHANGED answer
                                  ELSE Answer(r, "taken")
  /\ UNCHANGED <<users, sessions, reqVars, history>>

(* Variant: the error of the INSERT is dropped. *)
Insert_ErrorDropped(r) ==
  /\ pc[r] = "insert" /\ Holder(form[r].name) # {}
  /\ Goto(r, "lookup")
  /\ UNCHANGED <<users, sessions, reqVars, answer, history>>

InsertFails(r) ==                                  \* unique_username, or the database
  /\ pc[r] \in {"check name", "insert"}
  /\ Answer(r, "error")
  /\ UNCHANGED <<users, sessions, reqVars, history>>

InsertRow(r) ==
  /\ pc[r] = "insert" /\ Holder(form[r].name) = {}
  /\ \E u \in Account \ Rows :
       /\ users' = [users EXCEPT ![u] =
                      [name |-> form[r].name, hash |-> [pwd |-> form[r].old, by |-> r],
                       photo |-> NoPhoto, ver |-> 0]]
       /\ made' = [made EXCEPT ![r] = u]
       /\ passwords' = [passwords EXCEPT ![u] = <<form[r].old>>]
  /\ UNCHANGED <<sessions, form, who, base, raced, renamed>>

Insert(r) == InsertRow(r) /\ Goto(r, "lookup") /\ UNCHANGED answer
CommitUnclear(r) == InsertRow(r) /\ Answer(r, "error")

(* CreateSessionImpl: find the name, compare the password, store a session *)
(* with the version of the password.                                       *)
Lookup(r) ==
  /\ pc[r] = "lookup"
  /\ \E u \in Holder(form[r].name) :
       /\ who' = [who EXCEPT ![r] = u]
       /\ base' = [base EXCEPT ![r] = users[u]]
       /\ IF users[u].hash.pwd = form[r].old THEN Goto(r, "set session") /\ UNCHANGED answer
                                              ELSE Answer(r, "invalid")
  /\ UNCHANGED <<users, sessions, form, made, history>>

LookupFails(r) ==                                  \* no such name, or any database error
  /\ pc[r] = "lookup"
  /\ Answer(r, "not_exists")
  /\ UNCHANGED <<users, sessions, reqVars, history>>

(* Variant: the version is read again when the session is stored. *)
SetSession_VersionNow(r) ==
  /\ pc[r] = "set session"
  /\ sessions' = sessions \cup {[token |-> r, user |-> who[r], ver |-> users[who[r]].ver,
                                pwd |-> form[r].old]}
  /\ Answer(r, "ok")
  /\ UNCHANGED <<users, reqVars, history>>

SetSession(r) ==
  /\ pc[r] = "set session"
  /\ sessions' = sessions \cup {[token |-> r, user |-> who[r], ver |-> base[r].ver,
                                pwd |-> form[r].old]}
  /\ Answer(r, "ok")
  /\ UNCHANGED <<users, reqVars, history>>

SetSessionFails(r) ==                              \* Redis
  /\ pc[r] = "set session"
  /\ Answer(r, "error")
  /\ UNCHANGED <<users, sessions, reqVars, history>>
-----------------------------------------------------------------------------
(* UpdateUser, behind WithAuthentication: the row is read in one statement *)
(* and written back whole in a later transaction.                          *)
Authenticated == {s.user : s \in sessions}

UpdateUser(r) ==
  /\ pc[r] = "idle"
  /\ \E u \in Authenticated, f \in Form :
       /\ f.to = "update" /\ <<f.name, f.photo, f.new>> # <<None, None, None>>
       /\ form' = [form EXCEPT ![r] = f]
       /\ who' = [who EXCEPT ![r] = u]
  /\ Goto(r, "read")
  /\ UNCHANGED <<users, sessions, base, answer, made, history>>

ReadUser(r) ==
  /\ pc[r] = "read"
  /\ base' = [base EXCEPT ![r] = users[who[r]]]
  /\ IF form[r].new = None \/ form[r].old = users[who[r]].hash.pwd
       THEN Goto(r, "save") /\ UNCHANGED answer
       ELSE Answer(r, IF form[r].old = None THEN "required" ELSE "invalid")
  /\ UNCHANGED <<users, sessions, form, who, made, history>>

(* Variant: a field the form leaves out is not taken from the row. *)
Or_FormOnly(field, default) == field
Or(field, default) == IF field = None THEN default ELSE field

(* users_insert_trigger: pwd_ver counts the changes of the hash. Variant: *)
(* it does not fire.                                                       *)
PwdVer_Unbumped(old, hash) == old.ver
PwdVer(old, hash) == IF hash # old.hash THEN old.ver + 1 ELSE old.ver

Saved(r) ==
  LET now == users[who[r]]
      hash == IF form[r].new = None THEN base[r].hash ELSE [pwd |-> form[r].new, by |-> r]
  IN [name |-> Or(form[r].name, base[r].name), photo |-> Or(form[r].photo, base[r].photo),
      hash |-> hash, ver |-> PwdVer(now, hash)]

SaveRow(r) ==
  /\ pc[r] = "save"
  /\ Holder(Saved(r).name) \subseteq {who[r]}
  /\ users' = [users EXCEPT ![who[r]] = Saved(r)]
  /\ passwords' = IF Saved(r).hash = users[who[r]].hash THEN passwords
                  ELSE [passwords EXCEPT ![who[r]] = Append(@, Saved(r).hash.pwd)]
  /\ raced' = raced \cup {q \in Request \ {r} : pc[q] = "save" /\ who[q] = who[r]}
  /\ renamed' = IF Saved(r).name = users[who[r]].name THEN renamed
                ELSE renamed \cup {who[r]}
  /\ UNCHANGED <<sessions, reqVars>>

Save(r) == SaveRow(r) /\ Answer(r, "ok")
SaveUnclear(r) == SaveRow(r) /\ Answer(r, "error")   \* Commit's reply is lost

SaveTaken(r) ==
  /\ pc[r] = "save"
  /\ ~(Holder(Saved(r).name) \subseteq {who[r]})
  /\ Answer(r, "taken")
  /\ UNCHANGED <<users, sessions, reqVars, history>>

UpdateFails(r) ==                                  \* the database
  /\ pc[r] \in {"read", "save"}
  /\ Answer(r, "error")
  /\ UNCHANGED <<users, sessions, reqVars, history>>
-----------------------------------------------------------------------------
DeleteSession(r) ==                                \* the token of the cookie
  /\ pc[r] = "idle"
  /\ \/ \E s \in sessions : sessions' = sessions \ {s} /\ Answer(r, "ok")
     \/ sessions # {} /\ UNCHANGED sessions /\ Answer(r, "error")
  /\ UNCHANGED <<users, reqVars, history>>

(* The handlers that only read: whether a name is used, an account by its  *)
(* id, the account of the cookie.                                        *)
CheckUsername(r) ==
  /\ pc[r] = "idle"
  /\ \E n \in Name : Answer(r, IF Holder(n) = {} THEN "free" ELSE "taken")
  /\ UNCHANGED <<users, sessions, reqVars, history>>

GetUserByID(r, u) ==
  /\ pc[r] = "idle"
  /\ who' = [who EXCEPT ![r] = u]
  /\ base' = [base EXCEPT ![r] = users[u]]
  /\ Answer(r, IF u \in Rows THEN "ok" ELSE "not_exists")
  /\ UNCHANGED <<users, sessions, form, made, history>>

GetUser(r) == \E u \in Account : GetUserByID(r, u)
GetSession(r) == \E u \in Authenticated : GetUserByID(r, u)

ReadFails(r) ==                                    \* the database
  /\ pc[r] = "idle"
  /\ Answer(r, "error")
  /\ UNCHANGED <<users, sessions, reqVars, history>>

Expire ==                                          \* ExpiresAfter, 30 days
  /\ \E s \in sessions : sessions' = sessions \ {s}
  /\ UNCHANGED <<users, pc, answer, reqVars, history>>

RequestStep(r) ==
  \/ CreateUser(r) \/ CheckName(r) \/ InsertFails(r) \/ Insert(r) \/ CommitUnclear(r)
  \/ CreateSession(r) \/ Lookup(r) \/ LookupFails(r) \/ SetSession(r) \/ SetSessionFails(r)
  \/ UpdateUser(r) \/ ReadUser(r) \/ Save(r) \/ SaveUnclear(r) \/ SaveTaken(r) \/ UpdateFails(r)
  \/ DeleteSession(r)
  \/ CheckUsername(r) \/ GetUser(r) \/ GetSession(r) \/ ReadFails(r)

Next == Expire \/ \E r \in Request : RequestStep(r)

Spec == Init /\ [][Next]_vars
-----------------------------------------------------------------------------
(* The type of every variable. *)
TypeOK ==
  /\ users \in [Account -> Row \cup {None}]
  /\ sessions \subseteq Session
  /\ pc \in [Request -> {"idle", "check name", "insert", "lookup", "set session",
                        "read", "save", "done"}]
  /\ form \in [Request -> Form \cup {None}]
  /\ who \in [Request -> Account \cup {None}] /\ made \in [Request -> Account \cup {None}]
  /\ base \in [Request -> Row \cup {None}]
  /\ answer \in [Request -> Result \cup {None}]
  /\ passwords \in [Account -> Seq(Password)]
  /\ raced \subseteq Request /\ renamed \subseteq Account

(* pwd_ver numbers the hashes an account has had, and the last of them is  *)
(* the one stored (users.sql:14-24, user_model.go:112-119).                *)
VersionCountsHashes ==
  \A u \in Rows :
    /\ Len(passwords[u]) = users[u].ver + 1
    /\ passwords[u][users[u].ver + 1] = users[u].hash.pwd

(* A session whose PwdVer is still the account's was opened with the       *)
(* account's present password, whatever updates ran between the login's    *)
(* read and its write to Redis: comparing the two, which WithAuthentication*)
(* does not do, would tell the sessions of an old password                 *)
(* (session_handle.go:66-91).                                              *)
SessionMatchesVersion ==
  \A s \in sessions :
    /\ s.ver <= users[s.user].ver
    /\ s.ver = users[s.user].ver => s.pwd = users[s.user].hash.pwd

(* A registration answered with a cookie made an account of its own, no    *)
(* other registration made the same one, and the cookie is for that        *)
(* account, unless an update took its name away before the login looked    *)
(* for it: however two registrations of one name race between the check    *)
(* and the INSERT, none logs in to what another has made                   *)
(* (user_model.go:65-83, user_handle.go:217-229).                          *)
OwnOrRenamed(r) == who[r] = made[r] \/ made[r] \in renamed
RegistrationsOwn ==
  \A r \in Request :
    /\ pc[r] = "done" /\ form[r] # None =>
         (form[r].to = "register" /\ answer[r] = "ok" => made[r] # None /\ OwnOrRenamed(r))
    /\ made[r] # None => \A q \in Request \ {r} : made[q] # made[r]

(* user_handle.go:160-161: when the password is updated, one has to check  *)
(* that the user knows the old one. So whatever replaces the stored        *)
(* password is a request that asked for it and gave an old password.       *)
PasswordNeedsOld ==
  [][\A u \in Rows :
       users'[u].hash # users[u].hash =>
         \E r \in Request : /\ who[r] = u /\ pc[r] = "save" /\ pc'[r] = "done"
                            /\ form[r].new # None
                            /\ form[r].old = base[r].hash.pwd]_vars

(* What an update may do to the rest of the row: it changes a field its    *)
(* form does not name only by writing back what it read, and only if       *)
(* another update of the same account was saved after it read. So the      *)
(* update that is lost is always one that raced (user_handle.go:132-158,   *)
(* user_model.go:87-122).                                                  *)
OnlyRacesLoseUpdates ==
  [][\A u \in Rows : users'[u] # users[u] =>
       \E r \in Request :
         /\ who[r] = u /\ pc[r] = "save" /\ pc'[r] = "done"
         /\ \A f \in {"name", "photo", "hash"} :
              LET asked == CASE f = "name" -> form[r].name
                             [] f = "photo" -> form[r].photo
                             [] f = "hash" -> form[r].new
              IN asked = None /\ users'[u][f] # users[u][f] =>
                   users'[u][f] = base[r][f] /\ r \in raced]_vars

(* How far a request has come, and what it has then been given or found:   *)
(* a row, once there, stays, so that neither a session nor a request in    *)
(* its course is left without its account.                                 *)
StageOK(r) ==
  /\ pc[r] = "idle" => form[r] = None
  /\ answer[r] # None => pc[r] = "done"
  /\ pc[r] \in {"check name", "insert", "lookup", "set session"} =>
       /\ form[r] \in Form /\ form[r].to # "update"
       /\ form[r].name # None /\ form[r].old # None
  /\ pc[r] \in {"lookup", "set session"} /\ form[r].to = "register" => made[r] # None
  /\ pc[r] \in {"read", "save"} => form[r] \in Form /\ form[r].to = "update"
  /\ pc[r] \in {"set session", "read", "save"} => who[r] \in Rows
  /\ pc[r] \in {"set session", "save"} => base[r] \in Row
  /\ made[r] # None => made[r] \in Rows
StagesOK == \A r \in Request : StageOK(r)

(* The version in a session, or in the row a login has read, is the place  *)
(* of the password it was opened with among those the account has had.     *)
WasPassword(u, ver, p) == ver < Len(passwords[u]) /\ passwords[u][ver + 1] = p
HistoryOK ==
  /\ \A s \in sessions : s.user \in Rows /\ WasPassword(s.user, s.ver, s.pwd)
  /\ \A r \in Request :
       pc[r] = "set session" => WasPassword(who[r], base[r].ver, form[r].old)

(* An update that is about to be written holds the row as it is, unless    *)
(* another one was saved since it was read.                                *)
RacesKnown ==
  \A r \in Request : pc[r] = "save" /\ base[r] # users[who[r]] => r \in raced

(* No two accounts have one name, and the account a registration has made  *)
(* keeps the name it is looked for by, unless an update takes it away.     *)
NamesOwn ==
  /\ \A u, v \in Rows : users[u].name = users[v].name => u = v
  /\ \A r \in Request :
       /\ pc[r] = "lookup" /\ form[r].to = "register" =>
            users[made[r]].name = form[r].name \/ made[r] \in renamed
       /\ pc[r] = "set session" /\ form[r].to = "register" => OwnOrRenamed(r)

IInv == /\ TypeOK /\ StagesOK /\ VersionCountsHashes /\ HistoryOK /\ RacesKnown
        /\ NamesOwn /\ RegistrationsOwn
=============================================================================
