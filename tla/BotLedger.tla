------------------------------ MODULE BotLedger ------------------------------
(***************************************************************************)
(* What an upload and its verification promise the author, without the     *)
(* tester's queues or the goroutines: an upload is stored at most once and *)
(* given to the tester after that; its answer agrees with both and is      *)
(* final.  The verdicts of the tester are told one at a time, and only a   *)
(* verdict that was told is recorded, once, unless it is given up (the     *)
(* database failed, the process died).  A verdict may come before the      *)
(* answer, which is then 200, or none if the process dies first.           *)
(***************************************************************************)
CONSTANTS Request, Upload, UploadOf, GameExists

VARIABLES
  rows,       \* requests whose bot is stored
  verified,   \* those that passed the test
  tasks,      \* requests whose bot was given to the tester
  answer,     \* what the client was told: "none" yet, "200", "not_exists", "taken", "500"
  told        \* the verdict told and not yet recorded, or "none"

vars == <<rows, verified, tasks, answer, told>>

Verdict == {"win", "loss", "error"}
Same(r, d) == UploadOf[r] = UploadOf[d]

Init ==
  /\ rows = {} /\ verified = {} /\ tasks = {}
  /\ answer = [r \in Request |-> "none"]
  /\ told = [r \in Request |-> "none"]

Store(r) ==                                  \* answered later, or 500 if the commit was unclear
  /\ answer[r] = "none"
  /\ UploadOf[r] \in GameExists
  /\ \A d \in rows : ~Same(r, d)
  /\ rows' = rows \cup {r}
  /\ answer' \in {answer, [answer EXCEPT ![r] = "500"]}
  /\ UNCHANGED <<verified, tasks, told>>

Send(r) ==
  /\ answer[r] = "none" /\ r \in rows
  /\ tasks' = tasks \cup {r}
  /\ UNCHANGED <<rows, verified, answer, told>>

Reply(r) ==
  /\ answer[r] = "none"
  /\ \E a \in {"200", "taken", "not_exists", "500"} :
       /\ a = "200" <=> r \in tasks
       /\ a = "taken" => r \notin rows /\ \E d \in rows : Same(r, d)
       /\ a = "not_exists" => r \notin rows
       /\ answer' = [answer EXCEPT ![r] = a]
  /\ UNCHANGED <<rows, verified, tasks, told>>

Tell(r) ==
  /\ r \in tasks /\ told[r] = "none"
  /\ \E v \in Verdict : told' = [told EXCEPT ![r] = v]
  /\ UNCHANGED <<rows, verified, tasks, answer>>

Record(r) ==
  /\ told[r] # "none"
  /\ verified' = IF told[r] = "win" THEN verified \cup {r} ELSE verified \ {r}
  /\ told' = [told EXCEPT ![r] = "none"]
  /\ UNCHANGED <<rows, tasks, answer>>

GiveUp ==                                    \* one verdict, or with the process all of them
  /\ \E S \in SUBSET Request : told' = [r \in Request |-> IF r \in S THEN "none" ELSE told[r]]
  /\ UNCHANGED <<rows, verified, tasks, answer>>

Next == (\E r \in Request : Store(r) \/ Send(r) \/ Reply(r) \/ Tell(r) \/ Record(r)) \/ GiveUp

Spec == Init /\ [][Next]_vars
=============================================================================
