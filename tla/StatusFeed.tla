----------------------------- MODULE StatusFeed -----------------------------
(***************************************************************************)
(* What the hub promises its listeners, without channels or goroutines:    *)
(* a status becomes due, atomically, to everyone who listens to the bot's  *)
(* game or to the author's profile at that moment; each listener receives  *)
(* what is due to it once and in order; nobody stops listening while       *)
(* something is due.                                                       *)
(***************************************************************************)
EXTENDS HubTypes

VARIABLES
  listening,   \* [Client -> Key or NoKey]
  published,   \* [Bot -> number of statuses published]
  due,         \* [Client -> statuses published for it and not yet received]
  got          \* [Client -> statuses received]

vars == <<listening, published, due, got>>

Hears(c, b) == listening[c] \in {GameKey(b), ProfileKey(b)}

Init ==
  /\ listening = [c \in Client |-> NoKey]
  /\ published = [b \in Bot |-> 0]
  /\ due = [c \in Client |-> <<>>]
  /\ got = [c \in Client |-> <<>>]

Subscribe(c) ==
  /\ listening[c] = NoKey
  /\ \E k \in Key : listening' = [listening EXCEPT ![c] = k]
  /\ UNCHANGED <<published, due, got>>

Unsubscribe(c) ==
  /\ listening[c] # NoKey
  /\ due[c] = <<>>
  /\ listening' = [listening EXCEPT ![c] = NoKey]
  /\ UNCHANGED <<published, due, got>>

Publish(b) ==
  /\ published[b] < MaxStatus[b]
  /\ published' = [published EXCEPT ![b] = @ + 1]
  /\ due' = [c \in Client |->
               IF Hears(c, b) THEN Append(due[c], [bot |-> b, n |-> published[b] + 1])
                              ELSE due[c]]
  /\ UNCHANGED <<listening, got>>

Receive(c) ==
  /\ due[c] # <<>>
  /\ got' = [got EXCEPT ![c] = Append(@, Head(due[c]))]
  /\ due' = [due EXCEPT ![c] = Tail(@)]
  /\ UNCHANGED <<listening, published>>

Next ==
  \/ \E c \in Client : Subscribe(c) \/ Unsubscribe(c) \/ Receive(c)
  \/ \E b \in Bot : Publish(b)

Spec == Init /\ [][Next]_vars
=============================================================================
