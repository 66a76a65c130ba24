------------------------------ MODULE MCBotHub ------------------------------
(* Small instances of the verification hub for TLC. *)
EXTENDS BotHub, TLC

CONSTANTS c1, c2, u1, u2, b1, b2, chess, CHESS, profile

Clients == {c1, c2}
OneUser == {u1}
TwoUsers == {u1, u2}
OneSlug == {chess}
TwoSpellings == {chess, CHESS}                \* of one game

OneBot == {b1}
TwoBots == {b1, b2}
AuthorOfOne == (b1 :> u1)
AuthorsOfTwo == (b1 :> u1) @@ (b2 :> u1)
SlugOfOne == (b1 :> chess)
SlugsOfTwo == (b1 :> chess) @@ (b2 :> chess)
OneStatus == (b1 :> 1)
TwoAndOne == (b1 :> 2) @@ (b2 :> 1)
OneGame == (chess :> chess)
OneGameTwoSpellings == (chess :> chess) @@ (CHESS :> chess)

ClientSymmetry == Permutations(Clients)
=============================================================================
