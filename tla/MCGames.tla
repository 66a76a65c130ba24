------------------------------ MODULE MCGames ------------------------------
(* A small instance of Games: a game, a slug without one, two requests. *)
EXTENDS Games, TLC

CONSTANTS r1, r2, p1, p2, p3, pong, nopong

Params == {None, -1, 0, 1, 2}
Symmetry == Permutations({r1, r2}) \cup Permutations({p1, p2, p3})
=============================================================================
