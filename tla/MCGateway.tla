----------------------------- MODULE MCGateway ------------------------------
(* A small instance of Gateway, with its rate limiter, for TLC. *)
EXTENDS Gateway, TLC

CONSTANTS i1, i2, p1, p2

TwoIPs == {i1, i2}

TwoPlayers == {p1, p2}

Symmetry == Permutations(TwoIPs) \cup Permutations(TwoPlayers)
=============================================================================
