------------------------------- MODULE MCHub --------------------------------
(* A small instance of Hub for TLC. *)
EXTENDS Hub

CONSTANTS c1, c2, p1, p2, r1, r2

TwoConns == {c1, c2}
TwoPlayers == {p1, p2}
\* c1 and c2 are two tabs of one player.
Owners == [c \in Conns |-> p1]
TwoRooms == {r1, r2}
=============================================================================
