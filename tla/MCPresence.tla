---------------------------- MODULE MCPresence ------------------------------
(* A small instance of Presence for TLC: a player with two connections, one *)
(* on each of two replicas.                                                 *)
EXTENDS Presence

CONSTANTS w1, w2, d1, d2, a1

TwoReplicas == {w1, w2}
TwoSockets == {d1, d2}
HomeTwo == [c \in Sockets |-> IF c = d2 THEN w2 ELSE w1]
OneCaller == {a1}
=============================================================================
