---------------------------- MODULE MCSessions ------------------------------
(* A small instance of Sessions for TLC. *)
EXTENDS Sessions

CONSTANTS q1, q2, w1, w2, d1, d2

TwoRequests == {q1, q2}
TwoSockets == {w1, w2}
TwoConns == {d1, d2}
TwoHomes == [c \in Conns |-> IF c = d1 THEN w1 ELSE w2]
=============================================================================
