----------------------------- MODULE MCConsumer -----------------------------
(* A small instance of Consumer for TLC. *)
EXTENDS Consumer

CONSTANTS m1, m2, w1, w2

TwoMsgs == {m1, m2}
OneMalformed == {m2}
TwoWorkers == {w1, w2}
=============================================================================
