------------------------------ MODULE MCHealth ------------------------------
(* Small instances of Health for TLC. *)
EXTENDS Health

CONSTANTS k1, k2, k3

ThreeChecks == {k1, k2, k3}
OneStuck == {k1}
=============================================================================
