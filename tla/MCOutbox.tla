------------------------------ MODULE MCOutbox ------------------------------
(* Small instances of Outbox for TLC. *)
EXTENDS Outbox

CONSTANTS r1, r2

OneRelay == {r1}
TwoRelays == {r1, r2}
NoEvents == {}
FirstEvent == {1}
FirstTwoEvents == {1, 2}
=============================================================================
