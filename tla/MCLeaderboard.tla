---------------------------- MODULE MCLeaderboard ---------------------------
(* Small instances of Leaderboard for TLC. *)
EXTENDS Leaderboard, TLC

CONSTANTS k1, k2, k3

ThreeCalls == {k1, k2, k3}
UpAndDown == {1, -1}
CallSymmetry == Permutations(Calls)
=============================================================================
