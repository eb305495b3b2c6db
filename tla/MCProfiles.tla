----------------------------- MODULE MCProfiles -----------------------------
(* A small instance of Profiles for TLC. *)
EXTENDS Profiles, TLC

CONSTANTS p1, p2, n1, n2, m1, m2, k1, k2, k3

TwoPlayers == {p1, p2}
TwoNames == {n1, n2}
TwoMails == {m1, m2}
ThreeCalls == {k1, k2, k3}
ProfileSymmetry ==
  Permutations(Players) \cup Permutations(Names) \cup Permutations(Mails) \cup Permutations(Calls)
=============================================================================
