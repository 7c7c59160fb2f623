--------------------------- MODULE MCRegistration ---------------------------
(* Small instances of Registration for TLC. *)
EXTENDS Registration, TLC

CONSTANTS c1, c2

OneClient == {c1}
TwoClients == {c1, c2}

ClientSymmetry == Permutations(Clients)

=============================================================================
