--------------------------- MODULE MCSessionLogout ---------------------------
(* Small instances of SessionLogout. *)
EXTENDS SessionLogout, TLC

Symmetry == Permutations(Flows) \cup Permutations(Logouts) \cup Permutations(Clients)
              \cup Permutations(Sids) \cup Permutations(Grants)
=============================================================================
