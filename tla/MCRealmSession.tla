--------------------------- MODULE MCRealmSession ---------------------------
(* Small instances of RealmSession. *)
EXTENDS RealmSession, TLC

Symmetry == Permutations(Requests) \cup Permutations(Sids) \cup Permutations(Secrets)
=============================================================================
