------------------------------ MODULE MCAdminApi ------------------------------
(* Small instances of AdminApi for TLC. *)
EXTENDS AdminApi, TLC

Symm == Permutations(Clients)
=============================================================================
