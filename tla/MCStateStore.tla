---------------------------- MODULE MCStateStore ----------------------------
(* Instances of StateStore for TLC: the cfg files give the constants.        *)
EXTENDS StateStore
=============================================================================
