----------------------------- MODULE MCSupervisor -----------------------------
(* Small instances of Supervisor for TLC. *)
EXTENDS Supervisor, TLC

\* Apps and callers are interchangeable; used where only safety is checked.
Symm == Permutations(Apps) \cup Permutations(Callers)
=============================================================================
