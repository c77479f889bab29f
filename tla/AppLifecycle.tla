---------------------------- MODULE AppLifecycle ----------------------------
(***************************************************************************)
(* What the supervisor promises for each App object, without goroutines,   *)
(* signals or channels: when its process may run, and when the cgroup and  *)
(* network namespace it runs in may be released.                           *)
(***************************************************************************)
CONSTANT Apps

VARIABLES phase,      \* of each App
          registered  \* the Apps in the registry

vars == <<phase, registered>>

Phases == {"new", "running", "down", "released"}

Init == phase = [a \in Apps |-> "new"] /\ registered = {}

Become(a, p) == phase' = [phase EXCEPT ![a] = p]

\* Spawn, and the first half of a deploy.
Start(a) == phase[a] = "new" /\ Become(a, "running") /\ registered' = registered \cup {a}

Die(a) == phase[a] = "running" /\ Become(a, "down") /\ UNCHANGED registered

\* The restart after a crash, and Reset: never of an App that was removed.
Revive(a) ==
  /\ phase[a] = "down"
  /\ a \in registered
  /\ Become(a, "running")
  /\ UNCHANGED registered

\* Stop, or the end of v1 in a deploy.
Drop(a) == a \in registered /\ registered' = registered \ {a} /\ UNCHANGED phase

\* A stop that failed.
PutBack(a) ==
  /\ a \notin registered
  /\ phase[a] \in {"running", "down"}
  /\ registered' = registered \cup {a}
  /\ UNCHANGED phase

Release(a) ==
  /\ phase[a] = "down"
  /\ a \notin registered
  /\ Become(a, "released")
  /\ UNCHANGED registered

Next == \E a \in Apps :
          Start(a) \/ Die(a) \/ Revive(a) \/ Drop(a) \/ PutBack(a) \/ Release(a)

Spec == Init /\ [][Next]_vars
=============================================================================
