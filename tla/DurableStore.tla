---------------------------- MODULE DurableStore ----------------------------
(***************************************************************************)
(* What the state store promises: a set of mutations that survives crashes *)
(* whole.  A mutation takes effect at once; a crash may or may not keep    *)
(* the one mutation that was under way, and loses no other.                *)
(***************************************************************************)
CONSTANT Mutations

VARIABLES stored,  \* the mutations a reader sees, or will see after a boot
          up       \* the store is open

vars == <<stored, up>>

Init == stored = {} /\ up = FALSE

Write(m) == up /\ stored' = stored \cup {m} /\ UNCHANGED up

Open == ~up /\ up' = TRUE /\ UNCHANGED stored

Crash == up /\ up' = FALSE /\ UNCHANGED stored

CrashKeeping(m) == up /\ up' = FALSE /\ stored' = stored \cup {m}

Next == Open \/ Crash \/ \E m \in Mutations : Write(m) \/ CrashKeeping(m)

Spec == Init /\ [][Next]_vars
=============================================================================
