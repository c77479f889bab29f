---------------------------- MODULE AppConditions ----------------------------
(***************************************************************************)
(* The conditions GET /v1/apps/{id} reports (adminapi/conditions.go).      *)
(* They are computed when asked for: from the supervisor's status, from    *)
(* whether a generation has not been observed yet, and from what earlier   *)
(* requests left in the tracker, which two critical sections of the        *)
(* request update one after the other.  Stopping the app clears the        *)
(* tracker, in a step of its own.                                          *)
(*                                                                         *)
(* One app.  Its status and its generations may be anything when they are  *)
(* read, and so may the time: time.Now().UTC() has no monotonic reading,   *)
(* so the wall clock may have been stepped.                                *)
(***************************************************************************)
EXTENDS Integers, Sequences

CONSTANTS
  CondGets,            \* concurrent GET requests
  CondStatuses,        \* supervisor statuses the app goes through
  ProgressingTimeout,  \* conditionTracker.progressingTimeout
  CondClock,           \* bound on the time
  CondReads,           \* bound on the requests
  CondStops            \* bound on the times the app is stopped

ASSUME ConditionsAssumption == {ProgressingTimeout, CondClock, CondReads, CondStops} \subseteq Nat

VARIABLES
  tracked,    \* conditionTracker.m
  anchor,     \* conditionTracker.progressingStart, or -1
  condGet,    \* what each GET is doing
  condReads,
  condStops,
  passed,     \* history: the first critical sections since the last forget
  reported    \* history: the answers since the last forget

conditionVars == <<tracked, anchor, condGet, condReads, condStops, passed, reported>>

Types == {"Ready", "Progressing", "Degraded", "BackupReady"}
Unset == -1
Unseen == [t \in Types |-> [status |-> "none", ltt |-> Unset]]
NoGet == [pc |-> "idle", drift |-> FALSE, now |-> 0, conds |-> [t \in Types |-> "none"]]

\* The tracker and the requests have their types.
ConditionsTypeOK ==
  /\ anchor \in -1 .. CondClock
  /\ \A t \in Types : /\ tracked[t].status \in {"none", "True", "False", "Unknown"}
                      /\ tracked[t].ltt \in -1 .. CondClock
  /\ \A g \in CondGets : condGet[g].pc \in {"idle", "status", "timeout", "times"}

(***************************************************************************)
(* computeAppConditions: the conditions a status stands for.  A generation *)
(* that has not been observed is progress, whatever the status.            *)
(***************************************************************************)
Truth(s, S) == IF s = "unknown" THEN "Unknown" ELSE IF s \in S THEN "True" ELSE "False"

computeAppConditions(s, behind) ==
  [Ready |-> Truth(s, {"running"}),
   Progressing |-> IF behind THEN "True" ELSE Truth(s, {"starting"}),
   Degraded |-> Truth(s, {"crashed", "crashlooping", "unhealthy"}),
   BackupReady |-> "Unknown"]

\* GetApp reads the app's record.
GetApp(g) ==
  /\ condGet[g] = NoGet
  /\ condReads < CondReads
  /\ condReads' = condReads + 1
  /\ \E behind \in BOOLEAN :
       condGet' = [condGet EXCEPT ![g].pc = "status", ![g].drift = behind]
  /\ UNCHANGED <<tracked, anchor, condStops, passed, reported>>

\* The status and the time are read, and stay as read.
appToEnvelope(g) ==
  /\ condGet[g].pc = "status"
  /\ \E s \in CondStatuses, now \in 0 .. CondClock :
       condGet' = [condGet EXCEPT ![g] =
         [pc |-> "timeout", drift |-> FALSE, now |-> now,
          conds |-> computeAppConditions(s, @.drift)]]
  /\ UNCHANGED <<tracked, anchor, condReads, condStops, passed, reported>>

\* faulty: the anchor is left in place when progress ends
anchorAfter_Kept(progressing, now) == IF anchor = Unset /\ progressing THEN now ELSE anchor

\* The anchor is the first observation of the current stretch of progress.
anchorAfter(progressing, now) ==
  IF ~progressing THEN Unset ELSE IF anchor = Unset THEN now ELSE anchor

applyProgressingTimeout(g) ==
  LET c == condGet[g].conds
      now == condGet[g].now
      progressing == c.Progressing = "True"
      late == progressing /\ anchor # Unset /\ now - anchor > ProgressingTimeout
  IN  /\ condGet[g].pc = "timeout"
      /\ anchor' = anchorAfter(progressing, now)
      /\ condGet' = [condGet EXCEPT ![g] =
           [pc |-> "times", drift |-> FALSE, now |-> now,
            conds |-> IF late THEN [c EXCEPT !.Progressing = "False", !.Degraded = "True"] ELSE c]]
      /\ passed' = Append(passed, [now |-> now, progressing |-> progressing, late |-> late])
      /\ UNCHANGED <<tracked, condReads, condStops, reported>>

applyTransitionTimes(g) ==
  LET c == condGet[g].conds
      seen == [t \in Types |-> IF tracked[t].status = c[t] THEN tracked[t]
                               ELSE [status |-> c[t], ltt |-> condGet[g].now]]
  IN  /\ condGet[g].pc = "times"
      /\ tracked' = seen
      /\ reported' = Append(reported, [now |-> condGet[g].now, conds |-> seen])
      /\ condGet' = [condGet EXCEPT ![g] = NoGet]
      /\ UNCHANGED <<anchor, condReads, condStops, passed>>

\* DELETE clears the tracker after it has stopped the app; requests under
\* way, and a spawn of the same name, may come before or after.
forget ==
  /\ condStops < CondStops
  /\ condStops' = condStops + 1
  /\ tracked' = Unseen
  /\ anchor' = Unset
  /\ passed' = <<>>
  /\ reported' = <<>>
  /\ UNCHANGED <<condGet, condReads>>

ConditionsInit ==
  /\ tracked = Unseen
  /\ anchor = Unset
  /\ condGet = [g \in CondGets |-> NoGet]
  /\ condReads = 0
  /\ condStops = 0
  /\ passed = <<>>
  /\ reported = <<>>

ConditionsNext ==
  \/ \E g \in CondGets : \/ GetApp(g) \/ appToEnvelope(g)
                         \/ applyProgressingTimeout(g) \/ applyTransitionTimes(g)
  \/ forget

ConditionsSpec == ConditionsInit /\ [][ConditionsNext]_conditionVars

(***************************************************************************)
(* The conditions follow from the observations alone, however requests     *)
(* overlap.  The timeout is measured from the first observation of the     *)
(* stretch of progress that is still going on, "from its own start, not    *)
(* the previous one".  The transition time of a condition is the time of   *)
(* the observation at which it took the value it has had since.            *)
(***************************************************************************)
ConditionsFollowObservations ==
  /\ \A n \in DOMAIN passed :
       passed[n].late <=> \E k \in 1 .. n - 1 :
         /\ \A j \in k .. n : passed[j].progressing
         /\ k = 1 \/ ~passed[k - 1].progressing
         /\ passed[n].now - passed[k].now > ProgressingTimeout
  /\ \A n \in DOMAIN reported, t \in Types :
       \E k \in 1 .. n :
         /\ \A j \in k .. n : reported[j].conds[t].status = reported[n].conds[t].status
         /\ k = 1 \/ reported[k - 1].conds[t].status # reported[n].conds[t].status
         /\ reported[n].conds[t].ltt = reported[k].now
=============================================================================
