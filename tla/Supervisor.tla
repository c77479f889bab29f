------------------------------ MODULE Supervisor ------------------------------
(***************************************************************************)
(* The process supervisor of creekd (internal/supervisor/supervisor.go):   *)
(* the registry of apps, one watch and one probe goroutine per app, and    *)
(* the calls Spawn, Stop, Restart, Reset and Deploy that run beside them.  *)
(*                                                                         *)
(* A step is one critical section (s.mu or App.mu) or one blocking wait of *)
(* one goroutine; goroutines interleave freely between steps.  An element  *)
(* of Apps is one App object: the code compares Apps by pointer, so an id  *)
(* that is stopped and spawned again is a new element.                     *)
(*                                                                         *)
(* Abstracted: time (a timer may fire at any moment, the restart window    *)
(* may forget any number of old restarts), the contents of configurations, *)
(* log records and events.  Calls that return an error before they changed *)
(* anything are not steps.                                                 *)
(***************************************************************************)
EXTENDS Integers

CONSTANTS
  Ids,                          \* application ids
  Apps,                         \* App objects
  Callers,                      \* goroutines that call the supervisor
  Ops,                          \* the calls they make, a subset of AllOps
  CrashLoopThreshold,           \* restarts in the window before suspending
  HealthCheckFailureThreshold,  \* failing probes before a SIGKILL
  HealthEnabled,                \* a HealthChecker is set and probes run
  CanKill,                      \* signals reach the app (CAP_KILL)
  StartMayFail,                 \* a re-start of the process can fail
  RouterMayFail,                \* router.SetAddr can refuse v2
  SerialReset,                  \* callers never overlap two Resets of one app
  MaxFaults,                    \* bound: crashes, failing probes and starts
  MaxRestarts,                  \* bound: Restart is called below this PID
  MaxResets,                    \* bound: Resets of one App
  NULL

AllOps == {"Spawn", "Stop", "StopTemp", "Restart", "Reset", "Deploy"}

\* Registry keys: an id, and the key v2 has while a deploy is under way.
Key(i) == <<i, "live">>
deployTempID(i) == <<i, "deploying">>
Keys == Ids \X {"live", "deploying"}

ASSUME SupervisorAssumption ==
  /\ Ops \subseteq AllOps
  /\ CrashLoopThreshold \in Nat
  /\ HealthCheckFailureThreshold \in Nat \ {0}
  /\ HealthEnabled \in BOOLEAN
  /\ CanKill \in BOOLEAN
  /\ StartMayFail \in BOOLEAN
  /\ RouterMayFail \in BOOLEAN
  /\ SerialReset \in BOOLEAN
  /\ MaxFaults \in Nat
  /\ MaxRestarts \in Nat
  /\ MaxResets \in Nat
  /\ NULL \notin Apps
  /\ NULL \notin Keys

\* The n-th done channel of an App; Reset makes a new one.
Epochs == 0 .. MaxResets

VARIABLES
  apps,      \* s.apps: the registry
  id,        \* App.ID
  status,    \* App.status
  proc,      \* the OS process of App.cmd
  pid,       \* identity of that process: how many the App has started
  done,      \* App.done: the current done channel
  closed,    \* the done channels already closed
  restarts,  \* len(App.restarts)
  held,      \* log rotator and cgroup/netns the App still holds
  watch,     \* the watch goroutine started with each done channel
  probe,     \* the probe goroutine started with each done channel
  caller,    \* the calls in flight
  route,     \* the dispatch route Deploy flips
  faults,    \* faults of the environment so far
  panicked   \* a closed channel was closed again

appVars == <<apps, id, held, route>>
procVars == <<status, proc, pid, restarts>>
doneVars == <<done, closed, panicked>>
vars == <<appVars, procVars, doneVars, watch, probe, caller, faults>>

Status == {"New", "Running", "Crashed", "CrashLooping", "Stopped", "Unhealthy"}
\* alive, told to terminate, killed, exited but not waited for, waited for
Proc == {"none", "alive", "termed", "dying", "zombie", "reaped"}
WatchPc == {"off", "wait", "exited", "crashed", "backoff", "untracked",
            "closing", "closed", "gone"}
ProbePc == {"off", "select", "check", "recover", "gone"}
StopPc == {"stopTerm", "stopWait", "killWait", "deniedWait", "cleanup",
           "stopFailed"}
DeployPc == {"deploySpawn", "deployHealth", "deploySwap", "deployAbort",
             "deployRoute", "deployRollback"}
CallerPc == {"idle", "restartPoll", "resetWait"} \cup StopPc \cup DeployPc

\* Local variables of a call: the App it works on, v2 of a deploy, the
\* registry key it was given (NULL in a bare stopApp), and the channel or the
\* PID it read.
Idle == [pc |-> "idle", app |-> NULL, v2 |-> NULL, key |-> NULL, seen |-> 0]
\* Local variables of a probe goroutine, and the PID its current run of
\* failures began with (first, used by a property only).
NoProbe == [pc |-> "off", failures |-> 0, first |-> 0]

RegistryType ==
  /\ apps \in [Keys -> Apps \cup {NULL}]
  /\ id \in [Apps -> Keys \cup {NULL}]
  /\ held \in [Apps -> SUBSET {"log", "isolation"}]
  /\ route \in [Ids -> Apps \cup {NULL}]
ProcessType ==
  /\ status \in [Apps -> Status]
  /\ proc \in [Apps -> Proc]
  /\ pid \in [Apps -> Nat]
  /\ restarts \in [Apps -> Nat]
ChannelType ==
  /\ done \in [Apps -> Epochs]
  /\ closed \in [Apps -> SUBSET Epochs]
  /\ panicked \in BOOLEAN
WatchType == watch \in [Apps -> [Epochs -> WatchPc]]
ProbeType ==
  probe \in [Apps -> [Epochs -> [pc : ProbePc, failures : Nat, first : Nat]]]
CallerType ==
  caller \in [Callers -> [pc : CallerPc, app : Apps \cup {NULL},
                          v2 : Apps \cup {NULL}, key : Keys \cup {NULL},
                          seen : Nat]]

\* Every variable of the supervisor, the goroutines and the calls has its type.
TypeOK ==
  /\ RegistryType /\ ProcessType /\ ChannelType
  /\ WatchType /\ ProbeType /\ CallerType
  /\ faults \in 0 .. MaxFaults

Init ==
  /\ apps = [k \in Keys |-> NULL]
  /\ id = [a \in Apps |-> NULL]
  /\ status = [a \in Apps |-> "New"]
  /\ proc = [a \in Apps |-> "none"]
  /\ pid = [a \in Apps |-> 0]
  /\ done = [a \in Apps |-> 0]
  /\ closed = [a \in Apps |-> {}]
  /\ restarts = [a \in Apps |-> 0]
  /\ held = [a \in Apps |-> {}]
  /\ watch = [a \in Apps |-> [e \in Epochs |-> "off"]]
  /\ probe = [a \in Apps |-> [e \in Epochs |-> NoProbe]]
  /\ caller = [c \in Callers |-> Idle]
  /\ route = [i \in Ids |-> NULL]
  /\ faults = 0
  /\ panicked = FALSE

-----------------------------------------------------------------------------
(* Helpers *)

isTracked(a) == id[a] # NULL /\ apps[id[a]] = a

Up(a) == proc[a] \in {"alive", "termed", "dying"}

\* A fault of the environment: bounded by MaxFaults.
Fault == faults < MaxFaults /\ faults' = faults + 1

\* startLocked succeeding: a new process, status Running.  StatusStarting is
\* overwritten before s.mu is released.
startLocked(a) ==
  /\ status' = [status EXCEPT ![a] = "Running"]
  /\ proc' = [proc EXCEPT ![a] = "alive"]
  /\ pid' = [pid EXCEPT ![a] = @ + 1]

\* startLocked failing.
startFails(a) ==
  /\ StartMayFail
  /\ Fault
  /\ status' = [status EXCEPT ![a] = "Crashed"]
  /\ UNCHANGED <<proc, pid>>

setStatus(a, s) == status' = [status EXCEPT ![a] = s]

\* go s.watch, and go s.probe when health checks are enabled.
goWatchAndProbe(a, e) ==
  /\ watch' = [watch EXCEPT ![a][e] = "wait"]
  /\ probe' = IF HealthEnabled
                THEN [probe EXCEPT ![a][e].pc = "select"]
                ELSE probe

\* What a delivered signal does; without CAP_KILL it does nothing.
Terminate(a) ==
  proc' = [proc EXCEPT ![a] = IF CanKill /\ @ = "alive" THEN "termed" ELSE @]
\* faulty: SIGKILL is never sent
Kill_NotSent(a) == UNCHANGED proc
Kill(a) ==
  proc' = [proc EXCEPT ![a] =
             IF CanKill /\ @ \in {"alive", "termed"} THEN "dying" ELSE @]

\* signalFailed: EPERM, for any process not yet waited for.
signalFailed(a) == ~CanKill /\ proc[a] # "reaped"

Goto(c, pc) == caller' = [caller EXCEPT ![c].pc = pc]
Return(c) == caller' = [caller EXCEPT ![c] = Idle]

-----------------------------------------------------------------------------
(* The operating system *)

\* The process ends: on its own (a fault), after SIGTERM, or after SIGKILL.
Exit(a) ==
  /\ \/ proc[a] = "alive" /\ Fault
     \/ proc[a] \in {"termed", "dying"} /\ UNCHANGED faults
  /\ proc' = [proc EXCEPT ![a] = "zombie"]
  /\ UNCHANGED <<appVars, status, pid, restarts, doneVars, watch, probe, caller>>

-----------------------------------------------------------------------------
(* The watch goroutine of App a with done channel e *)

WatchGoto(a, e, pc) == watch' = [watch EXCEPT ![a][e] = pc]

\* cmd.Wait returns, then isTracked decides between stop and crash.
WatchReap(a, e) ==
  /\ watch[a][e] = "wait"
  /\ proc[a] = "zombie"
  /\ proc' = [proc EXCEPT ![a] = "reaped"]
  /\ WatchGoto(a, e, IF isTracked(a) THEN "exited" ELSE "untracked")
  /\ UNCHANGED <<appVars, status, pid, restarts, doneVars, probe, caller, faults>>

WatchCrashed(a, e) ==
  /\ watch[a][e] = "exited"
  /\ setStatus(a, "Crashed")
  /\ WatchGoto(a, e, "crashed")
  /\ UNCHANGED <<appVars, proc, pid, restarts, doneVars, probe, caller, faults>>

\* recordRestart keeps the restarts still inside the window and adds this one.
recordRestart(a, kept) == restarts' = [restarts EXCEPT ![a] = kept + 1]

\* faulty: the loop ends without showing the suspension
Suspend_Silent(a, e) == WatchGoto(a, e, "closing") /\ UNCHANGED status

Suspend(a, e) == setStatus(a, "CrashLooping") /\ WatchGoto(a, e, "closing")

\* Past the threshold the app is suspended and the goroutine ends.
WatchRecord(a, e) ==
  /\ watch[a][e] = "crashed"
  /\ \E kept \in 0 .. restarts[a] :
       /\ recordRestart(a, kept)
       /\ IF kept + 1 > CrashLoopThreshold
            THEN Suspend(a, e)
            ELSE WatchGoto(a, e, "backoff") /\ UNCHANGED status
  /\ UNCHANGED <<appVars, proc, pid, doneVars, probe, caller, faults>>

\* faulty: no second look at the registry
StillTracked_Assumed(a) == TRUE

StillTracked(a) == isTracked(a)

\* After the backoff, under s.mu: re-check that the App is still registered,
\* restart it, and on a failed start give up its slot.
WatchRestart(a, e) ==
  /\ watch[a][e] = "backoff"
  /\ \/ /\ ~StillTracked(a)
        /\ WatchGoto(a, e, "untracked")
        /\ UNCHANGED <<apps, status, proc, pid, faults>>
     \/ /\ StillTracked(a)
        /\ startLocked(a)
        /\ WatchGoto(a, e, "wait")
        /\ UNCHANGED <<apps, faults>>
     \/ /\ StillTracked(a)
        /\ startFails(a)
        /\ apps' = [apps EXCEPT ![id[a]] = NULL]
        /\ WatchGoto(a, e, "untracked")
  /\ UNCHANGED <<id, held, route, restarts, doneVars, probe, caller>>

\* faulty: the goroutine returns without closing the done channel
WatchStopped_NoClose(a, e) ==
  /\ watch[a][e] = "untracked"
  /\ setStatus(a, "Stopped")
  /\ WatchGoto(a, e, "gone")
  /\ UNCHANGED <<appVars, proc, pid, restarts, doneVars, probe, caller, faults>>

WatchStopped(a, e) ==
  /\ watch[a][e] = "untracked"
  /\ setStatus(a, "Stopped")
  /\ WatchGoto(a, e, "closing")
  /\ UNCHANGED <<appVars, proc, pid, restarts, doneVars, probe, caller, faults>>

\* The deferred close(app.done) closes whatever channel the field holds now.
WatchClose(a, e) ==
  /\ watch[a][e] = "closing"
  /\ closed' = [closed EXCEPT ![a] = @ \cup {done[a]}]
  /\ panicked' = (panicked \/ done[a] \in closed[a])
  /\ WatchGoto(a, e, "closed")
  /\ UNCHANGED <<appVars, procVars, done, probe, caller, faults>>

\* ... and the log rotator is closed if the App is no longer registered.
WatchRelease(a, e) ==
  /\ watch[a][e] = "closed"
  /\ held' = IF isTracked(a) THEN held ELSE [held EXCEPT ![a] = @ \ {"log"}]
  /\ WatchGoto(a, e, "gone")
  /\ UNCHANGED <<apps, id, route, procVars, doneVars, probe, caller, faults>>

WatchStep(a, e) ==
  \/ WatchReap(a, e) \/ WatchCrashed(a, e) \/ WatchRecord(a, e)
  \/ WatchRestart(a, e) \/ WatchStopped(a, e) \/ WatchClose(a, e)
  \/ WatchRelease(a, e)

-----------------------------------------------------------------------------
(* The probe goroutine of App a with done channel e *)

ProbeGoto(a, e, pc, n) ==
  probe' = [probe EXCEPT ![a][e] =
              [pc |-> pc, failures |-> n, first |-> IF n = 0 THEN 0 ELSE @.first]]

\* faulty: looks at the App's current channel, not at the one it was given
DoneSignalled_Current(a, e) == done[a] \in closed[a]

DoneSignalled(a, e) == e \in closed[a]

ProbeExit(a, e) ==
  /\ probe[a][e].pc = "select"
  /\ DoneSignalled(a, e)
  /\ ProbeGoto(a, e, "gone", 0)
  /\ UNCHANGED <<appVars, procVars, doneVars, watch, caller, faults>>

\* The ticker fires; select may prefer it to a closed done channel.
ProbeTick(a, e) ==
  /\ probe[a][e].pc = "select"
  /\ IF status[a] \in {"Running", "Unhealthy"}
       THEN probe' = [probe EXCEPT ![a][e] =
              [pc |-> "check", failures |-> @.failures,
               first |-> IF @.failures = 0 THEN pid[a] ELSE @.first]]
       ELSE ProbeGoto(a, e, "select", 0)
  /\ UNCHANGED <<appVars, procVars, doneVars, watch, caller, faults>>

\* The check passed: the process, which may have exited since, answered.
\* Status is read here and written in ProbeRecover.
ProbePass(a, e) ==
  /\ probe[a][e].pc = "check"
  /\ ProbeGoto(a, e, IF probe[a][e].failures > 0 /\ status[a] = "Unhealthy"
                       THEN "recover" ELSE "select", 0)
  /\ UNCHANGED <<appVars, procVars, doneVars, watch, caller, faults>>

ProbeRecover(a, e) ==
  /\ probe[a][e].pc = "recover"
  /\ setStatus(a, "Running")
  /\ ProbeGoto(a, e, "select", 0)
  /\ UNCHANGED <<appVars, proc, pid, restarts, doneVars, watch, caller, faults>>

\* The check failed (a fault, unless there is no process to answer): below the
\* threshold the status becomes Unhealthy whatever it was, at the threshold the
\* process App.cmd names now is killed.
ProbeFail(a, e) ==
  /\ probe[a][e].pc = "check"
  /\ IF Up(a) THEN Fault ELSE UNCHANGED faults
  /\ LET n == probe[a][e].failures + 1 IN
       \/ /\ n < HealthCheckFailureThreshold
          /\ setStatus(a, "Unhealthy")
          /\ ProbeGoto(a, e, "select", n)
          /\ UNCHANGED proc
       \/ /\ n >= HealthCheckFailureThreshold
          /\ Kill(a)
          /\ ProbeGoto(a, e, "select", 0)
          /\ UNCHANGED status
  /\ UNCHANGED <<appVars, pid, restarts, doneVars, watch, caller>>

ProbeStep(a, e) ==
  \/ ProbeExit(a, e) \/ ProbeTick(a, e) \/ ProbePass(a, e)
  \/ ProbeRecover(a, e) \/ ProbeFail(a, e)

-----------------------------------------------------------------------------
(* Spawn *)

\* faulty: a taken slot is overwritten
SlotFree_Unchecked(k) == TRUE

SlotFree(k) == apps[k] = NULL

\* spawnUnchecked runs under s.mu from the duplicate check to the goroutines;
\* a failure releases what it had acquired and registers nothing.
spawnUnchecked(k, a) ==
  /\ SlotFree(k)
  /\ id[a] = NULL
  /\ apps' = [apps EXCEPT ![k] = a]
  /\ id' = [id EXCEPT ![a] = k]
  /\ held' = [held EXCEPT ![a] = {"log", "isolation"}]
  /\ startLocked(a)
  /\ goWatchAndProbe(a, 0)
  /\ UNCHANGED <<route, restarts, doneVars, faults>>

Spawn(i, a) ==
  /\ "Spawn" \in Ops
  /\ spawnUnchecked(Key(i), a)
  /\ UNCHANGED caller

-----------------------------------------------------------------------------
(* Restart *)

\* faulty: starts the new process itself, without waiting for the old one
TermForRestart_StartsNew(a) ==
  proc' = [proc EXCEPT ![a] = "alive"] /\ pid' = [pid EXCEPT ![a] = @ + 1]

TermForRestart(a) == Terminate(a) /\ UNCHANGED pid

\* SIGTERM to the current process; the watch goroutine restarts it.  A signal
\* that fails, or a process already waited for, is an error.
RestartSignal(c, i) ==
  LET a == apps[Key(i)] IN
  /\ "Restart" \in Ops
  /\ caller[c].pc = "idle"
  /\ a # NULL
  /\ CanKill
  /\ proc[a] # "reaped"
  /\ pid[a] < MaxRestarts
  /\ TermForRestart(a)
  /\ caller' = [caller EXCEPT ![c] =
                  [Idle EXCEPT !.pc = "restartPoll", !.app = a, !.seen = pid[a]]]
  /\ UNCHANGED <<appVars, status, restarts, doneVars, watch, probe, faults>>

\* The poll ends: app gone, crash loop, a new PID that is Running, or timeout.
RestartReturn(c) ==
  /\ caller[c].pc = "restartPoll"
  /\ Return(c)
  /\ UNCHANGED <<appVars, procVars, doneVars, watch, probe, faults>>

-----------------------------------------------------------------------------
(* Reset *)

Resetting(a) == {c \in Callers : caller[c].pc = "resetWait" /\ caller[c].app = a}

\* First critical section: check, and read the done channel to wait for.
ResetBegin(c, i) ==
  LET a == apps[Key(i)] IN
  /\ "Reset" \in Ops
  /\ caller[c].pc = "idle"
  /\ a # NULL
  /\ status[a] = "CrashLooping"
  /\ SerialReset => Resetting(a) = {}
  /\ done[a] < MaxResets
  /\ caller' = [caller EXCEPT ![c] =
                  [Idle EXCEPT !.pc = "resetWait", !.app = a, !.key = Key(i),
                               !.seen = done[a]]]
  /\ UNCHANGED <<appVars, procVars, doneVars, watch, probe, faults>>

\* faulty: does not wait for the previous goroutine
PrevDone_NoWait(c) == TRUE

PrevDone(c) == caller[c].seen \in closed[caller[c].app]

StillSuspended(c) ==
  /\ apps[caller[c].key] = caller[c].app
  /\ status[caller[c].app] = "CrashLooping"

\* The channel is closed; second critical section: re-check, make a new done
\* channel, start the process and its goroutines.  A failed start leaves the
\* new channel without a goroutine that would close it.
ResetResume(c) ==
  LET a == caller[c].app IN
  /\ caller[c].pc = "resetWait"
  /\ PrevDone(c)
  /\ \/ /\ ~StillSuspended(c)
        /\ UNCHANGED <<procVars, done, watch, probe, faults>>
     \/ /\ StillSuspended(c)
        /\ done[a] < MaxResets
        /\ restarts' = [restarts EXCEPT ![a] = 0]
        /\ done' = [done EXCEPT ![a] = @ + 1]
        /\ \/ startLocked(a) /\ goWatchAndProbe(a, done[a] + 1) /\ UNCHANGED faults
           \/ startFails(a) /\ UNCHANGED <<watch, probe>>
  /\ Return(c)
  /\ UNCHANGED <<appVars, closed, panicked>>

-----------------------------------------------------------------------------
(* Stop *)

\* StopWithTimeout takes the App out of the registry first.  "StopTemp" stands
\* for the callers that name a deploy's temporary key: StopAll stops every key.
StopBegin(c, k) ==
  /\ IF k[2] = "live" THEN "Stop" \in Ops ELSE "StopTemp" \in Ops
  /\ caller[c].pc = "idle"
  /\ apps[k] # NULL
  /\ apps' = [apps EXCEPT ![k] = NULL]
  /\ caller' = [caller EXCEPT ![c] =
                  [Idle EXCEPT !.pc = "stopTerm", !.app = apps[k], !.key = k]]
  /\ UNCHANGED <<id, held, route, procVars, doneVars, watch, probe, faults>>

\* stopApp: read cmd and the done channel, SIGTERM.
StopTerm(c) ==
  LET a == caller[c].app IN
  /\ caller[c].pc = "stopTerm"
  /\ Terminate(a)
  /\ caller' = [caller EXCEPT ![c].pc = "stopWait", ![c].seen = done[a]]
  /\ UNCHANGED <<appVars, status, pid, restarts, doneVars, watch, probe, faults>>

\* The done channel is closed: stopped.
StopDone(c) ==
  /\ caller[c].pc \in {"stopWait", "killWait", "deniedWait"}
  /\ caller[c].seen \in closed[caller[c].app]
  /\ Goto(c, "cleanup")
  /\ UNCHANGED <<appVars, procVars, doneVars, watch, probe, faults>>

\* faulty: does not wait for the killed process
AfterKill_NoWait(a) == "cleanup"

AfterKill(a) == IF signalFailed(a) THEN "deniedWait" ELSE "killWait"

\* The graceful window is over: escalateAndWait sends SIGKILL.
StopKill(c) ==
  LET a == caller[c].app IN
  /\ caller[c].pc = "stopWait"
  /\ Kill(a)
  /\ Goto(c, AfterKill(a))
  /\ UNCHANGED <<appVars, status, pid, restarts, doneVars, watch, probe, faults>>

\* KillWaitTimeout after a SIGKILL that could not be delivered.
StopDenied(c) ==
  /\ caller[c].pc = "deniedWait"
  /\ Goto(c, "stopFailed")
  /\ UNCHANGED <<appVars, procVars, doneVars, watch, probe, faults>>

\* stopApp's deferred teardown: rotator, cgroup, network namespace.
StopCleanup(c) ==
  /\ caller[c].pc = "cleanup"
  /\ held' = [held EXCEPT ![caller[c].app] = {}]
  /\ Return(c)
  /\ UNCHANGED <<apps, id, route, procVars, doneVars, watch, probe, faults>>

PutBack(k, a) ==
  apps' = IF k # NULL /\ apps[k] = NULL THEN [apps EXCEPT ![k] = a] ELSE apps

\* A failed StopWithTimeout puts the App back unless the slot was taken; a
\* failed stopApp of a deploy only logs.
StopFailed(c) ==
  /\ caller[c].pc = "stopFailed"
  /\ PutBack(caller[c].key, caller[c].app)
  /\ Return(c)
  /\ UNCHANGED <<id, held, route, procVars, doneVars, watch, probe, faults>>

-----------------------------------------------------------------------------
(* Deploy *)

\* Snapshot v1; its port differs from v2's.
DeployBegin(c, i) ==
  /\ "Deploy" \in Ops
  /\ caller[c].pc = "idle"
  /\ apps[Key(i)] # NULL
  /\ caller' = [caller EXCEPT ![c] =
                  [Idle EXCEPT !.pc = "deploySpawn", !.app = apps[Key(i)],
                               !.key = Key(i)]]
  /\ UNCHANGED <<appVars, procVars, doneVars, watch, probe, faults>>

tempID(c) == deployTempID(caller[c].key[1])

\* Spawn v2 under the temporary key.
DeploySpawn(c, a) ==
  /\ caller[c].pc = "deploySpawn"
  /\ spawnUnchecked(tempID(c), a)
  /\ caller' = [caller EXCEPT ![c].pc = "deployHealth", ![c].v2 = a]

\* The temporary key is taken (ErrAlreadyRunning), or the spawn failed.
DeployRefused(c) ==
  /\ caller[c].pc = "deploySpawn"
  /\ \/ apps[tempID(c)] # NULL /\ UNCHANGED faults
     \/ StartMayFail /\ Fault
     \/ (\A a \in Apps : id[a] # NULL) /\ UNCHANGED faults  \* bound on Apps
  /\ Return(c)
  /\ UNCHANGED <<appVars, procVars, doneVars, watch, probe>>

\* waitDeployHealthy: v2 answered (or there is no HealthChecker), or the
\* deadline passed or the request was cancelled.
DeployHealth(c) ==
  /\ caller[c].pc = "deployHealth"
  /\ Goto(c, "deploySwap") \/ Goto(c, "deployAbort")
  /\ UNCHANGED <<appVars, procVars, doneVars, watch, probe, faults>>

\* faulty: whoever holds the id now is dropped
V1Registered_Assumed(c) == TRUE

V1Registered(c) == apps[caller[c].key] = caller[c].app

rename(a, k) == id' = [id EXCEPT ![a] = k]

\* The registry swap: only if v1 is still the registered App.
DeploySwap(c) ==
  LET k == caller[c].key IN
  /\ caller[c].pc = "deploySwap"
  /\ IF V1Registered(c)
       THEN /\ apps' = [apps EXCEPT ![tempID(c)] = NULL, ![k] = caller[c].v2]
            /\ rename(caller[c].v2, k)
            /\ Goto(c, "deployRoute")
       ELSE /\ Goto(c, "deployAbort")
            /\ UNCHANGED <<apps, id>>
  /\ UNCHANGED <<held, route, procVars, doneVars, watch, probe, faults>>

\* Stop(tempID), then return the error.
DeployAbort(c) ==
  LET a == apps[tempID(c)] IN
  /\ caller[c].pc = "deployAbort"
  /\ IF a = NULL
       THEN Return(c) /\ UNCHANGED apps
       ELSE /\ apps' = [apps EXCEPT ![tempID(c)] = NULL]
            /\ caller' = [caller EXCEPT ![c] =
                 [Idle EXCEPT !.pc = "stopTerm", !.app = a, !.key = tempID(c)]]
  /\ UNCHANGED <<id, held, route, procVars, doneVars, watch, probe, faults>>

\* stopApp without registry bookkeeping.
stopApp(c, a) ==
  caller' = [caller EXCEPT ![c] = [Idle EXCEPT !.pc = "stopTerm", !.app = a]]

\* router.SetAddr, then stopApp(v1).
DeployRoute(c) ==
  /\ caller[c].pc = "deployRoute"
  /\ \/ /\ route' = [route EXCEPT ![caller[c].key[1]] = caller[c].v2]
        /\ stopApp(c, caller[c].app)
        /\ UNCHANGED faults
     \/ /\ RouterMayFail /\ Fault
        /\ Goto(c, "deployRollback")
        /\ UNCHANGED route
  /\ UNCHANGED <<apps, id, held, procVars, doneVars, watch, probe>>

\* The router refused: put v1 back whatever is registered now, stopApp(v2).
DeployRollback(c) ==
  /\ caller[c].pc = "deployRollback"
  /\ apps' = [apps EXCEPT ![caller[c].key] = caller[c].app]
  /\ stopApp(c, caller[c].v2)
  /\ UNCHANGED <<id, held, route, procVars, doneVars, watch, probe, faults>>

-----------------------------------------------------------------------------
(* The specification *)

\* The rest of a call that was started.
CallerStep(c) ==
  \/ RestartReturn(c) \/ ResetResume(c)
  \/ StopTerm(c) \/ StopDone(c) \/ StopKill(c) \/ StopDenied(c)
  \/ StopCleanup(c) \/ StopFailed(c)
  \/ (\E a \in Apps : DeploySpawn(c, a)) \/ DeployRefused(c) \/ DeployHealth(c)
  \/ DeploySwap(c) \/ DeployAbort(c) \/ DeployRoute(c) \/ DeployRollback(c)

Next ==
  \/ \E a \in Apps : Exit(a)
  \/ \E a \in Apps, e \in Epochs : WatchStep(a, e) \/ ProbeStep(a, e)
  \/ \E i \in Ids, a \in Apps : Spawn(i, a)
  \/ \E c \in Callers, i \in Ids :
       RestartSignal(c, i) \/ ResetBegin(c, i) \/ DeployBegin(c, i)
  \/ \E c \in Callers, k \in Keys : StopBegin(c, k)
  \/ \E c \in Callers : CallerStep(c)

Spec == Init /\ [][Next]_vars

\* The Go scheduler runs every goroutine that is not blocked, a timer fires, a
\* process that was sent SIGKILL ends, and a select that again and again finds
\* the done channel closed takes that case.  Nothing is assumed of a process
\* that was only sent SIGTERM, and no call has to be made.
Fairness ==
  /\ \A a \in Apps : WF_vars(proc[a] = "dying" /\ Exit(a))
  /\ \A a \in Apps, e \in Epochs :
       /\ WF_vars(WatchStep(a, e))
       /\ WF_vars(ProbeStep(a, e))
       /\ SF_vars(ProbeExit(a, e))
  /\ \A c \in Callers : WF_vars(CallerStep(c))

FairSpec == Spec /\ Fairness
-----------------------------------------------------------------------------
(* Properties *)

Looping == {"wait", "exited", "crashed", "backoff"}
Watching(a) == \E e \in Epochs : watch[a][e] \in Looping
Registered(a) == \E k \in Keys : apps[k] = a

\* An App never has two processes: startLocked, called by watch, Reset and
\* Spawn, only ever replaces a process that was waited for.
StartAfterReap ==
  [][\A a \in Apps : pid'[a] # pid[a] => proc[a] \in {"none", "reaped"}]_vars

\* close(app.done) never closes a closed channel, which would panic the daemon
\* and with it every tenant's supervisor (the hazard Reset's wait is for).
NoDoubleClose == ~panicked

\* Every registered App is either looked after by a running watch loop, or is
\* shown as CrashLooping so that Reset can resume it: no app is listed and
\* routed while nothing will ever restart it.
RegisteredIsSupervised ==
  \A k \in Keys : apps[k] # NULL =>
    Watching(apps[k]) \/ status[apps[k]] = "CrashLooping"

\* Every live process is registered or in the hands of a call that is stopping
\* or deploying it: no interleaving of Stop, Reset and Deploy with a restart
\* leaves a process nobody can stop.
NoOrphan ==
  \A a \in Apps : Up(a) =>
    \/ Registered(a)
    \/ \E c \in Callers : /\ caller[c].pc \in StopPc \cup DeployPc
                          /\ a \in {caller[c].app, caller[c].v2}

\* The cgroup and the network namespace are never torn down under a process
\* that still runs in them: when stopApp reaches its deferred teardown the
\* process was waited for, whichever done channel it waited on.
IsolationOutlivesProcess ==
  \A a \in Apps : Up(a) \/ proc[a] = "zombie" => "isolation" \in held[a]

\* A Stop that waits for the watch goroutine is not waiting for one that does
\* not exist ("Blocks until the app's watch goroutine has fully terminated"):
\* once no watch goroutine of the App is left, its channel is closed.
StopWaitsForSomeone ==
  \A c \in Callers :
    /\ caller[c].pc \in {"stopWait", "killWait"}
    /\ \A e \in Epochs : watch[caller[c].app][e] \in {"off", "closed", "gone"}
    => caller[c].seen \in closed[caller[c].app]

\* A swap registers the v2 it spawned, which is still registered under the
\* temporary key at that moment; it drops nobody else's App from that key.
SwapRenamesOwnV2 ==
  [][\A c \in Callers :
       caller[c].pc = "deploySwap" /\ caller'[c].pc = "deployRoute"
         => apps[tempID(c)] = caller[c].v2]_vars

\* Stop and Deploy return: SIGKILL, the watch goroutine and the done channel
\* together unblock every call, whatever else runs.
CallsReturn ==
  \A c \in Callers : caller[c].pc \in StopPc \cup DeployPc ~> caller[c].pc = "idle"

\* A crashed app that stays registered does not stay down: the watch loop
\* restarts it, suspends it, or it is taken out of the registry.
CrashIsHandled ==
  \A a \in Apps : (proc[a] = "zombie" /\ Registered(a)) ~>
    (proc[a] = "alive" \/ status[a] = "CrashLooping" \/ ~Registered(a))

\* "HealthCheckFailureThreshold is the number of consecutive failing probes
\* required before the supervisor restarts the app": the process a probe kills
\* is the one all the probes it counted were sent to.
ThresholdIsPerProcess ==
  [][\A a \in Apps, e \in Epochs :
       probe'[a][e] # probe[a][e] /\ proc[a] # "dying" /\ proc'[a] = "dying"
         => probe[a][e].first = pid[a]]_vars

\* The probe goroutine of a done channel ends after the channel is closed.
ProbeEnds ==
  \A a \in Apps, e \in Epochs :
    (e \in closed[a] /\ probe[a][e].pc # "off") ~> probe[a][e].pc = "gone"

\* What the supervisor promises of its apps (AppLifecycle): only a registered
\* App is started again, and the isolation of an App is released only when it
\* is unregistered and down, after which it never runs again.
Phase(a) == IF pid[a] = 0 THEN "new"
            ELSE IF Up(a) \/ proc[a] = "zombie" THEN "running"
            ELSE IF "isolation" \in held[a] THEN "down" ELSE "released"
Promise == INSTANCE AppLifecycle
             WITH phase <- [a \in Apps |-> Phase(a)],
                  registered <- {a \in Apps : Registered(a)}
PromiseSpec == Promise!Spec
=============================================================================
