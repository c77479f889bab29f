------------------------------ MODULE AdminApi ------------------------------
(***************************************************************************)
(* The admin API: the handlers that change what runs, what is routed and   *)
(* what is recorded, the middleware that serialises some of them per app,  *)
(* and the restore at boot.  A handler is a sequence of calls into the     *)
(* supervisor, the router and the store; each call is a step, and requests *)
(* interleave between steps.  The supervisor is its registry here: which   *)
(* App object holds an id (modelled in full by Supervisor).                *)
(***************************************************************************)
EXTENDS AppRecords

CONSTANTS
  Clients,      \* connections, one request each at a time
  MaxRequests,  \* bound on the requests
  MaxCrashes,   \* bound on the times the daemon ends
  MaxFaults     \* bound on the supervisor calls that fail

\* The holder of a lock that nobody holds.
Free == "free"

ASSUME ApiAssumption ==
  /\ Free \notin Clients
  /\ MaxRequests \in Nat
  /\ MaxCrashes \in Nat
  /\ MaxFaults \in Nat

VARIABLES
  running,   \* Supervisor.apps: id -> [inst, cfg], or NoProc
  restore,   \* ids restoreFromState has not come to; no listener is open before it is done
  routes,    \* Router.routes: id -> the port, or 0
  lock,      \* LockManager: id -> the client that holds the app's lock, or Free
  req,       \* the request each client is waiting for
  served,    \* requests begun
  faults,
  crashes,
  mixed,     \* history: ids for which a spawn overlapped another request
  acked      \* history: id -> what the last answered request established

apiVars == <<running, restore, routes, lock, req, served, faults, crashes, mixed, acked>>
vars == <<recordVars, apiVars>>

NoProc == [inst |-> 0, cfg |-> 0]
Gone == 0
Unknown == -1
Idle == [pc |-> "idle", op |-> "none", id |-> "none", cfg |-> 0, match |-> 0, to |-> 0,
         orig |-> 0, inst |-> 0, v1 |-> NoProc]

InFlight(id) == {c \in Clients : req[c].pc # "idle" /\ req[c].id = id}

\* faulty: the verb that was added last is missing
casApplies_NoRollback(op) == op \in {"stop", "deploy"}

\* The verbs casApplies names: they hold the lock of their app until the response is written.
casApplies(op) == op \in {"stop", "deploy", "rollback"}

Init ==
  /\ RecordsInit
  /\ running = [id \in Ids |-> NoProc]
  /\ restore = {}
  /\ routes = [id \in Ids |-> 0]
  /\ lock = [id \in Ids |-> Free]
  /\ req = [c \in Clients |-> Idle]
  /\ served = 0 /\ faults = 0 /\ crashes = 0
  /\ mixed = {}
  /\ acked = [id \in Ids |-> Unknown]

(***************************************************************************)
(* A request: decoded, validated, and for the conditional verbs held until *)
(* the app's lock is free and If-Match names the current version.          *)
(***************************************************************************)
Goto(c, pc) == req' = [req EXCEPT ![c].pc = pc]

\* The response is written: the deferred unlock runs, and the client may send another request.
Respond(c) ==
  /\ req' = [req EXCEPT ![c] = Idle]
  /\ lock' = [id \in Ids |-> IF lock[id] = c THEN Free ELSE lock[id]]

\* A success answer establishes what; a failure half way leaves the app in an unknown state.
Ack(c, what) == acked' = [acked EXCEPT ![req[c].id] = what]

Begin(c, op, id, cfg, match, to) ==
  /\ open
  /\ restore = {}
  /\ req[c] = Idle
  /\ served < MaxRequests
  /\ served' = served + 1
  /\ req' = [req EXCEPT ![c] = [Idle EXCEPT !.pc = IF casApplies(op) THEN "lock" ELSE op, !.op = op,
                                             !.id = id, !.cfg = cfg, !.match = match, !.to = to,
                                             !.inst = served + 1]]
  /\ mixed' = IF /\ InFlight(id) # {}
                 /\ op = "spawn" \/ \E d \in InFlight(id) : req[d].op = "spawn"
              THEN mixed \cup {id} ELSE mixed
  /\ UNCHANGED <<recordVars, restore, running, routes, lock, faults, crashes, acked>>

\* What clients send; If-Match is a version they may have read, or 0 for a request without one.
Request(c) ==
  \E id \in Ids :
    \/ \E cfg \in Configs : Begin(c, "spawn", id, cfg, 0, 0)
    \/ \E cfg \in Configs, m \in {0, mem.apps[id].rv} : Begin(c, "deploy", id, cfg, m, 0)
    \/ \E m \in {0, mem.apps[id].rv} : Begin(c, "stop", id, 0, m, 0)
    \/ \E to \in 1..(Len(mem.apps[id].rels) + 1) : Begin(c, "rollback", id, 0, mem.apps[id].rv, to)
    \/ Begin(c, "restart", id, 0, 0, 0)

\* faulty: the lock is taken for the check and not held for the handler
casMiddleware_CheckOnly(c) ==
  LET r == req[c]
  IN  /\ r.pc = "lock"
      /\ lock[r.id] = Free
      /\ req' = [req EXCEPT ![c] = IF r.match # 0 /\ Known(mem, r.id) /\ r.match # mem.apps[r.id].rv
                                   THEN Idle
                                   ELSE [r EXCEPT !.pc = r.op, !.match = IF Known(mem, r.id) THEN @ ELSE 0]]
      /\ UNCHANGED <<recordVars, restore, running, routes, lock, served, faults, crashes, mixed, acked>>

\* casMiddleware takes the lock whether or not the request is conditional.
casMiddleware(c) ==
  LET r == req[c]
  IN  /\ r.pc = "lock"
      /\ lock[r.id] = Free
      /\ IF r.match # 0 /\ Known(mem, r.id) /\ r.match # mem.apps[r.id].rv
         THEN req' = [req EXCEPT ![c] = Idle] /\ UNCHANGED lock   \* 412, and the deferred unlock
         ELSE /\ req' = [req EXCEPT ![c].pc = r.op, ![c].match = IF Known(mem, r.id) THEN @ ELSE 0]
              /\ lock' = [lock EXCEPT ![r.id] = c]
      /\ UNCHANGED <<recordVars, restore, running, routes, served, faults, crashes, mixed, acked>>

Fault == faults < MaxFaults /\ faults' = faults + 1

(***************************************************************************)
(* SpawnApp: Spawn, SetAddr, AddApp; undone by Stop and Remove.            *)
(***************************************************************************)
SpawnCall(c) ==
  LET r == req[c]
  IN  /\ r.pc = "spawn"
      /\ \/ /\ running[r.id] = NoProc
            /\ running' = [running EXCEPT ![r.id] = [inst |-> r.inst, cfg |-> r.cfg]]
            /\ Goto(c, "spawn route")
            /\ UNCHANGED <<lock, faults>>
         \/ \* ErrAlreadyRunning, or the start failed: nothing was registered
            /\ (running[r.id] # NoProc /\ UNCHANGED faults) \/ (running[r.id] = NoProc /\ Fault)
            /\ Respond(c)
            /\ UNCHANGED running
      /\ UNCHANGED <<recordVars, restore, routes, served, crashes, mixed, acked>>

SpawnRoute(c) ==
  /\ req[c].pc = "spawn route"
  /\ routes' = [routes EXCEPT ![req[c].id] = req[c].cfg]
  /\ Goto(c, "spawn store")
  /\ UNCHANGED <<recordVars, restore, running, lock, served, faults, crashes, mixed, acked>>

SpawnStore(c) ==
  LET r == req[c]
  IN  /\ r.pc = "spawn store"
      /\ \/ AddApp(r.id, r.cfg) /\ Respond(c) /\ Ack(c, r.cfg)
         \/ AddAppFails(r.id, r.cfg) /\ Goto(c, "spawn undo") /\ Ack(c, Unknown) /\ UNCHANGED lock
      /\ UNCHANGED <<running, restore, routes, served, faults, crashes, mixed>>

\* Stop(req.Id), its error ignored, stops whichever App holds the id by now.
SpawnUndo(c) ==
  LET r == req[c]
  IN  /\ r.pc = "spawn undo"
      /\ \/ running' = [running EXCEPT ![r.id] = NoProc] /\ UNCHANGED faults
         \/ running[r.id] # NoProc /\ Fault /\ UNCHANGED running
      /\ routes' = [routes EXCEPT ![r.id] = 0]
      /\ Respond(c)
      /\ UNCHANGED <<recordVars, restore, served, crashes, mixed, acked>>

(***************************************************************************)
(* StopApp: Stop, Remove, RemoveApp.  Stop takes the app out of the        *)
(* registry before it waits, and puts it back when the process lives on.   *)
(* A record that only the disk has, left by a flush that failed after its  *)
(* rename, is not removed: RemoveApp does nothing for an id that the maps  *)
(* do not know, so the 204 establishes nothing then.                       *)
(***************************************************************************)
StopCall(c) ==
  LET r == req[c]
  IN  /\ r.pc = "stop"
      /\ IF running[r.id] = NoProc
         THEN Respond(c) /\ UNCHANGED <<running, acked>>                      \* 404
         ELSE /\ running' = [running EXCEPT ![r.id] = NoProc]
              /\ req' = [req EXCEPT ![c].pc = "stop wait", ![c].v1 = running[r.id]]
              /\ UNCHANGED <<lock, acked>>
      /\ UNCHANGED <<recordVars, restore, routes, served, faults, crashes, mixed>>

StopWait(c) ==
  LET r == req[c]
  IN  /\ r.pc = "stop wait"
      /\ \/ Goto(c, "stop route") /\ UNCHANGED <<running, lock, faults>>
         \/ /\ Fault
            /\ running' = [running EXCEPT ![r.id] = IF @ = NoProc THEN r.v1 ELSE @]
            /\ Respond(c)
      /\ UNCHANGED <<recordVars, restore, routes, served, crashes, mixed, acked>>

StopRoute(c) ==
  /\ req[c].pc = "stop route"
  /\ routes' = [routes EXCEPT ![req[c].id] = 0]
  /\ Goto(c, "stop store")
  /\ UNCHANGED <<recordVars, restore, running, lock, served, faults, crashes, mixed, acked>>

StopStore(c) ==
  LET r == req[c]
  IN  /\ r.pc = "stop store"
      /\ Respond(c)
      /\ \/ /\ RemoveApp(r.id)
            /\ Ack(c, IF Known(mem, r.id) \/ ~Known(disk, r.id) THEN Gone ELSE Unknown)
         \/ RemoveAppFails(r.id) /\ Ack(c, Unknown)
      /\ UNCHANGED <<running, restore, routes, served, faults, crashes, mixed>>

(***************************************************************************)
(* DeployApp, and RollbackApp, which deploys the snapshot of a release:    *)
(* Deploy, AddApp, CreateRelease.  Deploy replaces the App it found in the *)
(* registry, if that one is still there when v2 is healthy.                *)
(***************************************************************************)
\* faulty: the target of the rollback is taken for the original
resolveOriginalArtifactRelease_Target(rel) == rel.seq

resolveOriginalArtifactRelease(rel) == IF rel.orig # 0 THEN rel.orig ELSE rel.seq

RollbackCall(c) ==
  LET r == req[c]
  IN  /\ r.pc = "rollback"
      /\ IF FindRelease(r.id, r.to) = {}
         THEN Respond(c)                                                       \* 404
         ELSE /\ LET target == mem.apps[r.id].rels[CHOOSE i \in FindRelease(r.id, r.to) : TRUE]
                 IN  req' = [req EXCEPT ![c].pc = "deploy", ![c].cfg = target.cfg,
                                        ![c].orig = resolveOriginalArtifactRelease(target)]
              /\ UNCHANGED lock
      /\ UNCHANGED <<recordVars, running, restore, routes, served, faults, crashes, mixed, acked>>

DeployCall(c) ==
  LET r == req[c]
  IN  /\ r.pc = "deploy"
      /\ \/ /\ running[r.id] # NoProc
            /\ running[r.id].cfg # r.cfg
            /\ req' = [req EXCEPT ![c].pc = "deploy swap", ![c].v1 = running[r.id]]
            /\ UNCHANGED lock
         \/ \* ErrNotFound, ErrPortConflict, v2 did not start or ErrDeployUnhealthy
            Respond(c)
      /\ UNCHANGED <<recordVars, running, restore, routes, served, faults, crashes, mixed, acked>>

DeploySwap(c) ==
  LET r == req[c]
  IN  /\ r.pc = "deploy swap"
      /\ IF running[r.id] = r.v1
         THEN /\ running' = [running EXCEPT ![r.id] = [inst |-> r.inst, cfg |-> r.cfg]]
              /\ Goto(c, "deploy route")
              /\ UNCHANGED lock
         ELSE Respond(c) /\ UNCHANGED running                                  \* ErrDeployConflict
      /\ UNCHANGED <<recordVars, restore, routes, served, faults, crashes, mixed, acked>>

DeployRoute(c) ==
  /\ req[c].pc = "deploy route"
  /\ routes' = [routes EXCEPT ![req[c].id] = req[c].cfg]
  /\ Goto(c, "deploy store")
  /\ UNCHANGED <<recordVars, running, restore, lock, served, faults, crashes, mixed, acked>>

DeployStore(c) ==
  LET r == req[c]
  IN  /\ r.pc = "deploy store"
      /\ \/ AddApp(r.id, r.cfg) /\ Goto(c, "deploy ledger") /\ UNCHANGED <<lock, acked>>
         \/ AddAppFails(r.id, r.cfg) /\ Respond(c) /\ Ack(c, Unknown)
      /\ UNCHANGED <<running, restore, routes, served, faults, crashes, mixed>>

\* A rollback tells the release it leaves from one that a newer deploy replaced.
PriorActivePhase(op) == IF op = "rollback" THEN "RolledBack" ELSE "Superseded"

DeployLedger(c) ==
  LET r == req[c]
      prior == PriorActivePhase(r.op)
  IN  /\ r.pc = "deploy ledger"
      /\ Respond(c)
      /\ \/ CreateRelease(r.id, r.cfg, r.to, r.orig, prior) /\ Ack(c, r.cfg)
         \/ CreateReleaseFails(r.id, r.cfg, r.to, r.orig, prior) /\ Ack(c, Unknown)
         \/ CreateReleaseNotFound(r.id) /\ Ack(c, Unknown)
      /\ UNCHANGED <<running, restore, routes, served, faults, crashes, mixed>>

\* RestartApp and ResetApp work on the registered App, and neither locks nor records anything.
RestartCall(c) ==
  /\ req[c].pc = "restart"
  /\ Respond(c)
  /\ UNCHANGED <<recordVars, running, restore, routes, served, faults, crashes, mixed, acked>>

\* The watch goroutine gives up an app whose restart failed: the registry forgets it, the route
\* and the record stay.
GiveUp(id) ==
  /\ running[id] # NoProc
  /\ Fault
  /\ running' = [running EXCEPT ![id] = NoProc]
  /\ UNCHANGED <<recordVars, restore, routes, lock, req, served, crashes, mixed, acked>>

(***************************************************************************)
(* The daemon ends, by a signal or a crash, and boots.                     *)
(***************************************************************************)
DaemonEnds ==
  /\ crashes < MaxCrashes
  /\ crashes' = crashes + 1
  /\ CloseStore
  /\ running' = [id \in Ids |-> NoProc]
  /\ restore' = {}
  /\ routes' = [id \in Ids |-> 0]
  /\ lock' = [id \in Ids |-> Free]
  /\ req' = [c \in Clients |-> Idle]
  /\ acked' = [id \in Ids |-> IF InFlight(id) = {} THEN acked[id] ELSE Unknown]
  /\ UNCHANGED <<served, faults, mixed>>

Boot ==
  /\ NewStore
  /\ restore' = {id \in Ids : Known(mem', id)}
  /\ UNCHANGED <<running, routes, lock, req, served, faults, crashes, mixed, acked>>

BootFails ==
  /\ NewStoreFails
  /\ UNCHANGED apiVars

\* restoreFromState, one entry: Spawn, SetAddr, and AddApp when Spawn had to choose the user.
RestoreApp(id) ==
  LET cfg == mem.apps[id].cfg
  IN  /\ id \in restore
      /\ restore' = restore \ {id}
      /\ running' = [running EXCEPT ![id] = [inst |-> 0, cfg |-> cfg]]
      /\ routes' = [routes EXCEPT ![id] = cfg]
      /\ IF mem.apps[id].idt THEN UNCHANGED recordVars
                             ELSE AddApp(id, cfg) \/ AddAppFails(id, cfg)
      /\ UNCHANGED <<lock, req, served, faults, crashes, mixed, acked>>

RestoreFails(id) ==
  /\ id \in restore
  /\ Fault
  /\ restore' = restore \ {id}
  /\ UNCHANGED <<recordVars, running, routes, lock, req, served, crashes, mixed, acked>>

Step(c) ==
  \/ casMiddleware(c)
  \/ SpawnCall(c) \/ SpawnRoute(c) \/ SpawnStore(c) \/ SpawnUndo(c)
  \/ StopCall(c) \/ StopWait(c) \/ StopRoute(c) \/ StopStore(c)
  \/ RollbackCall(c)
  \/ DeployCall(c) \/ DeploySwap(c) \/ DeployRoute(c) \/ DeployStore(c) \/ DeployLedger(c)
  \/ RestartCall(c)

\* Every request of the instance was answered.  A request that waits for ever, for a lock that
\* nobody will release, is a deadlock instead.
Quiet == served = MaxRequests /\ req = [c \in Clients |-> Idle] /\ open /\ restore = {} /\ UNCHANGED vars

Next ==
  \/ Quiet
  \/ DaemonEnds \/ Boot \/ BootFails
  \/ \E id \in Ids : RestoreApp(id) \/ RestoreFails(id) \/ GiveUp(id)
  \/ \E c \in Clients : Request(c) \/ Step(c)

Spec == Init /\ [][Next]_vars

(***************************************************************************)
(* Properties.                                                             *)
(***************************************************************************)
PointBack(rels) ==
  \A i \in DOMAIN rels :
    rels[i].from # 0 =>
      /\ rels[i].from \in 1..(i - 1)
      /\ rels[i].orig \in 1..rels[i].from
      /\ rels[rels[i].orig].from = 0
      /\ rels[rels[i].from].cfg = rels[i].cfg
      /\ rels[rels[i].orig].cfg = rels[i].cfg

\* A rollback's release re-runs the artifact it names: its pointers lead back to an earlier
\* release, the original one is a deploy, and all three carry the same config, whatever is
\* deployed, recorded or lost in between.
RollbackPointers == \A id \in Ids : PointBack(mem.apps[id].rels) /\ PointBack(disk.apps[id].rels)

\* What a client was told holds while nobody works on the app: after a 201 or 200 the record, and
\* so every later boot, has that config, and the app runs and is routed with it if it runs at all;
\* after a 204 it is gone from all three.  Failures, crashes, boots and other requests may have
\* happened in between; only a create that overlapped another request for the id is exempt.
AckedHolds ==
  \A id \in Ids \ mixed :
    open /\ id \notin restore /\ InFlight(id) = {} =>
      /\ acked[id] \in Configs =>
           /\ mem.apps[id].cfg = acked[id] /\ disk.apps[id].cfg = acked[id]
           /\ running[id] # NoProc => running[id].cfg = acked[id] /\ routes[id] = acked[id]
      /\ acked[id] = Gone =>
           ~Known(mem, id) /\ ~Known(disk, id) /\ running[id] = NoProc /\ routes[id] = 0

\* From the If-Match check to its first write, a request works on the version it named.
Matched(c) ==
  req[c].match # 0 /\ req[c].pc \notin {"idle", "lock", "deploy ledger"} =>
    mem.apps[req[c].id].rv = req[c].match

\* casMiddleware's lock makes check and write one step for every pair of requests that take it;
\* only a create that overlapped another request for the id is exempt.
MatchHolds == \A c \in Clients : req[c].id \notin mixed => Matched(c)

\* The same without the exemption: "(If-Match check -> handler -> store flush) is atomic per app".
MatchHoldsAlways == \A c \in Clients : Matched(c)
=============================================================================
