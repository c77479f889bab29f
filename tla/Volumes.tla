------------------------------- MODULE Volumes -------------------------------
(***************************************************************************)
(* Volumes and their projection into apps.  Two locks protect them: the    *)
(* supervisor lock, which a spawn holds from its registry check to the     *)
(* registration of the app, and volumesMu, which guards the declared       *)
(* volumes.  The bind mounts live in the host's mount table: nothing       *)
(* removes them when an app stops or the daemon ends.                      *)
(***************************************************************************)
EXTENDS Integers

CONSTANTS
  VolIds,      \* volume IDs
  VolDirs,     \* backing paths under VolumeRoot
  VolModes,    \* read-only settings volumes are declared with
  VolTargets,  \* host targets under an allowed prefix
  VolApps,     \* app IDs
  VolCallers,  \* concurrent admin requests
  MaxInode,    \* bound on the directories made at one backing path
  VolFaults,   \* bound: failed system calls and flushes, replaced directories, restarts
  Nobody       \* no caller, no directory

ASSUME VolumesAssumption ==
  /\ Nobody \notin VolCallers \cup VolDirs
  /\ MaxInode \in Nat \ {0}
  /\ VolModes \subseteq BOOLEAN
  /\ VolFaults \in Nat

VARIABLES
  volMu,     \* the writer of volumesMu
  appMu,     \* the writer of Supervisor.mu
  volumes,   \* Supervisor.volumes
  volSaved,  \* the volumes in state.json
  inode,     \* the directory now at each backing path
  mounts,    \* the mount table
  projected, \* the registered apps and the mount each asked for
  volCall,   \* what each request is doing
  atomicMount,  \* the kernel has mount_setattr
  forced,    \* volumes unregistered with force
  volFaults

volumeVars == <<volMu, appMu, volumes, volSaved, inode, mounts, projected, volCall,
                atomicMount, forced, volFaults>>

NoVolume == [dir |-> Nobody, ino |-> 0, ro |-> FALSE]
NoMount == [dir |-> Nobody, ino |-> 0, sub |-> FALSE, ro |-> FALSE]
Off == [state |-> "off", vol |-> Nobody, target |-> Nobody, mount |-> NoMount]
Idle == [op |-> "idle", app |-> Nobody, vol |-> Nobody, target |-> Nobody, mount |-> NoMount]

Registered(v) == volumes[v] # NoVolume

VolumesTypeOK ==
  /\ volMu \in VolCallers \cup {Nobody}
  /\ appMu \in VolCallers \cup {Nobody}
  /\ \A v \in VolIds : {volumes[v].dir, volSaved[v].dir} \subseteq VolDirs \cup {Nobody}
  /\ inode \in [VolDirs -> 1 .. MaxInode]
  /\ \A t \in VolTargets : mounts[t].dir \in VolDirs \cup {Nobody}
  /\ \A i \in VolApps : projected[i].state \in {"off", "up", "stopping", "kept"}
  /\ \A c \in VolCallers : volCall[c].op \in
       {"idle", "read", "store", "refs", "unstore", "resolve", "bind", "readonly", "start", "stop"}

VolFault == volFaults < VolFaults /\ volFaults' = volFaults + 1

Goto(c, op) == volCall' = [volCall EXCEPT ![c].op = op]
Return(c) == volCall' = [volCall EXCEPT ![c] = Idle]

(***************************************************************************)
(* POST /v1/volumes: RegisterVolume under volumesMu, then the store.       *)
(***************************************************************************)
\* openAndIsolateVolume pins the directory that is at the path now.
openAndIsolateVolume(d, ro) == [dir |-> d, ino |-> inode[d], ro |-> ro]

RegisterVolume(c, v, d, ro) ==
  /\ volCall[c] = Idle
  /\ volMu = Nobody
  /\ \/ /\ ~Registered(v)
        /\ volumes' = [volumes EXCEPT ![v] = openAndIsolateVolume(d, ro)]
        /\ forced' = forced \ {v}
     \/ /\ volumes[v].dir = d /\ volumes[v].ro = ro
        /\ UNCHANGED <<volumes, forced>>
  /\ volCall' = [volCall EXCEPT ![c] = [Idle EXCEPT !.op = "read", !.vol = v]]
  /\ UNCHANGED <<volMu, appMu, volSaved, inode, mounts, projected, atomicMount, volFaults>>

\* The record is read back; a volume deleted meanwhile reads as an empty
\* record, which is saved under no ID.  The identity of the directory is not
\* part of the record.
ReadBackVolume(c) ==
  LET v == volumes[volCall[c].vol]
  IN  /\ volCall[c].op = "read"
      /\ volMu = Nobody
      /\ volCall' = [volCall EXCEPT ![c].op = "store", ![c].mount.dir = v.dir,
                                    ![c].mount.ro = v.ro]
      /\ UNCHANGED <<volMu, appMu, volumes, volSaved, inode, mounts, projected, atomicMount,
                     forced, volFaults>>

AddVolumeStored(c) ==
  LET m == volCall[c].mount
  IN  /\ volCall[c].op = "store"
      /\ volSaved' = IF m.dir = Nobody THEN volSaved
                     ELSE [volSaved EXCEPT ![volCall[c].vol] = [NoVolume EXCEPT !.dir = m.dir, !.ro = m.ro]]
      /\ Return(c)
      /\ UNCHANGED <<volMu, appMu, volumes, inode, mounts, projected, atomicMount, forced,
                     volFaults>>

\* The flush fails: the volume is unregistered, with force.
AddVolumeUndone(c) ==
  LET v == volCall[c].vol
  IN  /\ volCall[c].op = "store"
      /\ VolFault
      /\ volMu = Nobody
      /\ volumes' = [volumes EXCEPT ![v] = NoVolume]
      /\ forced' = forced \cup {v}
      /\ Return(c)
      /\ UNCHANGED <<volMu, appMu, volSaved, inode, mounts, projected, atomicMount>>

(***************************************************************************)
(* DELETE /v1/volumes/{id}: volumesMu, then the apps under the supervisor  *)
(* lock unless forced, then the store.                                     *)
(***************************************************************************)
UnregisterVolume(c, v) ==
  /\ volCall[c] = Idle
  /\ volMu = Nobody
  /\ Registered(v)
  /\ volMu' = c
  /\ volCall' = [volCall EXCEPT ![c] = [Idle EXCEPT !.op = "refs", !.vol = v]]
  /\ UNCHANGED <<appMu, volumes, volSaved, inode, mounts, projected, atomicMount, forced,
                 volFaults>>

\* faulty: no app is ever found
appsReferencingVolume_None(v) == {}

appsReferencingVolume(v) == {i \in VolApps : projected[i].state \in {"up", "kept"} /\ projected[i].vol = v}

UnregisterChecks(c) ==
  LET v == volCall[c].vol
  IN  /\ volCall[c].op = "refs"
      /\ appMu = Nobody
      /\ volMu' = Nobody
      /\ IF appsReferencingVolume(v) # {}
         THEN Return(c) /\ UNCHANGED volumes
         ELSE /\ volumes' = [volumes EXCEPT ![v] = NoVolume]
              /\ Goto(c, "unstore")
      /\ UNCHANGED <<appMu, volSaved, inode, mounts, projected, atomicMount, forced,
                     volFaults>>

UnregisterForced(c, v) ==
  /\ volCall[c] = Idle
  /\ volMu = Nobody
  /\ Registered(v)
  /\ volumes' = [volumes EXCEPT ![v] = NoVolume]
  /\ forced' = forced \cup {v}
  /\ volCall' = [volCall EXCEPT ![c] = [Idle EXCEPT !.op = "unstore", !.vol = v]]
  /\ UNCHANGED <<volMu, appMu, volSaved, inode, mounts, projected, atomicMount, volFaults>>

RemoveVolumeStored(c) ==
  /\ volCall[c].op = "unstore"
  /\ \/ volSaved' = [volSaved EXCEPT ![volCall[c].vol] = NoVolume] /\ UNCHANGED volFaults
     \/ VolFault /\ UNCHANGED volSaved
  /\ Return(c)
  /\ UNCHANGED <<volMu, appMu, volumes, inode, mounts, projected, atomicMount, forced>>

(***************************************************************************)
(* Spawn with one volume mount.  It holds the supervisor lock throughout   *)
(* and reads the volumes twice, each time under volumesMu.                 *)
(***************************************************************************)
SpawnBegins(c, i, v, t, sub, ro) ==
  /\ volCall[c] = Idle
  /\ appMu = Nobody
  /\ projected[i].state = "off"
  /\ appMu' = c
  /\ volCall' = [volCall EXCEPT ![c] =
       [op |-> "resolve", app |-> i, vol |-> v, target |-> t,
        mount |-> [NoMount EXCEPT !.sub = sub, !.ro = ro]]]
  /\ UNCHANGED <<volMu, volumes, volSaved, inode, mounts, projected, atomicMount, forced,
                 volFaults>>

SpawnFails(c) == appMu' = Nobody /\ Return(c)

\* A projection may only tighten the mode of its volume.
resolveVolumeMounts(c) ==
  LET v == volCall[c].vol
  IN  /\ volCall[c].op = "resolve"
      /\ volMu = Nobody
      /\ IF Registered(v)
         THEN /\ volCall' = [volCall EXCEPT ![c].op = "bind", ![c].mount.ro = @ \/ volumes[v].ro]
              /\ UNCHANGED appMu
         ELSE SpawnFails(c)
      /\ UNCHANGED <<volMu, volumes, volSaved, inode, mounts, projected, atomicMount, forced,
                     volFaults>>

\* The directory is still the one that was registered; a sub path has an
\* inode of its own and is only held to the file system.
SourceMatches(v, sub) == sub \/ inode[volumes[v].dir] = volumes[v].ino

\* faulty: any mount on the same file system will do
isAlreadyBoundExact_SameFS(t, v) == TRUE

\* mountinfo gives the path of the mounted directory, so a sub path never
\* matches the volume's own path, and a directory that was replaced reads
\* as deleted.
isAlreadyBoundExact(t, v) ==
  /\ mounts[t].dir = volumes[v].dir
  /\ mounts[t].ino = inode[mounts[t].dir]
  /\ ~mounts[t].sub

\* The bind succeeded.  What the app asked for is kept for the properties.
Bound(c, op) ==
  LET v == volCall[c].vol
  IN  volCall' = [volCall EXCEPT
        ![c].op = op,
        ![c].mount.dir = volumes[v].dir,
        ![c].mount.ino = IF volCall[c].mount.sub THEN inode[volumes[v].dir] ELSE volumes[v].ino]

\* With mount_setattr the mount is made read-only before it is moved to the
\* target; without it the bind appears writable and is remounted.
bindAtomic(v, m) == [dir |-> volumes[v].dir, ino |-> inode[volumes[v].dir], sub |-> m.sub, ro |-> m.ro]
bindWritable(v, m) == [bindAtomic(v, m) EXCEPT !.ro = FALSE]

bindOneMount(c) ==
  LET v == volCall[c].vol
      t == volCall[c].target
      m == volCall[c].mount
      new == IF atomicMount THEN bindAtomic(v, m) ELSE bindWritable(v, m)
  IN  /\ volCall[c].op = "bind"
      /\ volMu = Nobody
      /\ \/ ~Registered(v) /\ SpawnFails(c) /\ UNCHANGED <<mounts, volFaults>>
         \/ Registered(v) /\ ~SourceMatches(v, m.sub) /\ SpawnFails(c) /\ UNCHANGED <<mounts, volFaults>>
         \/ /\ Registered(v) /\ SourceMatches(v, m.sub)
            /\ mounts[t] # NoMount
            /\ IF isAlreadyBoundExact(t, v) THEN Bound(c, "start") /\ UNCHANGED appMu ELSE SpawnFails(c)
            /\ UNCHANGED <<mounts, volFaults>>
         \/ /\ Registered(v) /\ SourceMatches(v, m.sub)
            /\ mounts[t] = NoMount
            /\ \/ /\ mounts' = [mounts EXCEPT ![t] = new]
                  /\ Bound(c, IF m.ro /\ ~atomicMount THEN "readonly" ELSE "start")
                  /\ UNCHANGED <<appMu, volFaults>>
               \/ VolFault /\ SpawnFails(c) /\ UNCHANGED mounts
      /\ UNCHANGED <<volMu, volumes, volSaved, inode, projected, atomicMount, forced>>

\* The remount of the older kernels; a bind that could not be remounted stays.
remountReadOnly(c) ==
  LET t == volCall[c].target
  IN  /\ volCall[c].op = "readonly"
      /\ \/ /\ mounts' = [mounts EXCEPT ![t].ro = TRUE]
            /\ Goto(c, "start")
            /\ UNCHANGED <<appMu, volFaults>>
         \/ VolFault /\ SpawnFails(c) /\ UNCHANGED mounts
      /\ UNCHANGED <<volMu, volumes, volSaved, inode, projected, atomicMount, forced>>

SpawnRegisters(c) ==
  /\ volCall[c].op = "start"
  /\ \/ /\ projected' = [projected EXCEPT ![volCall[c].app] =
             [state |-> "up", vol |-> volCall[c].vol, target |-> volCall[c].target,
              mount |-> volCall[c].mount]]
        /\ UNCHANGED volFaults
     \/ VolFault /\ UNCHANGED projected
  /\ appMu' = Nobody
  /\ Return(c)
  /\ UNCHANGED <<volMu, volumes, volSaved, inode, mounts, atomicMount, forced>>

(***************************************************************************)
(* Stop takes the app out of the registry while it waits for the process,  *)
(* and puts it back when the process cannot be stopped.                    *)
(***************************************************************************)
StopBegins(c, i) ==
  /\ volCall[c] = Idle
  /\ appMu = Nobody
  /\ projected[i].state \in {"up", "kept"}
  /\ projected' = [projected EXCEPT ![i].state = "stopping"]
  /\ volCall' = [volCall EXCEPT ![c] = [Idle EXCEPT !.op = "stop", !.app = i]]
  /\ UNCHANGED <<volMu, appMu, volumes, volSaved, inode, mounts, atomicMount, forced, volFaults>>

StopEnds(c) ==
  LET i == volCall[c].app
  IN  /\ volCall[c].op = "stop"
      /\ \/ projected' = [projected EXCEPT ![i] = Off] /\ UNCHANGED volFaults
         \/ /\ VolFault
            /\ appMu = Nobody
            /\ projected' = [projected EXCEPT ![i].state = "kept"]
      /\ Return(c)
      /\ UNCHANGED <<volMu, appMu, volumes, volSaved, inode, mounts, atomicMount, forced>>

(***************************************************************************)
(* The operator replaces a backing directory; the daemon restarts and      *)
(* registers the saved volumes again.                                      *)
(***************************************************************************)
ReplaceDir(d) ==
  /\ VolFault
  /\ inode[d] < MaxInode
  /\ inode' = [inode EXCEPT ![d] = @ + 1]
  /\ UNCHANGED <<volMu, appMu, volumes, volSaved, mounts, projected, volCall, atomicMount,
                 forced>>

RestartRestoresVolumes ==
  /\ VolFault
  /\ volMu' = Nobody /\ appMu' = Nobody
  /\ volumes' = [v \in VolIds |-> IF volSaved[v] = NoVolume THEN NoVolume
                                  ELSE openAndIsolateVolume(volSaved[v].dir, volSaved[v].ro)]
  /\ projected' = [i \in VolApps |-> Off]
  /\ volCall' = [c \in VolCallers |-> Idle]
  /\ forced' = {}
  /\ UNCHANGED <<volSaved, inode, mounts, atomicMount>>

VolumesInit ==
  /\ volMu = Nobody /\ appMu = Nobody
  /\ volumes = [v \in VolIds |-> NoVolume]
  /\ volSaved = [v \in VolIds |-> NoVolume]
  /\ inode = [d \in VolDirs |-> 1]
  /\ mounts = [t \in VolTargets |-> NoMount]
  /\ projected = [i \in VolApps |-> Off]
  /\ volCall = [c \in VolCallers |-> Idle]
  /\ atomicMount \in BOOLEAN
  /\ forced = {}
  /\ volFaults = 0

VolumeStep(c) ==
  \/ ReadBackVolume(c) \/ AddVolumeStored(c) \/ AddVolumeUndone(c) \/ UnregisterChecks(c) \/ RemoveVolumeStored(c)
  \/ resolveVolumeMounts(c) \/ bindOneMount(c) \/ remountReadOnly(c) \/ SpawnRegisters(c)
  \/ StopEnds(c)

VolumeRequest(c) ==
  \/ \E v \in VolIds, d \in VolDirs, ro \in VolModes : RegisterVolume(c, v, d, ro)
  \/ \E v \in VolIds : UnregisterVolume(c, v) \/ UnregisterForced(c, v)
  \/ \E i \in VolApps, v \in VolIds, t \in VolTargets, sub, ro \in BOOLEAN :
       SpawnBegins(c, i, v, t, sub, ro)
  \/ \E i \in VolApps : StopBegins(c, i)

VolumesNext ==
  \/ \E c \in VolCallers : VolumeRequest(c) \/ VolumeStep(c)
  \/ \E d \in VolDirs : ReplaceDir(d)
  \/ RestartRestoresVolumes

VolumesSpec == VolumesInit /\ [][VolumesNext]_volumeVars

\* A goroutine that can take its next step eventually does.
VolumesFairSpec == VolumesSpec /\ \A c \in VolCallers : WF_volumeVars(VolumeStep(c))

(***************************************************************************)
(* The mount an app runs on is the directory its volume was registered     *)
(* with: not one that replaced it, nor one another volume left at the      *)
(* target.  (Which part of the volume is mounted, and whether read-only,   *)
(* is not compared when a mount is reused, and is not claimed here.)       *)
(***************************************************************************)
MountsMatch ==
  \A i \in VolApps : projected[i].state = "up" =>
    LET m == mounts[projected[i].target]
        asked == projected[i].mount
    IN  m.dir = asked.dir /\ m.ino = asked.ino

(***************************************************************************)
(* "Refuses to remove a Volume that any registered app still references":  *)
(* the volume of a registered app stays registered until it is forced out. *)
(* An app put back after a failed stop is the exception: it was not in the *)
(* registry when the references were counted.                              *)
(***************************************************************************)
ReferencedIsRegistered ==
  \A i \in VolApps : projected[i].state = "up" =>
    Registered(projected[i].vol) \/ projected[i].vol \in forced

(***************************************************************************)
(* UnregisterVolume answers: it removes the volume or refuses.  It waits   *)
(* for the supervisor lock with volumesMu held, a spawn the other way.     *)
(***************************************************************************)
UnregisterAnswers ==
  \A c \in VolCallers : volCall[c].op = "refs" ~> volCall[c].op # "refs"
=============================================================================
