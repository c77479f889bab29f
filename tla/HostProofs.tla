----------------------------- MODULE HostProofs -----------------------------
(***************************************************************************)
(* Proofs about what the host gives an app, for every number of apps: the  *)
(* volume its config names (Volumes) and a user of its own                 *)
(* (HostIdentity).                                                         *)
(*                                                                         *)
(* VolumesInv says what a call in progress relies on between two of its    *)
(* steps: what it read of the registry still describes the directory, or   *)
(* the removal was forced. IdentityInv says that every UID handed out is   *)
(* covered by a mark that survives, or was exposed when a write failed.    *)
(***************************************************************************)
EXTENDS HostIdentity, Volumes, TLAPS

-----------------------------------------------------------------------------
(* Volumes *)

\* The steps of a spawn that has looked up its volume, and the steps of the
\* other calls.
SpawnOps == {"resolve", "bind", "readonly", "start"}
OtherOps == {"idle", "read", "store", "refs", "unstore", "stop"}

\* A volume of the registry.
VolumeRecord == [dir : VolDirs, ino : 0 .. MaxInode, ro : BOOLEAN]

\* A mount an app is given, or is about to be given.
MountRecord == [dir : VolDirs \cup {Nobody}, ino : 0 .. MaxInode, sub : BOOLEAN, ro : BOOLEAN]

\* A call in progress.
CallRecord ==
  [op : SpawnOps \cup OtherOps, app : VolApps \cup {Nobody}, vol : VolIds \cup {Nobody},
   target : VolTargets \cup {Nobody}, mount : MountRecord]

\* What the host shows of an app: its state, its volume, its mount.
Projection ==
  [state : {"off", "up", "stopping", "kept"}, vol : VolIds \cup {Nobody},
   target : VolTargets \cup {Nobody}, mount : MountRecord]

\* The types of the state of Volumes.
VolumesTypes ==
  /\ volMu \in VolCallers \cup {Nobody}
  /\ appMu \in VolCallers \cup {Nobody}
  /\ volumes \in [VolIds -> VolumeRecord \cup {NoVolume}]
  /\ volSaved \in [VolIds -> VolumeRecord \cup {NoVolume}]
  /\ inode \in [VolDirs -> 1 .. MaxInode]
  /\ mounts \in [VolTargets -> MountRecord]
  /\ projected \in [VolApps -> Projection]
  /\ volCall \in [VolCallers -> CallRecord]

\* The local variables of a request that the rest of it relies on.
CallOK(call) ==
  /\ call.op \notin {"idle", "stop"} => call.vol \in VolIds
  /\ call.op \in SpawnOps => call.target \in VolTargets
  /\ call.op \in SpawnOps \cup {"stop"} => call.app \in VolApps

\* The mount at t is of the directory and inode that was asked for.
MountedAs(t, asked) ==
  asked.dir \in VolDirs /\ mounts[t].dir = asked.dir /\ mounts[t].ino = asked.ino

\* Volume v is registered, or its removal was forced.
Kept(v) == Registered(v) \/ v \in forced

\* A spawn past its bind, and an app that runs, have what they asked for.
Served(v, t, asked) == v \in VolIds /\ t \in VolTargets /\ MountedAs(t, asked) /\ Kept(v)

\* A spawn holds the supervisor lock.
SpawnInv ==
  \A c \in VolCallers :
    /\ CallOK(volCall[c])
    /\ volCall[c].op \in SpawnOps => appMu = c
    /\ volCall[c].op \in {"readonly", "start"} =>
         Served(volCall[c].vol, volCall[c].target, volCall[c].mount)

\* An app that is up runs on the volume its config names.
RunningInv ==
  \A i \in VolApps : projected[i].state = "up" =>
    Served(projected[i].vol, projected[i].target, projected[i].mount)

\* The inductive invariant of Volumes.
VolumesInv == VolumesTypes /\ SpawnInv /\ RunningInv

\* Request c goes on as x, and the other requests stay where they are.
Becomes(c, x) ==
  /\ volCall' \in [VolCallers -> CallRecord]
  /\ volCall'[c] = x
  /\ \A k \in VolCallers \ {c} : volCall'[k] = volCall[k]

\* The constant records are of their types.
LEMMA IdleRecord == Idle \in CallRecord /\ NoMount \in MountRecord /\ Off \in Projection
<1>1. NoMount \in MountRecord
  <2>1. 0 \in 0 .. MaxInode
    BY VolumesAssumption
  <2> QED BY <2>1 DEF NoMount, MountRecord
<1> QED
  BY <1>1 DEF Idle, Off, CallRecord, Projection, OtherOps

\* What a step of one call is, to the calls.
LEMMA CallBecomes ==
  ASSUME VolumesTypes, NEW c \in VolCallers
  PROVE  /\ \A x \in CallRecord : volCall' = [volCall EXCEPT ![c] = x] => Becomes(c, x)
         /\ Return(c) => Becomes(c, Idle)
<1>1. \A x \in CallRecord : volCall' = [volCall EXCEPT ![c] = x] => Becomes(c, x)
  BY DEF VolumesTypes, Becomes
<1> QED
  BY <1>1, IdleRecord DEF Return

\* A request moves on with a new step, and a new mount.
LEMMA CallMoves ==
  ASSUME VolumesTypes, NEW c \in VolCallers, NEW op \in SpawnOps \cup OtherOps
  PROVE  /\ Goto(c, op) => Becomes(c, [op |-> op, app |-> volCall[c].app, vol |-> volCall[c].vol,
                                       target |-> volCall[c].target, mount |-> volCall[c].mount])
         /\ \A m \in MountRecord :
              volCall' = [volCall EXCEPT ![c].op = op, ![c].mount = m] =>
                Becomes(c, [op |-> op, app |-> volCall[c].app, vol |-> volCall[c].vol,
                            target |-> volCall[c].target, mount |-> m])
<1>1. volCall[c] \in CallRecord
  BY DEF VolumesTypes
<1>2. ASSUME NEW m \in MountRecord
      PROVE  [op |-> op, app |-> volCall[c].app, vol |-> volCall[c].vol,
              target |-> volCall[c].target, mount |-> m] \in CallRecord
  BY <1>1 DEF CallRecord
<1>3. ASSUME NEW m \in MountRecord, volCall' = [volCall EXCEPT ![c].op = op, ![c].mount = m]
      PROVE  Becomes(c, [op |-> op, app |-> volCall[c].app, vol |-> volCall[c].vol,
                         target |-> volCall[c].target, mount |-> m])
  <2>1. volCall'[c] = [op |-> op, app |-> volCall[c].app, vol |-> volCall[c].vol,
                       target |-> volCall[c].target, mount |-> m]
    BY <1>1, <1>3, Zenon DEF VolumesTypes, CallRecord
  <2> QED BY <1>2, <1>3, <2>1 DEF VolumesTypes, Becomes
<1>4. ASSUME Goto(c, op)
      PROVE  Becomes(c, [op |-> op, app |-> volCall[c].app, vol |-> volCall[c].vol,
                         target |-> volCall[c].target, mount |-> volCall[c].mount])
  <2>0. volCall[c].mount \in MountRecord
    BY <1>1 DEF CallRecord
  <2>1. volCall'[c] = [op |-> op, app |-> volCall[c].app, vol |-> volCall[c].vol,
                       target |-> volCall[c].target, mount |-> volCall[c].mount]
    BY <1>1, <1>4 DEF VolumesTypes, CallRecord, Goto
  <2> QED BY <1>2, <1>4, <2>0, <2>1 DEF VolumesTypes, Becomes, Goto
<1> QED
  BY <1>3, <1>4

\* A mount is not replaced and no volume is removed unforced: what was served
\* stays served.
Stays ==
  /\ \A t \in VolTargets : mounts[t].dir # Nobody =>
       mounts'[t].dir = mounts[t].dir /\ mounts'[t].ino = mounts[t].ino
  /\ \A v \in VolIds : Kept(v) => Kept(v)'

\* A mount that serves what was asked still does while the volumes stay.
LEMMA ServedStays ==
  ASSUME Stays, NEW v, NEW t, NEW asked, Served(v, t, asked)
  PROVE  Served(v, t, asked)'
<1>1. v \in VolIds /\ t \in VolTargets /\ asked.dir \in VolDirs
      /\ mounts[t].dir = asked.dir /\ mounts[t].ino = asked.ino /\ Kept(v)
  BY DEF Served, MountedAs
<1>2. mounts[t].dir # Nobody
  BY <1>1, VolumesAssumption
<1> QED
  BY <1>1, <1>2, Zenon DEF Stays, Served, MountedAs

\* Served, after the step.
WillServe(v, t, asked) ==
  /\ v \in VolIds /\ t \in VolTargets
  /\ asked.dir \in VolDirs /\ mounts'[t].dir = asked.dir /\ mounts'[t].ino = asked.ino
  /\ volumes'[v] # NoVolume \/ v \in forced'

\* A step of request c keeps the other requests and the apps right.
LEMMA RequestStep ==
  ASSUME VolumesInv, NEW c \in VolCallers, NEW x, Becomes(c, x), CallOK(x), VolumesTypes',
         appMu' = appMu \/ volCall[c].op \in SpawnOps \/ appMu = Nobody,
         x.op \in SpawnOps => appMu' = c,
         x.op \in {"readonly", "start"} => WillServe(x.vol, x.target, x.mount),
         RunningInv', Stays \/ appMu = Nobody
  PROVE  VolumesInv'
<1>1. ASSUME NEW k \in VolCallers
      PROVE  /\ CallOK(volCall'[k])
             /\ volCall'[k].op \in SpawnOps => appMu' = k
             /\ volCall'[k].op \in {"readonly", "start"} =>
                  Served(volCall[k].vol, volCall[k].target, volCall[k].mount)'
  <2>1. CASE k = c
    BY <2>1, Zenon DEF Becomes, WillServe, Served, MountedAs, Kept, Registered
  <2>2. CASE k # c
    <3>1. volCall'[k] = volCall[k]
      BY <2>2 DEF Becomes
    <3>2. CallOK(volCall'[k])
      BY <3>1, Zenon DEF VolumesInv, SpawnInv
    <3>3. volCall'[k].op \in SpawnOps => appMu' = k
      <4>1. volCall[k].op \in SpawnOps => appMu = k
        BY Zenon DEF VolumesInv, SpawnInv
      <4>2. volCall[c].op \in SpawnOps => appMu = c
        BY Zenon DEF VolumesInv, SpawnInv
      <4> QED BY <2>2, <3>1, <4>1, <4>2, VolumesAssumption
    <3>4. volCall'[k].op \in {"readonly", "start"} =>
            Served(volCall[k].vol, volCall[k].target, volCall[k].mount)'
      <4>1. volCall[k].op \in {"readonly", "start"} =>
              Served(volCall[k].vol, volCall[k].target, volCall[k].mount)
        BY Zenon DEF VolumesInv, SpawnInv
      <4>2. ASSUME NEW v, NEW t, NEW asked, Served(v, t, asked), Stays
            PROVE  v \in VolIds /\ t \in VolTargets /\ MountedAs(t, asked)' /\ Kept(v)'
        BY <4>2, ServedStays, Zenon DEF Served, MountedAs, Kept, Registered
      <4>3. appMu = Nobody => volCall[k].op \notin {"readonly", "start"}
        BY VolumesAssumption DEF VolumesInv, SpawnInv, SpawnOps
      <4> QED BY <3>1, <4>1, <4>2, <4>3, Zenon DEF Served
    <3> QED BY <3>2, <3>3, <3>4, Zenon
  <2> QED BY <2>1, <2>2
<1>2. SpawnInv'
  BY <1>1, Zenon DEF SpawnInv
<1> QED
  BY <1>2 DEF VolumesInv

\* The apps stay right when none is registered anew.
LEMMA RunningStays ==
  ASSUME VolumesInv, Stays,
         \A i \in VolApps : projected'[i].state = "up" => projected'[i] = projected[i]
  PROVE  RunningInv'
<1> SUFFICES ASSUME NEW i \in VolApps, projected'[i].state = "up"
             PROVE  Served(projected[i].vol, projected[i].target, projected[i].mount)'
  BY Zenon DEF RunningInv
<1>1. projected'[i] = projected[i]
  OBVIOUS
<1>2. Served(projected[i].vol, projected[i].target, projected[i].mount)
  BY <1>1, Zenon DEF VolumesInv, RunningInv
<1>3. ASSUME NEW v, NEW t, NEW asked, Served(v, t, asked)
      PROVE  v \in VolIds /\ t \in VolTargets /\ MountedAs(t, asked)' /\ Kept(v)'
  BY <1>3, ServedStays, Zenon DEF Served, MountedAs, Kept, Registered
<1> QED
  BY <1>1, <1>2, <1>3, Zenon DEF Served

\* Registering, reading back, saving and removing volumes: the mounts and the
\* apps stay, and a volume is removed only with force.
LEMMA VolumeStays ==
  ASSUME VolumesInv, NEW c \in VolCallers, NEW x, Becomes(c, x), CallOK(x), x.op \in OtherOps,
         volMu' \in VolCallers \cup {Nobody}, UNCHANGED <<appMu, inode, mounts, projected>>,
         volumes' \in [VolIds -> VolumeRecord \cup {NoVolume}],
         volSaved' \in [VolIds -> VolumeRecord \cup {NoVolume}],
         \A v \in VolIds : volumes[v] # NoVolume \/ v \in forced => volumes'[v] # NoVolume \/ v \in forced'
  PROVE  VolumesInv'
<1>1. VolumesTypes'
  BY DEF VolumesInv, VolumesTypes, Becomes
<1>2. Stays
  BY Zenon DEF Stays, Kept, Registered
<1>3. RunningInv'
  BY <1>2, RunningStays, Zenon
<1>4. x.op \notin SpawnOps /\ x.op \notin {"readonly", "start"}
  BY DEF SpawnOps, OtherOps
<1> QED
  BY <1>1, <1>2, <1>3, <1>4, RequestStep, Zenon

\* What POST /v1/volumes registers is a volume record.
LEMMA VolumeIsRecord ==
  ASSUME VolumesInv, NEW d \in VolDirs, NEW ro \in BOOLEAN
  PROVE  openAndIsolateVolume(d, ro) \in VolumeRecord /\ openAndIsolateVolume(d, ro) # NoVolume
<1>1. inode[d] \in 0 .. MaxInode
  BY VolumesAssumption DEF VolumesInv, VolumesTypes
<1>2. openAndIsolateVolume(d, ro) \in VolumeRecord
  BY <1>1 DEF openAndIsolateVolume, VolumeRecord
<1>3. openAndIsolateVolume(d, ro).dir = d /\ NoVolume.dir = Nobody /\ d # Nobody
  BY VolumesAssumption DEF openAndIsolateVolume, NoVolume
<1> QED
  BY <1>2, <1>3

\* RegisterVolume and the requests that start on a volume.
LEMMA VolumeRequest_Inv ==
  ASSUME VolumesInv, NEW c \in VolCallers, NEW v \in VolIds,
         \/ \E d \in VolDirs, ro \in VolModes : RegisterVolume(c, v, d, ro)
         \/ UnregisterVolume(c, v) \/ UnregisterForced(c, v)
  PROVE  VolumesInv'
<1>0. volCall[c].op \in SpawnOps \cup OtherOps /\ volumes \in [VolIds -> VolumeRecord \cup {NoVolume}]
      /\ volSaved \in [VolIds -> VolumeRecord \cup {NoVolume}] /\ volMu \in VolCallers \cup {Nobody}
  BY DEF VolumesInv, VolumesTypes, CallRecord
<1>1. ASSUME NEW op \in {"read", "refs", "unstore"},
             volCall' = [volCall EXCEPT ![c] = [Idle EXCEPT !.op = op, !.vol = v]]
      PROVE  \E x : Becomes(c, x) /\ CallOK(x) /\ x.op \in OtherOps
  <2> DEFINE x == [Idle EXCEPT !.op = op, !.vol = v]
  <2>1. op \in OtherOps /\ op \notin SpawnOps /\ op # "stop"
    BY DEF OtherOps, SpawnOps
  <2>2. x \in CallRecord /\ x.op = op /\ x.vol = v
    BY <2>1, IdleRecord, Zenon DEF CallRecord
  <2> HIDE DEF x
  <2>3. Becomes(c, x)
    BY <1>1, <2>2, CallBecomes, Zenon DEF VolumesInv, x
  <2>4. CallOK(x) /\ x.op \in OtherOps
    BY <2>1, <2>2 DEF CallOK
  <2> QED BY <2>3, <2>4, Zenon
<1>2. ASSUME NEW d \in VolDirs, NEW ro \in VolModes, RegisterVolume(c, v, d, ro)
      PROVE  VolumesInv'
  <2>1. /\ volCall' = [volCall EXCEPT ![c] = [Idle EXCEPT !.op = "read", !.vol = v]]
        /\ UNCHANGED <<volMu, appMu, volSaved, inode, mounts, projected>>
    BY <1>2, Zenon DEF RegisterVolume
  <2>2. PICK x : Becomes(c, x) /\ CallOK(x) /\ x.op \in OtherOps
    BY <1>1, <2>1
  <2>3. /\ volumes' \in [VolIds -> VolumeRecord \cup {NoVolume}]
        /\ \A w \in VolIds : volumes[w] # NoVolume \/ w \in forced => volumes'[w] # NoVolume \/ w \in forced'
    <3>1. CASE UNCHANGED <<volumes, forced>>
      BY <1>0, <3>1
    <3>2. CASE volumes' = [volumes EXCEPT ![v] = openAndIsolateVolume(d, ro)] /\ forced' = forced \ {v}
      <4>1. ro \in BOOLEAN
        BY VolumesAssumption
      <4>2. openAndIsolateVolume(d, ro) \in VolumeRecord /\ openAndIsolateVolume(d, ro) # NoVolume
        BY <4>1, VolumeIsRecord
      <4> QED BY <1>0, <3>2, <4>2
    <3> QED BY <1>2, <3>1, <3>2, Zenon DEF RegisterVolume
  <2> QED BY <1>0, <2>1, <2>2, <2>3, VolumeStays, Zenon
<1>3. CASE UnregisterVolume(c, v)
  <2>1. /\ volMu' = c /\ volCall' = [volCall EXCEPT ![c] = [Idle EXCEPT !.op = "refs", !.vol = v]]
        /\ UNCHANGED <<appMu, volumes, volSaved, inode, mounts, projected, forced>>
    BY <1>3, Zenon DEF UnregisterVolume
  <2>2. PICK x : Becomes(c, x) /\ CallOK(x) /\ x.op \in OtherOps
    BY <1>1, <2>1
  <2> QED BY <1>0, <2>1, <2>2, VolumeStays, Zenon
<1>4. CASE UnregisterForced(c, v)
  <2>1. /\ volCall' = [volCall EXCEPT ![c] = [Idle EXCEPT !.op = "unstore", !.vol = v]]
        /\ volumes' = [volumes EXCEPT ![v] = NoVolume] /\ forced' = forced \cup {v}
        /\ UNCHANGED <<volMu, appMu, volSaved, inode, mounts, projected>>
    BY <1>4, Zenon DEF UnregisterForced
  <2>2. PICK x : Becomes(c, x) /\ CallOK(x) /\ x.op \in OtherOps
    BY <1>1, <2>1
  <2>3. /\ volumes' \in [VolIds -> VolumeRecord \cup {NoVolume}]
        /\ \A w \in VolIds : volumes[w] # NoVolume \/ w \in forced => volumes'[w] # NoVolume \/ w \in forced'
    BY <1>0, <2>1
  <2> QED BY <1>0, <2>1, <2>2, <2>3, VolumeStays, Zenon
<1> QED
  BY <1>2, <1>3, <1>4

\* The three ways in which a request notes a part of its mount.
NotesVolume(c, op, d, ro) == volCall' = [volCall EXCEPT ![c].op = op, ![c].mount.dir = d, ![c].mount.ro = ro]
\* A spawn notes the mode, or the volume, that it read of the registry.
NotesMode(c, op, ro) == volCall' = [volCall EXCEPT ![c].op = op, ![c].mount.ro = ro]
NotesMount(c, op, d, n) == volCall' = [volCall EXCEPT ![c].op = op, ![c].mount.dir = d, ![c].mount.ino = n]

\* The call of c becomes x: at op, with the directory and the inode of its mount.
Noted(c, op, d, n, x) ==
  /\ Becomes(c, x) /\ x.op = op /\ x.app = volCall[c].app /\ x.vol = volCall[c].vol
  /\ x.target = volCall[c].target /\ x.mount.dir = d /\ x.mount.ino = n

\* A request moves on, with a part of its mount noted.
LEMMA MountNoted ==
  ASSUME VolumesTypes, NEW c \in VolCallers, NEW op \in SpawnOps \cup OtherOps,
         NEW d \in VolDirs \cup {Nobody}, NEW n \in 0 .. MaxInode, NotesMount(c, op, d, n)
  PROVE  \E x : Noted(c, op, d, n, x)
<1>1. volCall \in [VolCallers -> CallRecord] /\ volCall[c].mount \in MountRecord
  BY DEF VolumesTypes, CallRecord
<1> DEFINE m == [volCall[c].mount EXCEPT !.dir = d, !.ino = n]
           x == [op |-> op, app |-> volCall[c].app, vol |-> volCall[c].vol,
                 target |-> volCall[c].target, mount |-> m]
<1>2. m \in MountRecord /\ m.dir = d /\ m.ino = n
  BY <1>1, Zenon DEF MountRecord
<1>3. volCall' = [volCall EXCEPT ![c].op = op, ![c].mount = m]
  BY <1>1, ZenonT(60) DEF CallRecord, NotesMount
<1> HIDE DEF m
<1>4. Becomes(c, x)
  BY <1>2, <1>3, CallMoves, Zenon
<1>5. x.op = op /\ x.app = volCall[c].app /\ x.vol = volCall[c].vol
      /\ x.target = volCall[c].target /\ x.mount = m
  BY Zenon
<1> QED
  BY <1>2, <1>4, <1>5, Zenon DEF Noted

\* What noting the mode does to the call.
LEMMA ModeNoted ==
  ASSUME VolumesTypes, NEW c \in VolCallers, NEW op \in SpawnOps \cup OtherOps,
         NEW ro \in BOOLEAN, NotesMode(c, op, ro)
  PROVE  \E x : /\ Becomes(c, x) /\ x.op = op /\ x.app = volCall[c].app /\ x.vol = volCall[c].vol
                /\ x.target = volCall[c].target
<1>1. volCall \in [VolCallers -> CallRecord] /\ volCall[c].mount \in MountRecord
  BY DEF VolumesTypes, CallRecord
<1> DEFINE m == [volCall[c].mount EXCEPT !.ro = ro]
           x == [op |-> op, app |-> volCall[c].app, vol |-> volCall[c].vol,
                 target |-> volCall[c].target, mount |-> m]
<1>2. m \in MountRecord
  BY <1>1, Zenon DEF MountRecord
<1>3. volCall' = [volCall EXCEPT ![c].op = op, ![c].mount = m]
  BY <1>1, Zenon DEF CallRecord, NotesMode
<1> HIDE DEF m
<1>4. Becomes(c, x)
  BY <1>2, <1>3, CallMoves, Zenon
<1>5. x.op = op /\ x.app = volCall[c].app /\ x.vol = volCall[c].vol /\ x.target = volCall[c].target
  BY Zenon
<1> QED
  BY <1>4, <1>5, Zenon

\* What noting the volume does to the call.
LEMMA VolumeNoted ==
  ASSUME VolumesTypes, NEW c \in VolCallers, NEW op \in SpawnOps \cup OtherOps,
         NEW d \in VolDirs \cup {Nobody}, NEW ro \in BOOLEAN, NotesVolume(c, op, d, ro)
  PROVE  \E x : Becomes(c, x) /\ x.op = op /\ x.vol = volCall[c].vol
<1>1. volCall \in [VolCallers -> CallRecord] /\ volCall[c] \in CallRecord /\ volCall[c].mount \in MountRecord
  BY DEF VolumesTypes, CallRecord
<1>2. /\ volCall'[c].op = op /\ volCall'[c].app = volCall[c].app /\ volCall'[c].vol = volCall[c].vol
      /\ volCall'[c].target = volCall[c].target
      /\ volCall'[c].mount = [[volCall[c].mount EXCEPT !.dir = d] EXCEPT !.ro = ro]
      /\ \A k \in VolCallers \ {c} : volCall'[k] = volCall[k]
  BY <1>1 DEF CallRecord, NotesVolume
<1>3. [[volCall[c].mount EXCEPT !.dir = d] EXCEPT !.ro = ro] \in MountRecord
  BY <1>1, Zenon DEF MountRecord
<1>4. volCall'[c] = [op |-> op, app |-> volCall[c].app, vol |-> volCall[c].vol,
                     target |-> volCall[c].target, mount |-> volCall'[c].mount]
  BY <1>1, Zenon DEF CallRecord, NotesVolume
<1>5. Becomes(c, volCall'[c])
  BY <1>1, <1>2, <1>3, <1>4 DEF CallRecord, Becomes, NotesVolume
<1> QED
  BY <1>2, <1>5, Zenon

\* The steps on the declared volumes and the store.
LEMMA VolumeStored_Inv ==
  ASSUME VolumesInv, NEW c \in VolCallers,
         ReadBackVolume(c) \/ AddVolumeStored(c) \/ AddVolumeUndone(c) \/ RemoveVolumeStored(c)
  PROVE  VolumesInv'
<1>0. /\ volumes \in [VolIds -> VolumeRecord \cup {NoVolume}]
      /\ volSaved \in [VolIds -> VolumeRecord \cup {NoVolume}] /\ volMu \in VolCallers \cup {Nobody}
      /\ volCall[c] \in CallRecord
  BY DEF VolumesInv, VolumesTypes
<1>1. volCall[c].vol \in VolIds /\ volCall[c].op \in {"read", "store", "unstore"}
      /\ UNCHANGED <<volMu, appMu, inode, mounts, projected>>
  <2>1. volCall[c].op \in {"read", "store", "unstore"} /\ UNCHANGED <<volMu, appMu, inode, mounts, projected>>
    BY DEF ReadBackVolume, AddVolumeStored, AddVolumeUndone, RemoveVolumeStored
  <2> QED BY <2>1, ZenonT(60) DEF VolumesInv, SpawnInv, CallOK
<1>2. CallOK(Idle) /\ Idle.op \in OtherOps
  BY DEF CallOK, Idle, OtherOps, SpawnOps
<1>3. CASE ReadBackVolume(c)
  <2> DEFINE v == volumes[volCall[c].vol]
  <2>1. v.dir \in VolDirs \cup {Nobody} /\ v.ro \in BOOLEAN
    <3>1. v \in VolumeRecord \/ v = NoVolume
      BY <1>0, <1>1
    <3>2. ASSUME NEW y, y \in VolumeRecord \/ y = NoVolume
          PROVE  y.dir \in VolDirs \cup {Nobody} /\ y.ro \in BOOLEAN
      <4>1. y \in VolumeRecord => y.dir \in VolDirs \cup {Nobody} /\ y.ro \in BOOLEAN
        BY DEF VolumeRecord
      <4>2. NoVolume.dir \in VolDirs \cup {Nobody} /\ NoVolume.ro \in BOOLEAN
        BY DEF NoVolume
      <4> QED BY <3>2, <4>1, <4>2, Zenon
    <3> QED BY <3>1, <3>2, Zenon
  <2>2. NotesVolume(c, "store", v.dir, v.ro) /\ UNCHANGED <<volumes, volSaved, forced>>
    BY <1>3, Zenon DEF ReadBackVolume, NotesVolume
  <2> HIDE DEF v
  <2>3. "store" \in SpawnOps \cup OtherOps
    BY DEF OtherOps
  <2>4. PICK x : Becomes(c, x) /\ x.op = "store" /\ x.vol = volCall[c].vol
    <3>1. VolumesTypes
      BY Zenon DEF VolumesInv
    <3> QED BY <2>1, <2>2, <2>3, <3>1, VolumeNoted
  <2>5. CallOK(x) /\ x.op \in OtherOps
    BY <1>1, <2>4 DEF CallOK, OtherOps, SpawnOps
  <2> QED BY <1>0, <1>1, <2>2, <2>4, <2>5, VolumeStays, Zenon
<1>4. CASE AddVolumeStored(c)
  <2>1. Return(c) /\ UNCHANGED <<volumes, forced>>
    BY <1>4, Zenon DEF AddVolumeStored
  <2>2. Becomes(c, Idle)
    BY <2>1, CallBecomes, Zenon DEF VolumesInv
  <2>3. volSaved' \in [VolIds -> VolumeRecord \cup {NoVolume}]
    <3> DEFINE m == volCall[c].mount
               y == [NoVolume EXCEPT !.dir = m.dir, !.ro = m.ro]
    <3>1. m.dir \in VolDirs \cup {Nobody} /\ m.ro \in BOOLEAN
      BY <1>0 DEF CallRecord, MountRecord
    <3>2. m.dir # Nobody => y \in VolumeRecord
      <4>1. 0 \in 0 .. MaxInode
        BY VolumesAssumption
      <4> QED BY <3>1, <4>1, Zenon DEF NoVolume, VolumeRecord
    <3>3. volSaved' = IF m.dir = Nobody THEN volSaved ELSE [volSaved EXCEPT ![volCall[c].vol] = y]
      BY <1>4, Zenon DEF AddVolumeStored
    <3> HIDE DEF m, y
    <3> QED BY <1>0, <1>1, <3>2, <3>3
  <2> QED BY <1>0, <1>1, <1>2, <2>1, <2>2, <2>3, VolumeStays, Zenon
<1>5. CASE AddVolumeUndone(c)
  <2>1. /\ volumes' = [volumes EXCEPT ![volCall[c].vol] = NoVolume]
        /\ forced' = forced \cup {volCall[c].vol} /\ Return(c) /\ volSaved' = volSaved
    BY <1>5, Zenon DEF AddVolumeUndone
  <2>2. Becomes(c, Idle)
    BY <2>1, CallBecomes, Zenon DEF VolumesInv
  <2>3. /\ volumes' \in [VolIds -> VolumeRecord \cup {NoVolume}]
        /\ \A w \in VolIds : volumes[w] # NoVolume \/ w \in forced => volumes'[w] # NoVolume \/ w \in forced'
    BY <1>0, <1>1, <2>1
  <2> QED BY <1>0, <1>1, <1>2, <2>1, <2>2, <2>3, VolumeStays, Zenon
<1>6. CASE RemoveVolumeStored(c)
  <2>1. /\ volSaved' = [volSaved EXCEPT ![volCall[c].vol] = NoVolume] \/ volSaved' = volSaved
        /\ Return(c) /\ UNCHANGED <<volumes, forced>>
    BY <1>6, Zenon DEF RemoveVolumeStored
  <2>2. Becomes(c, Idle)
    BY <2>1, CallBecomes, Zenon DEF VolumesInv
  <2>3. volSaved' \in [VolIds -> VolumeRecord \cup {NoVolume}]
    BY <1>0, <1>1, <2>1
  <2> QED BY <1>0, <1>1, <1>2, <2>1, <2>2, <2>3, VolumeStays, Zenon
<1> QED
  BY <1>3, <1>4, <1>5, <1>6

\* UnregisterVolume without force: with the supervisor lock free nobody is
\* being spawned, and no app that runs uses the volume.
LEMMA UnregisterChecks_Inv ==
  ASSUME VolumesInv, NEW c \in VolCallers, UnregisterChecks(c)
  PROVE  VolumesInv'
<1> DEFINE v == volCall[c].vol
<1>1. /\ volCall[c].op = "refs" /\ appMu = Nobody /\ volMu' = Nobody
      /\ UNCHANGED <<appMu, volSaved, inode, mounts, projected, forced>>
      /\ \/ Return(c) /\ UNCHANGED volumes
         \/ /\ appsReferencingVolume(v) = {}
            /\ volumes' = [volumes EXCEPT ![v] = NoVolume] /\ Goto(c, "unstore")
  BY Zenon DEF UnregisterChecks
<1>0. /\ volumes \in [VolIds -> VolumeRecord \cup {NoVolume}]
      /\ volSaved \in [VolIds -> VolumeRecord \cup {NoVolume}] /\ v \in VolIds
  BY <1>1 DEF VolumesInv, VolumesTypes, SpawnInv, CallOK
<1>2. CASE Return(c) /\ UNCHANGED volumes
  <2>1. Becomes(c, Idle)
    BY <1>2, CallBecomes, Zenon DEF VolumesInv
  <2>2. CallOK(Idle) /\ Idle.op \in OtherOps
    BY DEF CallOK, Idle, OtherOps, SpawnOps
  <2> QED BY <1>0, <1>1, <1>2, <2>1, <2>2, VolumeStays, Zenon
<1>3. CASE /\ appsReferencingVolume(v) = {}
           /\ volumes' = [volumes EXCEPT ![v] = NoVolume] /\ Goto(c, "unstore")
  <2>1. "unstore" \in SpawnOps \cup OtherOps
    BY DEF OtherOps
  <2>2. PICK x : Becomes(c, x) /\ x.op = "unstore" /\ x.vol = v
    <3> DEFINE x == [op |-> "unstore", app |-> volCall[c].app, vol |-> volCall[c].vol,
                     target |-> volCall[c].target, mount |-> volCall[c].mount]
    <3>1. Becomes(c, x)
      BY <1>3, <2>1, CallMoves, Zenon DEF VolumesInv
    <3>2. x.op = "unstore" /\ x.vol = v
      OBVIOUS
    <3> QED BY <3>1, <3>2, Zenon
  <2>3. CallOK(x) /\ x.op \notin SpawnOps /\ x.op \notin {"readonly", "start"}
    BY <1>0, <2>2 DEF CallOK, SpawnOps
  <2>4. VolumesTypes'
    <3>1. volumes' \in [VolIds -> VolumeRecord \cup {NoVolume}]
      BY <1>0, <1>3
    <3> QED BY <1>1, <2>2, <3>1 DEF VolumesInv, VolumesTypes, Becomes
  <2>5. RunningInv'
    <3> SUFFICES ASSUME NEW i \in VolApps, projected[i].state = "up"
                 PROVE  Served(projected[i].vol, projected[i].target, projected[i].mount)'
      BY <1>1, Zenon DEF RunningInv
    <3>1. Served(projected[i].vol, projected[i].target, projected[i].mount)
      BY ZenonT(60) DEF VolumesInv, RunningInv
    <3>2. projected[i].vol # v
      BY <1>3 DEF appsReferencingVolume
    <3>3. projected[i].vol \in VolIds
      BY <3>1, Zenon DEF Served
    <3>4. volumes'[projected[i].vol] = volumes[projected[i].vol]
      BY <1>0, <1>3, <3>2, <3>3
    <3> QED BY <1>1, <3>1, <3>4, Zenon DEF Served, MountedAs, Kept, Registered
  <2> QED BY <1>1, <2>2, <2>3, <2>4, <2>5, RequestStep, Zenon
<1> QED
  BY <1>1, <1>2, <1>3

\* A spawn that fails gives the supervisor lock back and leaves all else.
LEMMA SpawnFails_Inv ==
  ASSUME VolumesInv, NEW c \in VolCallers, volCall[c].op \in SpawnOps, SpawnFails(c),
         UNCHANGED <<volMu, volumes, volSaved, inode, mounts, projected, forced>>
  PROVE  VolumesInv'
<1>1. appMu' = Nobody /\ Becomes(c, Idle)
  BY CallBecomes, ZenonT(60) DEF VolumesInv, SpawnFails
<1>2. CallOK(Idle) /\ Idle.op \notin SpawnOps
  BY DEF CallOK, Idle, SpawnOps
<1>3. VolumesTypes'
  BY <1>1 DEF VolumesInv, VolumesTypes, Becomes
<1>4. Stays
  BY DEF Stays, Kept, Registered
<1>5. RunningInv'
  BY <1>4, RunningStays
<1>6. Idle.op \notin {"readonly", "start"}
  BY <1>2 DEF SpawnOps
<1> QED
  BY <1>1, <1>2, <1>3, <1>4, <1>5, <1>6, RequestStep, Zenon

\* SpawnBegins takes the free supervisor lock.
LEMMA SpawnBegins_Inv ==
  ASSUME VolumesInv, NEW c \in VolCallers, NEW i \in VolApps, NEW v \in VolIds, NEW t \in VolTargets,
         NEW sub \in BOOLEAN, NEW ro \in BOOLEAN, SpawnBegins(c, i, v, t, sub, ro)
  PROVE  VolumesInv'
<1> DEFINE m == [NoMount EXCEPT !.sub = sub, !.ro = ro]
           x == [op |-> "resolve", app |-> i, vol |-> v, target |-> t, mount |-> m]
<1>1. /\ appMu = Nobody /\ appMu' = c /\ volCall' = [volCall EXCEPT ![c] = x]
      /\ UNCHANGED <<volMu, volumes, volSaved, inode, mounts, projected, forced>>
  BY Zenon DEF SpawnBegins
<1>2. m \in MountRecord
  BY IdleRecord, Zenon DEF MountRecord
<1>3. x \in CallRecord /\ x.op = "resolve" /\ x.vol = v /\ x.target = t /\ x.app = i
  <2> HIDE DEF m
  <2> QED BY <1>2 DEF CallRecord, SpawnOps
<1> HIDE DEF x
<1>4. Becomes(c, x)
  BY <1>1, <1>3, CallBecomes, Zenon DEF VolumesInv
<1>5. CallOK(x) /\ x.op \notin {"readonly", "start"}
  BY <1>3 DEF CallOK
<1>6. VolumesTypes'
  BY <1>1, <1>4 DEF VolumesInv, VolumesTypes, Becomes
<1>7. Stays
  BY <1>1, ZenonT(60) DEF Stays, Kept, Registered
<1>8. RunningInv'
  BY <1>1, <1>7, RunningStays
<1> QED
  BY <1>1, <1>4, <1>5, <1>6, <1>7, <1>8, RequestStep, Zenon

\* resolveVolumeMounts tightens the mode, or the spawn fails.
LEMMA resolveVolumeMounts_Inv ==
  ASSUME VolumesInv, NEW c \in VolCallers, resolveVolumeMounts(c)
  PROVE  VolumesInv'
<1>1. /\ volCall[c].op = "resolve"
      /\ UNCHANGED <<volMu, volumes, volSaved, inode, mounts, projected, forced>>
  BY Zenon DEF resolveVolumeMounts
<1>2. volCall[c].op \in SpawnOps
  BY <1>1 DEF SpawnOps
<1>3. CASE SpawnFails(c)
  BY <1>1, <1>2, <1>3, SpawnFails_Inv, Zenon
<1>4. CASE UNCHANGED appMu /\ Registered(volCall[c].vol)
           /\ volCall' = [volCall EXCEPT ![c].op = "bind", ![c].mount.ro = @ \/ volumes[volCall[c].vol].ro]
  <2> DEFINE ro == volCall[c].mount.ro \/ volumes[volCall[c].vol].ro
  <2>0. VolumesTypes /\ CallOK(volCall[c]) /\ appMu = c
    BY <1>2, Zenon DEF VolumesInv, SpawnInv
  <2>1. ro \in BOOLEAN
    BY Zenon
  <2>2. NotesMode(c, "bind", ro)
    BY <1>4, <2>0 DEF NotesMode, VolumesTypes, CallRecord
  <2> HIDE DEF ro
  <2>3. "bind" \in SpawnOps \cup OtherOps
    BY SMTT(60) DEF SpawnOps
  <2>4. PICK x : /\ Becomes(c, x) /\ x.op = "bind" /\ x.app = volCall[c].app /\ x.vol = volCall[c].vol
                 /\ x.target = volCall[c].target
    BY <2>0, <2>1, <2>2, <2>3, ModeNoted, SMTT(60)
  <2>5. CallOK(x) /\ x.op \notin {"readonly", "start"}
    BY <1>1, <2>0, <2>4 DEF CallOK, SpawnOps
  <2>6. VolumesTypes'
    BY <1>1, <1>4, <2>0, <2>4 DEF VolumesTypes, Becomes
  <2>7. Stays
    BY <1>1 DEF Stays, Kept, Registered
  <2>8. RunningInv'
    BY <1>1, <2>7, RunningStays
  <2> QED BY <1>4, <2>0, <2>4, <2>5, <2>6, <2>7, <2>8, RequestStep, Zenon
<1> QED
  BY <1>3, <1>4, Zenon DEF resolveVolumeMounts

\* A bind that succeeded: the target has the directory and the inode that the
\* volume was registered with, and no other mount is replaced.
LEMMA Bound_Inv ==
  ASSUME VolumesInv, NEW c \in VolCallers, NEW op \in {"readonly", "start"},
         volCall[c].op \in SpawnOps, Registered(volCall[c].vol),
         SourceMatches(volCall[c].vol, volCall[c].mount.sub), Bound(c, op),
         UNCHANGED <<volMu, appMu, volumes, volSaved, inode, projected, forced>>,
         mounts' \in [VolTargets -> MountRecord],
         mounts'[volCall[c].target].dir = volumes[volCall[c].vol].dir,
         mounts'[volCall[c].target].ino = inode[volumes[volCall[c].vol].dir],
         mounts' = mounts \/ \E m : mounts[volCall[c].target] = NoMount
                                    /\ mounts' = [mounts EXCEPT ![volCall[c].target] = m]
  PROVE  VolumesInv'
<1> DEFINE v == volCall[c].vol
           d == volumes[v].dir
           n == IF volCall[c].mount.sub THEN inode[d] ELSE volumes[v].ino
<1>0. VolumesTypes /\ CallOK(volCall[c]) /\ appMu = c
  BY Zenon DEF VolumesInv, SpawnInv
<1>1. v \in VolIds /\ volCall[c].target \in VolTargets /\ volCall[c].app \in VolApps
  BY <1>0, Zenon DEF CallOK, SpawnOps
<1>2. d \in VolDirs
  <2>1. volumes[v] \in VolumeRecord
    BY <1>0, <1>1, Zenon DEF VolumesTypes, Registered
  <2> QED BY <2>1, ZenonT(60) DEF VolumeRecord
<1>3. n = inode[d] /\ n \in 0 .. MaxInode
  <2>1. n = inode[d]
    BY ZenonT(60) DEF SourceMatches
  <2>2. inode[d] \in 0 .. MaxInode
    BY <1>0, <1>2, VolumesAssumption, SMTT(60) DEF VolumesTypes
  <2> QED BY <2>1, <2>2, Zenon
<1>4. NotesMount(c, op, d, n)
  BY ZenonT(60) DEF Bound, NotesMount
<1> HIDE DEF n
<1>5. PICK x : /\ Becomes(c, x) /\ x.op = op /\ x.app = volCall[c].app /\ x.vol = v
               /\ x.target = volCall[c].target /\ x.mount.dir = d /\ x.mount.ino = n
  <2> HIDE DEF d
  <2>1. op \in SpawnOps \cup OtherOps /\ d \in VolDirs \cup {Nobody}
    BY <1>2, Zenon DEF SpawnOps
  <2>2. VolumesTypes /\ n \in 0 .. MaxInode /\ NotesMount(c, op, d, n)
    BY <1>0, <1>3, <1>4, ZenonT(60)
  <2> HIDE DEF NotesMount, VolumesTypes
  <2>3. \E x : Noted(c, op, d, n, x)
    BY <2>1, <2>2, MountNoted, Zenon
  <2> QED BY <2>3, Zenon DEF Noted
<1>6. CallOK(x)
  BY <1>1, <1>5, Zenon DEF CallOK, SpawnOps
<1>7. WillServe(x.vol, x.target, x.mount)
  BY <1>1, <1>2, <1>3, <1>5, ZenonT(60) DEF WillServe, Registered
<1>8. VolumesTypes'
  BY <1>0, <1>5, Zenon DEF VolumesTypes, Becomes
<1>9. Stays
  <2>1. NoMount.dir = Nobody
    BY Zenon DEF NoMount
  <2>2. \A t \in VolTargets : mounts[t].dir # Nobody => mounts'[t] = mounts[t]
    BY <1>0, <2>1, ZenonT(60) DEF VolumesTypes
  <2> QED BY <2>2, Zenon DEF Stays, Kept, Registered
<1>10. RunningInv'
  BY <1>9, RunningStays, Zenon
<1> QED
  BY <1>0, <1>5, <1>6, <1>7, <1>8, <1>9, <1>10, RequestStep, Zenon

\* bindOneMount mounts the directory the spawn resolved, and keeps the invariant.
LEMMA bindOneMount_Inv ==
  ASSUME VolumesInv, NEW c \in VolCallers, bindOneMount(c)
  PROVE  VolumesInv'
<1> DEFINE v == volCall[c].vol
           t == volCall[c].target
           m == volCall[c].mount
           new == IF atomicMount THEN bindAtomic(v, m) ELSE bindWritable(v, m)
<1>1. volCall[c].op = "bind" /\ UNCHANGED <<volMu, volumes, volSaved, inode, projected, forced>>
  BY Zenon DEF bindOneMount
<1>2. volCall[c].op \in SpawnOps
  BY <1>1, ZenonT(60) DEF SpawnOps
<1>0. /\ VolumesTypes /\ v \in VolIds /\ t \in VolTargets /\ mounts \in [VolTargets -> MountRecord]
      /\ m \in MountRecord
  <2>1. VolumesTypes /\ CallOK(volCall[c])
    BY Zenon DEF VolumesInv, SpawnInv
  <2> QED BY <1>1, <1>2, <2>1 DEF CallOK, VolumesTypes, CallRecord
<1>3. CASE SpawnFails(c) /\ UNCHANGED mounts
  BY <1>1, <1>2, <1>3, SpawnFails_Inv, ZenonT(60)
<1>4. CASE /\ Registered(v) /\ SourceMatches(v, m.sub) /\ isAlreadyBoundExact(t, v)
           /\ Bound(c, "start") /\ UNCHANGED <<appMu, mounts>>
  <2>1. mounts'[t].dir = volumes[v].dir /\ mounts'[t].ino = inode[volumes[v].dir]
    BY <1>4, Zenon DEF isAlreadyBoundExact
  <2> QED BY <1>0, <1>1, <1>2, <1>4, <2>1, Bound_Inv, Zenon
<1>5. CASE /\ Registered(v) /\ SourceMatches(v, m.sub) /\ mounts[t] = NoMount
           /\ mounts' = [mounts EXCEPT ![t] = new]
           /\ Bound(c, IF m.ro /\ ~atomicMount THEN "readonly" ELSE "start") /\ UNCHANGED appMu
  <2>1. volumes[v].dir \in VolDirs /\ inode[volumes[v].dir] \in 0 .. MaxInode
    <3>1. volumes[v] \in VolumeRecord
      BY <1>0, <1>5, Zenon DEF VolumesTypes, Registered
    <3>2. volumes[v].dir \in VolDirs
      BY <3>1, Zenon DEF VolumeRecord
    <3> QED BY <1>0, <3>2, VolumesAssumption DEF VolumesTypes
  <2>2. bindAtomic(v, m) \in MountRecord
    BY <1>0, <2>1, ZenonT(60) DEF MountRecord, bindAtomic
  <2>3. bindAtomic(v, m).dir = volumes[v].dir /\ bindAtomic(v, m).ino = inode[volumes[v].dir]
    BY DEF bindAtomic
  <2>4. ASSUME NEW y \in MountRecord
        PROVE  /\ [y EXCEPT !.ro = FALSE] \in MountRecord
               /\ [y EXCEPT !.ro = FALSE].dir = y.dir /\ [y EXCEPT !.ro = FALSE].ino = y.ino
    BY Zenon DEF MountRecord
  <2>5. new \in MountRecord /\ new.dir = volumes[v].dir /\ new.ino = inode[volumes[v].dir]
    BY <2>2, <2>3, <2>4, ZenonT(60) DEF bindWritable
  <2> HIDE DEF new
  <2>6. /\ mounts' \in [VolTargets -> MountRecord]
        /\ mounts'[t].dir = volumes[v].dir /\ mounts'[t].ino = inode[volumes[v].dir]
    BY <1>0, <1>5, <2>5, Zenon
  <2>7. PICK op \in {"readonly", "start"} : Bound(c, op)
    BY <1>5, Zenon
  <2>8. \E y : mounts[t] = NoMount /\ mounts' = [mounts EXCEPT ![t] = y]
    BY <1>5, Zenon
  <2> QED BY <1>1, <1>2, <1>5, <2>6, <2>7, <2>8, Bound_Inv, ZenonT(60)
<1>6. \/ SpawnFails(c) /\ UNCHANGED mounts
      \/ /\ Registered(v) /\ SourceMatches(v, m.sub) /\ isAlreadyBoundExact(t, v)
         /\ Bound(c, "start") /\ UNCHANGED <<appMu, mounts>>
      \/ /\ Registered(v) /\ SourceMatches(v, m.sub) /\ mounts[t] = NoMount
         /\ mounts' = [mounts EXCEPT ![t] = new]
         /\ Bound(c, IF m.ro /\ ~atomicMount THEN "readonly" ELSE "start") /\ UNCHANGED appMu
  BY Zenon DEF bindOneMount
<1> QED
  BY <1>3, <1>4, <1>5, <1>6, Zenon

\* The read-only remount keeps the invariant.
LEMMA remountReadOnly_Inv ==
  ASSUME VolumesInv, NEW c \in VolCallers, remountReadOnly(c)
  PROVE  VolumesInv'
<1> DEFINE t == volCall[c].target
<1>1. volCall[c].op = "readonly" /\ UNCHANGED <<volMu, volumes, volSaved, inode, projected, forced>>
  BY Zenon DEF remountReadOnly
<1>2. volCall[c].op \in SpawnOps /\ volCall[c].op \in {"readonly", "start"}
  BY <1>1 DEF SpawnOps
<1>3. CASE SpawnFails(c) /\ UNCHANGED mounts
  BY <1>1, <1>2, <1>3, SpawnFails_Inv, Zenon
<1>4. CASE mounts' = [mounts EXCEPT ![t].ro = TRUE] /\ Goto(c, "start") /\ UNCHANGED appMu
  <2>0. /\ VolumesTypes /\ CallOK(volCall[c]) /\ appMu = c
        /\ Served(volCall[c].vol, volCall[c].target, volCall[c].mount)
    BY <1>2, Zenon DEF VolumesInv, SpawnInv
  <2> DEFINE x == [op |-> "start", app |-> volCall[c].app, vol |-> volCall[c].vol,
                   target |-> volCall[c].target, mount |-> volCall[c].mount]
  <2>1. "start" \in SpawnOps \cup OtherOps
    BY DEF SpawnOps
  <2>2. Becomes(c, x)
    BY <1>4, <2>0, <2>1, CallMoves, Zenon
  <2>3. x.op = "start" /\ x.app = volCall[c].app /\ x.vol = volCall[c].vol
        /\ x.target = volCall[c].target /\ x.mount = volCall[c].mount
    BY Zenon
  <2> HIDE DEF x
  <2>4. CallOK(x)
    BY <1>1, <2>0, <2>3, Zenon DEF CallOK, SpawnOps
  <2>5. /\ mounts' \in [VolTargets -> MountRecord]
        /\ \A u \in VolTargets : mounts'[u].dir = mounts[u].dir /\ mounts'[u].ino = mounts[u].ino
    <3>1. mounts \in [VolTargets -> MountRecord]
      BY <2>0 DEF VolumesTypes
    <3>2. ASSUME NEW y \in MountRecord
          PROVE  /\ [y EXCEPT !.ro = TRUE] \in MountRecord
                 /\ [y EXCEPT !.ro = TRUE].dir = y.dir /\ [y EXCEPT !.ro = TRUE].ino = y.ino
      BY Zenon DEF MountRecord
    <3>3. mounts' = [mounts EXCEPT ![t] = [mounts[t] EXCEPT !.ro = TRUE]]
      BY <1>4, <3>1
    <3>4. ASSUME NEW u \in VolTargets
          PROVE  mounts'[u] = mounts[u] \/ mounts'[u] = [mounts[u] EXCEPT !.ro = TRUE]
      BY <3>1, <3>3, Zenon
    <3>5. \A u \in VolTargets : /\ mounts'[u] \in MountRecord
                                /\ mounts'[u].dir = mounts[u].dir /\ mounts'[u].ino = mounts[u].ino
      BY <3>1, <3>2, <3>4, ZenonT(60)
    <3> QED BY <3>1, <3>3, <3>5, Zenon
  <2>6. WillServe(x.vol, x.target, x.mount)
    BY <1>1, <2>0, <2>3, <2>5, Zenon DEF WillServe, Served, MountedAs, Kept, Registered
  <2>7. VolumesTypes'
    BY <1>1, <1>4, <2>0, <2>2, <2>5 DEF VolumesTypes, Becomes
  <2>8. Stays
    BY <1>1, <2>5, Zenon DEF Stays, Kept, Registered
  <2>9. RunningInv'
    BY <1>1, <2>8, RunningStays
  <2> QED BY <1>4, <2>0, <2>2, <2>4, <2>6, <2>7, <2>8, <2>9, RequestStep, Zenon
<1> QED
  BY <1>3, <1>4, Zenon DEF remountReadOnly

\* SpawnRegisters: the app runs on the mount its spawn was served with.
LEMMA SpawnRegisters_Inv ==
  ASSUME VolumesInv, NEW c \in VolCallers, SpawnRegisters(c)
  PROVE  VolumesInv'
<1>1. /\ volCall[c].op = "start" /\ appMu' = Nobody /\ Return(c)
      /\ UNCHANGED <<volMu, volumes, volSaved, inode, mounts, forced>>
  BY Zenon DEF SpawnRegisters
<1>2. volCall[c].op \in SpawnOps /\ volCall[c].op \in {"readonly", "start"}
  BY <1>1 DEF SpawnOps
<1>3. CASE UNCHANGED projected
  BY <1>1, <1>2, <1>3, SpawnFails_Inv, Zenon DEF SpawnFails
<1>4. CASE projected' = [projected EXCEPT ![volCall[c].app] =
             [state |-> "up", vol |-> volCall[c].vol, target |-> volCall[c].target,
              mount |-> volCall[c].mount]]
  <2> DEFINE p == [state |-> "up", vol |-> volCall[c].vol, target |-> volCall[c].target,
                   mount |-> volCall[c].mount]
  <2>0. /\ VolumesTypes /\ CallOK(volCall[c]) /\ volCall[c] \in CallRecord
        /\ Served(volCall[c].vol, volCall[c].target, volCall[c].mount)
    <3>1. VolumesTypes /\ CallOK(volCall[c]) /\ Served(volCall[c].vol, volCall[c].target, volCall[c].mount)
      BY <1>2, Zenon DEF VolumesInv, SpawnInv
    <3> QED BY <3>1 DEF VolumesTypes
  <2>1. p \in Projection /\ p.vol = volCall[c].vol /\ p.target = volCall[c].target
        /\ p.mount = volCall[c].mount
    BY <2>0, Zenon DEF CallRecord, Projection
  <2> HIDE DEF p
  <2>2. volCall[c].app \in VolApps /\ projected \in [VolApps -> Projection]
    BY <1>2, <2>0, Zenon DEF CallOK, VolumesTypes
  <2>3. /\ projected' \in [VolApps -> Projection]
        /\ \A i \in VolApps : projected'[i] = p \/ projected'[i] = projected[i]
    BY <1>4, <2>1, <2>2, Zenon DEF p
  <2>4. Becomes(c, Idle) /\ CallOK(Idle) /\ Idle.op \notin SpawnOps /\ Idle.op \notin {"readonly", "start"}
    <3>1. Becomes(c, Idle)
      BY <1>1, <2>0, CallBecomes, ZenonT(60)
    <3> QED BY <3>1 DEF CallOK, Idle, SpawnOps
  <2>5. VolumesTypes'
    BY <1>1, <2>0, <2>3, <2>4 DEF VolumesTypes, Becomes
  <2>6. Stays
    BY <1>1, Zenon DEF Stays, Kept, Registered
  <2>7. RunningInv'
    <3> SUFFICES ASSUME NEW i \in VolApps, projected'[i].state = "up"
                 PROVE  Served(projected[i].vol, projected[i].target, projected[i].mount)'
      BY Zenon DEF RunningInv
    <3>1. Served(projected'[i].vol, projected'[i].target, projected'[i].mount)
      BY <2>0, <2>1, <2>3, Zenon DEF VolumesInv, RunningInv
    <3> QED BY <1>1, <3>1, Zenon DEF Served, MountedAs, Kept, Registered
  <2> QED BY <1>1, <1>2, <2>4, <2>5, <2>6, <2>7, RequestStep, Zenon
<1> QED
  BY <1>3, <1>4, Zenon DEF SpawnRegisters

\* Stop takes its app out of the running ones.
LEMMA Stop_Inv ==
  ASSUME VolumesInv, NEW c \in VolCallers, StopEnds(c) \/ \E i \in VolApps : StopBegins(c, i)
  PROVE  VolumesInv'
<1>0. VolumesTypes /\ CallOK(volCall[c]) /\ projected \in [VolApps -> Projection]
  BY DEF VolumesInv, VolumesTypes, SpawnInv
<1>1. UNCHANGED <<volMu, appMu, volumes, volSaved, inode, mounts, forced>>
  BY Zenon DEF StopBegins, StopEnds
<1>2. \E x : Becomes(c, x) /\ CallOK(x) /\ x.op \in OtherOps
  <2>1. CASE StopEnds(c)
    <3>1. Becomes(c, Idle)
      BY <1>0, <2>1, CallBecomes, Zenon DEF StopEnds
    <3>2. CallOK(Idle) /\ Idle.op \in OtherOps
      BY DEF CallOK, Idle, OtherOps, SpawnOps
    <3> QED BY <3>1, <3>2, Zenon
  <2>2. ASSUME NEW i \in VolApps, StopBegins(c, i)
        PROVE  \E x : Becomes(c, x) /\ CallOK(x) /\ x.op \in OtherOps
    <3> DEFINE x == [Idle EXCEPT !.op = "stop", !.app = i]
    <3>1. "stop" \in OtherOps /\ "stop" \notin SpawnOps
      BY DEF OtherOps, SpawnOps
    <3>2. x \in CallRecord /\ x.op = "stop" /\ x.app = i
      BY <3>1, IdleRecord, Zenon DEF CallRecord
    <3>3. volCall' = [volCall EXCEPT ![c] = x]
      BY <2>2, Zenon DEF StopBegins
    <3> HIDE DEF x
    <3>4. Becomes(c, x)
      BY <1>0, <3>2, <3>3, CallBecomes, Zenon
    <3>5. CallOK(x) /\ x.op \in OtherOps
      BY <3>1, <3>2 DEF CallOK
    <3> QED BY <3>4, <3>5, Zenon
  <2> QED BY <2>1, <2>2, Zenon
<1>3. /\ projected' \in [VolApps -> Projection]
      /\ \A i \in VolApps : projected'[i].state = "up" => projected'[i] = projected[i]
  <2>1. ASSUME NEW i \in VolApps, NEW y \in Projection, projected' = [projected EXCEPT ![i] = y], y.state # "up"
        PROVE  /\ projected' \in [VolApps -> Projection]
               /\ \A j \in VolApps : projected'[j].state = "up" => projected'[j] = projected[j]
    BY <1>0, <2>1
  <2>2. ASSUME NEW i \in VolApps, NEW s \in {"stopping", "kept"}
        PROVE  /\ [projected[i] EXCEPT !.state = s] \in Projection
               /\ [projected[i] EXCEPT !.state = s].state # "up"
    <3>1. ASSUME NEW y \in Projection
          PROVE  [y EXCEPT !.state = s] \in Projection /\ [y EXCEPT !.state = s].state # "up"
      BY DEF Projection
    <3> QED BY <1>0, <3>1
  <2>3. CASE StopEnds(c)
    <3>1. volCall[c].app \in VolApps
      BY <1>0, <2>3, SMTT(60) DEF StopEnds, CallOK
    <3>2. Off \in Projection /\ Off.state # "up"
      BY IdleRecord DEF Off
    <3>3. CASE projected' = [projected EXCEPT ![volCall[c].app] = Off]
      BY <2>1, <3>1, <3>2, <3>3, Zenon
    <3>4. CASE projected' = [projected EXCEPT ![volCall[c].app].state = "kept"]
      BY <2>1, <2>2, <3>1, <3>4, Zenon
    <3> QED BY <2>3, <3>3, <3>4, ZenonT(60) DEF StopEnds
  <2>4. ASSUME NEW i \in VolApps, StopBegins(c, i)
        PROVE  /\ projected' \in [VolApps -> Projection]
               /\ \A j \in VolApps : projected'[j].state = "up" => projected'[j] = projected[j]
    <3>1. projected' = [projected EXCEPT ![i].state = "stopping"]
      BY <2>4, Zenon DEF StopBegins
    <3> QED BY <2>1, <2>2, <3>1, Zenon
  <2> QED BY <2>3, <2>4, ZenonT(60)
<1>4. PICK x : Becomes(c, x) /\ CallOK(x) /\ x.op \in OtherOps
  BY <1>2, Zenon
<1>5. x.op \notin SpawnOps /\ x.op \notin {"readonly", "start"}
  BY <1>4, SMTT(60) DEF SpawnOps, OtherOps
<1>6. VolumesTypes'
  BY <1>0, <1>1, <1>3, <1>4, Zenon DEF VolumesTypes, Becomes
<1>7. Stays
  BY <1>1, Zenon DEF Stays, Kept, Registered
<1>8. RunningInv'
  BY <1>3, <1>7, RunningStays, Zenon
<1> QED
  BY <1>1, <1>4, <1>5, <1>6, <1>7, <1>8, RequestStep, ZenonT(60)

\* The operator replaces a directory: nothing that was mounted changes.
LEMMA ReplaceDir_Inv ==
  ASSUME VolumesInv, NEW d \in VolDirs, ReplaceDir(d)
  PROVE  VolumesInv'
<1>1. /\ inode[d] < MaxInode /\ inode' = [inode EXCEPT ![d] = @ + 1]
      /\ UNCHANGED <<volMu, appMu, volumes, volSaved, mounts, projected, volCall, forced>>
  BY ZenonT(60) DEF ReplaceDir
<1>2. inode' \in [VolDirs -> 1 .. MaxInode]
  <2>1. inode \in [VolDirs -> 1 .. MaxInode] /\ MaxInode \in Nat
    BY VolumesAssumption DEF VolumesInv, VolumesTypes
  <2>2. inode[d] + 1 \in 1 .. MaxInode
    BY <1>1, <2>1
  <2> QED BY <1>1, <2>1, <2>2, SMTT(60)
<1>3. VolumesTypes'
  BY <1>1, <1>2 DEF VolumesInv, VolumesTypes
<1>4. Stays
  BY <1>1, Zenon DEF Stays, Kept, Registered
<1>5. RunningInv'
  BY <1>1, <1>4, RunningStays
<1>6. SpawnInv'
  BY <1>1, Zenon DEF VolumesInv, SpawnInv, Served, MountedAs, Kept, Registered
<1> QED
  BY <1>3, <1>5, <1>6, Zenon DEF VolumesInv

\* With every request idle and no app, only the types are left to show.
LEMMA FreshVolumes ==
  VolumesTypes /\ volCall = [c \in VolCallers |-> Idle] /\ projected = [i \in VolApps |-> Off] => VolumesInv
<1> SUFFICES ASSUME VolumesTypes, volCall = [c \in VolCallers |-> Idle], projected = [i \in VolApps |-> Off]
             PROVE  VolumesInv
  BY Zenon
<1>1. CallOK(Idle) /\ Idle.op \notin SpawnOps /\ Idle.op \notin {"readonly", "start"} /\ Off.state # "up"
  BY DEF CallOK, Idle, SpawnOps, Off
<1>2. SpawnInv
  <2>1. \A c \in VolCallers : volCall[c] = Idle
    OBVIOUS
  <2> QED BY <1>1, <2>1, Zenon DEF SpawnInv
<1>3. RunningInv
  <2>1. \A i \in VolApps : projected[i] = Off
    OBVIOUS
  <2> QED BY <1>1, <2>1, Zenon DEF RunningInv
<1> QED
  BY <1>2, <1>3 DEF VolumesInv

\* The invariant holds when the daemon first starts.
LEMMA VolumesInit_Inv == VolumesInit => VolumesInv
<1> SUFFICES ASSUME VolumesInit
             PROVE  VolumesInv
  OBVIOUS
<1>1. VolumesTypes
  BY IdleRecord, VolumesAssumption DEF VolumesInit, VolumesTypes
<1> QED
  BY <1>1, FreshVolumes, Zenon DEF VolumesInit

\* A restart of the daemon keeps the invariant.
LEMMA Restart_Inv ==
  ASSUME VolumesInv, RestartRestoresVolumes
  PROVE  VolumesInv'
<1>1. /\ volMu' = Nobody /\ appMu' = Nobody
      /\ volumes' = [v \in VolIds |-> IF volSaved[v] = NoVolume THEN NoVolume
                                      ELSE openAndIsolateVolume(volSaved[v].dir, volSaved[v].ro)]
      /\ projected' = [i \in VolApps |-> Off]
      /\ volCall' = [c \in VolCallers |-> Idle]
      /\ UNCHANGED <<volSaved, inode, mounts>>
  BY Zenon DEF RestartRestoresVolumes
<1>2. volumes' \in [VolIds -> VolumeRecord \cup {NoVolume}]
  <2>1. ASSUME NEW v \in VolIds, volSaved[v] # NoVolume
        PROVE  openAndIsolateVolume(volSaved[v].dir, volSaved[v].ro) \in VolumeRecord
    <3>1. volSaved[v] \in VolumeRecord
      BY <2>1, Zenon DEF VolumesInv, VolumesTypes
    <3>2. volSaved[v].dir \in VolDirs /\ volSaved[v].ro \in BOOLEAN
      BY <3>1, Zenon DEF VolumeRecord
    <3> QED BY <3>2, VolumeIsRecord, Zenon
  <2> QED BY <1>1, <2>1, Zenon
<1>3. VolumesTypes'
  <2>1. projected' \in [VolApps -> Projection] /\ volCall' \in [VolCallers -> CallRecord]
    BY <1>1, IdleRecord
  <2> QED BY <1>1, <1>2, <2>1, Zenon DEF VolumesInv, VolumesTypes
<1>4. (VolumesTypes /\ volCall = [c \in VolCallers |-> Idle] /\ projected = [i \in VolApps |-> Off])'
  BY <1>1, <1>3, Zenon
<1> QED
  BY <1>4, FreshVolumes, PTL

\* Every step of Volumes keeps the invariant.
LEMMA VolumesStep_Inv == VolumesInv /\ [VolumesNext]_volumeVars => VolumesInv'
<1> SUFFICES ASSUME VolumesInv, [VolumesNext]_volumeVars
             PROVE  VolumesInv'
  OBVIOUS
<1>1. ASSUME NEW c \in VolCallers, VolumeRequest(c)
      PROVE  VolumesInv'
  BY <1>1, VolumeRequest_Inv, SpawnBegins_Inv, Stop_Inv, ZenonT(60) DEF VolumeRequest
<1>2. ASSUME NEW c \in VolCallers, VolumeStep(c)
      PROVE  VolumesInv'
  BY <1>2, VolumeStored_Inv, UnregisterChecks_Inv, resolveVolumeMounts_Inv, bindOneMount_Inv,
     remountReadOnly_Inv, SpawnRegisters_Inv, Stop_Inv, Zenon DEF VolumeStep
<1>3. CASE UNCHANGED volumeVars
  <2>1. UNCHANGED <<volMu, appMu, volumes, volSaved, inode, mounts, projected, volCall, forced>>
    BY <1>3, Zenon DEF volumeVars
  <2>2. VolumesTypes'
    BY <2>1 DEF VolumesInv, VolumesTypes
  <2>3. SpawnInv' /\ RunningInv'
    BY <2>1, Zenon DEF VolumesInv, SpawnInv, RunningInv, Served, MountedAs, Kept, Registered
  <2> QED BY <2>2, <2>3, Zenon DEF VolumesInv
<1> QED
  BY <1>1, <1>2, <1>3, ReplaceDir_Inv, Restart_Inv, Zenon DEF VolumesNext

\* The inductive invariant gives the types and both properties.
LEMMA VolumesInv_Gives == VolumesInv => VolumesTypeOK /\ MountsMatch /\ ReferencedIsRegistered
<1> SUFFICES ASSUME VolumesInv
             PROVE  VolumesTypeOK /\ MountsMatch /\ ReferencedIsRegistered
  OBVIOUS
<1>1. VolumesTypeOK
  <2>1. ASSUME NEW y, y \in VolumeRecord \cup {NoVolume}
        PROVE  y.dir \in VolDirs \cup {Nobody}
    BY <2>1 DEF VolumeRecord, NoVolume
  <2>2. \A v \in VolIds : {volumes[v].dir, volSaved[v].dir} \subseteq VolDirs \cup {Nobody}
    BY <2>1, Zenon DEF VolumesInv, VolumesTypes
  <2>3. \A t \in VolTargets : mounts[t].dir \in VolDirs \cup {Nobody}
    BY Zenon DEF VolumesInv, VolumesTypes, MountRecord
  <2>4. \A i \in VolApps : projected[i].state \in {"off", "up", "stopping", "kept"}
    BY Zenon DEF VolumesInv, VolumesTypes, Projection
  <2>5. \A c \in VolCallers : volCall[c].op \in SpawnOps \cup OtherOps
    BY DEF VolumesInv, VolumesTypes, CallRecord
  <2> QED BY <2>2, <2>3, <2>4, <2>5, Zenon DEF VolumesInv, VolumesTypes, VolumesTypeOK, SpawnOps, OtherOps
<1> QED
  BY <1>1, Zenon DEF VolumesInv, RunningInv, Served, MountedAs, Kept, MountsMatch, ReferencedIsRegistered

\* An app runs on the directory, and on the very inode, that its volume was
\* registered with: whatever other requests register, remove and bind meanwhile,
\* and however often the operator replaces the directory.
THEOREM AppsRunOnTheirVolume == VolumesSpec => [](VolumesTypeOK /\ MountsMatch)
<1> QED
  BY VolumesInit_Inv, VolumesStep_Inv, VolumesInv_Gives, PTL DEF VolumesSpec

\* A volume that an app of the registry references is removed only with force,
\* although Unregister checks the apps under one lock and removes under another.
THEOREM ReferencedVolumesStay == VolumesSpec => []ReferencedIsRegistered
<1> QED
  BY VolumesInit_Inv, VolumesStep_Inv, VolumesInv_Gives, PTL DEF VolumesSpec

-----------------------------------------------------------------------------
(* HostIdentity *)

\* Every UID that was handed out is covered by the mark: by the one in memory
\* while the daemon runs, by the one in the file, by a record the next boot
\* reads, or it was exposed when a write failed.
MarkCovers ==
  /\ daemon => \A u \in spent : u >= AppUIDBase => u <= uidHWM \/ u \in exposed
  /\ daemon => \A u \in spent : u >= AppUIDBase => u <= uidMark \/ u \in exposed
  /\ daemon => \A u \in AppUIDBase .. uidHWM : u <= uidMark \/ u \in exposed
  /\ ~daemon => \A u \in spent : u >= AppUIDBase =>
                  u <= uidMark \/ u \in exposed \/ u \in RecordedUids

\* The inductive invariant of HostIdentity.
IdentityInv ==
  /\ IdentityTypeOK
  /\ IdentityIsPrivate
  /\ MarkCovers
  /\ \A i \in pending : recorded[i] # NoUser

\* What the two searches for a UID find: the number resolveRunAsLocked settles
\* on is above the mark and no other app has it, and the mark a boot starts from
\* is no lower than the file's number and every recorded UID.
UidsFound ==
  /\ \A i \in UidApps : /\ nextUID(i) \in Nat
                        /\ nextUID(i) >= AppUIDBase
                        /\ nextUID(i) > uidHWM
                        /\ runAsOwner(nextUID(i), i) = {}
  /\ ObservedHWM \in Nat
  /\ ObservedHWM >= uidMark
  /\ \A u \in RecordedUids : u >= AppUIDBase => u <= ObservedHWM

\* A write of the mark changes the mark in the file and the exposed UIDs only
\* by what it may leave uncovered.
LEMMA PersistCovers ==
  ASSUME IdentityTypeOK, NEW n \in Nat, NEW hwm \in Nat,
         persistUIDHighWater(n) \/ persistFails(n, hwm)
  PROVE  /\ uidMark' \in Nat /\ uidMark' \in {uidMark, n}
         /\ exposed' \subseteq Nat /\ exposed \subseteq exposed'
         /\ uidFaults' \in Nat
         /\ persistUIDHighWater(n) => uidMark' = n
         /\ persistFails(n, hwm) => \A u \in Nat : u <= hwm => u <= uidMark' \/ u \in exposed'
<1>1. CASE persistUIDHighWater(n) /\ ~persistFails(n, hwm)
  BY <1>1 DEF persistUIDHighWater, IdentityTypeOK
<1>2. CASE persistFails(n, hwm)
  <2>1. uidMark' \in Nat /\ uidMark' \in {uidMark, n} /\ uidFaults' \in Nat
    BY <1>2 DEF persistFails, IdentityTypeOK
  <2>2. exposed' = exposed \cup (uidMark' + 1 .. hwm)
    BY <1>2 DEF persistFails
  <2> DEFINE more == uidMark' + 1 .. hwm
  <2>3. more \subseteq Nat /\ \A u \in Nat : u <= hwm => u <= uidMark' \/ u \in more
    <3>1. \A m \in Nat : m + 1 .. hwm \subseteq Nat
      OBVIOUS
    <3>2. \A m, u \in Nat : u <= hwm => u <= m \/ u \in m + 1 .. hwm
      OBVIOUS
    <3> QED BY <2>1, <3>1, <3>2, Zenon
  <2> HIDE DEF more
  <2>4. /\ exposed' \subseteq Nat /\ exposed \subseteq exposed'
        /\ \A u \in Nat : u <= hwm => u <= uidMark' \/ u \in exposed'
    <3>1. exposed' = exposed \cup more
      BY <2>2 DEF more
    <3> QED BY <3>1, <2>3 DEF IdentityTypeOK
  <2>5. persistUIDHighWater(n) => uidMark' = n
    BY Zenon DEF persistUIDHighWater
  <2> QED BY <2>1, <2>4, <2>5, Zenon
<1> QED
  BY <1>1, <1>2, SMTT(60)

\* Settling an identity keeps users apart, and covers the one it hands out.
LEMMA ResolveKeeps ==
  ASSUME IdentityInv, UidsFound, daemon, daemon' = daemon, NEW i \in UidApps, NEW temp \in BOOLEAN,
         NEW started \in BOOLEAN, NEW ask \in Nat \cup {NoUser},
         resolveRunAs(i, temp, ask, started)
  PROVE  /\ uidHWM' \in Nat /\ uidMark' \in Nat /\ uidFaults' \in Nat
         /\ spent' \subseteq Nat /\ exposed' \subseteq Nat /\ reused' \subseteq Nat
         /\ runAs' \in [UidApps -> Nat \cup {NoUser}]
         /\ deploying' \in [UidApps -> Nat \cup {NoUser}]
         /\ IdentityIsPrivate'
         /\ MarkCovers'
<1> USE DEF IdentityInv
<1>0. ASSUME \A u \in spent' : u >= AppUIDBase => u <= uidHWM' \/ u \in exposed',
             \A u \in spent' : u >= AppUIDBase => u <= uidMark' \/ u \in exposed',
             \A u \in AppUIDBase .. uidHWM' : u <= uidMark' \/ u \in exposed'
      PROVE  MarkCovers'
  BY <1>0, Zenon DEF MarkCovers
<1>a. /\ \A u \in spent : u >= AppUIDBase => u <= uidHWM \/ u \in exposed
      /\ \A u \in spent : u >= AppUIDBase => u <= uidMark \/ u \in exposed
      /\ \A u \in AppUIDBase .. uidHWM : u <= uidMark \/ u \in exposed
  BY Zenon DEF MarkCovers
<1>1. ASSUME NEW uid \in Nat, Register(i, temp, uid, started), uid = Root \/ runAsOwner(uid, i) = {}
      PROVE  /\ spent' \subseteq spent \cup {uid} /\ spent' \subseteq Nat
             /\ runAs' \in [UidApps -> Nat \cup {NoUser}]
             /\ deploying' \in [UidApps -> Nat \cup {NoUser}]
             /\ \A j, k \in UidApps : j # k =>
                  {runAs[j], deploying[j]}' \cap {runAs[k], deploying[k]}' \subseteq {NoUser, Root}
  <2>1. spent' \subseteq spent \cup {uid} /\ spent' \subseteq Nat
    BY <1>1, Zenon DEF Register, IdentityTypeOK
  <2>2. /\ runAs' \in [UidApps -> Nat \cup {NoUser}]
        /\ deploying' \in [UidApps -> Nat \cup {NoUser}]
    BY <1>1, Zenon DEF Register, IdentityTypeOK
  <2>3. \A j \in UidApps : {runAs[j], deploying[j]}' \subseteq
                             {runAs[j], deploying[j]} \cup (IF j = i THEN {uid} ELSE {})
    BY <1>1, Zenon DEF Register, IdentityTypeOK
  <2>4. \A j \in UidApps \ {i} : uid \in {runAs[j], deploying[j]} => uid = Root
    BY <1>1, Zenon DEF runAsOwner
  <2>5. \A j, k \in UidApps : j # k =>
          {runAs[j], deploying[j]} \cap {runAs[k], deploying[k]} \subseteq {NoUser, Root}
    BY Zenon DEF IdentityIsPrivate
  <2>6. ASSUME NEW j \in UidApps, NEW k \in UidApps, j # k
        PROVE  {runAs[j], deploying[j]}' \cap {runAs[k], deploying[k]}' \subseteq {NoUser, Root}
    <3> DEFINE U(m) == {runAs[m], deploying[m]}
               V(m) == {runAs[m], deploying[m]}'
    <3>1. U(j) \cap U(k) \subseteq {NoUser, Root}
      BY <2>5, <2>6, Zenon
    <3>2. V(j) \subseteq U(j) \cup (IF j = i THEN {uid} ELSE {})
      BY <2>3, Zenon
    <3>3. V(k) \subseteq U(k) \cup (IF k = i THEN {uid} ELSE {})
      BY <2>3, Zenon
    <3>4. (j # i => (uid \in U(j) => uid = Root)) /\ (k # i => (uid \in U(k) => uid = Root))
      BY <2>4, Zenon
    <3> HIDE DEF U, V
    <3>5. V(j) \cap V(k) \subseteq {NoUser, Root}
      BY <2>6, <3>1, <3>2, <3>3, <3>4, Zenon
    <3> QED BY <3>5, Zenon DEF V
  <2> QED BY <2>1, <2>2, <2>6, Zenon
<1>2. ASSUME Refused
      PROVE  /\ spent' = spent /\ spent' \subseteq Nat
             /\ runAs' \in [UidApps -> Nat \cup {NoUser}]
             /\ deploying' \in [UidApps -> Nat \cup {NoUser}]
             /\ reused' = reused
             /\ \A j, k \in UidApps : j # k =>
                  {runAs[j], deploying[j]}' \cap {runAs[k], deploying[k]}' \subseteq {NoUser, Root}
  BY <1>2, Zenon DEF Refused, IdentityTypeOK, IdentityIsPrivate
<1>3. CASE ask = NoUser /\ AllocateRunAs(i, temp, started)
  <2> DEFINE n == nextUID(i)
  <2>1. n \in Nat /\ n >= AppUIDBase /\ n > uidHWM /\ runAsOwner(n, i) = {}
    BY Zenon DEF UidsFound
  <2> HIDE DEF n
  <2>2. CASE /\ persistUIDHighWater(n) /\ uidHWM' = n /\ Register(i, temp, n, started)
             /\ reused' = IF started /\ n \in spent THEN reused \cup {n} ELSE reused
    <3>1. uidMark' = n /\ exposed' = exposed /\ uidFaults' \in Nat
      BY <2>2, Zenon DEF persistUIDHighWater, IdentityTypeOK
    <3>2. n \in spent => n \in exposed
      BY <1>a, <2>1 DEF IdentityTypeOK
    <3>3. reused' \subseteq exposed' /\ reused' \subseteq Nat
      BY <2>1, <2>2, <3>1, <3>2, ZenonT(60) DEF IdentityIsPrivate, IdentityTypeOK
    <3>4. MarkCovers'
      <4>1. \A u \in spent' : u >= AppUIDBase => u <= n \/ u \in exposed
        BY <1>1, <1>a, <2>1, <2>2 DEF IdentityTypeOK
      <4> QED BY <1>0, <4>1, <2>1, <2>2, <3>1, UidAssumption, SMTT(60)
    <3> QED BY <1>1, <2>1, <2>2, <3>1, <3>3, <3>4, Zenon DEF IdentityIsPrivate, IdentityTypeOK
  <2>3. CASE persistFails(n, uidHWM) /\ UNCHANGED uidHWM /\ Refused
    <3>1. /\ uidMark' \in Nat /\ uidMark' \in {uidMark, n} /\ exposed' \subseteq Nat
          /\ exposed \subseteq exposed' /\ uidFaults' \in Nat
      BY <2>1, <2>3, PersistCovers, ZenonT(60) DEF IdentityTypeOK
    <3>2. \A u \in Nat : u <= uidHWM => u <= uidMark' \/ u \in exposed'
      BY <2>1, <2>3, PersistCovers DEF IdentityTypeOK
    <3>3. MarkCovers'
      <4>1. uidHWM' = uidHWM /\ spent' = spent
        BY <1>2, <2>3
      <4>2. \A u \in spent' : u >= AppUIDBase => u <= uidHWM' \/ u \in exposed'
        BY <1>a, <3>1, <4>1, ZenonT(60)
      <4>3. \A u \in spent' : u >= AppUIDBase => u <= uidMark' \/ u \in exposed'
        BY <1>a, <2>1, <3>1, <4>1 DEF IdentityTypeOK
      <4>4. \A u \in AppUIDBase .. uidHWM' : u <= uidMark' \/ u \in exposed'
        BY <3>1, <3>2, <4>1, UidAssumption, SMTT(60) DEF IdentityTypeOK
      <4> QED BY <1>0, <4>2, <4>3, <4>4, Zenon
    <3> QED BY <1>2, <2>3, <3>1, <3>3, Zenon DEF IdentityIsPrivate, IdentityTypeOK
  <2> QED BY <1>3, <2>2, <2>3, Zenon DEF AllocateRunAs, n
<1>4. CASE ask = Root /\ RunAsRoot(i, temp, started)
  <2>1. /\ Register(i, temp, Root, started)
        /\ UNCHANGED <<uidHWM, uidMark, exposed, uidFaults, reused>>
    BY <1>4, Zenon DEF RunAsRoot
  <2>2. Root \in Nat /\ Root < AppUIDBase
    BY UidAssumption DEF Root
  <2>3. MarkCovers'
    <3>1. spent' \subseteq spent \cup {Root}
      BY <1>1, <2>1, <2>2, Zenon
    <3> QED BY <1>0, <1>a, <2>1, <2>2, <3>1, UidAssumption
  <2> QED BY <1>1, <2>1, <2>2, <2>3 DEF IdentityIsPrivate, IdentityTypeOK
<1>5. CASE PinRunAs(i, temp, ask, started)
  <2> DEFINE hwm == observeUID(ask, uidHWM)
  <2>1. ask \in Nat /\ runAsOwner(ask, i) = {} /\ uidHWM' = hwm
    BY <1>5 DEF PinRunAs, Root, NoUser
  <2>2. hwm \in Nat /\ hwm >= uidHWM /\ (ask >= AppUIDBase => ask <= hwm) /\ hwm \in {uidHWM, ask}
    BY <2>1, UidAssumption DEF observeUID, IdentityTypeOK
  <2> HIDE DEF hwm
  <2>3. CASE /\ IF hwm > uidHWM THEN persistUIDHighWater(hwm)
                                ELSE UNCHANGED <<uidMark, exposed, uidFaults>>
             /\ Register(i, temp, ask, started)
             /\ UNCHANGED reused
    <3>1. /\ exposed' = exposed /\ uidFaults' \in Nat /\ uidMark' \in Nat
          /\ IF hwm > uidHWM THEN uidMark' = hwm ELSE uidMark' = uidMark
      BY <2>2, <2>3, Zenon DEF persistUIDHighWater, IdentityTypeOK
    <3>2. spent' \subseteq spent \cup {ask} /\ spent' \subseteq Nat
      BY <1>1, <2>1, <2>3, Zenon
    <3>3. MarkCovers'
      BY <1>0, <1>a, <2>1, <2>2, <3>1, <3>2, UidAssumption DEF IdentityTypeOK
    <3> QED BY <1>1, <2>1, <2>2, <2>3, <3>1, <3>3, Zenon DEF IdentityIsPrivate, IdentityTypeOK
  <2>4. CASE hwm > uidHWM /\ persistFails(hwm, hwm) /\ Refused
    <3>1. /\ uidMark' \in Nat /\ uidMark' \in {uidMark, hwm} /\ exposed' \subseteq Nat
          /\ exposed \subseteq exposed' /\ uidFaults' \in Nat
      BY <2>2, <2>4, PersistCovers, Zenon DEF IdentityTypeOK
    <3>2. \A u \in Nat : u <= hwm => u <= uidMark' \/ u \in exposed'
      BY <2>2, <2>4, PersistCovers, Zenon
    <3>3. MarkCovers'
      <4>1. uidHWM' = hwm /\ spent' = spent
        BY <1>2, <2>1, <2>4, ZenonT(60)
      <4>2. \A u \in spent' : u >= AppUIDBase => u <= uidHWM' \/ u \in exposed'
        BY <1>a, <2>2, <3>1, <4>1 DEF IdentityTypeOK
      <4>3. \A u \in spent' : u >= AppUIDBase => u <= uidMark' \/ u \in exposed'
        BY <1>a, <2>2, <3>1, <4>1 DEF IdentityTypeOK
      <4>4. \A u \in AppUIDBase .. uidHWM' : u <= uidMark' \/ u \in exposed'
        BY <2>2, <3>1, <3>2, <4>1, UidAssumption
      <4> QED BY <1>0, <4>2, <4>3, <4>4
    <3> QED BY <1>2, <2>1, <2>2, <2>4, <3>1, <3>3, Zenon DEF IdentityIsPrivate, IdentityTypeOK
  <2> QED BY <1>5, <2>3, <2>4, Zenon DEF PinRunAs, hwm
<1> QED
  BY <1>3, <1>4, <1>5, Zenon DEF resolveRunAs

\* The invariant holds in every initial state.
LEMMA IdentityInit_Inv == IdentityInit => IdentityInv
<1> SUFFICES ASSUME IdentityInit PROVE IdentityInv
  BY Zenon
<1>1. IdentityTypeOK
  BY Zenon DEF IdentityInit, IdentityTypeOK, NoUser, Unowned
<1>2. IdentityIsPrivate
  BY DEF IdentityInit, IdentityIsPrivate
<1>3. MarkCovers
  BY Zenon DEF IdentityInit, MarkCovers
<1> QED
  BY <1>1, <1>2, <1>3 DEF IdentityInit, IdentityInv

\* Every step of every call, crash and boot keeps it.
LEMMA IdentityStep_Inv == IdentityInv /\ UidsFound /\ [IdentityNext]_identityVars => IdentityInv'
<1> SUFFICES ASSUME IdentityInv, UidsFound, [IdentityNext]_identityVars PROVE IdentityInv'
  OBVIOUS
<1> USE DEF IdentityInv
<1>0. {NoUser, Root} \cup PinnedUids \subseteq Nat \cup {NoUser}
  <2>1. PinnedUids \subseteq Nat /\ Root \in Nat
    BY UidAssumption DEF Root
  <2> QED BY <2>1, Zenon
<1>1. ASSUME NEW i \in UidApps, NEW ask \in {NoUser, Root} \cup PinnedUids, NEW started \in BOOLEAN,
             SpawnIdentity(i, ask, started)
      PROVE  IdentityInv'
  <2>1. daemon /\ pending = {} /\ resolveRunAs(i, FALSE, ask, started)
        /\ UNCHANGED <<daemon, recorded, pending, uidCrashes>>
    BY <1>1, Zenon DEF SpawnIdentity, Serving
  <2>2. ask \in Nat \cup {NoUser}
    BY <1>0
  <2> QED BY <2>1, <2>2, ResolveKeeps, Zenon DEF IdentityTypeOK
<1>2. ASSUME NEW i \in UidApps, NEW ask \in {NoUser, Root} \cup PinnedUids, NEW started \in BOOLEAN,
             DeployIdentity(i, ask, started)
      PROVE  IdentityInv'
  <2>1. daemon /\ pending = {} /\ resolveRunAs(i, TRUE, inheritIdentity(i, ask), started)
        /\ UNCHANGED <<daemon, recorded, pending, uidCrashes>>
    BY <1>2, Zenon DEF DeployIdentity, Serving
  <2>2. inheritIdentity(i, ask) \in Nat \cup {NoUser}
    BY <1>0, Zenon DEF inheritIdentity, IdentityTypeOK
  <2> QED BY <2>1, <2>2, ResolveKeeps, ZenonT(60) DEF IdentityTypeOK
<1>3. ASSUME NEW i \in UidApps, NEW started \in BOOLEAN, RestoreIdentity(i, started)
      PROVE  IdentityInv'
  <2> DEFINE ask == IF recorded[i] = Unowned THEN NoUser ELSE recorded[i]
  <2>1. daemon /\ UNCHANGED <<daemon, uidCrashes>> /\ resolveRunAs(i, FALSE, ask, started)
        /\ pending' = pending \ {i}
    BY <1>3, Zenon DEF RestoreIdentity
  <2>2. ask \in Nat \cup {NoUser}
    BY DEF IdentityTypeOK
  <2> HIDE DEF ask
  <2>3. /\ uidHWM' \in Nat /\ uidMark' \in Nat /\ uidFaults' \in Nat
        /\ spent' \subseteq Nat /\ exposed' \subseteq Nat /\ reused' \subseteq Nat
        /\ runAs' \in [UidApps -> Nat \cup {NoUser}]
        /\ deploying' \in [UidApps -> Nat \cup {NoUser}]
        /\ IdentityIsPrivate'
        /\ MarkCovers'
    BY <2>1, <2>2, ResolveKeeps, Zenon
  <2>4. recorded' = recorded \/ (recorded' = [recorded EXCEPT ![i] = runAs'[i]] /\ runAs'[i] # NoUser)
    BY <1>3 DEF RestoreIdentity
  <2>5. recorded' \in [UidApps -> Nat \cup {NoUser, Unowned}]
    BY <2>3, <2>4 DEF IdentityTypeOK
  <2>6. \A j \in pending' : recorded'[j] # NoUser
    BY <2>1, <2>4 DEF IdentityTypeOK
  <2> QED BY <2>1, <2>3, <2>5, <2>6 DEF IdentityTypeOK
<1>4. ASSUME NEW i \in UidApps, DeployEnds(i)
      PROVE  IdentityInv'
  <2>1. IdentityTypeOK'
    BY <1>4, Zenon DEF DeployEnds, IdentityTypeOK
  <2>2. \A j \in UidApps : {runAs[j], deploying[j]}' \subseteq {runAs[j], deploying[j]} \cup {NoUser}
    BY <1>4 DEF DeployEnds, IdentityTypeOK
  <2>3. IdentityIsPrivate'
    <3>1. reused' \subseteq exposed'
      BY <1>4 DEF DeployEnds, IdentityIsPrivate
    <3>2. ASSUME NEW j \in UidApps, NEW k \in UidApps, j # k
          PROVE  {runAs[j], deploying[j]}' \cap {runAs[k], deploying[k]}' \subseteq {NoUser, Root}
      <4> DEFINE U(m) == {runAs[m], deploying[m]}
                 V(m) == {runAs[m], deploying[m]}'
      <4>1. U(j) \cap U(k) \subseteq {NoUser, Root}
        BY <3>2 DEF IdentityIsPrivate
      <4>2. V(j) \subseteq U(j) \cup {NoUser} /\ V(k) \subseteq U(k) \cup {NoUser}
        BY <2>2
      <4> HIDE DEF U, V
      <4>3. V(j) \cap V(k) \subseteq {NoUser, Root}
        BY <4>1, <4>2
      <4> QED BY <4>3 DEF V
    <3> QED BY <3>1, <3>2, Zenon DEF IdentityIsPrivate
  <2>4. MarkCovers'
    BY <1>4, Zenon DEF DeployEnds, MarkCovers, Serving
  <2>5. pending' = pending /\ recorded' = recorded
    BY <1>4, Zenon DEF DeployEnds
  <2> QED BY <2>1, <2>3, <2>4, <2>5, Zenon
<1>5. ASSUME NEW i \in UidApps, RecordIdentity(i) \/ StopIdentity(i)
      PROVE  IdentityInv'
  <2>1. daemon /\ pending = {} /\ UNCHANGED <<daemon, uidHWM, uidMark, deploying, pending, spent,
                                               exposed, reused, uidFaults, uidCrashes>>
    BY <1>5, Zenon DEF RecordIdentity, StopIdentity, Serving
  <2>2. /\ recorded' \in [UidApps -> Nat \cup {NoUser, Unowned}]
        /\ runAs' = runAs \/ runAs' = [runAs EXCEPT ![i] = NoUser]
    BY <1>5, Zenon DEF RecordIdentity, StopIdentity, IdentityTypeOK
  <2>3. MarkCovers'
    BY <2>1, Zenon DEF MarkCovers
  <2>4. IdentityIsPrivate'
    <3>1. \A j \in UidApps : {runAs[j], deploying[j]}' \subseteq {runAs[j], deploying[j]} \cup {NoUser}
      BY <2>1, <2>2, Zenon DEF IdentityTypeOK
    <3>2. ASSUME NEW j \in UidApps, NEW k \in UidApps, j # k
          PROVE  {runAs[j], deploying[j]}' \cap {runAs[k], deploying[k]}' \subseteq {NoUser, Root}
      <4> DEFINE U(m) == {runAs[m], deploying[m]}
                 V(m) == {runAs[m], deploying[m]}'
      <4>1. U(j) \cap U(k) \subseteq {NoUser, Root}
        BY <3>2 DEF IdentityIsPrivate
      <4>2. V(j) \subseteq U(j) \cup {NoUser} /\ V(k) \subseteq U(k) \cup {NoUser}
        BY <3>1
      <4> HIDE DEF U, V
      <4>3. V(j) \cap V(k) \subseteq {NoUser, Root}
        BY <4>1, <4>2
      <4> QED BY <4>3 DEF V
    <3> QED BY <2>1, <3>2, Zenon DEF IdentityIsPrivate
  <2> QED BY <2>1, <2>2, <2>3, <2>4 DEF IdentityTypeOK
<1>6. ASSUME NEW i \in UidApps, RestoreSkips(i)
      PROVE  IdentityInv'
  <2>1. /\ UNCHANGED <<daemon, uidHWM, uidMark, runAs, deploying, recorded, spent, exposed,
                       reused, uidFaults, uidCrashes>>
        /\ pending' = pending \ {i}
    BY <1>6, Zenon DEF RestoreSkips
  <2>2. MarkCovers'
    BY <2>1, Zenon DEF MarkCovers, RecordedUids
  <2> QED BY <2>1, <2>2, Zenon DEF IdentityTypeOK, IdentityIsPrivate
<1>7. CASE DaemonCrash
  <2>1. /\ daemon /\ daemon' = FALSE /\ uidHWM' = 0 /\ pending' = {} /\ uidCrashes' \in Nat
        /\ runAs' = [j \in UidApps |-> NoUser] /\ deploying' = [j \in UidApps |-> NoUser]
        /\ UNCHANGED <<uidMark, recorded, spent, exposed, reused, uidFaults>>
    BY <1>7 DEF DaemonCrash, IdentityTypeOK
  <2>2. MarkCovers'
    BY <2>1, ZenonT(60) DEF MarkCovers
  <2>3. IdentityIsPrivate'
    BY <2>1, Zenon DEF IdentityIsPrivate
  <2> QED BY <2>1, <2>2, <2>3, Zenon DEF IdentityTypeOK
<1>8. CASE LoseMark
  <2>1. /\ ~daemon /\ uidMark' = 0 /\ spent' = RecordedUids /\ exposed' = {} /\ reused' = {}
        /\ uidFaults' \in Nat
        /\ UNCHANGED <<daemon, uidHWM, runAs, deploying, recorded, pending, uidCrashes>>
    BY <1>8 DEF LoseMark, IdentityTypeOK
  <2>2. RecordedUids \subseteq Nat /\ RecordedUids' = RecordedUids
    BY <2>1 DEF RecordedUids, IdentityTypeOK, NoUser, Unowned
  <2>3. MarkCovers'
    BY <2>1, <2>2, Zenon DEF MarkCovers
  <2>4. IdentityIsPrivate'
    BY <2>1 DEF IdentityIsPrivate
  <2> QED BY <2>1, <2>2, <2>3, <2>4, Zenon DEF IdentityTypeOK
<1>9. CASE BootIdentity
  <2> DEFINE hwm == ObservedHWM
  <2>1. /\ ~daemon /\ daemon' = TRUE /\ uidHWM' = hwm
        /\ pending' = {i \in UidApps : recorded[i] # NoUser}
        /\ UNCHANGED <<runAs, deploying, recorded, spent, reused, uidCrashes>>
        /\ persistUIDHighWater(hwm) \/ persistFails(hwm, hwm)
    BY <1>9, Zenon DEF BootIdentity, SyncUIDHighWater
  <2>2. hwm \in Nat /\ hwm >= uidMark /\ \A u \in RecordedUids : u >= AppUIDBase => u <= hwm
    BY Zenon DEF UidsFound
  <2> HIDE DEF hwm
  <2>3. /\ uidMark' \in Nat /\ uidMark' \in {uidMark, hwm} /\ exposed' \subseteq Nat
        /\ exposed \subseteq exposed' /\ uidFaults' \in Nat
        /\ persistUIDHighWater(hwm) => uidMark' = hwm
        /\ persistFails(hwm, hwm) => \A u \in Nat : u <= hwm => u <= uidMark' \/ u \in exposed'
    BY <2>1, <2>2, PersistCovers
  <2>4. \A u \in Nat : u <= hwm => u <= uidMark' \/ u \in exposed'
    <3>1. CASE persistUIDHighWater(hwm)
      BY <3>1, <2>2, <2>3, Zenon
    <3>2. CASE persistFails(hwm, hwm)
      BY <3>2, <2>3, Zenon
    <3> QED BY <2>1, <3>1, <3>2
  <2>5. \A u \in spent' : u >= AppUIDBase => u <= hwm \/ u \in exposed'
    <3>1. \A u \in spent : u >= AppUIDBase => u <= uidMark \/ u \in exposed \/ u \in RecordedUids
      BY <2>1, Zenon DEF MarkCovers
    <3> QED BY <3>1, <2>1, <2>2, <2>3 DEF IdentityTypeOK
  <2>6. \A u \in spent' : u >= AppUIDBase => u <= uidMark' \/ u \in exposed'
    BY <2>1, <2>4, <2>5, Zenon DEF IdentityTypeOK
  <2>7. \A u \in AppUIDBase .. uidHWM' : u <= uidMark' \/ u \in exposed'
    BY <2>1, <2>2, <2>4, UidAssumption
  <2>8. MarkCovers'
    BY <2>1, <2>5, <2>6, <2>7, Zenon DEF MarkCovers
  <2>9. IdentityIsPrivate'
    BY <2>1, <2>3, Zenon DEF IdentityIsPrivate
  <2>10. IdentityTypeOK'
    BY <2>1, <2>2, <2>3, Zenon DEF IdentityTypeOK
  <2>11. \A j \in pending' : recorded'[j] # NoUser
    BY <2>1, Zenon
  <2> QED BY <2>8, <2>9, <2>10, <2>11
<1>10. CASE UNCHANGED identityVars
  <2>1. MarkCovers'
    BY <1>10, Zenon DEF identityVars, MarkCovers, RecordedUids
  <2> QED BY <1>10, <2>1, Zenon DEF identityVars, IdentityTypeOK, IdentityIsPrivate
<1> QED
  BY <1>1, <1>2, <1>3, <1>4, <1>5, <1>6, <1>7, <1>8, <1>9, <1>10, Zenon
  DEF IdentityNext, IdentityCalls

INSTANCE FiniteSetTheorems

\* A set of naturals has a least element.
LEMMA LeastNat ==
  ASSUME NEW S \in SUBSET Nat, S # {}
  PROVE  \E m \in S : \A k \in S : m <= k
<1>1. PICK m \in S : \A y \in S : ~(<<y, m>> \in OpToRel(<, Nat))
  BY NatLessThanWellFounded, WFMin, Zenon
<1>2. \A y \in S : ~(y < m)
  BY <1>1, Zenon DEF OpToRel
<1> QED
  BY <1>2

\* A finite set of naturals has a largest element.
LEMMA LargestNat ==
  ASSUME NEW S \in SUBSET Nat, S # {}, IsFiniteSet(S)
  PROVE  \E m \in S : \A k \in S : k <= m
<1>1. PICK n \in Nat : ExistsBijection(1 .. n, S)
  BY FS_NatBijection
<1>2. PICK f \in [1 .. n -> S] : \A s \in S : \E j \in 1 .. n : f[j] = s
  BY <1>1, Zenon DEF Bijection, Surjection, ExistsBijection
<1> DEFINE Bad == {k \in 1 .. n : ~\E m \in 1 .. k : \A j \in 1 .. k : f[j] <= f[m]}
<1>3. Bad = {}
  <2> SUFFICES ASSUME Bad # {} PROVE FALSE
    OBVIOUS
  <2>1. PICK k \in Bad : \A i \in Bad : k <= i
    <3>1. Bad \in SUBSET Nat
      OBVIOUS
    <3> QED BY <3>1, LeastNat, Zenon
  <2>a. k \in 1 .. n /\ ~\E m \in 1 .. k : \A j \in 1 .. k : f[j] <= f[m]
    BY <2>1, Zenon
  <2>b. \A j \in 1 .. n : f[j] \in Nat
    BY <1>2, Zenon
  <2>2. CASE k = 1
    <3>1. f[1] <= f[1] /\ 1 .. 1 = {1}
      BY <2>2, <2>a, <2>b, SMTT(60)
    <3> QED BY <3>1, <2>2, <2>a, ZenonT(60)
  <2>3. CASE k > 1
    <3>1. k - 1 \in 1 .. n /\ k - 1 \notin Bad
      <4>1. k - 1 \in 1 .. n /\ ~(k <= k - 1)
        BY <2>3, <2>a
      <4> QED BY <4>1, <2>1, Zenon
    <3>2. PICK m \in 1 .. k - 1 : \A j \in 1 .. k - 1 : f[j] <= f[m]
      BY <3>1, ZenonT(60)
    <3>3. f[k] \in Nat /\ \A j \in 1 .. k - 1 : f[j] \in Nat
      BY <2>a, <2>b
    <3>4. CASE f[k] <= f[m]
      <4>1. \A j \in 1 .. k : f[j] <= f[m]
        <5>1. \A j \in 1 .. k : j \in 1 .. k - 1 \/ j = k
          BY <2>a
        <5> QED BY <5>1, <3>2, <3>4, Zenon
      <4>2. m \in 1 .. k
        BY <2>a, <2>3
      <4> QED BY <4>1, <4>2, <2>a, ZenonT(60)
    <3>5. CASE f[m] <= f[k]
      <4>1. \A j \in 1 .. k : f[j] <= f[k]
        <5>1. \A j \in 1 .. k - 1 : f[j] <= f[k]
          BY <3>2, <3>5, <3>3, SMTT(60)
        <5>2. \A j \in 1 .. k : j \in 1 .. k - 1 \/ j = k
          BY <2>a
        <5> QED BY <5>1, <5>2, <3>3, SMTT(60)
      <4>2. k \in 1 .. k
        BY <2>a
      <4> QED BY <4>1, <4>2, <2>a, Zenon
    <3> QED BY <3>3, <3>4, <3>5
  <2> QED BY <2>a, <2>2, <2>3, SMTT(60)
<1>4. n \in 1 .. n
  <2>1. PICK j \in 1 .. n : TRUE
    BY <1>2, Zenon
  <2> QED BY <2>1
<1>5. PICK m \in 1 .. n : \A j \in 1 .. n : f[j] <= f[m]
  <2>1. n \notin Bad
    BY <1>3, Zenon
  <2> QED BY <2>1, <1>4
<1> QED
  BY <1>2, <1>5, Zenon

\* The search of resolveRunAsLocked ends: of the numbers it tries there is one
\* that no other app has, since each app has at most two.
LEMMA NextUID ==
  ASSUME IdentityTypeOK, NEW i \in UidApps
  PROVE  /\ nextUID(i) \in Nat
         /\ nextUID(i) >= AppUIDBase
         /\ nextUID(i) > uidHWM
         /\ runAsOwner(nextUID(i), i) = {}
<1> DEFINE first == IF uidHWM >= AppUIDBase THEN uidHWM + 1 ELSE AppUIDBase
           c == Cardinality(UidApps)
           tried == first .. first + 2 * c
           free == {n \in tried : runAsOwner(n, i) = {}}
           A == {runAs[j] : j \in UidApps}
           B == {deploying[j] : j \in UidApps}
<1>1. first \in Nat /\ first >= AppUIDBase /\ first > uidHWM
  BY UidAssumption DEF IdentityTypeOK
<1>2. c \in Nat /\ IsFiniteSet(UidApps)
  BY UidAssumption, FS_CardinalityType, Zenon
<1>3. IsFiniteSet(tried) /\ Cardinality(tried) = 2 * c + 1
  <2> HIDE DEF first, c
  <2>1. first \in Int /\ first + 2 * c \in Int /\ ~(first > first + 2 * c)
    BY <1>1, <1>2
  <2>2. (first + 2 * c) - first + 1 = 2 * c + 1
    BY <1>1, <1>2
  <2> QED BY <2>1, <2>2, FS_Interval, Zenon
<1>4. IsFiniteSet(A) /\ Cardinality(A) <= c
  <2>1. runAs \in Surjection(UidApps, A)
    BY Zenon DEF IdentityTypeOK, Surjection
  <2> QED BY <2>1, <1>2, FS_Surjection, Zenon
<1>5. IsFiniteSet(B) /\ Cardinality(B) <= c
  <2>1. deploying \in Surjection(UidApps, B)
    BY Zenon DEF IdentityTypeOK, Surjection
  <2> QED BY <2>1, <1>2, FS_Surjection
<1>6. free # {}
  <2> SUFFICES ASSUME free = {} PROVE FALSE
    OBVIOUS
  <2>1. tried \subseteq A \cup B
    <3> HIDE DEF tried
    <3> QED BY Zenon DEF runAsOwner
  <2>2. IsFiniteSet(A \cup B) /\ IsFiniteSet(A \cap B)
        /\ Cardinality(A \cup B) = Cardinality(A) + Cardinality(B) - Cardinality(A \cap B)
    <3> HIDE DEF A, B
    <3> QED BY <1>4, <1>5, FS_Union, FS_Intersection, ZenonT(60)
  <2>3. Cardinality(tried) <= Cardinality(A \cup B)
    <3> HIDE DEF tried, A, B
    <3> QED BY <2>1, <2>2, FS_Subset, Zenon
  <2>4. Cardinality(A) \in Nat /\ Cardinality(B) \in Nat /\ Cardinality(A \cap B) \in Nat
    <3> HIDE DEF A, B
    <3> QED BY <1>4, <1>5, <2>2, FS_CardinalityType, ZenonT(60)
  <2> HIDE DEF tried, A, B, c
  <2> QED BY <1>2, <1>3, <1>4, <1>5, <2>2, <2>3, <2>4, SMTT(60)
<1>7. free \in SUBSET Nat
  <2> HIDE DEF first, c
  <2> QED BY <1>1, <1>2
<1>8. \E n \in free : \A k \in free : n <= k
  <2> HIDE DEF free
  <2> QED BY <1>6, <1>7, LeastNat, Zenon
<1>9. nextUID(i) = CHOOSE n \in free : \A k \in free : n <= k
  BY Zenon DEF nextUID
<1>10. nextUID(i) \in free
  <2> HIDE DEF free
  <2> QED BY <1>8, <1>9, Zenon
<1>11. nextUID(i) \in tried /\ runAsOwner(nextUID(i), i) = {}
  <2> HIDE DEF tried
  <2> QED BY <1>10
<1> HIDE DEF first, c
<1> QED
  BY <1>11, <1>1, <1>2, UidAssumption, SMTT(60) DEF IdentityTypeOK

\* The mark a boot starts from is no lower than the file's number and every
\* recorded UID.
LEMMA ObservedCovers ==
  ASSUME IdentityTypeOK
  PROVE  /\ ObservedHWM \in Nat
         /\ ObservedHWM >= uidMark
         /\ \A u \in RecordedUids : u >= AppUIDBase => u <= ObservedHWM
<1> DEFINE All == {recorded[j] : j \in UidApps}
           seen == {uidMark} \cup {u \in RecordedUids : u >= AppUIDBase}
<1>1. IsFiniteSet(All)
  <2>1. recorded \in Surjection(UidApps, All)
    BY DEF IdentityTypeOK, Surjection
  <2> QED BY <2>1, UidAssumption, FS_Surjection, Zenon
<1>2. IsFiniteSet(seen)
  <2>1. {u \in RecordedUids : u >= AppUIDBase} \in SUBSET All
    BY DEF RecordedUids
  <2>2. IsFiniteSet({u \in RecordedUids : u >= AppUIDBase})
    <3> HIDE DEF All
    <3> QED BY <2>1, <1>1, FS_Subset, Zenon
  <2> QED BY <2>2, FS_Singleton, FS_Union, Zenon
<1>3. seen \in SUBSET Nat /\ seen # {}
  BY DEF IdentityTypeOK, RecordedUids, NoUser, Unowned
<1>4. \E m \in seen : \A u \in seen : u <= m
  <2> HIDE DEF seen
  <2> QED BY <1>2, <1>3, LargestNat, Zenon
<1>5. ObservedHWM \in seen /\ \A u \in seen : u <= ObservedHWM
  <2>1. ObservedHWM = CHOOSE m \in seen : \A u \in seen : u <= m
    BY Zenon DEF ObservedHWM
  <2> HIDE DEF seen
  <2> QED BY <1>4, <2>1
<1> QED
  BY <1>3, <1>5, Zenon

\* The users of apps are private: no UID is given to a second app, except one
\* that a failed write of the mark exposed, and no two apps run as one user,
\* for any number of apps, pinned UIDs, failed writes, lost marks and crashes.
THEOREM UsersArePrivate == IdentitySpec => [](IdentityTypeOK /\ IdentityIsPrivate)
<1>1. IdentityInv => IdentityTypeOK /\ IdentityIsPrivate
  BY DEF IdentityInv
<1>2. IdentityInv => UidsFound
  BY NextUID, ObservedCovers, Zenon DEF IdentityInv, UidsFound
<1> QED
  BY <1>1, <1>2, IdentityInit_Inv, IdentityStep_Inv, PTL DEF IdentitySpec
=============================================================================
