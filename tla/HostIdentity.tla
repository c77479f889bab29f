---------------------------- MODULE HostIdentity ----------------------------
(***************************************************************************)
(* The host user each app runs as.  Spawn settles it under the supervisor  *)
(* lock: root when asked, the UID a request pins, or a fresh one above the *)
(* high-water mark, which is written to app-uid-hwm before it is used.     *)
(* The mark must survive what the registry does not: a deleted app, a      *)
(* crash of the daemon, a write of the mark that fails, a lost file.       *)
(***************************************************************************)
EXTENDS Integers, FiniteSets

CONSTANTS
  UidApps,    \* app names
  AppUIDBase, \* the first UID handed out
  PinnedUids, \* UIDs requests name
  MaxHostUid, \* bound on the UIDs handed out
  UidFaults,  \* bound on the failed writes and lost mark files
  UidCrashes  \* bound on the crashes of the daemon

ASSUME UidAssumption ==
  /\ IsFiniteSet(UidApps)
  /\ AppUIDBase \in Nat \ {0}
  /\ PinnedUids \subseteq Nat \ {0}
  /\ MaxHostUid \in Nat
  /\ UidFaults \in Nat
  /\ UidCrashes \in Nat

VARIABLES
  daemon,   \* the daemon runs
  uidHWM,   \* Supervisor.uidHWM
  uidMark,  \* the number in the file at UIDStatePath; 0 when there is none
  runAs,    \* identity of the app registered under each name
  deploying,\* identity of the v2 registered under its temporary name
  recorded, \* the run_as state.json holds for each name
  pending,  \* names still to be restored in this boot
  spent,    \* UIDs some app has run as
  exposed,  \* UIDs a failed write of the mark left above the file's number
  reused,   \* UIDs given to an app after another had run as them
  uidFaults,
  uidCrashes

identityVars == <<daemon, uidHWM, uidMark, runAs, deploying, recorded, pending,
                  spent, exposed, reused, uidFaults, uidCrashes>>

NoUser == -1    \* no such app, or no record of it
Unowned == -2  \* a record from before apps had users of their own
Root == 0

IdentityTypeOK ==
  /\ daemon \in BOOLEAN
  /\ uidHWM \in Nat
  /\ uidMark \in Nat
  /\ runAs \in [UidApps -> Nat \cup {NoUser}]
  /\ deploying \in [UidApps -> Nat \cup {NoUser}]
  /\ recorded \in [UidApps -> Nat \cup {NoUser, Unowned}]
  /\ pending \subseteq UidApps
  /\ spent \subseteq Nat
  /\ exposed \subseteq Nat
  /\ reused \subseteq Nat
  /\ uidFaults \in Nat
  /\ uidCrashes \in Nat

\* During a deploy v1 and v2 share one UID, so only other names count.
runAsOwner(uid, i) ==
  {j \in UidApps \ {i} : uid \in {runAs[j], deploying[j]}}

(***************************************************************************)
(* Writing the mark.  A write that fails after the rename is on the disk.  *)
(***************************************************************************)
persistUIDHighWater(n) == uidMark' = n /\ UNCHANGED <<exposed, uidFaults>>

persistFails(n, hwm) ==
  /\ uidFaults < UidFaults
  /\ uidFaults' = uidFaults + 1
  /\ uidMark' \in {uidMark, n}
  /\ exposed' = exposed \cup (uidMark' + 1 .. hwm)

observeUID(uid, hwm) == IF uid >= AppUIDBase /\ uid > hwm THEN uid ELSE hwm

(***************************************************************************)
(* resolveRunAsLocked.  temp: the app is a deploy's v2, registered under   *)
(* its temporary name; started: the rest of the spawn succeeds.  A UID     *)
(* handed to a spawn that fails later stays burnt.                         *)
(***************************************************************************)
Register(i, temp, uid, started) ==
  /\ runAs' = IF started /\ ~temp THEN [runAs EXCEPT ![i] = uid] ELSE runAs
  /\ deploying' = IF started /\ temp THEN [deploying EXCEPT ![i] = uid] ELSE deploying
  /\ spent' = IF started /\ uid # Root THEN spent \cup {uid} ELSE spent

Refused == UNCHANGED <<runAs, deploying, spent, reused>>

\* The next number above the mark, past any UID an app is pinned to.
nextUID(i) ==
  LET first == IF uidHWM >= AppUIDBase THEN uidHWM + 1 ELSE AppUIDBase
      free == {n \in first .. first + 2 * Cardinality(UidApps) : runAsOwner(n, i) = {}}
  IN  CHOOSE n \in free : \A k \in free : n <= k

AllocateRunAs(i, temp, started) ==
  LET n == nextUID(i)
  IN  /\ n <= MaxHostUid
      /\ \/ /\ persistUIDHighWater(n)
            /\ uidHWM' = n
            /\ Register(i, temp, n, started)
            /\ reused' = IF started /\ n \in spent THEN reused \cup {n} ELSE reused
         \/ persistFails(n, uidHWM) /\ UNCHANGED uidHWM /\ Refused

PinRunAs(i, temp, uid, started) ==
  LET hwm == observeUID(uid, uidHWM)
  IN  /\ uid > Root
      /\ runAsOwner(uid, i) = {}
      /\ uidHWM' = hwm
      /\ \/ /\ IF hwm > uidHWM THEN persistUIDHighWater(hwm)
                               ELSE UNCHANGED <<uidMark, exposed, uidFaults>>
            /\ Register(i, temp, uid, started)
            /\ UNCHANGED reused
         \/ hwm > uidHWM /\ persistFails(hwm, hwm) /\ Refused

RunAsRoot(i, temp, started) ==
  /\ Register(i, temp, Root, started)
  /\ UNCHANGED <<uidHWM, uidMark, exposed, uidFaults, reused>>

\* ask: a pinned UID, Root, or NoUser when the request names no user.
resolveRunAs(i, temp, ask, started) ==
  \/ ask = NoUser /\ AllocateRunAs(i, temp, started)
  \/ ask = Root /\ RunAsRoot(i, temp, started)
  \/ PinRunAs(i, temp, ask, started)

(***************************************************************************)
(* The calls that settle an identity, and the records of it.               *)
(***************************************************************************)
Serving == daemon /\ pending = {}

SpawnIdentity(i, ask, started) ==
  /\ Serving
  /\ runAs[i] = NoUser
  /\ resolveRunAs(i, FALSE, ask, started)
  /\ UNCHANGED <<daemon, recorded, pending, uidCrashes>>

\* v2 keeps the user of v1 unless the deploy names one.
inheritIdentity(i, ask) == IF ask = NoUser THEN runAs[i] ELSE ask

DeployIdentity(i, ask, started) ==
  /\ Serving
  /\ runAs[i] # NoUser
  /\ deploying[i] = NoUser
  /\ resolveRunAs(i, TRUE, inheritIdentity(i, ask), started)
  /\ UNCHANGED <<daemon, recorded, pending, uidCrashes>>

\* The deploy swaps the registry, or stops v2.
DeployEnds(i) ==
  /\ Serving
  /\ deploying[i] # NoUser
  /\ deploying' = [deploying EXCEPT ![i] = NoUser]
  /\ \/ runAs' = runAs
     \/ runAs[i] # NoUser /\ runAs' = [runAs EXCEPT ![i] = deploying[i]]
  /\ UNCHANGED <<daemon, uidHWM, uidMark, recorded, pending, spent, exposed, reused,
                 uidFaults, uidCrashes>>

\* The handler records the identity the app got.
RecordIdentity(i) ==
  /\ Serving
  /\ runAs[i] # NoUser
  /\ recorded[i] # runAs[i]
  /\ recorded' = [recorded EXCEPT ![i] = runAs[i]]
  /\ UNCHANGED <<daemon, uidHWM, uidMark, runAs, deploying, pending, spent, exposed,
                 reused, uidFaults, uidCrashes>>

StopIdentity(i) ==
  /\ Serving
  /\ runAs[i] # NoUser
  /\ runAs' = [runAs EXCEPT ![i] = NoUser]
  /\ recorded' \in {recorded, [recorded EXCEPT ![i] = NoUser]}
  /\ UNCHANGED <<daemon, uidHWM, uidMark, deploying, pending, spent, exposed, reused,
                 uidFaults, uidCrashes>>

(***************************************************************************)
(* The daemon ends, the mark file may be lost, and the next daemon boots:  *)
(* it reads the mark, raises it to every recorded UID, writes it, and only *)
(* then restores the apps.                                                 *)
(***************************************************************************)
DaemonCrash ==
  /\ daemon
  /\ uidCrashes < UidCrashes
  /\ uidCrashes' = uidCrashes + 1
  /\ daemon' = FALSE
  /\ uidHWM' = 0
  /\ runAs' = [i \in UidApps |-> NoUser]
  /\ deploying' = [i \in UidApps |-> NoUser]
  /\ pending' = {}
  /\ UNCHANGED <<uidMark, recorded, spent, exposed, reused, uidFaults>>

RecordedUids == {recorded[i] : i \in UidApps} \ {NoUser, Unowned, Root}

\* Without the file only the UIDs state.json records are known to be taken.
LoseMark ==
  /\ ~daemon
  /\ uidFaults < UidFaults
  /\ uidFaults' = uidFaults + 1
  /\ uidMark' = 0
  /\ spent' = RecordedUids
  /\ exposed' = {}
  /\ reused' = {}
  /\ UNCHANGED <<daemon, uidHWM, runAs, deploying, recorded, pending, uidCrashes>>

\* faulty: the records are not consulted
ObservedHWM_MarkOnly == uidMark

\* LoadUIDHighWater, then ObserveRunAs for every record.
ObservedHWM ==
  LET seen == {uidMark} \cup {u \in RecordedUids : u >= AppUIDBase}
  IN  CHOOSE m \in seen : \A u \in seen : u <= m

SyncUIDHighWater(hwm) ==
  \/ persistUIDHighWater(hwm)
  \/ hwm # 0 /\ persistFails(hwm, hwm)

BootIdentity ==
  /\ ~daemon
  /\ daemon' = TRUE
  /\ uidHWM' = ObservedHWM
  /\ SyncUIDHighWater(ObservedHWM)
  /\ pending' = {i \in UidApps : recorded[i] # NoUser}
  /\ UNCHANGED <<runAs, deploying, recorded, spent, reused, uidCrashes>>

\* A record without a user gets one, which is then recorded if the flush
\* succeeds.
RestoreIdentity(i, started) ==
  /\ daemon
  /\ i \in pending
  /\ pending' = pending \ {i}
  /\ resolveRunAs(i, FALSE, IF recorded[i] = Unowned THEN NoUser ELSE recorded[i], started)
  /\ \/ UNCHANGED recorded
     \/ /\ recorded[i] = Unowned /\ runAs'[i] # NoUser
        /\ recorded' = [recorded EXCEPT ![i] = runAs'[i]]
  /\ UNCHANGED <<daemon, uidCrashes>>

\* The owner check may refuse a recorded UID; the entry is skipped.
RestoreSkips(i) ==
  /\ daemon
  /\ i \in pending
  /\ recorded[i] > Root
  /\ runAsOwner(recorded[i], i) # {}
  /\ pending' = pending \ {i}
  /\ UNCHANGED <<daemon, uidHWM, uidMark, runAs, deploying, recorded, spent, exposed,
                 reused, uidFaults, uidCrashes>>

(***************************************************************************)
(* A fresh install, or one upgraded from a version without app users.      *)
(***************************************************************************)
IdentityInit ==
  /\ daemon = FALSE
  /\ uidHWM = 0
  /\ uidMark = 0
  /\ runAs = [i \in UidApps |-> NoUser]
  /\ deploying = [i \in UidApps |-> NoUser]
  /\ recorded \in [UidApps -> {NoUser, Unowned}]
  /\ pending = {}
  /\ spent = {}
  /\ exposed = {}
  /\ reused = {}
  /\ uidFaults = 0
  /\ uidCrashes = 0

IdentityCalls(i) ==
  \/ \E ask \in {NoUser, Root} \cup PinnedUids, started \in BOOLEAN :
       SpawnIdentity(i, ask, started) \/ DeployIdentity(i, ask, started)
  \/ \E started \in BOOLEAN : RestoreIdentity(i, started)
  \/ DeployEnds(i) \/ RecordIdentity(i) \/ StopIdentity(i) \/ RestoreSkips(i)

IdentityNext ==
  \/ \E i \in UidApps : IdentityCalls(i)
  \/ DaemonCrash \/ LoseMark \/ BootIdentity

IdentitySpec == IdentityInit /\ [][IdentityNext]_identityVars

(***************************************************************************)
(* "A UID is never reused - a new app must not inherit files a deleted app *)
(* left behind", and two apps never run as one user.  A write of the mark  *)
(* that fails breaks the first half for the UIDs above the file's number:  *)
(* resolveRunAsLocked has already raised the mark in memory, so a second   *)
(* request for the same pinned UID succeeds without a write.               *)
(***************************************************************************)
IdentityIsPrivate ==
  /\ reused \subseteq exposed
  /\ \A i, j \in UidApps : i # j =>
       {runAs[i], deploying[i]} \cap {runAs[j], deploying[j]} \subseteq {NoUser, Root}
=============================================================================
