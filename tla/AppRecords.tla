----------------------------- MODULE AppRecords -----------------------------
(***************************************************************************)
(* The records the store keeps for each app: its configuration, the        *)
(* metadata clients make conditional requests with, and the release        *)
(* ledger.  StateStore models how one flush reaches the disk; here a flush *)
(* is one step that succeeds, or fails and leaves on the disk what a later *)
(* boot recovers: the old state, or the one that was being written.        *)
(***************************************************************************)
EXTENDS Integers, Sequences, FiniteSets

CONSTANTS
  Ids,           \* app names
  Vols,          \* volume names
  Configs,       \* supervisor.Config values; at this level a config is its port
  MaxUid,        \* bound on the UUIDs handed out
  MaxRv,         \* bound on the writes to one record
  MaxFlushFails  \* bound on the flushes that fail

ASSUME RecordsAssumption ==
  /\ IsFiniteSet(Ids)
  /\ Configs # {} /\ Configs \subseteq Nat \ {0}
  /\ MaxUid \in Nat
  /\ MaxRv \in Nat
  /\ MaxFlushFails \in Nat

VARIABLES
  mem,         \* the maps of the Store: [ver, apps, vols]
  disk,        \* what the next boot reads, log included
  uids,        \* UUIDs generated so far
  flushFails,  \* flushes that failed so far
  open         \* NewStore has returned a Store

recordVars == <<mem, disk, uids, flushFails, open>>

Phases == {"Active", "Superseded", "RolledBack"}

\* UID 0 is the empty string of a file written before metadata existed.
\* idt: the config names the user the app runs as.
NoApp == [cfg |-> 0, idt |-> FALSE, uid |-> 0, gen |-> 0, obs |-> 0, rv |-> 0, rels |-> <<>>]

Known(db, id) == db.apps[id] # NoApp

FormatVersion == 3

\* A record without metadata, as version 1 files hold.
Bare(cfg) == [NoApp EXCEPT !.cfg = cfg]

newAppMetadata(rec, uid) == [rec EXCEPT !.uid = uid, !.gen = 1, !.obs = 1, !.rv = 1]

(***************************************************************************)
(* One flush: the whole state goes to the disk, then the maps are swapped. *)
(***************************************************************************)
flushFull(next) == mem' = next /\ disk' = next /\ UNCHANGED <<flushFails, open>>

flushFullFails(next) ==
  /\ flushFails < MaxFlushFails
  /\ flushFails' = flushFails + 1
  /\ UNCHANGED <<mem, open>>
  /\ disk' \in {disk, next}

WithApp(id, rec) == [mem EXCEPT !.apps[id] = rec]

(***************************************************************************)
(* The mutations.  Each names the state it flushes.                        *)
(***************************************************************************)
AddAppState(id, cfg) ==
  LET old == mem.apps[id]
      new == [old EXCEPT !.cfg = cfg, !.idt = TRUE]
  IN  WithApp(id, IF Known(mem, id)
                  THEN [new EXCEPT !.gen = @ + 1, !.obs = old.gen + 1, !.rv = @ + 1]
                  ELSE newAppMetadata(new, uids + 1))

AddAppUid(id) == uids' = IF Known(mem, id) THEN uids ELSE uids + 1

AddAppBound(id) == uids < MaxUid /\ mem.apps[id].rv < MaxRv

AddApp(id, cfg) ==
  /\ AddAppBound(id)
  /\ flushFull(AddAppState(id, cfg))
  /\ AddAppUid(id)

AddAppFails(id, cfg) ==
  /\ AddAppBound(id)
  /\ flushFullFails(AddAppState(id, cfg))
  /\ AddAppUid(id)

RemoveApp(id) ==
  /\ IF Known(mem, id) THEN flushFull(WithApp(id, NoApp)) ELSE UNCHANGED <<mem, disk, flushFails, open>>
  /\ UNCHANGED uids

RemoveAppFails(id) ==
  /\ Known(mem, id)
  /\ flushFullFails(WithApp(id, NoApp))
  /\ UNCHANGED uids

\* faulty: a release that was a rollback itself keeps its phase
Retire_NotRollbacks(rels, prior) ==
  [i \in DOMAIN rels |-> IF rels[i].phase = "Active" /\ rels[i].from = 0
                         THEN [rels[i] EXCEPT !.phase = prior] ELSE rels[i]]

\* Every release that is Active takes the prior phase, and the new one is appended.
Retire(rels, prior) ==
  [i \in DOMAIN rels |-> IF rels[i].phase = "Active" THEN [rels[i] EXCEPT !.phase = prior] ELSE rels[i]]

\* One more than the largest sequence number of the ledger.
NextSeq(rels) ==
  LET used == {0} \cup {rels[i].seq : i \in DOMAIN rels}
  IN  1 + (CHOOSE n \in used : \A m \in used : m <= n)

NewRelease(rels, cfg, from, orig) ==
  [seq |-> NextSeq(rels), phase |-> "Active", cfg |-> cfg, from |-> from, orig |-> orig]

\* faulty: a release is not taken for a change of the record
CreateReleaseState_SameVersion(id, cfg, from, orig, prior) ==
  LET old == mem.apps[id]
  IN  WithApp(id, [old EXCEPT !.rels = Append(Retire(@, prior), NewRelease(@, cfg, from, orig))])

CreateReleaseState(id, cfg, from, orig, prior) ==
  LET old == mem.apps[id]
  IN  WithApp(id, [old EXCEPT !.rels = Append(Retire(@, prior), NewRelease(@, cfg, from, orig)),
                              !.rv = @ + 1])

\* ErrAppNotFound: the record is gone.
CreateReleaseNotFound(id) == ~Known(mem, id) /\ UNCHANGED recordVars

CreateRelease(id, cfg, from, orig, prior) ==
  /\ Known(mem, id)
  /\ mem.apps[id].rv < MaxRv
  /\ flushFull(CreateReleaseState(id, cfg, from, orig, prior))
  /\ UNCHANGED uids

CreateReleaseFails(id, cfg, from, orig, prior) ==
  /\ Known(mem, id)
  /\ mem.apps[id].rv < MaxRv
  /\ flushFullFails(CreateReleaseState(id, cfg, from, orig, prior))
  /\ UNCHANGED uids

\* FindRelease: the releases of the app with that number, at most one.
FindRelease(id, seq) == {i \in DOMAIN mem.apps[id].rels : mem.apps[id].rels[i].seq = seq}

\* The convergence write of the asynchronous deploy that is to come: no handler calls it.
SetObservedGeneration(id, g) ==
  LET cur == mem.apps[id]
  IN  /\ Known(mem, id)
      /\ cur.rv < MaxRv
      /\ g > cur.obs
      /\ g <= cur.gen
      /\ flushFull(WithApp(id, [cur EXCEPT !.obs = g, !.rv = @ + 1]))
      /\ UNCHANGED uids

AddVolume(v) == flushFull([mem EXCEPT !.vols = @ \cup {v}]) /\ UNCHANGED uids

AddVolumeFails(v) == flushFullFails([mem EXCEPT !.vols = @ \cup {v}]) /\ UNCHANGED uids

RemoveVolume(v) ==
  /\ IF v \in mem.vols THEN flushFull([mem EXCEPT !.vols = @ \ {v}])
                       ELSE UNCHANGED <<mem, disk, flushFails, open>>
  /\ UNCHANGED uids

RemoveVolumeFails(v) ==
  /\ v \in mem.vols
  /\ flushFullFails([mem EXCEPT !.vols = @ \ {v}])
  /\ UNCHANGED uids

(***************************************************************************)
(* NewStore.  A file of version 1 has no metadata, and one that was edited *)
(* by hand may miss some: each such app gets fresh metadata, and the file  *)
(* is written again, as is a file of version 2.                            *)
(***************************************************************************)
Unstamped(db) == {id \in Ids : Known(db, id) /\ db.apps[id].uid = 0}

\* The file as loaded, the unstamped apps taking the UUIDs that stamp names.
Loaded(stamp) ==
  [ver  |-> FormatVersion,
   apps |-> [id \in Ids |-> LET a == disk.apps[id]
                            IN  IF id \in DOMAIN stamp THEN newAppMetadata(a, stamp[id]) ELSE a],
   vols |-> disk.vols]

MustRewrite == disk.ver # FormatVersion \/ Unstamped(disk) # {}

Stamps ==
  {f \in [Unstamped(disk) -> (uids + 1)..(uids + Cardinality(Unstamped(disk)))] :
     \A i, j \in DOMAIN f : f[i] = f[j] => i = j}

NewStore ==
  /\ ~open
  /\ open' = TRUE
  /\ \E stamp \in Stamps :
       /\ mem' = Loaded(stamp)
       /\ disk' = IF MustRewrite THEN Loaded(stamp) ELSE disk
       /\ uids' = uids + Cardinality(DOMAIN stamp)
  /\ UNCHANGED flushFails

\* The write back failed: NewStore returns the error and the daemon does not start.
NewStoreFails ==
  /\ ~open
  /\ MustRewrite
  /\ flushFails < MaxFlushFails
  /\ flushFails' = flushFails + 1
  /\ \E stamp \in Stamps :
       /\ disk' \in {disk, Loaded(stamp)}
       /\ uids' = uids + Cardinality(DOMAIN stamp)
  /\ UNCHANGED <<mem, open>>

\* The process ends; the maps are gone.
EmptyDb == [ver |-> FormatVersion, apps |-> [id \in Ids |-> NoApp], vols |-> {}]

CloseStore == open /\ open' = FALSE /\ mem' = EmptyDb /\ UNCHANGED <<disk, uids, flushFails>>

(***************************************************************************)
(* The store by itself: any mutation in any order.                         *)
(***************************************************************************)
FileWith(ver, id, rec) == [EmptyDb EXCEPT !.ver = ver, !.apps[id] = rec]

\* A deploy of c, one of d, and a rollback to the first.
RolledBackLedger(c, d) ==
  LET one == NewRelease(<<>>, c, 0, 0)
      two == NewRelease(<<one>>, d, 0, 0)
  IN  <<[one EXCEPT !.phase = "Superseded"], [two EXCEPT !.phase = "RolledBack"],
        NewRelease(<<one, two>>, c, 1, 1)>>

\* No file yet, a file of each older version, and one whose metadata was cut out by hand.
Files ==
  LET c == CHOOSE c \in Configs : TRUE
  IN  {EmptyDb} \cup UNION {
        {FileWith(1, id, Bare(c)), FileWith(2, id, newAppMetadata(Bare(c), 1))}
          \cup {FileWith(3, id, [Bare(c) EXCEPT !.rels = RolledBackLedger(c, d)]) : d \in Configs \ {c}}
        : id \in Ids}

RecordsInit ==
  /\ mem = EmptyDb
  /\ disk \in Files
  /\ uids = 1
  /\ flushFails = 0
  /\ open = FALSE

Mutate(id) ==
  /\ open
  /\ \/ \E c \in Configs : AddApp(id, c) \/ AddAppFails(id, c)
     \/ RemoveApp(id) \/ RemoveAppFails(id)
     \/ \E c \in Configs, from, orig \in Nat, prior \in Phases \ {"Active"} :
           CreateRelease(id, c, from, orig, prior) \/ CreateReleaseFails(id, c, from, orig, prior)
     \/ \E g \in Nat : SetObservedGeneration(id, g)

RecordsNext ==
  \/ NewStore \/ NewStoreFails \/ CloseStore
  \/ \E id \in Ids : Mutate(id)
  \/ open /\ \E v \in Vols : AddVolume(v) \/ AddVolumeFails(v) \/ RemoveVolume(v) \/ RemoveVolumeFails(v)

RecordsSpec == RecordsInit /\ [][RecordsNext]_recordVars

(***************************************************************************)
(* Properties.                                                             *)
(***************************************************************************)
\* The ledger of an app: numbered from 1 without a gap, only the newest release is Active.
LedgerOrdered(rels) ==
  \A i \in DOMAIN rels : rels[i].seq = i /\ (rels[i].phase = "Active" <=> i = Len(rels))

\* CreateRelease's retire, number and append, over every write, failed write and reload: no ledger
\* the store shows or would recover has two Active releases, a hole, or a number used twice.
LedgersOrdered == \A id \in Ids : LedgerOrdered(mem.apps[id].rels) /\ LedgerOrdered(disk.apps[id].rels)

\* What clients rely on for If-Match: while an app keeps its UID, whatever changes in the record
\* readers see also raises its resourceVersion.
VersionNamesContent ==
  [][ \A id \in Ids :
        /\ Known(mem, id) /\ Known(mem', id)
        /\ mem.apps[id].uid = mem'.apps[id].uid
        /\ mem.apps[id] # mem'.apps[id]
        => mem'.apps[id].rv > mem.apps[id].rv ]_recordVars
=============================================================================
