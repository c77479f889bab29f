------------------------------ MODULE StateStore ------------------------------
(***************************************************************************)
(* The durable state store of creekd (internal/state/store.go, wal.go):    *)
(* the write-ahead log, the temp-file-and-rename write of state.json, the  *)
(* read-back verification, and the replay at boot.                         *)
(*                                                                         *)
(* A state file is a cumulative snapshot, abstracted to the set of the     *)
(* mutations it contains (AddApp, RemoveApp, CreateRelease, ... are each   *)
(* one mutation, numbered in the order they start).  flushMu admits one    *)
(* mutation at a time, so the store is one thread; what interleaves with   *)
(* it are crashes (kill -9, power loss), at any point, and system calls    *)
(* that fail, at the points of the constant Failures.                      *)
(*                                                                         *)
(* The log is read only at boot.  A record whose fsync failed may or may   *)
(* not be there then, which is decided when it is written.  Tokens are     *)
(* numbers in the order of the pending records, so that the set of records *)
(* determines what the scan finds.                                         *)
(***************************************************************************)
EXTENDS Integers

CONSTANTS
  Failures,     \* the system calls that may fail, a subset of FailureKinds
  Legacy,       \* the file at first boot is of an older format
  MaxWrites,    \* bound: mutations and migrations
  MaxFailures,  \* bound: failing system calls
  MaxCrashes    \* bound: crashes

FailureKinds ==
  {"pending",   \* opening the log for the pending record
   "write",     \* temp file, fsync, rename
   "dirsync",   \* fsync of the directory after the rename
   "readback",  \* reading state.json back
   "rot",       \* an fsync that lost the data and reported success
   "commit",    \* opening the log for the commit record
   "rollback",  \* opening the log for the rollback record
   "replay",    \* any system call of a replay
   "unsynced",  \* fsync of the log, after the record was written
   "torn"}      \* a record written in part, by a failing write or in a crash

ASSUME StateStoreAssumption ==
  /\ Failures \subseteq FailureKinds
  /\ Legacy \in BOOLEAN
  /\ MaxWrites \in Nat
  /\ MaxFailures \in Nat
  /\ MaxCrashes \in Nat

VARIABLES
  file,      \* state.json as a read sees it
  durable,   \* state.json as a crash leaves it
  wal,       \* the log
  mem,       \* the in-memory maps
  pc,        \* where the store is
  flush,     \* the flush or replay under way
  last,      \* number of the latest mutation
  acked,     \* mutations reported as done, or shown to a reader
  rejected,  \* mutations reported as failed
  failures,  \* system calls that failed so far
  crashes    \* crashes so far

vars == <<file, durable, wal, mem, pc, flush, last, acked, rejected, failures, crashes>>

Mutations == 1 .. MaxWrites
Snapshots == SUBSET Mutations
Files == [fmt : {"old", "current", "rotten"}, snap : Snapshots]
\* boot: the flush of a migration, inside load.
Flush == [token : 0 .. MaxWrites, snap : Snapshots, boot : BOOLEAN]

FlushPc == {"pending", "write", "dirsync", "verify", "commit", "rollback"}
ReplayPc == {"replay", "replaySync", "replayCommit"}
Pc == {"down", "refused", "idle"} \cup FlushPc \cup ReplayPc

\* The files, the log and the flush under way have their types.
TypeOK ==
  /\ file \in Files
  /\ durable \in Files
  /\ wal \in [pendings : SUBSET [token : Mutations, snap : Snapshots],
              closings : SUBSET Mutations, torn : BOOLEAN]
  /\ mem \in Snapshots
  /\ pc \in Pc
  /\ flush \in Flush
  /\ last \in 0 .. MaxWrites
  /\ acked \in Snapshots
  /\ rejected \in Snapshots
  /\ failures \in 0 .. MaxFailures
  /\ crashes \in 0 .. MaxCrashes

NoFlush == [token |-> 0, snap |-> {}, boot |-> FALSE]

Init ==
  /\ file = [fmt |-> IF Legacy THEN "old" ELSE "current", snap |-> {}]
  /\ durable = file
  /\ wal = [pendings |-> {}, closings |-> {}, torn |-> FALSE]
  /\ mem = {}
  /\ pc = "down"
  /\ flush = NoFlush
  /\ last = 0
  /\ acked = {}
  /\ rejected = {}
  /\ failures = 0
  /\ crashes = 0

-----------------------------------------------------------------------------
(* The log *)

\* The pending record of flush f.
Pending(f) == [token |-> f.token, snap |-> f.snap]

\* Pending records that neither a commit nor a rollback closes.
scanOrphanPending(w) == {p \in w.pendings : p.token \notin w.closings}

Latest(w) ==
  CHOOSE p \in scanOrphanPending(w) :
    \A q \in scanOrphanPending(w) : q.token <= p.token

\* The log with the record that pc is about to append.
Appended ==
  CASE pc = "pending" -> [wal EXCEPT !.pendings = @ \cup {Pending(flush)}]
    [] pc \in {"commit", "rollback", "replayCommit"} ->
         [wal EXCEPT !.closings = @ \cup {flush.token}]
    [] OTHER -> wal

\* The log after an append that did not finish, other than an unchanged one.
Interrupted(synced) ==
  (IF synced THEN {} ELSE {Appended})
    \cup (IF "torn" \in Failures THEN {[wal EXCEPT !.torn = TRUE]} ELSE {})

\* System call k fails.
Fails(k) == k \in Failures /\ failures < MaxFailures /\ failures' = failures + 1

\* appendWAL returns an error.
appendFails(k) ==
  /\ Fails(k)
  /\ wal' \in {wal} \cup Interrupted("unsynced" \notin Failures)

appendWAL == wal' = Appended /\ UNCHANGED failures

-----------------------------------------------------------------------------
(* A mutation: flushFullWithReleases *)

\* Where a flush returns to: a failed migration ends the boot.
Reject ==
  /\ pc' = IF flush.boot THEN "down" ELSE "idle"
  /\ rejected' = IF flush.boot THEN rejected ELSE rejected \cup {flush.token}

\* AddApp, RemoveApp, AddVolume, RemoveVolume, CreateRelease,
\* SetObservedGeneration: the candidate snapshot of the new state.
Mutate ==
  /\ pc = "idle"
  /\ last < MaxWrites
  /\ last' = last + 1
  /\ flush' = [token |-> last + 1, snap |-> mem \cup {last + 1}, boot |-> FALSE]
  /\ pc' = "pending"
  /\ UNCHANGED <<file, durable, wal, mem, acked, rejected, failures, crashes>>

\* An error here returns before the deferred rollback is set up.
appendPending ==
  /\ pc = "pending"
  /\ \/ appendWAL /\ pc' = "write" /\ UNCHANGED rejected
     \/ appendFails("pending") /\ Reject
  /\ UNCHANGED <<file, durable, mem, flush, last, acked, crashes>>

\* Temp file, fsync, directory fsync, rename: one rename is what readers see.
WriteAndRename ==
  /\ pc = "write"
  /\ \/ /\ file' = [fmt |-> "current", snap |-> flush.snap]
        /\ pc' = "dirsync"
        /\ UNCHANGED failures
     \/ /\ Fails("write")
        /\ pc' = "rollback"
        /\ UNCHANGED file
  /\ UNCHANGED <<durable, wal, mem, flush, last, acked, rejected, crashes>>

\* faulty: the directory is not synced after the rename
fsyncDir_Skipped ==
  /\ pc = "dirsync"
  /\ pc' = "verify"
  /\ UNCHANGED <<file, durable, wal, mem, flush, last, acked, rejected, failures, crashes>>

fsyncDir ==
  /\ pc = "dirsync"
  /\ \/ durable' = file /\ pc' = "verify" /\ UNCHANGED failures
     \/ Fails("dirsync") /\ pc' = "rollback" /\ UNCHANGED durable
  /\ UNCHANGED <<file, wal, mem, flush, last, acked, rejected, crashes>>

\* faulty: a mismatch is rolled back like any other failure
ReadBack_RollsBack ==
  /\ pc = "verify"
  /\ \/ pc' = "commit" /\ UNCHANGED <<file, durable, failures>>
     \/ /\ Fails("rot")
        /\ file' \in [fmt : {"rotten", "current"}, snap : {{}}]
        /\ durable' = file'
        /\ pc' = "rollback"
  /\ UNCHANGED <<wal, mem, flush, last, acked, rejected, crashes>>

\* Read-back: a mismatch returns StorageCorruptedError and leaves the pending
\* record open; the file is undecodable, or empty.
ReadBack ==
  /\ pc = "verify"
  /\ \/ pc' = "commit" /\ UNCHANGED <<file, durable, rejected, failures>>
     \/ /\ Fails("readback")
        /\ pc' = "rollback"
        /\ UNCHANGED <<file, durable, rejected>>
     \/ /\ Fails("rot")
        /\ file' \in [fmt : {"rotten", "current"}, snap : {{}}]
        /\ durable' = file'
        /\ Reject
  /\ UNCHANGED <<wal, mem, flush, last, acked, crashes>>

\* The commit record, then the caller swaps the maps in.
appendCommit ==
  /\ pc = "commit"
  /\ \/ /\ appendWAL
        /\ mem' = flush.snap
        /\ IF flush.boot
             THEN pc' = "replay" /\ UNCHANGED acked
             ELSE pc' = "idle" /\ acked' = acked \cup {flush.token}
     \/ /\ appendFails("commit")
        /\ pc' = "rollback"
        /\ UNCHANGED <<mem, acked>>
  /\ UNCHANGED <<file, durable, flush, last, rejected, crashes>>

\* faulty: the caller is told of the error, the log is not
appendRollback_Skipped ==
  /\ pc = "rollback"
  /\ Reject
  /\ UNCHANGED <<file, durable, wal, mem, flush, last, acked, failures, crashes>>

\* The deferred rollback is best effort: its own error is dropped.
appendRollback ==
  /\ pc = "rollback"
  /\ appendWAL \/ appendFails("rollback")
  /\ Reject
  /\ UNCHANGED <<file, durable, mem, flush, last, acked, crashes>>

-----------------------------------------------------------------------------
(* Boot: NewStore *)

\* faulty: an older format is an error
load_NoMigration ==
  /\ pc = "down"
  /\ IF file.fmt = "current"
       THEN pc' = "replay" /\ mem' = file.snap
       ELSE pc' = "refused" /\ UNCHANGED mem
  /\ UNCHANGED <<file, durable, wal, flush, last, acked, rejected, failures, crashes>>

\* Undecodable: refuse.  An older format: migrate and flush.  Else: loaded.
load ==
  /\ pc = "down"
  /\ \/ /\ file.fmt = "rotten"
        /\ pc' = "refused"
        /\ UNCHANGED <<mem, flush, last>>
     \/ /\ file.fmt = "old"
        /\ last < MaxWrites
        /\ last' = last + 1
        /\ mem' = file.snap \cup {last + 1}
        /\ flush' = [token |-> last + 1, snap |-> mem', boot |-> TRUE]
        /\ pc' = "pending"
     \/ /\ file.fmt = "current"
        /\ mem' = file.snap
        /\ pc' = "replay"
        /\ UNCHANGED <<flush, last>>
  /\ UNCHANGED <<file, durable, wal, acked, rejected, failures, crashes>>

Orphans == scanOrphanPending(wal)

\* faulty: an unreadable log is tried again and again
replayWAL_Retries ==
  /\ pc = "replay"
  /\ pc' = IF wal.torn THEN "down" ELSE "idle"
  /\ acked' = IF wal.torn THEN acked ELSE acked \cup mem
  /\ UNCHANGED <<file, durable, wal, mem, flush, last, rejected, failures, crashes>>

\* Nothing to replay: the store opens.  An unreadable line: NewStore fails.
\* Otherwise the latest orphan is written as state.json.
replayWAL ==
  /\ pc = "replay"
  /\ \/ /\ wal.torn
        /\ pc' = "refused"
        /\ UNCHANGED <<file, flush, acked, failures>>
     \/ /\ ~wal.torn /\ Orphans = {}
        /\ pc' = "idle"
        /\ acked' = acked \cup mem
        /\ UNCHANGED <<file, flush, failures>>
     \/ /\ ~wal.torn /\ Orphans # {}
        /\ file' = [fmt |-> "current", snap |-> Latest(wal).snap]
        /\ flush' = [token |-> Latest(wal).token, snap |-> Latest(wal).snap,
                     boot |-> TRUE]
        /\ pc' = "replaySync"
        /\ UNCHANGED <<acked, failures>>
     \/ /\ ~wal.torn /\ Orphans # {}
        /\ Fails("replay")
        /\ pc' = "down"
        /\ UNCHANGED <<file, flush, acked>>
  /\ UNCHANGED <<durable, wal, mem, last, rejected, crashes>>

ReplaySync ==
  /\ pc = "replaySync"
  /\ \/ durable' = file /\ pc' = "replayCommit" /\ UNCHANGED failures
     \/ Fails("replay") /\ pc' = "down" /\ UNCHANGED durable
  /\ UNCHANGED <<file, wal, mem, flush, last, acked, rejected, crashes>>

\* faulty: the maps stay as load filled them
ReplayCommit_StaleMaps ==
  /\ pc = "replayCommit"
  /\ appendWAL
  /\ pc' = "idle"
  /\ acked' = acked \cup mem
  /\ UNCHANGED <<file, durable, mem, flush, last, rejected, crashes>>

\* The maps are decoded again from the payload, and its token is closed.
ReplayCommit ==
  /\ pc = "replayCommit"
  /\ mem' = flush.snap
  /\ \/ appendWAL /\ pc' = "idle" /\ acked' = acked \cup mem'
     \/ appendFails("replay") /\ pc' = "down" /\ UNCHANGED acked
  /\ UNCHANGED <<file, durable, flush, last, rejected, crashes>>

-----------------------------------------------------------------------------
(* Crashes, and the specification *)

\* kill -9 or power loss: an append under way may be lost, whole or torn, and a
\* power loss keeps or loses a rename that was not synced.
Crash ==
  /\ pc # "refused"
  /\ crashes < MaxCrashes
  /\ crashes' = crashes + 1
  /\ pc' = "down"
  /\ mem' = {}
  /\ flush' = NoFlush
  /\ \/ UNCHANGED <<file, durable>>
     \/ durable' = file /\ UNCHANGED file
     \/ file' = durable /\ UNCHANGED durable
  /\ wal' \in {wal} \cup (IF Appended = wal THEN {} ELSE Interrupted(FALSE))
  /\ UNCHANGED <<last, acked, rejected, failures>>

Step ==
  \/ Mutate \/ appendPending \/ WriteAndRename \/ fsyncDir \/ ReadBack
  \/ appendCommit \/ appendRollback
  \/ load \/ replayWAL \/ ReplaySync \/ ReplayCommit

Next == Step \/ Crash

Spec == Init /\ [][Next]_vars

\* The daemon is restarted after a crash, and no system call takes for ever.
\* No mutation has to be requested.
FairSpec == Spec /\ WF_vars(Step /\ pc # "idle")

-----------------------------------------------------------------------------
(* Properties *)

\* The store is open: between calls, or in the flush of a call.
Up == pc = "idle" \/ (pc \in FlushPc /\ ~flush.boot)

\* Whatever the open store ever reported as done, or showed to a reader, is
\* there after every later crash and boot.
Durable == pc = "idle" => acked \subseteq mem

\* "AddApp returning error implies no persistence" (wal.go): a mutation that was
\* reported as failed is not in the store, now or after a later boot.
RejectedStaysOut == pc = "idle" => mem \cap rejected = {}

\* "the in-memory cache stays at the pre-call state, matching the on-disk state"
\* (AddApp): between calls memory and state.json agree, whether the last call
\* succeeded or failed.
CacheMatchesDisk == pc = "idle" => file.fmt = "current" /\ file.snap = mem

\* The disk never lags behind memory: whichever calls failed, everything the open
\* store shows is in state.json or, when read-back found the file rotten, in a
\* pending record that was left open for the next boot.
DiskNotBehind ==
  Up => \E s \in {file.snap} \cup {p.snap : p \in Orphans} : mem \subseteq s

\* A boot leaves no orphan for the next one ("so the next boot sees nothing to
\* do", NewStore), and neither does a call.
NothingToReplay == pc = "idle" => Orphans = {}

\* "the LAST pending in the WAL is always the freshest cumulative snapshot": a
\* replay writes a snapshot that has everything reported as done.
ReplayIsFreshest ==
  pc \in {"replaySync", "replayCommit"} => acked \subseteq flush.snap

\* StorageCorruptedError: "refusing further writes".  Once read-back found the
\* file rotten, no mutation reaches the log.
NoWriteOnRottenFile ==
  [][file.fmt = "rotten" => wal'.pendings = wal.pendings]_vars

\* A crash in the middle of a flush is recovered by the next boot: a daemon that
\* keeps being restarted does not stay out of service.
BootRecovers == pc = "down" ~> pc = "idle"

\* The same where the file and the log can be read: a boot that migrates an older
\* format, or is cut short by further crashes and failing calls, ends up open.
ReadableBootRecovers ==
  pc = "down" ~> (pc = "idle" \/ file.fmt = "rotten" \/ wal.torn)

\* Whatever fails, every call returns and every boot ends: it opens the store or
\* refuses a file or a log it cannot decode.
BootDecides == pc # "idle" ~> pc \in {"idle", "refused"}

\* The store refines a set that crashes keep whole (DurableStore).
Reload(f) == IF Orphans = {} THEN f.snap ELSE Latest(wal).snap
Stored == IF Up THEN mem ELSE Reload(file)
Promise == INSTANCE DurableStore WITH stored <- Stored, up <- Up
PromiseSpec == Promise!Spec
=============================================================================
