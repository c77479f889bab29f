---------------------------- MODULE StateStoreProofs ----------------------------
(***************************************************************************)
(* Crash safety of the state store, for every number of mutations, crashes *)
(* and failures: as long as the only system calls that fail are those up   *)
(* to the rename and those of a replay, what was acknowledged survives,    *)
(* what was rejected stays out, and the store implements DurableStore.     *)
(* Whatever fails, the disk is not behind what the store shows.            *)
(***************************************************************************)
EXTENDS StateStore, TLAPS

\* The failures the write protocol is built for, on a file of the current
\* format.  Each of the others breaks one of the properties below.
Anticipated == Failures \subseteq {"pending", "write", "replay"} /\ ~Legacy

\* Snapshot s has all that was acknowledged and nothing that was rejected.
Faithful(s) == acked \subseteq s /\ s \cap rejected = {}

\* Nothing in the log, in memory or on disk is newer than the last mutation.
Past(s) == \A m \in s : m <= last
Numbered ==
  /\ \A p \in wal.pendings : p.token <= last /\ Past(p.snap)
  /\ Past(wal.closings) /\ Past(rejected)
  /\ Past(mem) /\ Past(file.snap) /\ Past(durable.snap)

\* The flush of mutation number last, on top of mem.
Flushing ==
  /\ ~flush.boot
  /\ flush.token = last
  /\ last \in Mutations
  /\ last \notin rejected \cup mem
  /\ flush.snap = mem \cup {last}
  /\ Faithful(mem)

\* Between calls and before the pending record: one snapshot everywhere.
Settled == Orphans = {} /\ durable = file /\ file.snap = mem /\ Faithful(mem)

\* Before the replay: the file is the state, or the only orphan is.
Recoverable ==
  \/ Orphans = {} /\ durable = file /\ Faithful(file.snap)
  \/ \E p \in wal.pendings : Orphans = {p} /\ Faithful(p.snap)

\* What holds at each point of the protocol.
PcInv ==
  /\ pc # "refused"
  /\ pc \in FlushPc => Flushing
  /\ pc \in {"idle", "pending"} => Settled
  /\ pc = "pending" => /\ \A p \in wal.pendings : p.token # last
                       /\ last \notin wal.closings
  /\ pc \in FlushPc \ {"pending"} => Orphans = {Pending(flush)}
  /\ pc \in {"write", "rollback"} => durable = file /\ file.snap = mem
  /\ pc = "dirsync" => file.snap = flush.snap
  /\ pc \in {"verify", "commit"} => durable = file /\ file.snap = flush.snap
  /\ pc \in {"down", "replay"} => Recoverable
  /\ pc = "replay" => mem = file.snap
  /\ pc \in {"replaySync", "replayCommit"} =>
       /\ Orphans = {Pending(flush)}
       /\ file.snap = flush.snap
       /\ Faithful(flush.snap)
  /\ pc = "replayCommit" => durable = file

\* The inductive invariant.
StoreInv ==
  /\ TypeOK
  /\ file.fmt = "current" /\ durable.fmt = "current" /\ ~wal.torn
  /\ Numbered
  /\ PcInv

-----------------------------------------------------------------------------

\* A single orphan is the one that replayWAL picks.
LEMMA LatestOnly ==
  ASSUME NEW w, NEW p, p.token \in Mutations, scanOrphanPending(w) = {p}
  PROVE  Latest(w) = p
<1>1. p.token <= p.token
  BY StateStoreAssumption DEF Mutations
<1> QED
  BY <1>1 DEF Latest

\* The store starts from an empty file and an empty log.
LEMMA InitStore == Anticipated /\ Init => StoreInv
<1> SUFFICES ASSUME Anticipated, Init PROVE StoreInv
  OBVIOUS
<1>1. TypeOK
  BY StateStoreAssumption DEF Anticipated, Init, TypeOK, Files, Snapshots, Flush,
     NoFlush, Pc, FlushPc, ReplayPc, Mutations
<1>2. Orphans = {}
  BY DEF Init, Orphans, scanOrphanPending
<1>3. PcInv
  BY <1>2 DEF Init, PcInv, FlushPc, Recoverable, Faithful, NoFlush
<1> QED
  BY <1>1, <1>3 DEF Init, StoreInv, Numbered, Past, Anticipated

\* Only the anticipated system calls fail, and a failing append leaves no trace.
LEMMA FailsOnly ==
  ASSUME Anticipated, TypeOK, NEW k
  PROVE  /\ Fails(k) => k \in {"pending", "write", "replay"}
                        /\ failures' \in 0 .. MaxFailures
         /\ appendFails(k) => Fails(k) /\ wal' = wal
         /\ Interrupted(FALSE) = {Appended}
  BY StateStoreAssumption DEF Anticipated, TypeOK, Fails, appendFails, Interrupted

LogType(w) ==
  w \in [pendings : SUBSET [token : Mutations, snap : Snapshots],
         closings : SUBSET Mutations, torn : BOOLEAN]

\* Appending the pending record opens one orphan.
LEMMA PendingOpens ==
  ASSUME StoreInv, pc = "pending"
  PROVE  /\ LogType(Appended) /\ ~Appended.torn
         /\ Pending(flush) \in Appended.pendings
         /\ scanOrphanPending(Appended) = {Pending(flush)}
         /\ \A p \in Appended.pendings : p.token <= last /\ Past(p.snap)
         /\ Past(Appended.closings)
<1>1. Appended = [wal EXCEPT !.pendings = @ \cup {Pending(flush)}]
  BY DEF Appended
<1>2. LogType(wal) /\ ~wal.torn /\ Numbered /\ last \in 0 .. MaxWrites
  BY DEF StoreInv, TypeOK, LogType
<1>3. /\ flush.token = last /\ last \in Mutations /\ flush.snap \in Snapshots
      /\ scanOrphanPending(wal) = {} /\ last \notin wal.closings
  BY DEF StoreInv, TypeOK, PcInv, Flushing, Settled, Flush, FlushPc, Orphans
<1>4. /\ Pending(flush) \in [token : Mutations, snap : Snapshots]
      /\ Pending(flush).token = last
  BY <1>3 DEF Pending
<1>5. /\ Appended.pendings = wal.pendings \cup {Pending(flush)}
      /\ Appended.closings = wal.closings
      /\ Appended.torn = wal.torn
      /\ LogType(Appended)
  BY <1>1, <1>2, <1>4 DEF LogType
<1>6. scanOrphanPending(Appended) = {Pending(flush)}
  BY <1>3, <1>4, <1>5, Zenon DEF scanOrphanPending
<1>7. last <= last /\ Past(Pending(flush).snap)
  BY <1>2, <1>3, StateStoreAssumption
  DEF StoreInv, PcInv, Flushing, FlushPc, Pending, Numbered, Past
<1> QED
  BY <1>2, <1>4, <1>5, <1>6, <1>7 DEF Numbered

\* Appending a commit or a rollback closes the only orphan.
LEMMA ClosingCloses ==
  ASSUME StoreInv, pc \in {"commit", "rollback", "replayCommit"}
  PROVE  /\ LogType(Appended) /\ ~Appended.torn
         /\ scanOrphanPending(Appended) = {}
         /\ \A p \in Appended.pendings : p.token <= last /\ Past(p.snap)
         /\ Past(Appended.closings)
<1>1. Appended = [wal EXCEPT !.closings = @ \cup {flush.token}]
  BY DEF Appended
<1>2. LogType(wal) /\ ~wal.torn /\ Numbered
  BY DEF StoreInv, TypeOK, LogType
<1>3. scanOrphanPending(wal) = {Pending(flush)}
  BY DEF StoreInv, PcInv, FlushPc, Orphans
<1>4. Pending(flush) \in wal.pendings /\ Pending(flush).token = flush.token
  BY <1>3 DEF scanOrphanPending, Pending
<1>5. flush.token \in Mutations /\ flush.token <= last
  BY <1>2, <1>4 DEF LogType, Numbered
<1>6. /\ Appended.pendings = wal.pendings
      /\ Appended.closings = wal.closings \cup {flush.token}
      /\ Appended.torn = wal.torn
      /\ LogType(Appended)
  BY <1>1, <1>2, <1>5 DEF LogType
<1>7. scanOrphanPending(Appended) = {}
  BY <1>3, <1>4, <1>6 DEF scanOrphanPending
<1> QED
  BY <1>2, <1>5, <1>6, <1>7 DEF Numbered, Past

\* At every other point no append is under way.
LEMMA NoAppend ==
  ASSUME pc \notin {"pending", "commit", "rollback", "replayCommit"}
  PROVE  Appended = wal
  BY DEF Appended

-----------------------------------------------------------------------------
\* A call takes the next number and builds on the current maps.
LEMMA MutateInv == StoreInv /\ Mutate => StoreInv'
<1> SUFFICES ASSUME StoreInv, Mutate PROVE StoreInv'
  OBVIOUS
<1>1. TypeOK'
  BY StateStoreAssumption DEF StoreInv, Mutate, TypeOK, Flush, Pc, FlushPc, Snapshots,
     Mutations
<1>2. /\ last' = last + 1 /\ last \in 0 .. MaxWrites /\ last' \in Mutations
      /\ pc' = "pending" /\ UNCHANGED <<file, durable, wal, mem, acked, rejected>>
      /\ flush'.token = last' /\ flush'.snap = mem \cup {last'} /\ ~flush'.boot
  BY StateStoreAssumption DEF StoreInv, Mutate, TypeOK, Mutations
<1>3. Settled /\ Numbered
  BY DEF StoreInv, PcInv, Mutate
<1>4. \A m \in Mutations : m <= last => m <= last' /\ m # last'
  BY <1>2, StateStoreAssumption DEF Mutations
<1>5. \A s \in Snapshots : Past(s) => Past(s)' /\ last' \notin s
  BY <1>4 DEF Past, Snapshots
<1>5a. /\ \A p \in wal.pendings : p.token \in Mutations /\ p.snap \in Snapshots
       /\ {wal.closings, rejected, mem, file.snap, durable.snap} \subseteq Snapshots
  BY DEF StoreInv, TypeOK, Snapshots, Files
<1>5b. /\ Numbered'
       /\ \A p \in wal.pendings : p.token # last'
       /\ last' \notin wal.closings \cup rejected \cup mem
  <2>1. \A p \in wal.pendings : p.token <= last' /\ Past(p.snap)' /\ p.token # last'
    BY <1>3, <1>4, <1>5, <1>5a DEF Numbered
  <2>2. \A s \in {wal.closings, rejected, mem, file.snap, durable.snap} :
          Past(s)' /\ last' \notin s
    BY <1>3, <1>5, <1>5a DEF Numbered
  <2> QED
    BY <1>2, <2>1, <2>2 DEF Numbered, Past
<1>6. Settled' /\ Flushing'
  BY <1>2, <1>3, <1>5b DEF Settled, Flushing, Faithful, Orphans
<1>7. PcInv'
  BY <1>2, <1>5b, <1>6 DEF PcInv, FlushPc
<1> QED
  BY <1>1, <1>2, <1>5b, <1>7 DEF StoreInv

\* The pending record opens the flush; without it the call is only rejected.
LEMMA PendingInv == Anticipated /\ StoreInv /\ appendPending => StoreInv'
<1> SUFFICES ASSUME Anticipated, StoreInv, appendPending PROVE StoreInv'
  OBVIOUS
<1>0. /\ pc = "pending" /\ TypeOK /\ Numbered /\ Flushing /\ Settled
      /\ UNCHANGED <<file, durable, mem, flush, last, acked, crashes>>
  BY DEF StoreInv, PcInv, appendPending, FlushPc
<1>1. CASE appendWAL /\ pc' = "write" /\ UNCHANGED rejected
  <2>1. /\ LogType(wal') /\ ~wal'.torn
        /\ Orphans' = {Pending(flush)}
        /\ \A p \in wal'.pendings : p.token <= last /\ Past(p.snap)
        /\ Past(wal'.closings)
    BY <1>0, <1>1, PendingOpens DEF appendWAL, Orphans
  <2>2. TypeOK'
    BY <1>0, <1>1, <2>1 DEF TypeOK, LogType, appendWAL, Pc, FlushPc
  <2>3. PcInv'
    BY <1>0, <1>1, <2>1, Zenon DEF PcInv, Flushing, Settled, Faithful, FlushPc, Pending
  <2> QED
    BY <1>0, <1>1, <2>1, <2>2, <2>3 DEF StoreInv, Numbered, Past
<1>2. CASE appendFails("pending") /\ Reject
  <2>1. /\ wal' = wal /\ pc' = "idle" /\ rejected' = rejected \cup {last}
        /\ failures' \in 0 .. MaxFailures
    BY <1>0, <1>2, FailsOnly, Zenon DEF Reject, Flushing
  <2>2. TypeOK'
    BY <1>0, <2>1 DEF TypeOK, Flushing, Pc, Snapshots
  <2>3. last <= last
    BY <1>0, StateStoreAssumption DEF TypeOK
  <2>4. Numbered'
    BY <1>0, <2>1, <2>3, Zenon DEF Numbered, Past
  <2>5. PcInv'
    BY <1>0, <2>1 DEF PcInv, Settled, Flushing, Faithful, Orphans, FlushPc
  <2> QED
    BY <1>0, <2>1, <2>2, <2>4, <2>5 DEF StoreInv
<1> QED
  BY <1>1, <1>2 DEF appendPending

\* The rename shows the new snapshot; a failure before it leaves the old one.
LEMMA RenameInv == Anticipated /\ StoreInv /\ WriteAndRename => StoreInv'
<1> SUFFICES ASSUME Anticipated, StoreInv, WriteAndRename PROVE StoreInv'
  OBVIOUS
<1>0. /\ pc = "write" /\ TypeOK /\ Numbered /\ Flushing
      /\ Orphans = {Pending(flush)} /\ durable = file /\ file.snap = mem
      /\ UNCHANGED <<durable, wal, mem, flush, last, acked, rejected, crashes>>
      /\ pc' \in {"dirsync", "rollback"} /\ failures' \in 0 .. MaxFailures
  BY FailsOnly, Zenon DEF StoreInv, TypeOK, PcInv, WriteAndRename, FlushPc
<1>1. /\ file' \in Files /\ file'.fmt = "current"
      /\ \/ pc' = "dirsync" /\ file'.snap = flush.snap
         \/ pc' = "rollback" /\ file' = file
  BY <1>0 DEF StoreInv, TypeOK, WriteAndRename, Files, Flush
<1>2. TypeOK'
  BY <1>0, <1>1 DEF TypeOK, Pc, FlushPc
<1>3. last <= last
  BY <1>0, StateStoreAssumption DEF TypeOK
<1>4. Numbered'
  BY <1>0, <1>1, <1>3 DEF Numbered, Past, Flushing
<1>5. PcInv'
  BY <1>0, <1>1, Zenon DEF PcInv, FlushPc, Flushing, Faithful, Orphans, Pending
<1> QED
  BY <1>0, <1>1, <1>2, <1>4, <1>5 DEF StoreInv

\* The directory sync makes it what a crash leaves; read-back finds it there.
LEMMA SyncInv == Anticipated /\ StoreInv /\ (fsyncDir \/ ReadBack) => StoreInv'
<1> SUFFICES ASSUME Anticipated, StoreInv, fsyncDir \/ ReadBack PROVE StoreInv'
  BY Zenon
<1>0. /\ pc \in {"dirsync", "verify"} /\ TypeOK /\ Numbered /\ Flushing
      /\ Orphans = {Pending(flush)} /\ file.snap = flush.snap
  BY DEF StoreInv, PcInv, fsyncDir, ReadBack, FlushPc
<1>0a. ~Fails("dirsync") /\ ~Fails("readback") /\ ~Fails("rot")
  BY DEF Fails, Anticipated
<1>1. /\ UNCHANGED <<file, wal, mem, flush, last, acked, rejected, failures, crashes>>
      /\ durable' = file /\ pc' \in {"verify", "commit"}
  <2>1. CASE fsyncDir
    BY <1>0a, <2>1, Zenon DEF fsyncDir
  <2>2. CASE ReadBack
    BY <1>0a, <2>2, Zenon DEF ReadBack, StoreInv, PcInv
  <2> QED
    BY <2>1, <2>2
<1>2. TypeOK'
  BY <1>0, <1>1, Zenon DEF TypeOK, Pc, FlushPc
<1>3. Numbered'
  BY <1>0, <1>1 DEF Numbered, Past
<1>4. PcInv'
  BY <1>0, <1>1, Zenon DEF PcInv, FlushPc, Flushing, Faithful, Orphans, Pending
<1> QED
  BY <1>0, <1>1, <1>2, <1>3, <1>4 DEF StoreInv

\* The commit closes the orphan, and the maps catch up with the file.
LEMMA CommitInv == Anticipated /\ StoreInv /\ appendCommit => StoreInv'
<1> SUFFICES ASSUME Anticipated, StoreInv, appendCommit PROVE StoreInv'
  OBVIOUS
<1>0. /\ pc = "commit" /\ TypeOK /\ Numbered /\ Flushing
      /\ durable = file /\ file.snap = flush.snap
      /\ UNCHANGED <<file, durable, flush, last, rejected, crashes>>
  BY DEF StoreInv, PcInv, appendCommit, FlushPc
<1>1. /\ wal' = Appended /\ mem' = flush.snap /\ pc' = "idle"
      /\ acked' = acked \cup {last} /\ UNCHANGED failures
  BY <1>0, FailsOnly, Zenon DEF appendCommit, appendWAL, Flushing
<1>2. /\ LogType(wal') /\ ~wal'.torn /\ Orphans' = {}
      /\ \A p \in wal'.pendings : p.token <= last /\ Past(p.snap)
      /\ Past(wal'.closings)
  BY <1>0, <1>1, ClosingCloses, Zenon DEF Orphans
<1>3. TypeOK'
  BY <1>0, <1>1, <1>2, Zenon DEF TypeOK, LogType, Pc, Flushing, Flush, Snapshots
<1>4. Numbered'
  BY <1>0, <1>1, <1>2, Zenon DEF Numbered, Past
<1>5. PcInv'
  BY <1>0, <1>1, <1>2, Zenon DEF PcInv, FlushPc, Settled, Flushing, Faithful
<1> QED
  BY <1>0, <1>1, <1>2, <1>3, <1>4, <1>5, Zenon DEF StoreInv

\* The rollback closes the orphan of a call whose rename did not happen.
LEMMA RollbackInv == Anticipated /\ StoreInv /\ appendRollback => StoreInv'
<1> SUFFICES ASSUME Anticipated, StoreInv, appendRollback PROVE StoreInv'
  OBVIOUS
<1>0. /\ pc = "rollback" /\ TypeOK /\ Numbered /\ Flushing
      /\ durable = file /\ file.snap = mem
      /\ UNCHANGED <<file, durable, mem, flush, last, acked, crashes>>
  BY DEF StoreInv, PcInv, appendRollback, FlushPc
<1>1. /\ wal' = Appended /\ pc' = "idle" /\ rejected' = rejected \cup {last}
      /\ UNCHANGED failures
  BY <1>0, FailsOnly, Zenon DEF appendRollback, appendWAL, Flushing, Reject
<1>2. /\ LogType(wal') /\ ~wal'.torn /\ Orphans' = {}
      /\ \A p \in wal'.pendings : p.token <= last /\ Past(p.snap)
      /\ Past(wal'.closings)
  BY <1>0, <1>1, ClosingCloses, Zenon DEF Orphans
<1>3. TypeOK'
  BY <1>0, <1>1, <1>2 DEF TypeOK, LogType, Pc, Flushing, Snapshots
<1>3a. last <= last
  BY <1>0, StateStoreAssumption DEF TypeOK
<1>4. Numbered'
  BY <1>0, <1>1, <1>2, <1>3a, Zenon DEF Numbered, Past
<1>5. PcInv'
  BY <1>0, <1>1, <1>2 DEF PcInv, FlushPc, Settled, Flushing, Faithful
<1> QED
  BY <1>0, <1>1, <1>2, <1>3, <1>4, <1>5, Zenon DEF StoreInv

\* A boot of a recoverable store loads it; there is no other format to load.
LEMMA LoadInv == StoreInv /\ load => StoreInv'
<1> SUFFICES ASSUME StoreInv, load PROVE StoreInv'
  OBVIOUS
<1>0. /\ TypeOK /\ Numbered /\ Recoverable
      /\ UNCHANGED <<file, durable, wal, flush, last, acked, rejected, failures, crashes>>
      /\ mem' = file.snap /\ pc' = "replay"
  BY DEF StoreInv, PcInv, load
<1>1. TypeOK'
  BY <1>0 DEF TypeOK, Pc, ReplayPc, Files
<1>2. Numbered'
  BY <1>0, Zenon DEF Numbered, Past
<1>3. PcInv'
  BY <1>0, Zenon DEF PcInv, FlushPc, Recoverable, Faithful, Orphans
<1> QED
  BY <1>0, <1>1, <1>2, <1>3, Zenon DEF StoreInv

\* The store opens on the file, or the only orphan is written to the file.
LEMMA ReplayInv == Anticipated /\ StoreInv /\ replayWAL => StoreInv'
<1> SUFFICES ASSUME Anticipated, StoreInv, replayWAL PROVE StoreInv'
  OBVIOUS
<1>0. /\ pc = "replay" /\ TypeOK /\ Numbered /\ Recoverable /\ ~wal.torn
      /\ mem = file.snap /\ file.fmt = "current"
      /\ UNCHANGED <<durable, wal, mem, last, rejected, crashes>>
  BY Zenon DEF StoreInv, PcInv, replayWAL
<1>1. CASE Orphans = {} /\ pc' = "idle" /\ acked' = acked \cup mem
           /\ UNCHANGED <<file, flush, failures>>
  <2>1. TypeOK'
    BY <1>0, <1>1, Zenon DEF TypeOK, Pc, Snapshots
  <2>2. Numbered'
    BY <1>0, <1>1, Zenon DEF Numbered, Past
  <2>3. Settled'
    BY <1>0, <1>1, Zenon DEF Recoverable, Settled, Faithful, Orphans
  <2>4. PcInv'
    BY <1>0, <1>1, <2>3, Zenon DEF PcInv, FlushPc
  <2> QED
    BY <1>0, <1>1, <2>1, <2>2, <2>4, Zenon DEF StoreInv
<1>2. CASE /\ Orphans # {}
           /\ file' = [fmt |-> "current", snap |-> Latest(wal).snap]
           /\ flush' = [token |-> Latest(wal).token, snap |-> Latest(wal).snap,
                        boot |-> TRUE]
           /\ pc' = "replaySync"
           /\ UNCHANGED <<acked, failures>>
  <2>1. PICK p \in wal.pendings : Orphans = {p} /\ Faithful(p.snap)
    BY <1>0, <1>2 DEF Recoverable
  <2>2. Latest(wal) = p
    BY <1>0, <2>1, LatestOnly, Zenon DEF TypeOK, Orphans
  <2>3. p \in [token : Mutations, snap : Snapshots] /\ Past(p.snap)
    BY <1>0, Zenon DEF TypeOK, Numbered
  <2>4. TypeOK'
    BY <1>0, <1>2, <2>2, <2>3, StateStoreAssumption
    DEF TypeOK, Pc, ReplayPc, Files, Flush, Mutations
  <2>5. Numbered'
    BY <1>0, <1>2, <2>2, <2>3, Zenon DEF Numbered, Past
  <2>6. Pending(flush') = p
    BY <1>2, <2>2, <2>3, Zenon DEF Pending
  <2>7. PcInv'
    BY <1>0, <1>2, <2>1, <2>2, <2>6, Zenon DEF PcInv, FlushPc, Faithful, Orphans, Pending
  <2> QED
    BY <1>0, <1>2, <2>4, <2>5, <2>7, Zenon DEF StoreInv
<1>3. CASE Fails("replay") /\ pc' = "down" /\ UNCHANGED <<file, flush, acked>>
  <2>1. TypeOK'
    BY <1>0, <1>3, FailsOnly, Zenon DEF TypeOK, Pc
  <2>2. Numbered'
    BY <1>0, <1>3, Zenon DEF Numbered, Past
  <2>3. PcInv'
    BY <1>0, <1>3, Zenon DEF PcInv, FlushPc, Recoverable, Faithful, Orphans
  <2> QED
    BY <1>0, <1>3, <2>1, <2>2, <2>3 DEF StoreInv
<1> QED
  BY <1>0, <1>1, <1>2, <1>3, Zenon DEF replayWAL

\* The replayed file is synced and its token closed, or the next boot does it.
LEMMA ReplayEndInv ==
  Anticipated /\ StoreInv /\ (ReplaySync \/ ReplayCommit) => StoreInv'
<1> SUFFICES ASSUME Anticipated, StoreInv, ReplaySync \/ ReplayCommit PROVE StoreInv'
  OBVIOUS
<1>0. /\ TypeOK /\ Numbered /\ Orphans = {Pending(flush)}
      /\ file.snap = flush.snap /\ Faithful(flush.snap) /\ ~wal.torn
      /\ UNCHANGED <<file, flush, last, rejected, crashes>>
      /\ Pending(flush) \in wal.pendings /\ Pending(flush).snap = flush.snap
  <2>1. Orphans = {Pending(flush)} /\ Pending(flush).snap = flush.snap
    BY DEF StoreInv, PcInv, ReplaySync, ReplayCommit, Pending
  <2>2. Pending(flush) \in wal.pendings
    BY <2>1, Zenon DEF Orphans, scanOrphanPending
  <2> QED
    BY <2>1, <2>2, Zenon DEF StoreInv, PcInv, ReplaySync, ReplayCommit
<1>1. CASE ReplaySync
  <2>1. /\ UNCHANGED <<wal, mem, acked>> /\ failures' \in 0 .. MaxFailures
        /\ \/ durable' = file /\ pc' = "replayCommit"
           \/ durable' = durable /\ pc' = "down"
    BY <1>0, <1>1, FailsOnly, Zenon DEF ReplaySync, TypeOK
  <2>2. TypeOK' /\ Numbered' /\ durable'.fmt = "current"
    BY <1>0, <2>1, Zenon DEF StoreInv, TypeOK, Pc, ReplayPc, Numbered, Past
  <2>3. PcInv'
    BY <1>0, <2>1, Zenon DEF PcInv, FlushPc, Recoverable, Faithful, Orphans, Pending
  <2> QED
    BY <1>0, <2>1, <2>2, <2>3 DEF StoreInv
<1>2. CASE ReplayCommit /\ appendWAL /\ pc' = "idle" /\ acked' = acked \cup mem'
  <2>1. /\ pc = "replayCommit" /\ mem' = flush.snap /\ wal' = Appended
        /\ durable = file /\ UNCHANGED <<durable, failures>>
    BY <1>2, Zenon DEF ReplayCommit, appendWAL, StoreInv, PcInv
  <2>2. /\ LogType(wal') /\ ~wal'.torn /\ Orphans' = {}
        /\ \A p \in wal'.pendings : p.token <= last /\ Past(p.snap)
        /\ Past(wal'.closings)
    BY <2>1, ClosingCloses, Zenon DEF Orphans
  <2>3. TypeOK'
    BY <1>0, <1>2, <2>1, <2>2, Zenon DEF TypeOK, LogType, Pc, Flush, Snapshots
  <2>4. Numbered'
    BY <1>0, <2>1, <2>2, Zenon DEF Numbered, Past
  <2>5. PcInv'
    BY <1>0, <1>2, <2>1, <2>2, Zenon DEF PcInv, FlushPc, Settled, Faithful
  <2> QED
    BY <1>0, <2>1, <2>2, <2>3, <2>4, <2>5, Zenon DEF StoreInv
<1>3. CASE ReplayCommit /\ appendFails("replay") /\ pc' = "down" /\ UNCHANGED acked
  <2>1. /\ mem' = flush.snap /\ wal' = wal /\ failures' \in 0 .. MaxFailures
        /\ UNCHANGED durable
    BY <1>0, <1>3, FailsOnly, Zenon DEF ReplayCommit
  <2>2. TypeOK'
    BY <1>0, <1>3, <2>1, Zenon DEF TypeOK, Pc, Flush
  <2>3. Numbered'
    BY <1>0, <2>1, Zenon DEF Numbered, Past
  <2>4. PcInv'
    BY <1>0, <1>3, <2>1, Zenon DEF PcInv, FlushPc, Recoverable, Faithful, Orphans
  <2> QED
    BY <1>0, <2>1, <2>2, <2>3, <2>4 DEF StoreInv
<1> QED
  BY <1>1, <1>2, <1>3, Zenon DEF ReplayCommit

\* A crash at any point leaves a recoverable store.
LEMMA CrashInv == Anticipated /\ StoreInv /\ Crash => StoreInv'
<1> SUFFICES ASSUME Anticipated, StoreInv, Crash PROVE StoreInv'
  OBVIOUS
<1>0. /\ TypeOK /\ Numbered /\ ~wal.torn
      /\ file.fmt = "current" /\ durable.fmt = "current"
      /\ pc' = "down" /\ mem' = {} /\ flush' = NoFlush
      /\ UNCHANGED <<last, acked, rejected, failures>>
      /\ crashes' \in 0 .. MaxCrashes
  BY StateStoreAssumption DEF StoreInv, TypeOK, Crash
<1>1. file' \in {file, durable} /\ durable' \in {file, durable}
  BY DEF Crash
<1>2. \/ wal' = wal
      \/ wal' = Appended /\ pc \in {"pending", "commit", "rollback", "replayCommit"}
  BY <1>0, FailsOnly, NoAppend, Zenon DEF Crash
<1>3. /\ LogType(wal') /\ ~wal'.torn
      /\ \A p \in wal'.pendings : p.token <= last /\ Past(p.snap)
      /\ Past(wal'.closings)
  <2>1. CASE wal' = wal
    BY <1>0, <2>1, Zenon DEF TypeOK, LogType, Numbered
  <2>2. CASE wal' = Appended /\ pc = "pending"
    BY <2>2, PendingOpens, Zenon
  <2>3. CASE wal' = Appended /\ pc \in {"commit", "rollback", "replayCommit"}
    BY <2>3, ClosingCloses, Zenon
  <2> QED
    BY <1>2, <2>1, <2>2, <2>3, Zenon
<1>4. TypeOK'
  BY <1>0, <1>1, <1>3, StateStoreAssumption
  DEF TypeOK, LogType, Pc, Flush, NoFlush, Snapshots
<1>5. Numbered'
  BY <1>0, <1>1, <1>3, Zenon DEF Numbered, Past
<1>6. pc \in FlushPc => Faithful(flush.snap) /\ Pending(flush).snap = flush.snap
  BY DEF StoreInv, PcInv, Flushing, Faithful, Pending
<1>7. Recoverable'
  <2>1. CASE wal' = wal /\ pc \in {"idle", "pending", "down", "replay"}
    <3>1. \/ Orphans = {} /\ durable = file /\ Faithful(file.snap)
          \/ \E p \in wal.pendings : Orphans = {p} /\ Faithful(p.snap)
      BY <2>1, Zenon DEF StoreInv, PcInv, Settled, Recoverable
    <3> QED
      BY <1>0, <1>1, <2>1, <3>1 DEF Recoverable, Orphans, Faithful
  <2>2. CASE wal' = wal /\ pc \notin {"idle", "pending", "down", "replay"}
    <3>1. /\ Orphans = {Pending(flush)} /\ Faithful(flush.snap)
          /\ Pending(flush).snap = flush.snap
      BY <1>0, <1>6, <2>2, Zenon
      DEF StoreInv, TypeOK, PcInv, Pc, FlushPc, ReplayPc, Pending
    <3>2. Pending(flush) \in wal.pendings
      BY <3>1 DEF Orphans, scanOrphanPending
    <3>3. Orphans' = Orphans
      BY <2>2, Zenon DEF Orphans
    <3> QED
      BY <1>0, <2>2, <3>1, <3>2, <3>3, Zenon DEF Recoverable, Faithful
  <2>3. CASE wal' = Appended /\ pc = "pending"
    <3>1. Pending(flush) \in wal'.pendings /\ Orphans' = {Pending(flush)}
      BY <2>3, PendingOpens, Zenon DEF Orphans
    <3> QED
      BY <1>0, <1>6, <2>3, <3>1, Zenon DEF Recoverable, Faithful, FlushPc
  <2>4. CASE wal' = Appended /\ pc \in {"commit", "rollback", "replayCommit"}
    <3>1. Orphans' = {}
      BY <2>4, ClosingCloses, Zenon DEF Orphans
    <3>2. durable = file /\ Faithful(file.snap)
      BY <1>6, <2>4, Zenon DEF StoreInv, PcInv, FlushPc, Flushing
    <3> QED
      BY <1>0, <1>1, <3>1, <3>2, Zenon DEF Recoverable, Faithful
  <2> QED
    BY <1>2, <2>1, <2>2, <2>3, <2>4, Zenon
<1>8. PcInv'
  BY <1>0, <1>7 DEF PcInv, FlushPc
<1> QED
  BY <1>0, <1>1, <1>3, <1>4, <1>5, <1>8, Zenon DEF StoreInv

\* Every step keeps the invariant.
LEMMA NextStore == Anticipated /\ StoreInv /\ [Next]_vars => StoreInv'
<1> SUFFICES ASSUME Anticipated, StoreInv, [Next]_vars PROVE StoreInv'
  BY ZenonT(60)
<1>1. CASE UNCHANGED vars
  BY <1>1, ZenonT(60) DEF vars, StoreInv, TypeOK, Numbered, Past, PcInv, Flushing, Settled,
     Recoverable, Faithful, Orphans
<1>2. CASE Next
  BY <1>2, MutateInv, PendingInv, RenameInv, SyncInv, CommitInv, RollbackInv,
     LoadInv, ReplayInv, ReplayEndInv, CrashInv DEF Next, Step
<1> QED
  BY <1>1, <1>2

\* The inductive invariant holds in every reachable state.
THEOREM StoreInvariance == Anticipated => (Spec => []StoreInv)
<1> SUFFICES ASSUME Anticipated PROVE Spec => []StoreInv
  OBVIOUS
<1>1. Init => StoreInv
  BY InitStore
<1>2. StoreInv /\ [Next]_vars => StoreInv'
  BY NextStore
<1> QED
  BY <1>1, <1>2, PTL DEF Spec

\* What AddApp and the other mutations acknowledged, and what a boot has shown,
\* survives any number of crashes and of failures before the rename.
THEOREM AcknowledgedSurvives == Anticipated => (Spec => []Durable)
<1>1. StoreInv => Durable
  BY Zenon DEF StoreInv, PcInv, Settled, Faithful, Durable
<1> QED
  BY <1>1, StoreInvariance, PTL

\* A mutation whose call returned an error never appears, not even after a boot.
THEOREM RejectedNeverAppears == Anticipated => (Spec => []RejectedStaysOut)
<1>1. StoreInv => RejectedStaysOut
  BY Zenon DEF StoreInv, PcInv, Settled, Faithful, RejectedStaysOut
<1> QED
  BY <1>1, StoreInvariance, PTL

\* Between calls the maps, state.json and the log agree.
THEOREM CacheIsTheFile ==
  Anticipated => (Spec => [](CacheMatchesDisk /\ NothingToReplay))
<1>1. StoreInv => CacheMatchesDisk /\ NothingToReplay
  BY Zenon DEF StoreInv, PcInv, Settled, CacheMatchesDisk, NothingToReplay
<1> QED
  BY <1>1, StoreInvariance, PTL

-----------------------------------------------------------------------------
(* The store implements DurableStore *)

\* What a reader sees: the maps while the store is open; otherwise the only
\* orphan if there is one, and the file if there is none.
LEMMA StoredIs ==
  ASSUME StoreInv
  PROVE  /\ pc \in FlushPc \cup {"idle"} => Up /\ Stored = mem
         /\ pc \in {"down"} \cup ReplayPc => ~Up
         /\ ~Up /\ Orphans = {} => Stored = file.snap
         /\ \A p \in wal.pendings : ~Up /\ Orphans = {p} => Stored = p.snap
<1>1. pc \in FlushPc \cup {"idle"} => Up /\ Stored = mem
  BY DEF StoreInv, PcInv, Flushing, Up, Stored
<1>2. pc \in {"down"} \cup ReplayPc => ~Up
  BY DEF Up, FlushPc, ReplayPc
<1>3. ~Up /\ Orphans = {} => Stored = file.snap
  BY Zenon DEF Stored, Reload
<1>4. \A p \in wal.pendings : ~Up /\ Orphans = {p} => Stored = p.snap
  BY LatestOnly DEF StoreInv, TypeOK, Stored, Reload, Orphans
<1> QED
  BY <1>1, <1>2, <1>3, <1>4, Zenon

\* While a call runs, only its commit changes what a reader sees.
LEMMA CallRefines ==
  ASSUME Anticipated, StoreInv, StoreInv',
         \/ Mutate \/ appendPending \/ WriteAndRename \/ fsyncDir \/ ReadBack
         \/ appendCommit \/ appendRollback
  PROVE  [Promise!Next]_(Promise!vars)
<1>1. /\ pc \in FlushPc \cup {"idle"} /\ pc' \in FlushPc \cup {"idle"}
      /\ \/ mem' = mem
         \/ last \in Mutations /\ mem' = mem \cup {last}
  <2>1. pc \in FlushPc => ~flush.boot /\ last \in Mutations /\ flush.snap = mem \cup {last}
    BY Zenon DEF StoreInv, PcInv, Flushing
  <2> QED
    BY <2>1, Zenon DEF Mutate, appendPending, WriteAndRename, fsyncDir, ReadBack,
       appendCommit, appendRollback, Reject, FlushPc
<1>2. Up /\ Stored = mem
  BY <1>1, StoredIs, Zenon
<1>3. Up' /\ Stored' = mem'
  BY <1>1, Zenon DEF StoreInv, PcInv, Flushing, Up, Stored
<1> QED
  BY <1>1, <1>2, <1>3, Zenon DEF Promise!Next, Promise!vars, Promise!Write

\* A boot changes nothing but that the store is open in the end.
LEMMA BootRefines ==
  ASSUME Anticipated, StoreInv, StoreInv',
         load \/ replayWAL \/ ReplaySync \/ ReplayCommit
  PROVE  [Promise!Next]_(Promise!vars)
<1>0. ~Up
  BY StoredIs, Zenon DEF load, replayWAL, ReplaySync, ReplayCommit, ReplayPc
<1>1. Stored' = Stored
  <2>1. CASE ~Up' /\ UNCHANGED <<file, wal>>
    BY <1>0, <2>1, SMTT(30) DEF Stored, Reload, Orphans
  <2>2. CASE replayWAL /\ Orphans = {} /\ pc' = "idle"
    BY <1>0, <2>2, StoredIs, Zenon DEF replayWAL, StoreInv, PcInv, Stored, Up
  <2>3. CASE replayWAL /\ Orphans # {} /\ pc' = "replaySync"
    <3>1. ~Up' /\ wal' = wal
      BY <2>3, Zenon DEF replayWAL, Up, FlushPc
    <3> QED
      BY <1>0, <2>3, <3>1, Zenon DEF Stored, Reload, Orphans
  <2>4. CASE ReplayCommit /\ appendWAL /\ pc' = "idle"
    <3>1. Orphans = {Pending(flush)} /\ Pending(flush).snap = flush.snap
      BY <2>4, Zenon DEF ReplayCommit, StoreInv, PcInv, Pending
    <3>2. Stored = flush.snap
      BY <1>0, <3>1, StoredIs, Zenon DEF Orphans, scanOrphanPending
    <3> QED
      BY <2>4, <3>2, Zenon DEF ReplayCommit, Stored, Up
  <2>5. load => ~Up' /\ UNCHANGED <<file, wal>>
    BY Zenon DEF load, StoreInv, PcInv, Up, FlushPc
  <2>6. ReplaySync => ~Up' /\ UNCHANGED <<file, wal>>
    BY Zenon DEF ReplaySync, Up, FlushPc
  <2>7. replayWAL => \/ Orphans = {} /\ pc' = "idle"
                     \/ Orphans # {} /\ pc' = "replaySync"
                     \/ ~Up' /\ UNCHANGED <<file, wal>>
    BY SMTT(30) DEF replayWAL, StoreInv, Up, FlushPc
  <2>8. ReplayCommit => \/ appendWAL /\ pc' = "idle"
                        \/ ~Up' /\ UNCHANGED <<file, wal>>
    <3>1. appendFails("replay") => wal' = wal
      BY FailsOnly, ZenonT(60) DEF StoreInv
    <3> QED
      BY <3>1, Zenon DEF ReplayCommit, Up, FlushPc
  <2> QED
    BY <2>1, <2>2, <2>3, <2>4, <2>5, <2>6, <2>7, <2>8, Zenon
<1> QED
  BY <1>0, <1>1, Zenon DEF Promise!Next, Promise!vars, Promise!Open, Up

\* A crash keeps what a reader saw, and may keep the mutation under way.
LEMMA CrashRefines ==
  ASSUME Anticipated, StoreInv, StoreInv', Crash
  PROVE  [Promise!Next]_(Promise!vars)
<1>0. TypeOK /\ ~Up'
  BY DEF StoreInv, Crash, Up, FlushPc
<1>0a. Up \in BOOLEAN /\ Up' \in BOOLEAN
  BY Zenon DEF Up
<1>1. /\ Orphans' = {} => Stored' = file'.snap
      /\ \A p : Orphans' = {p} => Stored' = p.snap
  <2>1. Orphans' = {} => Stored' = file'.snap
    BY <1>0, Zenon DEF Stored, Reload
  <2>2. ASSUME NEW p, Orphans' = {p} PROVE Stored' = p.snap
    <3>1. p \in wal'.pendings /\ scanOrphanPending(wal') = {p}
      BY <2>2, Zenon DEF Orphans, scanOrphanPending
    <3>2. p.token \in Mutations
      BY <3>1, Zenon DEF StoreInv, TypeOK
    <3> QED
      BY <1>0, <2>2, <3>1, <3>2, LatestOnly, Zenon DEF Stored, Reload
  <2> QED
    BY <2>1, <2>2, Zenon
<1>2. file' \in {file, durable}
  BY DEF Crash
<1>3. \/ wal' = wal /\ Orphans' = Orphans
      \/ wal' = Appended /\ pc \in {"pending", "commit", "rollback", "replayCommit"}
  BY <1>0, FailsOnly, NoAppend, Zenon DEF Crash, Orphans
<1>4. CASE pc \in FlushPc \cup {"idle"}
  <2>1. Up /\ Stored = mem
    BY <1>4, StoredIs, Zenon
  <2>2. \/ Stored' = mem
        \/ last \in Mutations /\ Stored' = mem \cup {last}
    <3>1. pc \in FlushPc => /\ last \in Mutations /\ flush.snap = mem \cup {last}
                            /\ Pending(flush).snap = flush.snap
      BY Zenon DEF StoreInv, PcInv, Flushing, Pending
    <3>2. CASE pc = "idle"
      BY <1>1, <1>2, <1>3, <3>2, Zenon DEF StoreInv, PcInv, Settled
    <3>3. CASE pc = "pending"
      <4>1. CASE wal' = wal
        BY <1>1, <1>2, <1>3, <3>3, <4>1, Zenon DEF StoreInv, PcInv, Settled, Orphans
      <4>2. CASE wal' = Appended
        <5>1. Orphans' = {Pending(flush)}
          BY <3>3, <4>2, PendingOpens, Zenon DEF Orphans
        <5> QED
          BY <1>1, <3>1, <3>3, <5>1, Zenon DEF FlushPc
      <4> QED
        BY <1>3, <4>1, <4>2, Zenon
    <3>4. CASE pc \in FlushPc \ {"pending"}
      <4>1. CASE Orphans' = Orphans
        BY <1>1, <3>1, <3>4, <4>1, Zenon DEF StoreInv, PcInv
      <4>2. CASE wal' = Appended /\ pc \in {"commit", "rollback"}
        <5>1. Orphans' = {}
          BY <4>2, ClosingCloses, ZenonT(60) DEF Orphans
        <5>2. durable = file /\ file.snap \in {mem, flush.snap}
          BY <4>2 DEF StoreInv, PcInv
        <5> QED
          BY <1>1, <1>2, <3>1, <3>4, <5>1, <5>2, Zenon
      <4> QED
        BY <1>3, <3>4, <4>1, <4>2, Zenon DEF FlushPc
    <3> QED
      BY <1>4, <3>2, <3>3, <3>4, Zenon
  <2> QED
    BY <1>0, <1>0a, <2>1, <2>2, Zenon
    DEF Promise!Next, Promise!vars, Promise!Crash, Promise!CrashKeeping
<1>5. CASE pc \in {"down"} \cup ReplayPc
  <2>1. ~Up
    BY <1>5, StoredIs
  <2>2. Stored' = Stored
    <3>1. CASE Orphans' = Orphans /\ Orphans = {}
      <4>1. durable = file
        BY <1>5, <3>1, Zenon DEF StoreInv, PcInv, Recoverable, ReplayPc
      <4> QED
        BY <1>1, <1>2, <2>1, <3>1, <4>1, StoredIs, Zenon
    <3>2. CASE Orphans' = Orphans /\ Orphans # {}
      <4>1. \E p \in wal.pendings : Orphans = {p}
        <5>1. CASE pc \in {"down", "replay"}
          BY <3>2, <5>1, Zenon DEF StoreInv, PcInv, Recoverable
        <5>2. CASE pc \in {"replaySync", "replayCommit"}
          BY <5>2, Zenon DEF StoreInv, PcInv, Orphans, scanOrphanPending
        <5> QED
          BY <1>5, <5>1, <5>2, Zenon DEF ReplayPc
      <4> QED
        BY <1>1, <2>1, <3>2, <4>1, StoredIs, Zenon
    <3>3. CASE wal' = Appended /\ pc = "replayCommit"
      <4>1. Orphans' = {}
        BY <3>3, ClosingCloses, Zenon DEF Orphans
      <4>2. /\ durable = file /\ file.snap = flush.snap
            /\ Orphans = {Pending(flush)} /\ Pending(flush).snap = flush.snap
        BY <3>3, Zenon DEF StoreInv, PcInv, Pending
      <4>3. Pending(flush) \in wal.pendings
        BY <4>2 DEF Orphans, scanOrphanPending
      <4> QED
        BY <1>1, <1>2, <2>1, <4>1, <4>2, <4>3, StoredIs, Zenon
    <3> QED
      BY <1>3, <1>5, <3>1, <3>2, <3>3, Zenon DEF ReplayPc
  <2> QED
    BY <1>0, <1>0a, <2>1, <2>2, Zenon DEF Promise!vars
<1> QED
  BY <1>0, <1>4, <1>5, Zenon DEF StoreInv, TypeOK, PcInv, Pc

\* Under the failures it is built for, the store is a set of mutations that
\* crashes keep whole: each mutation is atomic and, once acknowledged, durable.
THEOREM StoreIsDurable == Anticipated => (Spec => PromiseSpec)
<1> SUFFICES ASSUME Anticipated PROVE Spec => Promise!Spec
  BY ZenonT(60) DEF PromiseSpec
<1>1. Init => Promise!Init
  <2> SUFFICES ASSUME Init PROVE Promise!Init
    BY Zenon
  <2>1. ~Up /\ Orphans = {}
    BY DEF Init, Up, FlushPc, Orphans, scanOrphanPending
  <2> QED
    BY <2>1 DEF Init, Promise!Init, Stored, Reload
<1>2. StoreInv /\ StoreInv' /\ [Next]_vars => [Promise!Next]_(Promise!vars)
  <2> SUFFICES ASSUME StoreInv, StoreInv', [Next]_vars
               PROVE  [Promise!Next]_(Promise!vars)
    BY Zenon
  <2>1. CASE UNCHANGED vars
    BY <2>1, Zenon DEF vars, Promise!vars, Stored, Up, Reload, Orphans
  <2>2. CASE Next
    BY <2>2, CallRefines, BootRefines, CrashRefines DEF Next, Step
  <2> QED
    BY <2>1, <2>2
<1>3. Spec => []StoreInv
  BY StoreInvariance
<1> QED
  BY <1>1, <1>2, <1>3, PTL DEF Spec, Promise!Spec
-----------------------------------------------------------------------------
(* Whatever fails: the disk is not behind memory *)

\* The maps are in state.json, or in an orphan.
OnDisk == mem \subseteq file.snap \/ \E p \in Orphans : mem \subseteq p.snap

\* The same, without the orphan of token t.
Covered(t) ==
  \/ mem \subseteq file.snap
  \/ \E p \in Orphans : p.token # t /\ mem \subseteq p.snap

\* Tokens are handed out in order.
Issued(w) == (\A p \in w.pendings : p.token <= last) /\ (\A t \in w.closings : t <= last)

\* A log that lost no orphan but that of the flush under way.
Extends(w) ==
  /\ LogType(w) /\ Issued(w)
  /\ \A p \in Orphans : p.token # flush.token => p \in scanOrphanPending(w)

\* What holds at each point of the protocol.
DiskPc ==
  /\ pc = "idle" => OnDisk
  /\ pc \in {"pending", "write", "rollback"} /\ ~flush.boot => Covered(flush.token)
  /\ pc \in FlushPc => mem \subseteq flush.snap
  /\ pc \in FlushPc \cup {"replaySync", "replayCommit"} => flush.token \in Mutations
  /\ pc = "pending" => flush.token \notin wal.closings
  /\ pc \in {"write", "dirsync", "verify"} => Pending(flush) \in Orphans
  /\ pc \in {"dirsync", "verify", "commit", "replaySync", "replayCommit"} =>
       file.snap = flush.snap
  /\ pc = "replay" => mem = file.snap

\* The inductive invariant, for any set of failures and any format at boot.
DiskInv == TypeOK /\ Issued(wal) /\ flush.token <= last /\ DiskPc

\* A new file and no log.
LEMMA InitDisk == Init => DiskInv
<1> SUFFICES ASSUME Init PROVE DiskInv
  OBVIOUS
<1>1. TypeOK
  BY StateStoreAssumption DEF Init, TypeOK, Files, Snapshots, Flush,
     NoFlush, Pc, FlushPc, ReplayPc, Mutations
<1>2. Issued(wal) /\ flush.token <= last
  BY DEF Init, Issued, NoFlush
<1>3. DiskPc
  BY DEF Init, DiskPc, FlushPc
<1> QED
  BY <1>1, <1>2, <1>3 DEF DiskInv

\* An append, finished or not, loses no orphan of another flush.
LEMMA AppendKeeps ==
  ASSUME DiskInv
  PROVE  /\ Extends(wal) /\ Extends(Appended)
         /\ \A k : appendFails(k) => Extends(wal') /\ failures' \in 0 .. MaxFailures
<1>1. LogType(wal) /\ Issued(wal) /\ last \in 0 .. MaxWrites /\ flush.token <= last /\ flush \in Flush
  BY DEF DiskInv, TypeOK, LogType
<1>2. Extends(wal)
  BY <1>1, Zenon DEF Extends, Orphans
<1>3. Extends(Appended)
  <2>1. CASE pc = "pending"
    <3>1. /\ Appended.pendings = wal.pendings \cup {Pending(flush)}
          /\ Appended.closings = wal.closings /\ Appended.torn = wal.torn
          /\ Appended = [wal EXCEPT !.pendings = @ \cup {Pending(flush)}]
      BY <1>1, <2>1 DEF Appended, LogType
    <3>2. Pending(flush) \in [token : Mutations, snap : Snapshots] /\ Pending(flush).token <= last
      BY <1>1, <2>1 DEF DiskInv, DiskPc, FlushPc, Pending, Flush
    <3>3. LogType(Appended) /\ Issued(Appended)
      BY <1>1, <3>1, <3>2 DEF LogType, Issued
    <3> QED
      BY <3>1, <3>3 DEF Extends, Orphans, scanOrphanPending
  <2>2. CASE pc \in {"commit", "rollback", "replayCommit"}
    <3>1. /\ Appended.pendings = wal.pendings
          /\ Appended.closings = wal.closings \cup {flush.token} /\ Appended.torn = wal.torn
          /\ Appended = [wal EXCEPT !.closings = @ \cup {flush.token}]
      BY <1>1, <2>2 DEF Appended, LogType
    <3>2. flush.token \in Mutations
      BY <2>2 DEF DiskInv, DiskPc, FlushPc
    <3>3. LogType(Appended) /\ Issued(Appended)
      BY <1>1, <3>1, <3>2 DEF LogType, Issued
    <3> QED
      BY <3>1, <3>3 DEF Extends, Orphans, scanOrphanPending
  <2>3. CASE pc \notin {"pending", "commit", "rollback", "replayCommit"}
    BY <1>2, <2>3, NoAppend, Zenon
  <2> QED
    BY <2>1, <2>2, <2>3, Zenon
<1>4. Extends([wal EXCEPT !.torn = TRUE])
  <2>1. /\ [wal EXCEPT !.torn = TRUE].pendings = wal.pendings
        /\ [wal EXCEPT !.torn = TRUE].closings = wal.closings
        /\ LogType([wal EXCEPT !.torn = TRUE])
    BY <1>1, Zenon DEF LogType
  <2> QED
    BY <1>1, <2>1 DEF Extends, Issued, Orphans, scanOrphanPending
<1>5. ASSUME NEW k, appendFails(k) PROVE Extends(wal') /\ failures' \in 0 .. MaxFailures
  <2>1. wal' \in {wal, Appended, [wal EXCEPT !.torn = TRUE]}
    BY <1>5, Zenon DEF appendFails, Interrupted
  <2>2. Fails(k) /\ failures \in 0 .. MaxFailures
    BY <1>5, Zenon DEF appendFails, DiskInv, TypeOK
  <2>3. failures' \in 0 .. MaxFailures
    BY <2>2, StateStoreAssumption DEF Fails
  <2> QED
    BY <1>2, <1>3, <1>4, <2>1, <2>3, Zenon
<1> QED
  BY <1>2, <1>3, <1>5, Zenon

\* A system call that fails is counted.
LEMMA FailsCounted ==
  ASSUME DiskInv, NEW k, Fails(k)
  PROVE  failures' \in 0 .. MaxFailures
  BY StateStoreAssumption DEF DiskInv, TypeOK, Fails

\* What covers the maps in an orphan of another flush goes on covering them.
LEMMA CoverKept ==
  ASSUME Covered(flush.token), Extends(wal'), UNCHANGED <<mem, file, flush>>
  PROVE  Covered(flush.token)' /\ OnDisk'
  BY Zenon DEF Covered, OnDisk, Extends, Orphans

\* A call takes a token that no record has, on top of the maps.
LEMMA MutateDisk == DiskInv /\ Mutate => DiskInv'
<1> SUFFICES ASSUME DiskInv, Mutate PROVE DiskInv'
  OBVIOUS
<1>1. TypeOK'
  BY StateStoreAssumption DEF DiskInv, Mutate, TypeOK, Flush, Pc, FlushPc, Snapshots,
     Mutations
<1>2. /\ last' = last + 1 /\ last \in 0 .. MaxWrites /\ last' \in Mutations
      /\ pc' = "pending" /\ UNCHANGED <<file, wal, mem>>
      /\ flush'.token = last' /\ flush'.snap = mem \cup {last'}
  BY StateStoreAssumption, SMTT(60) DEF DiskInv, Mutate, TypeOK, Mutations
<1>3. OnDisk /\ Issued(wal) /\ LogType(wal)
  BY DEF DiskInv, DiskPc, Mutate, TypeOK, LogType
<1>4. \A m \in Mutations : m <= last => m <= last' /\ m # last'
  BY <1>2, StateStoreAssumption DEF Mutations
<1>5. /\ \A p \in wal.pendings : p.token <= last' /\ p.token # last'
      /\ \A t \in wal.closings : t <= last' /\ t # last'
  BY <1>3, <1>4 DEF Issued, LogType
<1>6. Issued(wal)' /\ last' <= last'
  BY <1>2, <1>5, StateStoreAssumption DEF Issued, Mutations
<1>7. Covered(flush.token)'
  BY <1>2, <1>3, <1>5 DEF OnDisk, Covered, Orphans, scanOrphanPending
<1>8. DiskPc'
  BY <1>2, <1>5, <1>7 DEF DiskPc, FlushPc
<1> QED
  BY <1>1, <1>2, <1>6, <1>8 DEF DiskInv

\* The pending record opens an orphan; without it the call is only rejected.
LEMMA PendingDisk == DiskInv /\ appendPending => DiskInv'
<1> SUFFICES ASSUME DiskInv, appendPending PROVE DiskInv'
  OBVIOUS
<1>0. /\ pc = "pending" /\ TypeOK /\ flush.token <= last /\ flush.token \in Mutations
      /\ flush.token \notin wal.closings /\ mem \subseteq flush.snap
      /\ ~flush.boot => Covered(flush.token)
      /\ UNCHANGED <<file, durable, mem, flush, last, acked, crashes>>
  BY DEF DiskInv, DiskPc, appendPending, FlushPc
<1>1. CASE appendWAL /\ pc' = "write" /\ UNCHANGED rejected
  <2>1. Extends(wal') /\ UNCHANGED failures
    BY <1>1, AppendKeeps, Zenon DEF appendWAL
  <2>2. TypeOK' /\ Issued(wal)'
    BY <1>0, <1>1, <2>1, Zenon DEF TypeOK, Extends, LogType, Issued, Pc, FlushPc
  <2>3. Pending(flush) \in wal'.pendings /\ wal'.closings = wal.closings
    BY <1>0, <1>1 DEF TypeOK, appendWAL, Appended
  <2>4. (Pending(flush) \in Orphans)'
    BY <1>0, <2>3, SMTT(60) DEF Orphans, scanOrphanPending, Pending
  <2>5. DiskPc'
    BY <1>0, <1>1, <2>1, <2>4, CoverKept DEF DiskPc, FlushPc
  <2> QED
    BY <1>0, <2>2, <2>5 DEF DiskInv
<1>2. CASE appendFails("pending") /\ Reject
  <2>1. Extends(wal') /\ failures' \in 0 .. MaxFailures
    BY <1>2, AppendKeeps, ZenonT(60)
  <2>2. /\ pc' \in {"idle", "down"} /\ (pc' = "idle" => ~flush.boot)
        /\ rejected' \in Snapshots
    BY <1>0, <1>2, SMTT(60) DEF Reject, TypeOK, Snapshots
  <2>3. TypeOK' /\ Issued(wal)'
    BY <1>0, <2>1, <2>2, SMTT(60) DEF TypeOK, Extends, LogType, Issued, Pc
  <2>4. DiskPc'
    BY <1>0, <2>1, <2>2, CoverKept, SMTT(60) DEF DiskPc, FlushPc
  <2> QED
    BY <1>0, <2>3, <2>4 DEF DiskInv
<1> QED
  BY <1>1, <1>2 DEF appendPending

\* The renamed file has all that the maps have.
LEMMA RenameDisk == DiskInv /\ WriteAndRename => DiskInv'
<1> SUFFICES ASSUME DiskInv, WriteAndRename PROVE DiskInv'
  OBVIOUS
<1>0. /\ pc = "write" /\ TypeOK /\ Issued(wal) /\ flush.token <= last /\ flush.token \in Mutations
      /\ mem \subseteq flush.snap /\ Pending(flush) \in Orphans
      /\ ~flush.boot => Covered(flush.token)
      /\ UNCHANGED <<durable, wal, mem, flush, last, acked, rejected, crashes>>
      /\ pc' \in {"dirsync", "rollback"} /\ failures' \in 0 .. MaxFailures
  BY FailsCounted, ZenonT(60) DEF DiskInv, TypeOK, DiskPc, WriteAndRename, FlushPc
<1>1. /\ file' \in Files
      /\ \/ pc' = "dirsync" /\ file'.snap = flush.snap
         \/ pc' = "rollback" /\ file' = file
  BY <1>0, SMTT(60) DEF TypeOK, WriteAndRename, Files, Flush
<1>2. TypeOK' /\ Issued(wal)'
  BY <1>0, <1>1, ZenonT(60) DEF TypeOK, Pc, FlushPc, Issued
<1>3. DiskPc'
  BY <1>0, <1>1, Zenon DEF DiskPc, FlushPc, Covered, Orphans, Pending
<1> QED
  BY <1>0, <1>2, <1>3 DEF DiskInv

\* Read-back may find another file, and then leaves the orphan open.
LEMMA SyncDisk == DiskInv /\ (fsyncDir \/ ReadBack) => DiskInv'
<1> SUFFICES ASSUME DiskInv, fsyncDir \/ ReadBack PROVE DiskInv'
  BY Zenon
<1>0. /\ pc \in {"dirsync", "verify"} /\ TypeOK /\ Issued(wal) /\ flush.token <= last
      /\ flush.token \in Mutations
      /\ mem \subseteq flush.snap /\ Pending(flush) \in Orphans /\ file.snap = flush.snap
      /\ UNCHANGED <<wal, mem, flush, last, acked, crashes>>
  BY DEF DiskInv, DiskPc, fsyncDir, ReadBack, FlushPc
<1>1. CASE /\ pc' \in {"verify", "commit", "rollback"} /\ file' = file
           /\ durable' \in Files /\ rejected' = rejected /\ failures' \in 0 .. MaxFailures
           /\ pc' = "verify" => pc = "dirsync"
  <2>1. TypeOK' /\ Issued(wal)'
    BY <1>0, <1>1, ZenonT(60) DEF TypeOK, Pc, FlushPc, Issued
  <2>2. DiskPc'
    BY <1>0, <1>1 DEF DiskPc, FlushPc, Covered, Orphans, Pending
  <2> QED
    BY <1>0, <2>1, <2>2 DEF DiskInv
<1>2. CASE /\ file' \in [fmt : {"rotten", "current"}, snap : {{}}] /\ durable' = file'
           /\ Reject /\ failures' \in 0 .. MaxFailures
  <2>1. /\ pc' \in {"idle", "down"} /\ rejected' \in Snapshots /\ file' \in Files
    BY <1>0, <1>2, SMTT(60) DEF Reject, TypeOK, Snapshots, Files
  <2>2. TypeOK' /\ Issued(wal)'
    BY <1>0, <1>2, <2>1 DEF TypeOK, Pc, Issued
  <2>3. OnDisk'
    BY <1>0 DEF OnDisk, Orphans, Pending
  <2>4. DiskPc'
    BY <2>1, <2>3, SMTT(60) DEF DiskPc, FlushPc
  <2> QED
    BY <1>0, <2>2, <2>4 DEF DiskInv
<1>3. CASE fsyncDir
  BY <1>0, <1>1, <1>3, FailsCounted, ZenonT(60) DEF fsyncDir, TypeOK
<1>4. CASE ReadBack
  BY <1>0, <1>1, <1>2, <1>4, FailsCounted, Zenon DEF ReadBack, TypeOK
<1> QED
  BY <1>3, <1>4

\* The maps become the snapshot that the file has.
LEMMA CommitDisk == DiskInv /\ appendCommit => DiskInv'
<1> SUFFICES ASSUME DiskInv, appendCommit PROVE DiskInv'
  OBVIOUS
<1>0. /\ pc = "commit" /\ TypeOK /\ flush.token <= last /\ flush.token \in Mutations
      /\ mem \subseteq flush.snap /\ file.snap = flush.snap
      /\ UNCHANGED <<file, durable, flush, last, rejected, crashes>>
  BY DEF DiskInv, DiskPc, appendCommit, FlushPc
<1>1. CASE /\ appendWAL /\ mem' = flush.snap
           /\ IF flush.boot THEN pc' = "replay" /\ UNCHANGED acked
                            ELSE pc' = "idle" /\ acked' = acked \cup {flush.token}
  <2>1. Extends(wal') /\ UNCHANGED failures
    BY <1>1, AppendKeeps, Zenon DEF appendWAL
  <2>2. pc' \in {"replay", "idle"} /\ acked' \in Snapshots /\ mem' \in Snapshots
    BY <1>0, <1>1, SMTT(60) DEF TypeOK, Snapshots, Flush
  <2>3. TypeOK' /\ Issued(wal)'
    BY <1>0, <2>1, <2>2, SMTT(60) DEF TypeOK, Extends, LogType, Issued, Pc, ReplayPc
  <2>4. DiskPc'
    BY <1>0, <1>1, <2>2 DEF DiskPc, FlushPc, OnDisk
  <2> QED
    BY <1>0, <2>3, <2>4 DEF DiskInv
<1>2. CASE appendFails("commit") /\ pc' = "rollback" /\ UNCHANGED <<mem, acked>>
  <2>1. Extends(wal') /\ failures' \in 0 .. MaxFailures
    BY <1>2, AppendKeeps, ZenonT(60)
  <2>2. TypeOK' /\ Issued(wal)'
    BY <1>0, <1>2, <2>1, SMTT(60) DEF TypeOK, Extends, LogType, Issued, Pc, FlushPc
  <2>3. DiskPc'
    BY <1>0, <1>2 DEF DiskPc, FlushPc, Covered
  <2> QED
    BY <1>0, <2>2, <2>3 DEF DiskInv
<1> QED
  BY <1>1, <1>2, SMTT(60) DEF appendCommit

\* The rollback closes its own orphan only.
LEMMA RollbackDisk == DiskInv /\ appendRollback => DiskInv'
<1> SUFFICES ASSUME DiskInv, appendRollback PROVE DiskInv'
  OBVIOUS
<1>0. /\ pc = "rollback" /\ TypeOK /\ flush.token <= last /\ flush.token \in Mutations
      /\ ~flush.boot => Covered(flush.token)
      /\ UNCHANGED <<file, durable, mem, flush, last, acked, crashes>>
  BY DEF DiskInv, DiskPc, appendRollback, FlushPc
<1>1. Extends(wal') /\ failures' \in 0 .. MaxFailures
  BY <1>0, AppendKeeps, Zenon DEF appendRollback, appendWAL, TypeOK
<1>2. /\ pc' \in {"idle", "down"} /\ (pc' = "idle" => ~flush.boot)
      /\ rejected' \in Snapshots
  BY <1>0 DEF appendRollback, Reject, TypeOK, Snapshots
<1>3. TypeOK' /\ Issued(wal)'
  BY <1>0, <1>1, <1>2, SMTT(60) DEF TypeOK, Extends, LogType, Issued, Pc
<1>4. DiskPc'
  BY <1>0, <1>1, <1>2, CoverKept, SMTT(60) DEF DiskPc, FlushPc
<1> QED
  BY <1>0, <1>3, <1>4 DEF DiskInv

\* A boot takes the maps from the file, or migrates it as a call would.
LEMMA LoadDisk == DiskInv /\ load => DiskInv'
<1> SUFFICES ASSUME DiskInv, load PROVE DiskInv'
  OBVIOUS
<1>0. /\ TypeOK /\ Issued(wal) /\ flush.token <= last
      /\ UNCHANGED <<file, durable, wal, acked, rejected, failures, crashes>>
  BY DEF DiskInv, load
<1>1. CASE file.fmt = "rotten" /\ pc' = "refused" /\ UNCHANGED <<mem, flush, last>>
  <2>1. TypeOK' /\ Issued(wal)'
    BY <1>0, <1>1, ZenonT(60) DEF TypeOK, Pc, Issued
  <2>2. DiskPc'
    BY <1>1 DEF DiskPc, FlushPc
  <2> QED
    BY <1>0, <1>1, <2>1, <2>2 DEF DiskInv
<1>2. CASE /\ file.fmt = "old" /\ last < MaxWrites /\ last' = last + 1
           /\ mem' = file.snap \cup {last + 1}
           /\ flush' = [token |-> last + 1, snap |-> mem', boot |-> TRUE]
           /\ pc' = "pending"
  <2>1. last \in 0 .. MaxWrites /\ last' \in Mutations /\ file.snap \in Snapshots /\ LogType(wal)
    BY <1>0, <1>2, StateStoreAssumption, SMTT(60) DEF TypeOK, Mutations, Files, LogType
  <2>2. mem' \in Snapshots /\ flush' \in Flush
    BY <1>2, <2>1, StateStoreAssumption, SMTT(60) DEF Snapshots, Flush, Mutations
  <2>3. TypeOK'
    BY <1>0, <1>2, <2>1, <2>2, SMTT(60) DEF TypeOK, Pc, FlushPc, Mutations
  <2>4. \A m \in Mutations : m <= last => m <= last' /\ m # last'
    BY <1>2, <2>1, StateStoreAssumption, SMTT(60) DEF Mutations
  <2>5. /\ \A p \in wal.pendings : p.token <= last'
        /\ \A t \in wal.closings : t <= last' /\ t # last'
    BY <1>0, <2>1, <2>4, SMTT(60) DEF Issued, LogType
  <2>6. Issued(wal)' /\ flush'.token <= last' /\ flush'.token = last'
    BY <1>0, <1>2, <2>1, <2>5, StateStoreAssumption, SMTT(60) DEF Issued, Mutations
  <2>7. DiskPc'
    BY <1>0, <1>2, <2>1, <2>5, <2>6, ZenonT(60) DEF DiskPc, FlushPc
  <2> QED
    BY <2>3, <2>6, <2>7 DEF DiskInv
<1>3. CASE file.fmt = "current" /\ mem' = file.snap /\ pc' = "replay" /\ UNCHANGED <<flush, last>>
  <2>1. TypeOK' /\ Issued(wal)'
    BY <1>0, <1>3, SMTT(60) DEF TypeOK, Pc, ReplayPc, Files, Issued
  <2>2. DiskPc'
    BY <1>0, <1>3 DEF DiskPc, FlushPc
  <2> QED
    BY <1>0, <1>3, <2>1, <2>2, SMTT(60) DEF DiskInv
<1> QED
  BY <1>1, <1>2, <1>3, SMTT(60) DEF load

\* The store opens on the file, or writes an orphan to it.
LEMMA ReplayDisk ==
  ASSUME DiskInv, replayWAL, Orphans # {} => Latest(wal) \in Orphans
  PROVE  DiskInv'
<1>0. /\ pc = "replay" /\ TypeOK /\ Issued(wal) /\ flush.token <= last /\ mem = file.snap
      /\ UNCHANGED <<durable, wal, mem, last, rejected, crashes>>
  BY Zenon DEF DiskInv, DiskPc, replayWAL
<1>1. CASE /\ pc' \in {"refused", "idle", "down"} /\ UNCHANGED <<file, flush>>
           /\ acked' \in Snapshots /\ failures' \in 0 .. MaxFailures
  <2>1. TypeOK' /\ Issued(wal)'
    BY <1>0, <1>1, ZenonT(60) DEF TypeOK, Pc, Issued
  <2>2. DiskPc'
    BY <1>0, <1>1 DEF DiskPc, FlushPc, OnDisk
  <2> QED
    BY <1>0, <1>1, <2>1, <2>2 DEF DiskInv
<1>2. CASE /\ Orphans # {}
           /\ file' = [fmt |-> "current", snap |-> Latest(wal).snap]
           /\ flush' = [token |-> Latest(wal).token, snap |-> Latest(wal).snap, boot |-> TRUE]
           /\ pc' = "replaySync" /\ UNCHANGED <<acked, failures>>
  <2>1. /\ Latest(wal) \in wal.pendings
        /\ Latest(wal) \in [token : Mutations, snap : Snapshots]
    BY <1>0, <1>2, SMTT(60) DEF TypeOK, Orphans, scanOrphanPending
  <2>2. file' \in Files /\ flush' \in Flush /\ flush'.token \in Mutations
    BY <1>2, <2>1, StateStoreAssumption, SMTT(60) DEF Files, Flush, Mutations
  <2>3. TypeOK' /\ Issued(wal)' /\ flush'.token <= last'
    BY <1>0, <1>2, <2>1, <2>2, SMTT(60) DEF TypeOK, Pc, ReplayPc, Issued
  <2>4. DiskPc'
    BY <1>0, <1>2, <2>2, ZenonT(60) DEF DiskPc, FlushPc
  <2> QED
    BY <2>3, <2>4, SMTT(60) DEF DiskInv
<1> QED
  <2>1. acked \cup mem \in Snapshots /\ acked \in Snapshots /\ failures \in 0 .. MaxFailures
    BY <1>0, SMTT(60) DEF TypeOK, Snapshots
  <2> QED
    BY <1>1, <1>2, <2>1, FailsCounted, ZenonT(60) DEF replayWAL

\* The end of a replay, or of an attempt at it.
LEMMA ReplayEndDisk == DiskInv /\ (ReplaySync \/ ReplayCommit) => DiskInv'
<1> SUFFICES ASSUME DiskInv, ReplaySync \/ ReplayCommit PROVE DiskInv'
  OBVIOUS
<1>0. /\ TypeOK /\ Issued(wal) /\ flush.token <= last /\ flush.token \in Mutations
      /\ file.snap = flush.snap
      /\ UNCHANGED <<file, flush, last, rejected, crashes>>
  BY DEF DiskInv, DiskPc, ReplaySync, ReplayCommit
<1>1. CASE ReplaySync
  <2>1. /\ pc' \in {"replayCommit", "down"} /\ durable' \in Files /\ failures' \in 0 .. MaxFailures
        /\ UNCHANGED <<wal, mem, acked>>
    BY <1>0, <1>1, FailsCounted DEF ReplaySync, TypeOK
  <2>2. TypeOK' /\ Issued(wal)'
    BY <1>0, <2>1, ZenonT(60) DEF TypeOK, Pc, ReplayPc, Issued
  <2>3. DiskPc'
    BY <1>0, <2>1, Zenon DEF DiskPc, FlushPc
  <2> QED
    BY <1>0, <2>2, <2>3, SMTT(60) DEF DiskInv
<1>2. CASE ReplayCommit
  <2>1. /\ pc' \in {"idle", "down"} /\ mem' = flush.snap /\ UNCHANGED durable
        /\ acked' \in {acked, acked \cup mem'}
    BY <1>2 DEF ReplayCommit
  <2>2. Extends(wal') /\ failures' \in 0 .. MaxFailures
    BY <1>0, <1>2, AppendKeeps, Zenon DEF ReplayCommit, appendWAL, TypeOK
  <2>3. mem' \in Snapshots /\ acked' \in Snapshots
    BY <1>0, <2>1 DEF TypeOK, Flush, Snapshots
  <2>4. TypeOK' /\ Issued(wal)'
    BY <1>0, <2>1, <2>2, <2>3, ZenonT(60) DEF TypeOK, Extends, LogType, Issued, Pc
  <2>5. DiskPc'
    BY <1>0, <2>1 DEF DiskPc, FlushPc, OnDisk
  <2> QED
    BY <1>0, <2>4, <2>5 DEF DiskInv
<1> QED
  BY <1>1, <1>2

\* A crash empties the maps.
LEMMA CrashDisk == DiskInv /\ Crash => DiskInv'
<1> SUFFICES ASSUME DiskInv, Crash PROVE DiskInv'
  OBVIOUS
<1>0. /\ TypeOK /\ Issued(wal)
      /\ pc' = "down" /\ mem' = {} /\ flush' = NoFlush
      /\ UNCHANGED <<last, acked, rejected, failures>>
      /\ crashes' \in 0 .. MaxCrashes
      /\ file' \in Files /\ durable' \in Files
  BY StateStoreAssumption DEF DiskInv, TypeOK, Crash
<1>1. LogType(wal') /\ Issued(wal')
  <2>1. wal' \in {wal, Appended, [wal EXCEPT !.torn = TRUE]}
    BY Zenon DEF Crash, Interrupted
  <2>2. LogType([wal EXCEPT !.torn = TRUE]) /\ Issued([wal EXCEPT !.torn = TRUE])
    BY <1>0, Zenon DEF TypeOK, LogType, Issued
  <2> QED
    BY <2>1, <2>2, AppendKeeps, Zenon DEF Extends
<1>2. TypeOK' /\ Issued(wal)' /\ flush'.token <= last'
  BY <1>0, <1>1, StateStoreAssumption
  DEF TypeOK, LogType, Pc, Flush, NoFlush, Snapshots, Issued
<1>3. DiskPc'
  BY <1>0 DEF DiskPc, FlushPc
<1> QED
  BY <1>2, <1>3, SMTT(60) DEF DiskInv

\* The invariant is about the variables only.
LEMMA StutterDisk == DiskInv /\ UNCHANGED vars => DiskInv'
  BY ZenonT(60) DEF vars, DiskInv, TypeOK, Issued, DiskPc, OnDisk, Covered, Orphans

INSTANCE WellFoundedInduction

\* A set of naturals has a least element.
LEMMA LeastNat ==
  ASSUME NEW S \in SUBSET Nat, S # {}
  PROVE  \E m \in S : \A k \in S : m <= k
<1>1. PICK m \in S : \A y \in S : ~(<<y, m>> \in OpToRel(<, Nat))
  BY NatLessThanWellFounded, WFMin, Zenon
<1>2. \A y \in S : ~(y < m)
  BY <1>1, Zenon DEF OpToRel
<1> QED
  BY <1>2

\* scanOrphanPending finds a last record when it finds any: tokens are bounded.
LEMMA LatestIsOrphan ==
  ASSUME TypeOK, Orphans # {}
  PROVE  Latest(wal) \in Orphans
<1> DEFINE S == {MaxWrites - p.token : p \in Orphans}
<1>1. \A p \in Orphans : p.token \in Nat /\ MaxWrites - p.token \in Nat
  BY StateStoreAssumption DEF TypeOK, Orphans, scanOrphanPending, Mutations
<1>2. PICK m \in S : \A k \in S : m <= k
  <2>1. S \in SUBSET Nat /\ S # {}
    BY <1>1
  <2> HIDE DEF S
  <2> QED BY <2>1, LeastNat
<1>3. PICK p \in Orphans : m = MaxWrites - p.token
  BY <1>2
<1>4. \A q \in Orphans : MaxWrites - p.token <= MaxWrites - q.token
  BY <1>2, <1>3
<1>5. \A q \in Orphans : q.token <= p.token
  BY <1>1, <1>3, <1>4, StateStoreAssumption
<1> QED
  BY <1>3, <1>5, Zenon DEF Latest, Orphans

\* Whichever system calls fail and whenever the daemon crashes, also on a file
\* of an older format: everything the open store shows is in state.json, or in a
\* record that the next boot replays.
THEOREM DiskIsNotBehind == Spec => [](TypeOK /\ DiskNotBehind)
<1>1. Init => DiskInv
  BY InitDisk
<1>2. DiskInv /\ [Next]_vars => DiskInv'
  BY Zenon, MutateDisk, PendingDisk, RenameDisk, SyncDisk, CommitDisk, RollbackDisk,
     LoadDisk, ReplayDisk, LatestIsOrphan, ReplayEndDisk, CrashDisk, StutterDisk, Zenon
  DEF Next, Step, DiskInv
<1>3. DiskInv => TypeOK /\ DiskNotBehind
  <2> SUFFICES ASSUME DiskInv, Up PROVE \E s \in {file.snap} \cup {p.snap : p \in Orphans} : mem \subseteq s
    BY Zenon DEF DiskInv, DiskNotBehind
  <2>1. OnDisk
    <3>1. CASE pc = "idle"
      BY <3>1, Zenon DEF DiskInv, DiskPc
    <3>2. CASE pc \in {"pending", "write", "rollback"} /\ ~flush.boot
      BY <3>2, Zenon DEF DiskInv, DiskPc, Covered, OnDisk
    <3>3. CASE pc \in {"dirsync", "verify", "commit"}
      BY <3>3, Zenon DEF DiskInv, DiskPc, OnDisk, FlushPc
    <3> QED BY <3>1, <3>2, <3>3, Zenon DEF Up, FlushPc
  <2> QED BY <2>1, Zenon DEF OnDisk
<1> QED
  BY <1>1, <1>2, <1>3, PTL DEF Spec
=============================================================================
