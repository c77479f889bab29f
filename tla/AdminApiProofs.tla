--------------------------- MODULE AdminApiProofs ---------------------------
(***************************************************************************)
(* Proofs about the records of the store and about the admin API that      *)
(* writes them, for every set of apps, volumes and configs and every       *)
(* number of clients and requests.                                         *)
(*                                                                         *)
(* About AppRecords: the release ledgers stay in order, and a resource     *)
(* version names one content.  RecordsInv adds to the order of the ledgers *)
(* the types of the records, in memory and on disk, and that a store that  *)
(* is not open has nothing in memory.                                      *)
(*                                                                         *)
(* About AdminApi: its handlers use the store as AppRecords allows, so     *)
(* what is proved of the records holds of the daemon; rollback pointers    *)
(* lead back; and a conditional request works on the version it named.     *)
(* ApiInv says, beside the types, what a request in flight relies on       *)
(* between two of its steps: the lock it holds, and what it read of the    *)
(* record when it took it.  What a client was told stays true: AckInv says *)
(* beside it how far a handler that changed something has come.            *)
(*                                                                         *)
(* The lemmas come first and the theorems last, after the one fact about   *)
(* finite sets that they need (IdsAreCounted).                             *)
(***************************************************************************)
EXTENDS AdminApi, TLAPS

\* A set of apps has a number of elements.
IdsCounted == \A S \in SUBSET Ids : Cardinality(S) \in Nat

Release == [seq : Nat, phase : Phases, cfg : Configs, from : Nat, orig : Nat]

StoredRecord ==
  [cfg : Configs \cup {0}, idt : BOOLEAN, uid : Nat, gen : Nat, obs : Nat, rv : Nat,
   rels : Seq(Release)]

Database == [ver : Nat, apps : [Ids -> StoredRecord], vols : SUBSET Vols]

\* A record that may be stored: an app that is known has a config.
Sound(rec) == LedgerOrdered(rec.rels) /\ (rec # NoApp => rec.cfg \in Configs)

SoundDb(db) == db \in Database /\ \A id \in Ids : Sound(db.apps[id])

RecordsInv ==
  /\ SoundDb(mem)
  /\ SoundDb(disk)
  /\ uids \in Nat
  /\ open \in BOOLEAN
  /\ ~open => mem = EmptyDb

(***************************************************************************)
(* The ledger.                                                             *)
(***************************************************************************)

\* The largest number of an interval is its end.
LEMMA LargestOfInterval ==
  ASSUME NEW k \in Nat
  PROVE  /\ \E n \in 0 .. k : \A m \in 0 .. k : m <= n
         /\ \A n \in 0 .. k : (\A m \in 0 .. k : m <= n) => n = k
<1>1. k \in 0 .. k /\ \A m \in 0 .. k : m <= k
  OBVIOUS
<1>2. ASSUME NEW n \in 0 .. k, \A m \in 0 .. k : m <= n
      PROVE  n = k
  BY <1>1, <1>2
<1> QED BY <1>1, <1>2

\* In a ledger without a gap the next sequence number is one more than its length.
LEMMA NextSeqCounts ==
  ASSUME NEW rels \in Seq(Release), \A i \in DOMAIN rels : rels[i].seq = i
  PROVE  NextSeq(rels) = Len(rels) + 1
<1> DEFINE used == {0} \cup {rels[i].seq : i \in DOMAIN rels}
<1> DEFINE top == CHOOSE n \in used : \A m \in used : m <= n
<1>1. Len(rels) \in Nat /\ DOMAIN rels = 1 .. Len(rels)
  OBVIOUS
<1>2. \A i \in DOMAIN rels : rels[i].seq = i
  OBVIOUS
<1>3. used = 0 .. Len(rels)
  <2>1. \A n \in used : n \in 0 .. Len(rels)
    BY <1>1, <1>2
  <2>2. \A n \in 0 .. Len(rels) : n \in used
    <3> TAKE n \in 0 .. Len(rels)
    <3>1. CASE n = 0
      BY <3>1
    <3>2. CASE n # 0
      <4>1. n \in DOMAIN rels /\ rels[n].seq = n
        BY <1>1, <1>2, <3>2, SMTT(30)
      <4> QED BY <4>1
    <3> QED BY <3>1, <3>2
  <2> QED BY <2>1, <2>2
<1>4. \A n \in 0 .. Len(rels) : (\A m \in 0 .. Len(rels) : m <= n) => n = Len(rels)
  BY <1>1, LargestOfInterval, Zenon
<1>5. \E n \in used : \A m \in used : m <= n
  BY <1>1, <1>3, LargestOfInterval
<1>6. top \in used /\ \A m \in used : m <= top
  BY <1>5, Zenon
<1>7. NextSeq(rels) = 1 + top
  BY Zenon DEF NextSeq
<1> HIDE DEF top
<1>8. top = Len(rels)
  BY <1>3, <1>4, <1>6, Zenon
<1> QED BY <1>1, <1>7, <1>8

\* CreateRelease retires, numbers and appends: the result is a ledger in order.
LEMMA AppendKeepsOrder ==
  ASSUME NEW rels \in Seq(Release), LedgerOrdered(rels),
         NEW cfg \in Configs, NEW from \in Nat, NEW orig \in Nat,
         NEW prior \in Phases \ {"Active"}
  PROVE  LET next == Append(Retire(rels, prior), NewRelease(rels, cfg, from, orig))
         IN  next \in Seq(Release) /\ LedgerOrdered(next)
<1> DEFINE old == Retire(rels, prior)
           new == NewRelease(rels, cfg, from, orig)
           next == Append(old, new)
<1>1. Len(rels) \in Nat /\ DOMAIN rels = 1 .. Len(rels) /\ \A i \in DOMAIN rels : rels[i] \in Release
  OBVIOUS
<1>2. \A i \in DOMAIN rels : /\ old[i] \in Release
                             /\ old[i].seq = i
                             /\ old[i].phase # "Active"
  <2> TAKE i \in DOMAIN rels
  <2>1. rels[i] \in Release /\ rels[i].seq = i
    BY <1>1, Zenon DEF LedgerOrdered
  <2>2. old[i] = IF rels[i].phase = "Active" THEN [rels[i] EXCEPT !.phase = prior] ELSE rels[i]
    BY Zenon DEF Retire
  <2> HIDE DEF old
  <2>3. CASE rels[i].phase = "Active"
    <3> DEFINE x == [rels[i] EXCEPT !.phase = prior]
    <3>1. old[i] = x
      BY <2>2, <2>3, Zenon
    <3>2. x \in Release /\ x.seq = rels[i].seq /\ x.phase = prior
      BY <2>1, Zenon DEF Release
    <3> HIDE DEF x
    <3> QED BY <2>1, <3>1, <3>2, SMT
  <2>4. CASE rels[i].phase # "Active"
    BY <2>1, <2>2, <2>4, SMT
  <2> QED BY <2>3, <2>4, Zenon
<1>3. old \in Seq(Release) /\ Len(old) = Len(rels) /\ DOMAIN old = DOMAIN rels
  <2>1. old = [i \in 1 .. Len(rels) |-> old[i]]
    BY <1>1 DEF Retire
  <2> HIDE DEF old
  <2> QED BY <1>1, <1>2, <2>1
<1>4. new \in Release /\ new.seq = Len(rels) + 1 /\ new.phase = "Active"
  <2>1. NextSeq(rels) = Len(rels) + 1
    BY NextSeqCounts DEF LedgerOrdered
  <2> QED BY <1>1, <2>1 DEF NewRelease, Release, Phases
<1> HIDE DEF old, new
<1>5. /\ next \in Seq(Release)
      /\ Len(next) = Len(rels) + 1
      /\ DOMAIN next = 1 .. Len(rels) + 1
      /\ \A i \in 1 .. Len(rels) : next[i] = old[i]
      /\ next[Len(rels) + 1] = new
  BY <1>1, <1>3, <1>4
<1> HIDE DEF next
<1>6. LedgerOrdered(next)
  BY <1>1, <1>2, <1>4, <1>5 DEF LedgerOrdered
<1> QED BY <1>5, <1>6 DEF next, old, new

\* NoApp is a record, and the database without apps is sound.
LEMMA NothingIsSound == NoApp \in StoredRecord /\ Sound(NoApp) /\ SoundDb(EmptyDb)
<1>1. <<>> \in Seq(Release) /\ DOMAIN <<>> = {}
  OBVIOUS
<1>2. NoApp \in StoredRecord /\ Sound(NoApp)
  BY <1>1 DEF NoApp, StoredRecord, Sound, LedgerOrdered
<1> HIDE DEF NoApp
<1> QED BY <1>2 DEF SoundDb, EmptyDb, Database, FormatVersion

(***************************************************************************)
(* The states that the mutations flush.                                    *)
(***************************************************************************)

\* Writing one record leaves the others alone.
LEMMA WithAppWrites ==
  ASSUME SoundDb(mem), NEW id \in Ids, NEW rec \in StoredRecord, Sound(rec)
  PROVE  /\ SoundDb(WithApp(id, rec))
         /\ WithApp(id, rec).apps[id] = rec
         /\ \A j \in Ids \ {id} : WithApp(id, rec).apps[j] = mem.apps[j]
<1> DEFINE apps == [mem.apps EXCEPT ![id] = rec]
<1>1. mem \in Database /\ mem.apps \in [Ids -> StoredRecord] /\ \A j \in Ids : Sound(mem.apps[j])
  BY DEF SoundDb, Database
<1>2. /\ apps \in [Ids -> StoredRecord]
      /\ apps[id] = rec
      /\ \A j \in Ids \ {id} : apps[j] = mem.apps[j]
  BY <1>1
<1>3. WithApp(id, rec) = [mem EXCEPT !.apps = apps]
  BY <1>1 DEF WithApp, Database
<1> HIDE DEF apps
<1>4. WithApp(id, rec) \in Database /\ WithApp(id, rec).apps = apps
  BY <1>1, <1>2, <1>3 DEF Database
<1>5. \A j \in Ids : Sound(apps[j])
  BY <1>1, <1>2
<1> QED BY <1>2, <1>4, <1>5 DEF SoundDb

\* The fields of a record.
LEMMA RecordFields ==
  ASSUME NEW r \in StoredRecord
  PROVE  /\ r.cfg \in Configs \cup {0} /\ r.idt \in BOOLEAN /\ r.rels \in Seq(Release)
         /\ r.uid \in Nat /\ r.gen \in Nat /\ r.obs \in Nat /\ r.rv \in Nat
BY DEF StoredRecord

\* Updates of a record, field by field.
LEMMA RecordUpdates ==
  ASSUME NEW r \in StoredRecord
  PROVE  /\ \A u \in Nat :
              LET x == newAppMetadata(r, u)
              IN  x \in StoredRecord /\ x.cfg = r.cfg /\ x.rels = r.rels
         /\ \A rels \in Seq(Release), v \in Nat :
              LET x == [r EXCEPT !.rels = rels, !.rv = v]
              IN  x \in StoredRecord /\ x.cfg = r.cfg /\ x.rels = rels /\ x.rv = v
         /\ \A o, v \in Nat :
              LET x == [r EXCEPT !.obs = o, !.rv = v]
              IN  x \in StoredRecord /\ x.cfg = r.cfg /\ x.rels = r.rels /\ x.rv = v
<1> DEFINE ledgers == Seq(Release)
<1>1. StoredRecord = [cfg : Configs \cup {0}, idt : BOOLEAN, uid : Nat, gen : Nat, obs : Nat, rv : Nat,
                      rels : ledgers]
  BY DEF StoredRecord
<1> HIDE DEF ledgers
<1>2. ASSUME NEW u \in Nat
      PROVE  LET x == newAppMetadata(r, u)
             IN  x \in StoredRecord /\ x.cfg = r.cfg /\ x.rels = r.rels
  BY <1>1, Zenon DEF newAppMetadata
<1>3. ASSUME NEW rels \in ledgers, NEW v \in Nat
      PROVE  LET x == [r EXCEPT !.rels = rels, !.rv = v]
             IN  x \in StoredRecord /\ x.cfg = r.cfg /\ x.rels = rels /\ x.rv = v
  BY <1>1, Zenon
<1>4. ASSUME NEW o \in Nat, NEW v \in Nat
      PROVE  LET x == [r EXCEPT !.obs = o, !.rv = v]
             IN  x \in StoredRecord /\ x.cfg = r.cfg /\ x.rels = r.rels /\ x.rv = v
  BY <1>1, Zenon
<1> QED BY <1>2, <1>3, <1>4, Zenon DEF ledgers

\* AddApp writes a sound database; a record that was there gets a higher version.
LEMMA AddAppWrites ==
  ASSUME SoundDb(mem), uids \in Nat, NEW id \in Ids, NEW cfg \in Configs
  PROVE  LET next == AddAppState(id, cfg)
         IN  /\ SoundDb(next)
             /\ \A j \in Ids \ {id} : next.apps[j] = mem.apps[j]
             /\ Known(mem, id) => next.apps[id].rv > mem.apps[id].rv
             /\ next.apps[id].cfg = cfg
             /\ next.apps[id].rels = mem.apps[id].rels
<1> DEFINE old == mem.apps[id]
           new == [old EXCEPT !.cfg = cfg, !.idt = TRUE]
           kept == [new EXCEPT !.gen = @ + 1, !.obs = old.gen + 1, !.rv = @ + 1]
           fresh == newAppMetadata(new, uids + 1)
           rec == IF Known(mem, id) THEN kept ELSE fresh
<1>1. old \in StoredRecord /\ Sound(old)
  BY DEF SoundDb, Database
<1>2. /\ new \in StoredRecord
      /\ new.cfg = cfg /\ new.rels = old.rels /\ new.gen = old.gen /\ new.rv = old.rv
  BY <1>1, Zenon DEF StoredRecord
<1> HIDE DEF old
<1> HIDE DEF new
<1>3. kept \in StoredRecord /\ kept.cfg = cfg /\ kept.rels = old.rels /\ kept.rv = old.rv + 1
  <2> DEFINE g == new.gen + 1
             o == old.gen + 1
             v == new.rv + 1
             ledgers == Seq(Release)
  <2>1. g \in Nat /\ o \in Nat /\ v \in Nat
    BY <1>1, <1>2, RecordFields
  <2>2. kept = [new EXCEPT !.gen = g, !.obs = o, !.rv = v]
    OBVIOUS
  <2>3. StoredRecord = [cfg : Configs \cup {0}, idt : BOOLEAN, uid : Nat, gen : Nat, obs : Nat, rv : Nat,
                        rels : ledgers]
    BY DEF StoredRecord
  <2> HIDE DEF g, o, v, ledgers, kept
  <2>4. kept \in StoredRecord /\ kept.cfg = new.cfg /\ kept.rels = new.rels /\ kept.rv = v
    BY <1>2, <2>1, <2>2, <2>3, Zenon
  <2> QED BY <1>2, <2>4, Zenon DEF v
<1>4. fresh \in StoredRecord /\ fresh.cfg = cfg /\ fresh.rels = old.rels
  <2>1. uids + 1 \in Nat /\ 1 \in Nat
    OBVIOUS
  <2> QED BY <1>2, <2>1, RecordUpdates, Zenon
<1> HIDE DEF kept, fresh
<1>5. /\ rec \in StoredRecord /\ rec.cfg = cfg /\ rec.rels = old.rels
      /\ Known(mem, id) => rec.rv = old.rv + 1
  BY <1>3, <1>4
<1>6. AddAppState(id, cfg) = WithApp(id, rec)
  BY DEF AddAppState, old, new, kept, fresh
<1> HIDE DEF rec
<1>7. Sound(rec)
  BY <1>1, <1>5, Zenon DEF Sound
<1>8. old.rv \in Nat
  BY <1>1, RecordFields, ZenonT(60)
<1> QED BY <1>5, <1>6, <1>7, <1>8, WithAppWrites DEF old

\* next is mem with a release more in the ledger of id and nothing else changed.
ReleaseWritten(id, cfg, from, orig, prior, next) ==
  /\ SoundDb(next)
  /\ \A j \in Ids \ {id} : next.apps[j] = mem.apps[j]
  /\ next.apps[id].rv > mem.apps[id].rv
  /\ next.apps[id].cfg = mem.apps[id].cfg
  /\ next.apps[id].rels = Append(Retire(mem.apps[id].rels, prior),
                                  NewRelease(mem.apps[id].rels, cfg, from, orig))

\* So does CreateRelease.
LEMMA CreateReleaseWrites ==
  ASSUME SoundDb(mem), NEW id \in Ids, Known(mem, id), NEW cfg \in Configs,
         NEW from \in Nat, NEW orig \in Nat, NEW prior \in Phases \ {"Active"}
  PROVE  ReleaseWritten(id, cfg, from, orig, prior, CreateReleaseState(id, cfg, from, orig, prior))
<1> DEFINE old == mem.apps[id]
           rels == Append(Retire(old.rels, prior), NewRelease(old.rels, cfg, from, orig))
           rec == [old EXCEPT !.rels = rels, !.rv = @ + 1]
<1>1. old \in StoredRecord /\ Sound(old) /\ old.cfg \in Configs
  BY DEF SoundDb, Database, Sound, Known
<1>2. old.rels \in Seq(Release) /\ LedgerOrdered(old.rels)
  BY <1>1 DEF StoredRecord, Sound
<1>3. CreateReleaseState(id, cfg, from, orig, prior) = WithApp(id, rec)
  BY <1>1 DEF CreateReleaseState, StoredRecord
<1> HIDE DEF old
<1>4. rels \in Seq(Release) /\ LedgerOrdered(rels)
  BY <1>2, AppendKeepsOrder
<1> HIDE DEF rels
<1>5. rec \in StoredRecord /\ rec.rels = rels /\ rec.cfg = old.cfg /\ rec.rv = old.rv + 1
  <2>1. old.rv + 1 \in Nat
    BY <1>1, RecordFields
  <2>2. rec = [old EXCEPT !.rels = rels, !.rv = old.rv + 1]
    OBVIOUS
  <2> HIDE DEF rec
  <2>3. \A ledger \in Seq(Release), v \in Nat :
          LET x == [old EXCEPT !.rels = ledger, !.rv = v]
          IN  x \in StoredRecord /\ x.cfg = old.cfg /\ x.rels = ledger /\ x.rv = v
    BY <1>1, RecordUpdates, Zenon
  <2> QED BY <1>4, <2>1, <2>2, <2>3, ZenonT(60)
<1> HIDE DEF rec
<1>6. Sound(rec)
  BY <1>1, <1>4, <1>5 DEF Sound
<1>7. old.rv \in Nat
  BY <1>1, RecordFields
<1>8. /\ SoundDb(WithApp(id, rec)) /\ WithApp(id, rec).apps[id] = rec
      /\ \A j \in Ids \ {id} : WithApp(id, rec).apps[j] = mem.apps[j]
  BY <1>5, <1>6, WithAppWrites, Zenon
<1>9. rec.rv > old.rv
  BY <1>5, <1>7
<1> QED BY <1>3, <1>5, <1>8, <1>9, Zenon DEF old, rels, ReleaseWritten

(***************************************************************************)
(* What a boot loads.                                                      *)
(***************************************************************************)

\* The stamping of records without metadata keeps ledgers and configs, and counts its UUIDs.
LEMMA LoadedIsSound ==
  ASSUME IdsCounted, SoundDb(disk), uids \in Nat, NEW stamp \in Stamps
  PROVE  SoundDb(Loaded(stamp)) /\ uids + Cardinality(DOMAIN stamp) \in Nat
<1> DEFINE new(id) == IF id \in DOMAIN stamp THEN newAppMetadata(disk.apps[id], stamp[id]) ELSE disk.apps[id]
<1>1. Unstamped(disk) \in SUBSET Ids
  BY DEF Unstamped
<1>2. Cardinality(Unstamped(disk)) \in Nat
  BY <1>1, Zenon DEF IdsCounted
<1>3. DOMAIN stamp = Unstamped(disk) /\ \A id \in DOMAIN stamp : stamp[id] \in Nat
  BY <1>2 DEF Stamps
<1>4. disk \in Database /\ \A id \in Ids : disk.apps[id] \in StoredRecord /\ Sound(disk.apps[id])
  BY DEF SoundDb, Database
<1>5. ASSUME NEW id \in Ids
      PROVE  new(id) \in StoredRecord /\ Sound(new(id))
  <2>1. CASE id \in DOMAIN stamp
    <3>1. Known(disk, id) /\ stamp[id] \in Nat
      BY <1>3, <2>1 DEF Unstamped
    <3>2. /\ new(id) \in StoredRecord
          /\ new(id).cfg = disk.apps[id].cfg
          /\ new(id).rels = disk.apps[id].rels
      BY <1>4, <2>1, <3>1, RecordUpdates, Zenon
    <3> QED BY <1>4, <3>1, <3>2, Zenon DEF Sound, Known
  <2>2. CASE id \notin DOMAIN stamp
    BY <1>4, <2>2
  <2> QED BY <2>1, <2>2
<1>6. Loaded(stamp) = [ver |-> FormatVersion, apps |-> [id \in Ids |-> new(id)], vols |-> disk.vols]
  BY DEF Loaded
<1> HIDE DEF new
<1>7. SoundDb(Loaded(stamp))
  BY <1>4, <1>5, <1>6 DEF SoundDb, Database, FormatVersion
<1> QED BY <1>2, <1>3, <1>7

\* A file with one sound record.
LEMMA FileIsSound ==
  ASSUME NEW ver \in Nat, NEW id \in Ids, NEW rec \in StoredRecord, Sound(rec)
  PROVE  SoundDb(FileWith(ver, id, rec)) /\ \A j \in Ids : FileWith(ver, id, rec).apps[j] \in {NoApp, rec}
<1> DEFINE none == [j \in Ids |-> NoApp]
           apps == [none EXCEPT ![id] = rec]
<1>1. apps \in [Ids -> StoredRecord] /\ \A j \in Ids : Sound(apps[j]) /\ apps[j] \in {NoApp, rec}
  <2>1. NoApp \in StoredRecord /\ Sound(NoApp)
    BY NothingIsSound, Zenon
  <2> HIDE DEF NoApp
  <2> QED BY <2>1, Zenon
<1>2. EmptyDb \in Database /\ EmptyDb.apps = none
  BY NothingIsSound DEF SoundDb, EmptyDb
<1> HIDE DEF none
<1>3. FileWith(ver, id, rec) = [EmptyDb EXCEPT !.ver = ver, !.apps = apps]
  BY <1>2, Zenon DEF FileWith, Database
<1> HIDE DEF apps
<1>4. FileWith(ver, id, rec) \in Database /\ FileWith(ver, id, rec).apps = apps
  BY <1>1, <1>2, <1>3, Zenon DEF Database
<1> QED BY <1>1, <1>4, Zenon DEF SoundDb

\* The ledger of a file of this version is in order.
LEMMA RolledBackIsSound ==
  ASSUME NEW c \in Configs, NEW d \in Configs
  PROVE  /\ RolledBackLedger(c, d) \in Seq(Release) /\ LedgerOrdered(RolledBackLedger(c, d))
         /\ RolledBackLedger(c, d) =
              <<[seq |-> 1, phase |-> "Superseded", cfg |-> c, from |-> 0, orig |-> 0],
                [seq |-> 2, phase |-> "RolledBack", cfg |-> d, from |-> 0, orig |-> 0],
                [seq |-> 3, phase |-> "Active", cfg |-> c, from |-> 1, orig |-> 1]>>
<1> DEFINE rel(n, phase, cfg, from, orig) ==
             [seq |-> n, phase |-> phase, cfg |-> cfg, from |-> from, orig |-> orig]
           one == rel(1, "Active", c, 0, 0)
           two == rel(2, "Active", d, 0, 0)
<1>1. NewRelease(<<>>, c, 0, 0) = one
  <2>1. <<>> \in Seq(Release) /\ Len(<<>>) = 0 /\ DOMAIN <<>> = {}
    OBVIOUS
  <2>2. NextSeq(<<>>) = 1
    <3> DEFINE s == <<>>
    <3>1. s \in Seq(Release) /\ Len(s) = 0 /\ \A i \in DOMAIN s : s[i].seq = i
      BY <2>1
    <3> HIDE DEF s
    <3>2. NextSeq(s) = Len(s) + 1
      BY <3>1, NextSeqCounts, Zenon
    <3>3. NextSeq(s) = 1
      BY <3>1, <3>2
    <3> QED BY <3>3 DEF s
  <2> QED BY <2>2 DEF NewRelease
<1>2. NewRelease(<<one>>, d, 0, 0) = two
  <2>1. one \in Release /\ one.seq = 1
    BY DEF Release, Phases
  <2> HIDE DEF one
  <2>2. <<one>> \in Seq(Release) /\ Len(<<one>>) = 1 /\ DOMAIN <<one>> = {1} /\ <<one>>[1] = one
    BY <2>1
  <2>3. NextSeq(<<one>>) = 2
    <3> DEFINE s == <<one>>
    <3>1. s \in Seq(Release) /\ Len(s) = 1 /\ \A i \in DOMAIN s : s[i].seq = i
      BY <2>1, <2>2, Zenon
    <3> HIDE DEF s
    <3>2. NextSeq(s) = Len(s) + 1
      BY <3>1, NextSeqCounts, Zenon
    <3>3. NextSeq(s) = 2
      BY <3>1, <3>2
    <3> QED BY <3>3 DEF s
  <2> QED BY <2>3 DEF NewRelease
<1>3. NewRelease(<<one, two>>, c, 1, 1) = rel(3, "Active", c, 1, 1)
  <2>1. one \in Release /\ one.seq = 1 /\ two \in Release /\ two.seq = 2
    BY DEF Release, Phases
  <2> HIDE DEF one, two
  <2>2. /\ <<one, two>> \in Seq(Release) /\ Len(<<one, two>>) = 2 /\ DOMAIN <<one, two>> = {1, 2}
        /\ <<one, two>>[1] = one /\ <<one, two>>[2] = two
    BY <2>1
  <2>3. NextSeq(<<one, two>>) = 3
    <3> DEFINE s == <<one, two>>
    <3>1. s \in Seq(Release) /\ Len(s) = 2 /\ \A i \in DOMAIN s : s[i].seq = i
      BY <2>1, <2>2
    <3> HIDE DEF s
    <3>2. NextSeq(s) = Len(s) + 1
      BY <3>1, NextSeqCounts, Zenon
    <3>3. NextSeq(s) = 3
      BY <3>1, <3>2
    <3> QED BY <3>3 DEF s
  <2> QED BY <2>3, Zenon DEF NewRelease
<1>4. RolledBackLedger(c, d) = <<rel(1, "Superseded", c, 0, 0), rel(2, "RolledBack", d, 0, 0),
                                 rel(3, "Active", c, 1, 1)>>
  BY <1>1, <1>2, <1>3 DEF RolledBackLedger
<1> QED BY <1>4 DEF LedgerOrdered, Release, Phases

(***************************************************************************)
(* The inductive invariant.                                                *)
(***************************************************************************)

LEMMA RecordsInitial == RecordsInit => RecordsInv
<1> SUFFICES ASSUME RecordsInit PROVE RecordsInv
  OBVIOUS
<1> DEFINE c == CHOOSE c \in Configs : TRUE
<1>1. c \in Configs
  BY RecordsAssumption
<1>2. \A id \in Ids : SoundDb(FileWith(1, id, Bare(c)))
  <2>1. Bare(c) \in StoredRecord /\ Sound(Bare(c))
    BY <1>1, NothingIsSound, Zenon DEF Bare, StoredRecord, Sound, NoApp
  <2> QED BY <2>1, FileIsSound
<1>3. \A id \in Ids : SoundDb(FileWith(2, id, newAppMetadata(Bare(c), 1)))
  <2>1. Bare(c) \in StoredRecord /\ Sound(Bare(c)) /\ Bare(c).cfg \in Configs
    BY <1>1, NothingIsSound, Zenon DEF Bare, StoredRecord, Sound, NoApp
  <2> DEFINE rec == newAppMetadata(Bare(c), 1)
  <2>2. rec \in StoredRecord /\ rec.cfg = Bare(c).cfg /\ rec.rels = Bare(c).rels
    BY <2>1, RecordUpdates, ZenonT(60)
  <2>3. Sound(rec)
    BY <2>1, <2>2 DEF Sound
  <2> HIDE DEF rec
  <2>4. \A id \in Ids : SoundDb(FileWith(2, id, rec))
    BY <2>2, <2>3, FileIsSound
  <2> QED BY <2>4 DEF rec
<1>4. ASSUME NEW id \in Ids, NEW d \in Configs
      PROVE  SoundDb(FileWith(3, id, [Bare(c) EXCEPT !.rels = RolledBackLedger(c, d)]))
  <2> DEFINE rels == RolledBackLedger(c, d)
             rec == [Bare(c) EXCEPT !.rels = rels]
  <2>1. rels \in Seq(Release) /\ LedgerOrdered(rels)
    BY <1>1, RolledBackIsSound
  <2> HIDE DEF rels
  <2>2. rec \in StoredRecord /\ rec.cfg = c /\ rec.rels = rels
    BY <1>1, <2>1, Zenon DEF Bare, StoredRecord, NoApp
  <2>3. Sound(rec)
    BY <1>1, <2>1, <2>2 DEF Sound
  <2> HIDE DEF rec
  <2>4. SoundDb(FileWith(3, id, rec))
    BY <2>2, <2>3, FileIsSound
  <2> QED BY <2>4 DEF rec, rels
<1>5. SoundDb(disk)
  <2> HIDE DEF c
  <2>1. disk \in {EmptyDb} \cup UNION {
          {FileWith(1, id, Bare(c)), FileWith(2, id, newAppMetadata(Bare(c), 1))}
            \cup {FileWith(3, id, [Bare(c) EXCEPT !.rels = RolledBackLedger(c, d)]) : d \in Configs \ {c}}
          : id \in Ids}
    BY Zenon DEF RecordsInit, Files, c
  <2> QED BY <1>2, <1>3, <1>4, <2>1, NothingIsSound, ZenonT(60)
<1> QED BY <1>5, NothingIsSound, Zenon DEF RecordsInit, RecordsInv

\* What VersionNamesContent says of a step that leaves next in memory.
Raises(next) ==
  \A id \in Ids :
    /\ Known(mem, id) /\ Known(next, id)
    /\ mem.apps[id].uid = next.apps[id].uid
    /\ mem.apps[id] # next.apps[id]
    => next.apps[id].rv > mem.apps[id].rv

\* A flush of a sound state, whether it succeeds or fails.
LEMMA FlushKeeps ==
  ASSUME RecordsInv, open, uids' \in Nat, NEW next, SoundDb(next), Raises(next),
         flushFull(next) \/ flushFullFails(next)
  PROVE  RecordsInv' /\ Raises(mem')
<1>1. mem' \in {mem, next} /\ disk' \in {disk, next} /\ open' = open
  BY Zenon DEF flushFull, flushFullFails
<1>2. SoundDb(mem') /\ SoundDb(disk')
  BY <1>1, Zenon DEF RecordsInv
<1>3. Raises(mem')
  BY <1>1, Zenon DEF Raises
<1>4. RecordsInv'
  BY <1>1, <1>2, Zenon DEF RecordsInv, SoundDb, Sound
<1> QED BY <1>3, <1>4

\* One mutation of one app's record.
LEMMA MutateKeeps ==
  ASSUME RecordsInv, NEW id \in Ids, Mutate(id)
  PROVE  RecordsInv' /\ Raises(mem')
<1> USE DEF Mutate
<1>0. open /\ SoundDb(mem) /\ uids \in Nat
  BY Zenon DEF RecordsInv
<1>1. ASSUME NEW c \in Configs, AddApp(id, c) \/ AddAppFails(id, c)
      PROVE  RecordsInv' /\ Raises(mem')
  <2> DEFINE next == AddAppState(id, c)
  <2>1. flushFull(next) \/ flushFullFails(next)
    BY <1>1, Zenon DEF AddApp, AddAppFails
  <2>2. uids' \in Nat
    BY <1>0, <1>1, SMTT(60) DEF AddApp, AddAppFails, AddAppUid
  <2>3. /\ SoundDb(next) /\ \A j \in Ids \ {id} : next.apps[j] = mem.apps[j]
        /\ Known(mem, id) => next.apps[id].rv > mem.apps[id].rv
    BY <1>0, AddAppWrites, SMTT(60)
  <2> HIDE DEF next
  <2>4. Raises(next)
    BY <2>3, ZenonT(30) DEF Raises
  <2> QED BY <1>0, <2>1, <2>2, <2>3, <2>4, FlushKeeps, Zenon
<1>2. CASE RemoveApp(id) \/ RemoveAppFails(id)
  <2> DEFINE next == WithApp(id, NoApp)
  <2>1. uids' \in Nat
    BY <1>0, <1>2, Zenon DEF RemoveApp, RemoveAppFails
  <2>5. SoundDb(next) /\ next.apps[id] = NoApp /\ \A j \in Ids \ {id} : next.apps[j] = mem.apps[j]
    BY <1>0, NothingIsSound, WithAppWrites, Zenon
  <2>2. SoundDb(next) /\ Raises(next)
    BY <2>5, ZenonT(30) DEF Raises, Known
  <2>3. \/ flushFull(next) \/ flushFullFails(next)
        \/ UNCHANGED <<mem, disk, flushFails, open>>
    BY <1>2, Zenon DEF RemoveApp, RemoveAppFails
  <2> HIDE DEF next
  <2>4. CASE UNCHANGED <<mem, disk, flushFails, open>>
    BY <2>1, <2>4, Zenon DEF RecordsInv, Raises, SoundDb, Sound
  <2> QED BY <1>0, <2>1, <2>2, <2>3, <2>4, FlushKeeps, Zenon
<1>3. ASSUME NEW c \in Configs, NEW from \in Nat, NEW orig \in Nat, NEW prior \in Phases \ {"Active"},
             CreateRelease(id, c, from, orig, prior) \/ CreateReleaseFails(id, c, from, orig, prior)
      PROVE  RecordsInv' /\ Raises(mem')
  <2> DEFINE next == CreateReleaseState(id, c, from, orig, prior)
  <2>1. Known(mem, id) /\ uids' = uids
    BY <1>3, Zenon DEF CreateRelease, CreateReleaseFails
  <2>2. flushFull(next) \/ flushFullFails(next)
    BY <1>3, Zenon DEF CreateRelease, CreateReleaseFails
  <2>0. ReleaseWritten(id, c, from, orig, prior, next)
    BY <1>0, <2>1, CreateReleaseWrites, Zenon
  <2> HIDE DEF next
  <2>3. /\ SoundDb(next) /\ \A j \in Ids \ {id} : next.apps[j] = mem.apps[j]
        /\ next.apps[id].rv > mem.apps[id].rv
    BY <2>0, Zenon DEF ReleaseWritten
  <2>4. Raises(next)
    BY <2>3, ZenonT(30) DEF Raises
  <2> QED BY <1>0, <2>1, <2>2, <2>3, <2>4, FlushKeeps, Zenon
<1>4. ASSUME NEW g \in Nat, SetObservedGeneration(id, g)
      PROVE  RecordsInv' /\ Raises(mem')
  <2> DEFINE cur == mem.apps[id]
             rec == [cur EXCEPT !.obs = g, !.rv = cur.rv + 1]
             next == WithApp(id, rec)
  <2>1. cur \in StoredRecord /\ Sound(cur) /\ cur.cfg \in Configs
    BY <1>0, <1>4, Zenon DEF SoundDb, Database, Sound, SetObservedGeneration, Known
  <2>2. flushFull(next) /\ uids' = uids
    BY <1>4, Zenon DEF SetObservedGeneration
  <2> HIDE DEF cur
  <2>3. cur.rv \in Nat /\ cur.rv + 1 \in Nat
    BY <2>1, RecordFields
  <2>4. rec \in StoredRecord /\ rec.cfg = cur.cfg /\ rec.rels = cur.rels /\ rec.rv = cur.rv + 1
    <3>1. \A o, v \in Nat :
            LET x == [cur EXCEPT !.obs = o, !.rv = v]
            IN  x \in StoredRecord /\ x.cfg = cur.cfg /\ x.rels = cur.rels /\ x.rv = v
      BY <2>1, RecordUpdates, Zenon
    <3> QED BY <2>3, <3>1, Zenon
  <2> HIDE DEF rec
  <2>5. Sound(rec)
    BY <2>1, <2>4, SMTT(60) DEF Sound
  <2>6. SoundDb(next) /\ Raises(next)
    BY <1>0, <2>3, <2>4, <2>5, WithAppWrites DEF Raises, cur
  <2> HIDE DEF next
  <2> QED BY <1>0, <2>2, <2>6, FlushKeeps
<1> QED BY <1>1, <1>2, <1>3, <1>4, Zenon

\* One mutation of the volumes.
LEMMA VolumeKeeps ==
  ASSUME RecordsInv, open, NEW v \in Vols,
         AddVolume(v) \/ AddVolumeFails(v) \/ RemoveVolume(v) \/ RemoveVolumeFails(v)
  PROVE  RecordsInv' /\ Raises(mem')
<1>1. SoundDb(mem) /\ uids \in Nat /\ uids' = uids
  BY Zenon DEF RecordsInv, AddVolume, AddVolumeFails, RemoveVolume, RemoveVolumeFails
<1>2. ASSUME NEW vols \in SUBSET Vols,
             LET next == [mem EXCEPT !.vols = vols] IN flushFull(next) \/ flushFullFails(next)
      PROVE  RecordsInv' /\ Raises(mem')
  <2> DEFINE next == [mem EXCEPT !.vols = vols]
  <2>1. next \in Database /\ next.apps = mem.apps
    BY <1>1 DEF SoundDb, Database
  <2>2. flushFull(next) \/ flushFullFails(next)
    BY <1>2, Zenon
  <2> HIDE DEF next
  <2>3. SoundDb(next) /\ Raises(next)
    BY <1>1, <2>1, Zenon DEF SoundDb, Raises
  <2> QED BY <1>1, <2>2, <2>3, FlushKeeps, Zenon
<1>3. CASE UNCHANGED <<mem, disk, flushFails, open>>
  BY <1>1, <1>3, Zenon DEF RecordsInv, Raises, SoundDb, Sound
<1>4. mem.vols \cup {v} \in SUBSET Vols /\ mem.vols \ {v} \in SUBSET Vols
  BY <1>1, Zenon DEF SoundDb, Database
<1> QED BY <1>2, <1>3, <1>4, Zenon DEF AddVolume, AddVolumeFails, RemoveVolume, RemoveVolumeFails

\* Every step of the store keeps the invariant, and raises the version of what it changes.
LEMMA RecordsStep ==
  ASSUME IdsCounted, RecordsInv, RecordsNext
  PROVE  RecordsInv' /\ Raises(mem')
<1>1. CASE NewStore
  <2>1. PICK stamp \in Stamps : /\ mem' = Loaded(stamp)
                                /\ disk' = IF MustRewrite THEN Loaded(stamp) ELSE disk
                                /\ uids' = uids + Cardinality(DOMAIN stamp)
    BY <1>1 DEF NewStore
  <2>2. SoundDb(disk) /\ uids \in Nat
    BY DEF RecordsInv
  <2>3. SoundDb(Loaded(stamp)) /\ uids' \in Nat
    BY <2>1, <2>2, LoadedIsSound, Zenon
  <2>4. SoundDb(mem') /\ SoundDb(disk')
    BY <2>1, <2>2, <2>3, Zenon
  <2>5. RecordsInv'
    BY <1>1, <2>3, <2>4, Zenon DEF RecordsInv, NewStore, SoundDb, Sound
  <2>6. \A id \in Ids : ~Known(mem, id)
    BY <1>1 DEF NewStore, RecordsInv, EmptyDb, Known
  <2> QED BY <2>5, <2>6, Zenon DEF Raises
<1>2. CASE NewStoreFails
  <2>1. PICK stamp \in Stamps : /\ disk' \in {disk, Loaded(stamp)}
                                /\ uids' = uids + Cardinality(DOMAIN stamp)
    BY <1>2, Zenon DEF NewStoreFails
  <2>2. SoundDb(disk) /\ uids \in Nat
    BY DEF RecordsInv
  <2>3. SoundDb(disk') /\ uids' \in Nat
    BY <2>1, <2>2, LoadedIsSound, Zenon
  <2>4. mem' = mem /\ open' = open
    BY <1>2, Zenon DEF NewStoreFails
  <2> QED BY <2>3, <2>4, Zenon DEF RecordsInv, SoundDb, Sound, Raises
<1>3. CASE CloseStore
  <2>1. mem' = EmptyDb /\ disk' = disk /\ uids' = uids /\ open' = FALSE
    BY <1>3 DEF CloseStore
  <2>2. RecordsInv'
    BY <2>1, NothingIsSound, Zenon DEF RecordsInv, SoundDb, Sound
  <2>3. \A id \in Ids : ~Known(mem', id)
    BY <2>1 DEF EmptyDb, Known
  <2> QED BY <2>2, <2>3 DEF Raises
<1> QED BY <1>1, <1>2, <1>3, MutateKeeps, VolumeKeeps, Zenon DEF RecordsNext

Proc == [inst : Nat, cfg : Nat]

SpawnPcs == {"spawn", "spawn route", "spawn store", "spawn undo"}
DeployPcs == {"deploy", "deploy swap", "deploy route", "deploy store", "deploy ledger"}

\* The steps of the verbs that hold the lock.
LockedPcs == DeployPcs \cup {"rollback", "stop", "stop wait", "stop route", "stop store"}

Pcs == {"idle", "lock", "restart"} \cup SpawnPcs \cup LockedPcs
Ops == {"none", "spawn", "deploy", "stop", "rollback", "restart"}

Requests ==
  [pc : Pcs, op : Ops, id : Ids \cup {"none"}, cfg : Nat, match : Nat, to : Nat,
   orig : Nat, inst : Nat, v1 : Proc]

\* The release a deploy is about to append points nowhere, or back into the ledger.
Points(rels, r) ==
  \/ r.to = 0 /\ r.orig = 0
  \/ /\ r.to \in DOMAIN rels
     /\ r.orig \in 1..r.to
     /\ rels[r.orig].from = 0
     /\ rels[r.to].cfg = r.cfg
     /\ rels[r.orig].cfg = r.cfg

\* A ledger whose pointers lead back; a release that is no rollback has none.
Pointed(rels) == PointBack(rels) /\ \A i \in DOMAIN rels : rels[i].from = 0 => rels[i].orig = 0

AllPointed == \A id \in Ids : Pointed(mem.apps[id].rels) /\ Pointed(disk.apps[id].rels)

\* What the request of client c relies on.
RequestOK(c) ==
  LET r == req[c]
  IN  r.pc # "idle" =>
        /\ open /\ restore = {}
        /\ r.id \in Ids
        /\ r.pc = "lock" => casApplies(r.op)
        /\ r.pc = "rollback" => r.op = "rollback"
        /\ r.op = "deploy" => r.cfg \in Configs /\ r.to = 0 /\ r.orig = 0
        /\ r.pc \in SpawnPcs => r.cfg \in Configs /\ r.op = "spawn"
        /\ r.pc \in LockedPcs => lock[r.id] = c
        /\ r.pc \in DeployPcs => r.cfg \in Configs /\ Points(mem.apps[r.id].rels, r)
        /\ r.pc \notin LockedPcs \cup {"lock"} => r.match = 0

\* A create that shares its app with another request has marked the app.
Overlaps ==
  \A c, d \in Clients :
    c # d /\ req[c].pc # "idle" /\ req[d].pc # "idle" /\ req[c].id = req[d].id /\ req[c].op = "spawn"
      => req[c].id \in mixed

ApiTypes ==
  /\ running \in [Ids -> Proc]
  /\ served \in Nat
  /\ lock \in [Ids -> Clients \cup {Free}]
  /\ req \in [Clients -> Requests]
  /\ restore \subseteq Ids
  /\ \A id \in restore : Known(mem, id)

ApiInv ==
  /\ RecordsInv
  /\ AllPointed
  /\ ApiTypes
  /\ \A c \in Clients : RequestOK(c)
  /\ Overlaps
  /\ MatchHolds

(***************************************************************************)
(* The ledger's pointers.                                                  *)
(***************************************************************************)

\* The release that a deploy or a rollback appends points back, as those before it do.
LEMMA AppendPointsBack ==
  ASSUME NEW rels \in Seq(Release), LedgerOrdered(rels), Pointed(rels),
         NEW r \in Requests, r.cfg \in Configs, Points(rels, r),
         NEW prior \in Phases \ {"Active"}
  PROVE  Pointed(Append(Retire(rels, prior), NewRelease(rels, r.cfg, r.to, r.orig)))
<1> DEFINE old == Retire(rels, prior)
           new == NewRelease(rels, r.cfg, r.to, r.orig)
           next == Append(old, new)
           n == Len(rels)
<1>1. n \in Nat /\ DOMAIN rels = 1..n /\ \A i \in 1..n : rels[i] \in Release
  OBVIOUS
<1>2. r.to \in Nat /\ r.orig \in Nat
  BY DEF Requests
<1>3. \A i \in 1..n : /\ old[i].from = rels[i].from /\ old[i].orig = rels[i].orig
                       /\ old[i].cfg = rels[i].cfg /\ old[i] \in Release
  BY <1>1, Zenon DEF Retire, Release
<1>4. old \in Seq(Release) /\ Len(old) = n
  <2>1. old = [i \in 1..n |-> old[i]]
    BY <1>1, Zenon DEF Retire
  <2> HIDE DEF old
  <2> QED BY <1>1, <1>3, <2>1
<1>5. new.cfg = r.cfg /\ new.from = r.to /\ new.orig = r.orig
  BY DEF NewRelease
<1> HIDE DEF old, new
<1>6. /\ DOMAIN next = 1..(n + 1)
      /\ \A i \in 1..n : next[i] = old[i]
      /\ next[n + 1] = new
  BY <1>1, <1>4
<1> HIDE DEF next, n
<1>7. \A i \in 1..n : /\ next[i].from = rels[i].from /\ next[i].orig = rels[i].orig
                       /\ next[i].cfg = rels[i].cfg
  BY <1>3, <1>6, Zenon
<1>8. ASSUME NEW i \in 1..n
      PROVE  /\ next[i].from # 0 =>
                  /\ next[i].from \in 1..(i - 1) /\ next[i].orig \in 1..next[i].from
                  /\ next[next[i].orig].from = 0
                  /\ next[next[i].from].cfg = next[i].cfg /\ next[next[i].orig].cfg = next[i].cfg
             /\ next[i].from = 0 => next[i].orig = 0
  <2>1. CASE rels[i].from = 0
    BY <1>1, <1>7, <2>1, ZenonT(60) DEF Pointed
  <2>2. CASE rels[i].from # 0
    <3>1. /\ rels[i].from \in 1..(i - 1) /\ rels[i].orig \in 1..rels[i].from
          /\ rels[rels[i].orig].from = 0
          /\ rels[rels[i].from].cfg = rels[i].cfg /\ rels[rels[i].orig].cfg = rels[i].cfg
      BY <1>1, <2>2, Zenon DEF Pointed, PointBack
    <3>2. rels[i].from \in 1..n /\ rels[i].orig \in 1..n
      BY <1>1, <3>1
    <3> QED BY <1>7, <2>2, <3>1, <3>2, ZenonT(60)
  <2> QED BY <2>1, <2>2, Zenon
<1>9. /\ new.from # 0 =>
           /\ new.from \in 1..n /\ new.orig \in 1..new.from
           /\ next[new.orig].from = 0
           /\ next[new.from].cfg = new.cfg /\ next[new.orig].cfg = new.cfg
      /\ new.from = 0 => new.orig = 0
  <2>1. CASE r.to = 0 /\ r.orig = 0
    BY <1>5, <2>1, Zenon
  <2>2. CASE /\ r.to \in DOMAIN rels /\ r.orig \in 1..r.to /\ rels[r.orig].from = 0
             /\ rels[r.to].cfg = r.cfg /\ rels[r.orig].cfg = r.cfg
    <3>1. r.to \in 1..n /\ r.orig \in 1..n
      BY <1>1, <2>2
    <3> QED BY <1>1, <1>5, <1>7, <2>2, <3>1, SMTT(60)
  <2> QED BY <2>1, <2>2, Zenon DEF Points
<1>10. \A i \in 1..(n + 1) : i \in 1..n \/ i = n + 1
  BY <1>1
<1>11. Pointed(next)
  <2> SUFFICES ASSUME NEW i \in 1..(n + 1)
               PROVE  /\ next[i].from # 0 =>
                           /\ next[i].from \in 1..(i - 1) /\ next[i].orig \in 1..next[i].from
                           /\ next[next[i].orig].from = 0
                           /\ next[next[i].from].cfg = next[i].cfg
                           /\ next[next[i].orig].cfg = next[i].cfg
                      /\ next[i].from = 0 => next[i].orig = 0
    BY <1>6, Zenon DEF Pointed, PointBack
  <2>1. CASE i \in 1..n
    BY <1>8, <2>1, Zenon
  <2>2. CASE i = n + 1
    <3>1. i - 1 = n
      BY <1>1, <2>2
    <3> QED BY <1>6, <1>9, <2>2, <3>1, Zenon
  <2> QED BY <1>10, <2>1, <2>2, Zenon
<1> QED BY <1>11, Zenon DEF next, old, new

\* RollbackApp finds at most one release, and what it takes from it points back.
LEMMA TargetPointsBack ==
  ASSUME NEW rels \in Seq(Release), LedgerOrdered(rels), Pointed(rels),
         NEW to \in Nat, NEW i \in DOMAIN rels, rels[i].seq = to,
         NEW r, r.to = to, r.cfg = rels[i].cfg, r.orig = resolveOriginalArtifactRelease(rels[i])
  PROVE  Points(rels, r) /\ r.cfg \in Configs /\ r.orig \in Nat
<1>1. DOMAIN rels = 1..Len(rels) /\ Len(rels) \in Nat /\ rels[i] \in Release
  OBVIOUS
<1>2. i = to
  BY DEF LedgerOrdered
<1>3. rels[i].cfg \in Configs /\ rels[i].from \in Nat /\ rels[i].orig \in Nat
  BY <1>1, Zenon DEF Release
<1>4. CASE rels[i].from = 0
  <2>1. r.orig = to
    BY <1>4, Zenon DEF resolveOriginalArtifactRelease, Pointed
  <2> QED BY <1>1, <1>2, <1>3, <1>4, <2>1 DEF Points
<1>5. CASE rels[i].from # 0
  <2>1. /\ rels[i].from \in 1..(i - 1) /\ rels[i].orig \in 1..rels[i].from
        /\ rels[rels[i].orig].from = 0 /\ rels[rels[i].orig].cfg = rels[i].cfg
    BY <1>5, Zenon DEF Pointed, PointBack
  <2>2. r.orig = rels[i].orig /\ r.orig \in 1..to
    BY <1>1, <1>2, <1>3, <2>1, SMTT(60) DEF resolveOriginalArtifactRelease
  <2> QED BY <1>1, <1>2, <1>3, <2>1, <2>2, Zenon DEF Points
<1> QED BY <1>4, <1>5, Zenon

(***************************************************************************)
(* What each call into the store does to the ledgers and versions.         *)
(***************************************************************************)

LEMMA NothingIsPointed == Pointed(NoApp.rels) /\ \A id \in Ids : EmptyDb.apps[id] = NoApp
BY DEF Pointed, PointBack, NoApp, EmptyDb

\* A flush, whether it succeeds or fails, of a state with pointed ledgers.
LEMMA FlushPointed ==
  ASSUME AllPointed, NEW next, \A j \in Ids : Pointed(next.apps[j].rels),
         flushFull(next) \/ flushFullFails(next)
  PROVE  AllPointed' /\ open' = open /\ mem' \in {mem, next}
<1>1. mem' \in {mem, next} /\ disk' \in {disk, next} /\ open' = open
  BY DEF flushFull, flushFullFails
<1>2. \A j \in Ids : Pointed(mem'.apps[j].rels) /\ Pointed(disk'.apps[j].rels)
  BY <1>1, Zenon DEF AllPointed
<1> QED BY <1>1, <1>2, Zenon DEF AllPointed, Pointed, PointBack

\* AddApp leaves every ledger, and every other record.
LEMMA AddAppEffect ==
  ASSUME RecordsInv, AllPointed, NEW id \in Ids, NEW cfg \in Configs,
         AddApp(id, cfg) \/ AddAppFails(id, cfg)
  PROVE  /\ AllPointed' /\ open' = open
         /\ \A j \in Ids : mem'.apps[j].rels = mem.apps[j].rels
         /\ \A j \in Ids \ {id} : mem'.apps[j] = mem.apps[j]
<1> DEFINE next == AddAppState(id, cfg)
<1>1. flushFull(next) \/ flushFullFails(next)
  BY Zenon DEF AddApp, AddAppFails
<1>2. /\ next.apps[id].rels = mem.apps[id].rels
      /\ \A j \in Ids \ {id} : next.apps[j] = mem.apps[j]
  BY AddAppWrites, Zenon DEF RecordsInv
<1> HIDE DEF next
<1>3. \A j \in Ids : next.apps[j].rels = mem.apps[j].rels
  BY <1>2, Zenon
<1>4. \A j \in Ids : Pointed(next.apps[j].rels)
  BY <1>3, Zenon DEF AllPointed
<1>5. AllPointed' /\ open' = open /\ mem' \in {mem, next}
  BY <1>1, <1>4, FlushPointed, Zenon
<1> QED BY <1>2, <1>3, <1>5, Zenon

\* RemoveApp leaves every other record.
LEMMA RemoveAppEffect ==
  ASSUME RecordsInv, AllPointed, NEW id \in Ids, RemoveApp(id) \/ RemoveAppFails(id)
  PROVE  /\ AllPointed' /\ open' = open
         /\ \A j \in Ids \ {id} : mem'.apps[j] = mem.apps[j]
<1> DEFINE next == WithApp(id, NoApp)
<1>1. \/ flushFull(next) \/ flushFullFails(next)
      \/ UNCHANGED <<mem, disk, flushFails, open>>
  BY DEF RemoveApp, RemoveAppFails
<1>2. next.apps[id] = NoApp /\ \A j \in Ids \ {id} : next.apps[j] = mem.apps[j]
  BY WithAppWrites, NothingIsSound, Zenon DEF RecordsInv
<1> HIDE DEF next
<1>3. \A j \in Ids : Pointed(next.apps[j].rels)
  BY <1>2, NothingIsPointed, Zenon DEF AllPointed
<1>4. CASE UNCHANGED <<mem, disk, flushFails, open>>
  <2>1. mem' = mem /\ disk' = disk /\ open' = open
    BY <1>4, Zenon
  <2>2. \A j \in Ids : Pointed(mem'.apps[j].rels) /\ Pointed(disk'.apps[j].rels)
    BY <2>1, Zenon DEF AllPointed
  <2> QED BY <2>1, <2>2, Zenon DEF AllPointed, Pointed, PointBack
<1>5. CASE flushFull(next) \/ flushFullFails(next)
  <2>1. AllPointed' /\ open' = open /\ mem' \in {mem, next}
    BY <1>3, <1>5, FlushPointed, Zenon
  <2> QED BY <1>2, <2>1, Zenon
<1> QED BY <1>1, <1>4, <1>5, Zenon

\* CreateRelease appends to one ledger and leaves every other record.
LEMMA CreateReleaseEffect ==
  ASSUME RecordsInv, AllPointed, NEW id \in Ids, NEW r \in Requests, r.cfg \in Configs,
         Points(mem.apps[id].rels, r), NEW prior \in Phases \ {"Active"},
         CreateRelease(id, r.cfg, r.to, r.orig, prior) \/ CreateReleaseFails(id, r.cfg, r.to, r.orig, prior)
  PROVE  /\ AllPointed' /\ open' = open
         /\ \A j \in Ids \ {id} : mem'.apps[j] = mem.apps[j]
<1> DEFINE next == CreateReleaseState(id, r.cfg, r.to, r.orig, prior)
<1>1. (flushFull(next) \/ flushFullFails(next)) /\ Known(mem, id)
  BY ZenonT(60) DEF CreateRelease, CreateReleaseFails
<1>2. SoundDb(mem) /\ r.to \in Nat /\ r.orig \in Nat
  BY DEF RecordsInv, Requests
<1>3. /\ next.apps[id].rels = Append(Retire(mem.apps[id].rels, prior),
                                    NewRelease(mem.apps[id].rels, r.cfg, r.to, r.orig))
      /\ \A j \in Ids \ {id} : next.apps[j] = mem.apps[j]
  <2> DEFINE cfg == r.cfg
             from == r.to
             orig == r.orig
  <2>1. cfg \in Configs /\ from \in Nat /\ orig \in Nat
    BY <1>2, Zenon
  <2> HIDE DEF cfg, from, orig
  <2>2. ReleaseWritten(id, cfg, from, orig, prior, CreateReleaseState(id, cfg, from, orig, prior))
    BY <1>1, <1>2, <2>1, CreateReleaseWrites, Zenon
  <2> USE DEF cfg, from, orig
  <2>3. ReleaseWritten(id, cfg, from, orig, prior, next)
    BY <2>2, Zenon
  <2> HIDE DEF next
  <2> QED BY <2>3, Zenon DEF ReleaseWritten
<1> HIDE DEF next
<1>4. mem.apps[id].rels \in Seq(Release) /\ LedgerOrdered(mem.apps[id].rels) /\ Pointed(mem.apps[id].rels)
  BY <1>2 DEF SoundDb, Database, StoredRecord, Sound, AllPointed
<1>5. Pointed(next.apps[id].rels)
  BY <1>3, <1>4, AppendPointsBack, Zenon
<1>6. \A j \in Ids : Pointed(next.apps[j].rels)
  BY <1>3, <1>5, Zenon DEF AllPointed
<1>7. AllPointed' /\ open' = open /\ mem' \in {mem, next}
  BY <1>1, <1>6, FlushPointed, Zenon
<1> QED BY <1>3, <1>7, Zenon

\* NewStore takes the ledgers from the disk.
LEMMA LoadedEffect ==
  ASSUME RecordsInv, AllPointed, NEW stamp \in Stamps
  PROVE  \A id \in Ids : Pointed(Loaded(stamp).apps[id].rels)
<1> TAKE id \in Ids
<1> DEFINE new == IF id \in DOMAIN stamp THEN newAppMetadata(disk.apps[id], stamp[id]) ELSE disk.apps[id]
<1>1. Loaded(stamp).apps[id] = new
  BY DEF Loaded
<1>2. disk.apps[id] \in StoredRecord
  BY Zenon DEF RecordsInv, SoundDb, Database
<1>3. new.rels = disk.apps[id].rels
  BY <1>2, Zenon DEF newAppMetadata, StoredRecord
<1> QED BY <1>1, <1>3, Zenon DEF AllPointed

(***************************************************************************)
(* Requests in flight, while one client's request takes a step.            *)
(***************************************************************************)

\* A step leaves the records that client d has locked, and d its locks.
RecordsKept(d) ==
  \A id \in Ids :
    /\ lock[id] = d => mem'.apps[id].rels = mem.apps[id].rels
    /\ lock[id] = d /\ req[d].id = id /\ req[d].pc # "idle" =>
         mem'.apps[id].rv = mem.apps[id].rv \/ id \in mixed

Undisturbed(d) == RecordsKept(d) /\ \A id \in Ids : lock[id] = d => lock'[id] = d

LEMMA OthersKeep ==
  ASSUME ApiInv, NEW d \in Clients, req'[d] = req[d], open' = open, restore' = restore,
         mixed \subseteq mixed', Undisturbed(d)
  PROVE  RequestOK(d)' /\ (req'[d].id \notin mixed' => Matched(d)')
<1> DEFINE r == req[d]
<1>1. RequestOK(d) /\ (r.id \notin mixed => Matched(d)) /\ req' [d] = r
  BY Zenon DEF ApiInv, MatchHolds
<1>2. CASE r.pc = "idle"
  BY <1>1, <1>2, ZenonT(60) DEF RequestOK, Matched
<1>3. CASE r.pc # "idle"
  <2>1. r.id \in Ids /\ (r.pc \in LockedPcs => lock[r.id] = d)
    BY <1>1, <1>3, Zenon DEF RequestOK
  <2>2. r.pc \in LockedPcs => /\ lock'[r.id] = d
                              /\ mem'.apps[r.id].rels = mem.apps[r.id].rels
                              /\ mem'.apps[r.id].rv = mem.apps[r.id].rv \/ r.id \in mixed
    BY <1>3, <2>1, Zenon DEF Undisturbed, RecordsKept
  <2>3. r.pc \in DeployPcs => r.pc \in LockedPcs
    BY DEF LockedPcs
  <2>4. RequestOK(d)'
    BY <1>1, <1>3, <2>1, <2>2, <2>3, Zenon DEF RequestOK, Points
  <2>5. ASSUME r.id \notin mixed', r.match # 0, r.pc \notin {"idle", "lock", "deploy ledger"}
        PROVE  mem'.apps[r.id].rv = r.match
    <3>1. r.id \notin mixed /\ mem.apps[r.id].rv = r.match
      BY <1>1, <2>5, ZenonT(60) DEF Matched
    <3>2. r.pc \in LockedPcs
      BY <1>1, <1>3, <2>5, Zenon DEF RequestOK
    <3> QED BY <2>2, <3>1, <3>2, ZenonT(60)
  <2> QED BY <1>1, <2>4, <2>5 DEF Matched
<1> QED BY <1>2, <1>3, Zenon

\* One client's request becomes x, and everybody else's stays.
LEMMA ClientStep ==
  ASSUME ApiInv, NEW c \in Clients, NEW x \in Requests, req' = [req EXCEPT ![c] = x],
         open' = open, restore = {}, restore' = restore, mixed \subseteq mixed',
         running' \in [Ids -> Proc], served' \in Nat, lock' \in [Ids -> Clients \cup {Free}],
         \A d \in Clients \ {c} : Undisturbed(d),
         RequestOK(c)', x.id \notin mixed' => Matched(c)',
         \A d \in Clients \ {c} :
           /\ x.pc # "idle" /\ req[d].pc # "idle" /\ x.id = req[d].id
           /\ x.op = "spawn" \/ req[d].op = "spawn"
           => x.id \in mixed'
  PROVE  ApiTypes' /\ (\A d \in Clients : RequestOK(d)') /\ Overlaps' /\ MatchHolds'
<1>1. req \in [Clients -> Requests]
  BY Zenon DEF ApiInv, ApiTypes
<1>2. req'[c] = x /\ \A d \in Clients \ {c} : req'[d] = req[d]
  BY <1>1, ZenonT(60)
<1>3. \A d \in Clients \ {c} : RequestOK(d)' /\ (req'[d].id \notin mixed' => Matched(d)')
  BY <1>2, OthersKeep, ZenonT(60)
<1>4. ApiTypes'
  BY <1>1, Zenon DEF ApiTypes
<1>5. \A d \in Clients : RequestOK(d)'
  BY <1>3, Zenon
<1>6. MatchHolds'
  BY <1>2, <1>3, Zenon DEF MatchHolds
<1>7. Overlaps'
  <2> SUFFICES ASSUME NEW a \in Clients, NEW b \in Clients, a # b,
                      req'[a].pc # "idle", req'[b].pc # "idle", req'[a].id = req'[b].id,
                      req'[a].op = "spawn"
               PROVE  req'[a].id \in mixed'
    BY ZenonT(60) DEF Overlaps
  <2>1. CASE a # c /\ b # c
    BY <1>2, <2>1, SMTT(60) DEF ApiInv, Overlaps
  <2>2. CASE a = c
    BY <1>2, <2>2
  <2>3. CASE b = c
    BY <1>2, <2>3, ZenonT(60)
  <2> QED BY <2>1, <2>2, <2>3, Zenon
<1> QED BY <1>4, <1>5, <1>6, <1>7, Zenon

\* A response: the lock of the request is released, those of the others stay.
LEMMA ResponseOK ==
  ASSUME ApiInv, NEW c \in Clients, req[c].pc # "idle", Respond(c),
         open' = open, restore' = restore, mixed' = mixed, running' \in [Ids -> Proc], served' = served,
         \A d \in Clients \ {c} : RecordsKept(d)
  PROVE  ApiTypes' /\ (\A d \in Clients : RequestOK(d)') /\ Overlaps' /\ MatchHolds'
<1>1. req' = [req EXCEPT ![c] = Idle] /\ lock' = [id \in Ids |-> IF lock[id] = c THEN Free ELSE lock[id]]
  BY Zenon DEF Respond
<1>2. req \in [Clients -> Requests] /\ lock \in [Ids -> Clients \cup {Free}] /\ served \in Nat
  BY Zenon DEF ApiInv, ApiTypes
<1>3. Idle \in Requests /\ Idle.pc = "idle"
  BY Zenon DEF Idle, Requests, Pcs, Ops, Proc, NoProc
<1>4. restore = {}
  BY Zenon DEF ApiInv, RequestOK
<1>5. lock' \in [Ids -> Clients \cup {Free}] /\ \A d \in Clients \ {c} : Undisturbed(d)
  BY <1>1, <1>2, Zenon DEF Undisturbed
<1> HIDE DEF Idle
<1>6. req'[c] = Idle
  BY <1>1, <1>2, ZenonT(60)
<1>7. RequestOK(c)' /\ Matched(c)'
  BY <1>3, <1>6 DEF RequestOK, Matched
<1> QED BY <1>1, <1>2, <1>3, <1>4, <1>5, <1>7, ClientStep, ZenonT(60)

\* The request goes on to the next call of its handler; v1 is what it has learned.
GoesOn(c, pc) == \E v \in Proc : req' = [req EXCEPT ![c] = [req[c] EXCEPT !.pc = pc, !.v1 = v]]

LEMMA GotoGoesOn ==
  ASSUME ApiInv, NEW c \in Clients, NEW pc, Goto(c, pc)
  PROVE  GoesOn(c, pc)
<1>1. req[c] \in Requests
  BY DEF ApiInv, ApiTypes
<1>2. req[c].v1 \in Proc /\ [req[c] EXCEPT !.pc = pc] = [req[c] EXCEPT !.pc = pc, !.v1 = req[c].v1]
  BY <1>1, Zenon DEF Requests
<1>3. req' = [req EXCEPT ![c] = [req[c] EXCEPT !.pc = pc]]
  BY ZenonT(60) DEF Goto
<1> QED BY <1>2, <1>3, Zenon DEF GoesOn

LEMMA ClientGoes ==
  ASSUME ApiInv, NEW c \in Clients, NEW pc \in Pcs \ {"idle", "lock", "rollback"}, GoesOn(c, pc),
         req[c].pc \notin {"idle", "lock", "deploy ledger"},
         pc \in SpawnPcs <=> req[c].pc \in SpawnPcs,
         pc \in LockedPcs <=> req[c].pc \in LockedPcs,
         pc \in DeployPcs => req[c].pc \in DeployPcs,
         open' = open, restore' = restore, mixed' = mixed, lock' = lock,
         running' \in [Ids -> Proc], served' = served,
         mem'.apps[req[c].id].rels = mem.apps[req[c].id].rels,
         pc \in LockedPcs \ {"deploy ledger"} => mem'.apps[req[c].id].rv = mem.apps[req[c].id].rv,
         \A d \in Clients \ {c} : RecordsKept(d)
  PROVE  ApiTypes' /\ (\A d \in Clients : RequestOK(d)') /\ Overlaps' /\ MatchHolds'
<1>0. PICK v \in Proc : req' = [req EXCEPT ![c] = [req[c] EXCEPT !.pc = pc, !.v1 = v]]
  BY ZenonT(60) DEF GoesOn
<1> DEFINE r == req[c]
           x == [r EXCEPT !.pc = pc, !.v1 = v]
<1>1. req \in [Clients -> Requests] /\ lock \in [Ids -> Clients \cup {Free}] /\ served \in Nat
  BY ZenonT(60) DEF ApiInv, ApiTypes
<1>2. req' = [req EXCEPT ![c] = x]
  BY <1>0
<1>3. /\ x \in Requests
      /\ x.pc = pc /\ x.op = r.op /\ x.id = r.id /\ x.cfg = r.cfg /\ x.match = r.match
      /\ x.to = r.to /\ x.orig = r.orig
  BY <1>1, ZenonT(60) DEF Requests
<1> HIDE DEF x
<1>4. req'[c] = x
  BY <1>1, <1>2
<1>5. RequestOK(c) /\ (r.id \notin mixed => Matched(c))
  BY Zenon DEF ApiInv, MatchHolds
<1>6. RequestOK(c)'
  BY <1>3, <1>4, <1>5, ZenonT(60) DEF RequestOK, Points
<1>7. x.id \notin mixed' => Matched(c)'
  <2> SUFFICES ASSUME x.id \notin mixed', x.match # 0, pc # "deploy ledger"
               PROVE  mem'.apps[x.id].rv = x.match
    BY <1>3, <1>4, Zenon DEF Matched
  <2>1. mem.apps[r.id].rv = r.match
    BY <1>3, <1>5, ZenonT(60) DEF Matched
  <2>2. r.pc \in LockedPcs
    BY <1>3, <1>5, Zenon DEF RequestOK
  <2> QED BY <1>3, <2>1, <2>2, ZenonT(60)
<1>8. restore = {}
  BY <1>5, Zenon DEF RequestOK
<1>9. \A d \in Clients \ {c} :
        /\ x.pc # "idle" /\ req[d].pc # "idle" /\ x.id = req[d].id
        /\ x.op = "spawn" \/ req[d].op = "spawn"
        => x.id \in mixed'
  BY <1>3, ZenonT(60) DEF ApiInv, Overlaps
<1>10. \A d \in Clients \ {c} : Undisturbed(d)
  BY Zenon DEF Undisturbed
<1> QED BY <1>1, <1>2, <1>3, <1>6, <1>7, <1>8, <1>9, <1>10, ClientStep, ZenonT(60)

\* A step that leaves the store alone keeps what every client has locked.
LEMMA StoreUntouched ==
  ASSUME UNCHANGED recordVars, ApiInv
  PROVE  /\ open' = open /\ AllPointed' /\ mem' = mem
         /\ \A d \in Clients : RecordsKept(d)
<1>1. mem' = mem /\ disk' = disk /\ open' = open
  BY DEF recordVars
<1>2. AllPointed'
  <2>1. AllPointed
    BY Zenon DEF ApiInv
  <2>2. \A id \in Ids : Pointed(mem'.apps[id].rels) /\ Pointed(disk'.apps[id].rels)
    BY <1>1, <2>1, Zenon DEF AllPointed
  <2> QED BY <2>2, Zenon DEF AllPointed, Pointed, PointBack
<1>3. \A d \in Clients : RecordsKept(d)
  BY <1>1, Zenon DEF RecordsKept
<1> QED BY <1>1, <1>2, <1>3, Zenon

\* A call that changes only the record of its own app, which the caller has locked.
LEMMA OwnRecord ==
  ASSUME ApiInv, NEW c \in Clients, lock[req[c].id] = c,
         \A j \in Ids \ {req[c].id} : mem'.apps[j] = mem.apps[j]
  PROVE  \A d \in Clients \ {c} : RecordsKept(d)
BY Zenon DEF RecordsKept

\* A create that changes only the version of its app's record.
LEMMA SpawnRecord ==
  ASSUME ApiInv, NEW c \in Clients, req[c].pc # "idle", req[c].op = "spawn",
         \A j \in Ids \ {req[c].id} : mem'.apps[j] = mem.apps[j],
         \A j \in Ids : mem'.apps[j].rels = mem.apps[j].rels
  PROVE  \A d \in Clients \ {c} : RecordsKept(d)
BY DEF RecordsKept, ApiInv, Overlaps

(***************************************************************************)
(* The steps.  Each keeps the invariant, and is to the store a step that   *)
(* AppRecords allows, or none.                                             *)
(***************************************************************************)
RequestsOK == ApiTypes /\ (\A c \in Clients : RequestOK(c)) /\ Overlaps /\ MatchHolds

StoreStep == RecordsNext \/ UNCHANGED recordVars

\* A request arrives.
LEMMA BeginOK ==
  ASSUME ApiInv, NEW c \in Clients, NEW op \in Ops \ {"none"}, NEW id \in Ids, NEW cfg \in Nat,
         NEW match \in Nat, NEW to \in Nat, Begin(c, op, id, cfg, match, to),
         op \in {"spawn", "deploy"} => cfg \in Configs, op # "rollback" => to = 0,
         op \in {"spawn", "restart"} => match = 0
  PROVE  AllPointed' /\ RequestsOK' /\ StoreStep
<1> DEFINE pc == IF casApplies(op) THEN "lock" ELSE op
           n == served + 1
           x == [Idle EXCEPT !.pc = pc, !.op = op, !.id = id, !.cfg = cfg, !.match = match, !.to = to,
                             !.inst = n]
<1>1. /\ open /\ restore = {} /\ req' = [req EXCEPT ![c] = x] /\ served' = n
      /\ UNCHANGED <<recordVars, restore, running, lock>>
      /\ mixed' = IF /\ InFlight(id) # {}
                     /\ op = "spawn" \/ \E d \in InFlight(id) : req[d].op = "spawn"
                  THEN mixed \cup {id} ELSE mixed
  BY Zenon DEF Begin
<1>2. /\ req \in [Clients -> Requests] /\ lock \in [Ids -> Clients \cup {Free}] /\ served \in Nat
      /\ running \in [Ids -> Proc]
  BY Zenon DEF ApiInv, ApiTypes
<1>3. n \in Nat /\ NoProc \in Proc
  BY <1>2 DEF NoProc, Proc
<1>4. /\ pc \in Pcs \ {"idle"}
      /\ casApplies(op) => pc = "lock"
      /\ ~casApplies(op) => pc = op /\ pc \in {"spawn", "restart"}
  BY DEF Pcs, Ops, LockedPcs, DeployPcs, SpawnPcs, casApplies
<1> HIDE DEF pc, n, NoProc
<1>5. /\ x \in Requests /\ x.pc = pc /\ x.op = op /\ x.id = id /\ x.cfg = cfg /\ x.match = match
      /\ x.to = to /\ x.orig = 0
  BY <1>3, <1>4 DEF Idle, Requests
<1> HIDE DEF x
<1>6. req'[c] = x
  BY <1>1, <1>2, Zenon
<1>7. open' = open /\ AllPointed' /\ \A d \in Clients : RecordsKept(d)
  BY <1>1, StoreUntouched, ZenonT(60)
<1>8. RequestOK(c)'
  BY <1>1, <1>4, <1>5, <1>6, <1>7, ZenonT(60)
  DEF RequestOK, casApplies, SpawnPcs, LockedPcs, DeployPcs
<1>9. Matched(c)'
  BY <1>4, <1>5, <1>6 DEF Matched, casApplies
<1>10. \A d \in Clients \ {c} :
         /\ x.pc # "idle" /\ req[d].pc # "idle" /\ x.id = req[d].id
         /\ x.op = "spawn" \/ req[d].op = "spawn"
         => x.id \in mixed'
  BY <1>1, <1>5, Zenon DEF InFlight
<1>11. \A d \in Clients \ {c} : Undisturbed(d)
  BY <1>1, <1>7, Zenon DEF Undisturbed
<1>12. mixed \subseteq mixed'
  BY <1>1, Zenon
<1> QED BY <1>1, <1>2, <1>3, <1>5, <1>7, <1>8, <1>9, <1>10, <1>11, <1>12, ClientStep, ZenonT(60)
        DEF RequestsOK, StoreStep

LEMMA RequestKeeps ==
  ASSUME ApiInv, NEW c \in Clients, Request(c)
  PROVE  AllPointed' /\ RequestsOK' /\ StoreStep
<1>1. PICK id \in Ids :
        \/ \E cfg \in Configs : Begin(c, "spawn", id, cfg, 0, 0)
        \/ \E cfg \in Configs, m \in {0, mem.apps[id].rv} : Begin(c, "deploy", id, cfg, m, 0)
        \/ \E m \in {0, mem.apps[id].rv} : Begin(c, "stop", id, 0, m, 0)
        \/ \E to \in 1..(Len(mem.apps[id].rels) + 1) : Begin(c, "rollback", id, 0, mem.apps[id].rv, to)
        \/ Begin(c, "restart", id, 0, 0, 0)
  BY Zenon DEF Request
<1>2. mem.apps[id] \in StoredRecord
  BY Zenon DEF ApiInv, RecordsInv, SoundDb, Database
<1>3. mem.apps[id].rv \in Nat /\ Len(mem.apps[id].rels) \in Nat
  BY <1>2, RecordFields
<1>4. Configs \subseteq Nat /\ \A to \in 1..(Len(mem.apps[id].rels) + 1) : to \in Nat
  BY <1>3, RecordsAssumption
<1> QED BY <1>1, <1>3, <1>4, BeginOK, Zenon DEF Ops

\* The If-Match check, and the lock.
LEMMA casMiddlewareKeeps ==
  ASSUME ApiInv, NEW c \in Clients, casMiddleware(c)
  PROVE  AllPointed' /\ RequestsOK' /\ StoreStep
<1> DEFINE r == req[c]
<1>1. /\ r.pc = "lock" /\ lock[r.id] = Free
      /\ UNCHANGED <<recordVars, restore, running, served, mixed>>
  BY Zenon DEF casMiddleware
<1>2. /\ req \in [Clients -> Requests] /\ lock \in [Ids -> Clients \cup {Free}] /\ served \in Nat
      /\ running \in [Ids -> Proc] /\ r \in Requests
  BY Zenon DEF ApiInv, ApiTypes
<1>3. /\ open /\ restore = {} /\ r.id \in Ids /\ r.op \in {"stop", "deploy", "rollback"}
      /\ r.op = "deploy" => r.cfg \in Configs /\ r.to = 0 /\ r.orig = 0
  BY <1>1, Zenon DEF ApiInv, RequestOK, casApplies
<1>4. open' = open /\ AllPointed' /\ mem' = mem /\ \A d \in Clients : RecordsKept(d)
  BY <1>1, StoreUntouched, Zenon
<1>5. \A d \in Clients \ {c} : lock[r.id] # d
  BY <1>1, ApiAssumption, Zenon
<1>6. CASE req' = [req EXCEPT ![c] = Idle] /\ lock' = lock
  <2>1. Idle \in Requests /\ Idle.pc = "idle"
    BY ZenonT(60) DEF Idle, Requests, Pcs, Ops, Proc, NoProc
  <2> HIDE DEF Idle
  <2>2. req'[c] = Idle /\ RequestOK(c)' /\ Matched(c)'
    BY <1>2, <1>6, <2>1, Zenon DEF RequestOK, Matched
  <2>3. \A d \in Clients : Undisturbed(d)
    BY <1>4, <1>6, Zenon DEF Undisturbed
  <2> QED BY <1>1, <1>2, <1>3, <1>4, <1>6, <2>1, <2>2, <2>3, ClientStep, Zenon DEF RequestsOK, StoreStep
<1>7. CASE /\ r.match = 0 \/ ~Known(mem, r.id) \/ r.match = mem.apps[r.id].rv
           /\ req' = [req EXCEPT ![c].pc = r.op, ![c].match = IF Known(mem, r.id) THEN @ ELSE 0]
           /\ lock' = [lock EXCEPT ![r.id] = c]
  <2> DEFINE m == IF Known(mem, r.id) THEN r.match ELSE 0
             x == [r EXCEPT !.pc = r.op, !.match = m]
  <2>1. req' = [req EXCEPT ![c] = x]
    BY <1>2, <1>7, Zenon
  <2>2. m \in Nat /\ (m # 0 => m = mem.apps[r.id].rv)
    BY <1>2, <1>7, Zenon DEF Requests
  <2>3. r.op \in LockedPcs /\ r.op \in Pcs
    BY <1>3 DEF LockedPcs, DeployPcs, Pcs
  <2> HIDE DEF m
  <2>4. /\ x \in Requests /\ x.pc = r.op /\ x.match = m /\ x.op = r.op /\ x.id = r.id /\ x.cfg = r.cfg
        /\ x.to = r.to /\ x.orig = r.orig
    BY <1>2, <2>2, <2>3, Zenon DEF Requests
  <2> HIDE DEF x
  <2>5. req'[c] = x /\ lock'[r.id] = c /\ lock' \in [Ids -> Clients \cup {Free}]
    BY <1>2, <1>3, <1>7, <2>1, Zenon
  <2>6. RequestOK(c)'
    BY <1>1, <1>3, <1>4, <2>3, <2>4, <2>5, Zenon DEF RequestOK, SpawnPcs, DeployPcs, Points
  <2>7. Matched(c)'
    BY <1>4, <2>2, <2>4, <2>5 DEF Matched
  <2>8. \A d \in Clients \ {c} : Undisturbed(d)
    BY <1>2, <1>3, <1>4, <1>5, <1>7, Zenon DEF Undisturbed
  <2>9. \A d \in Clients \ {c} :
          /\ x.pc # "idle" /\ req[d].pc # "idle" /\ x.id = req[d].id
          /\ x.op = "spawn" \/ req[d].op = "spawn"
          => x.id \in mixed'
    BY <1>1, <2>4, ZenonT(60) DEF ApiInv, Overlaps
  <2> QED BY <1>1, <1>2, <1>3, <1>4, <2>1, <2>4, <2>5, <2>6, <2>7, <2>8, <2>9, ClientStep, Zenon
          DEF RequestsOK, StoreStep
<1> QED BY <1>6, <1>7, Zenon DEF casMiddleware

\* The calls that leave the store alone and answer, or go on to the next call.
LEMMA PlainCallKeeps ==
  ASSUME ApiInv, NEW c \in Clients,
         \/ SpawnCall(c) \/ SpawnRoute(c) \/ SpawnUndo(c)
         \/ StopCall(c) \/ StopWait(c) \/ StopRoute(c)
         \/ DeployCall(c) \/ DeploySwap(c) \/ DeployRoute(c) \/ RestartCall(c)
  PROVE  AllPointed' /\ RequestsOK' /\ StoreStep
<1> DEFINE r == req[c]
<1>1. /\ UNCHANGED <<recordVars, restore, served, mixed>>
      /\ r.pc \notin {"idle", "lock", "deploy ledger"}
  BY DEF SpawnCall, SpawnRoute, SpawnUndo, StopCall, StopWait, StopRoute, DeployCall, DeploySwap,
         DeployRoute, RestartCall
<1>2. open' = open /\ AllPointed' /\ mem' = mem /\ \A d \in Clients : RecordsKept(d)
  BY <1>1, StoreUntouched
<1>3. r \in Requests /\ r.id \in Ids /\ running \in [Ids -> Proc] /\ req \in [Clients -> Requests]
  BY <1>1, Zenon DEF ApiInv, ApiTypes, RequestOK
<1>4. running' \in [Ids -> Proc]
  <2>1. NoProc \in Proc /\ [inst |-> r.inst, cfg |-> r.cfg] \in Proc /\ r.v1 \in Proc
    BY <1>3, Zenon DEF NoProc, Proc, Requests
  <2> HIDE DEF NoProc
  <2> QED BY <1>3, <2>1
          DEF SpawnCall, SpawnRoute, SpawnUndo, StopCall, StopWait, StopRoute, DeployCall, DeploySwap,
              DeployRoute, RestartCall
<1>5. ASSUME NEW pc, req' = [req EXCEPT ![c].pc = pc, ![c].v1 = running[r.id]]
      PROVE  GoesOn(c, pc)
  <2>1. running[r.id] \in Proc
    BY <1>3, Zenon
  <2>2. req' = [req EXCEPT ![c] = [r EXCEPT !.pc = pc, !.v1 = running[r.id]]]
    BY <1>3, <1>5, Zenon
  <2> QED BY <2>1, <2>2, Zenon DEF GoesOn
<1>6. \/ Respond(c)
      \/ /\ UNCHANGED lock
         /\ \/ r.pc = "spawn" /\ GoesOn(c, "spawn route")
            \/ r.pc = "spawn route" /\ GoesOn(c, "spawn store")
            \/ r.pc = "stop" /\ GoesOn(c, "stop wait")
            \/ r.pc = "stop wait" /\ GoesOn(c, "stop route")
            \/ r.pc = "stop route" /\ GoesOn(c, "stop store")
            \/ r.pc = "deploy" /\ GoesOn(c, "deploy swap")
            \/ r.pc = "deploy swap" /\ GoesOn(c, "deploy route")
            \/ r.pc = "deploy route" /\ GoesOn(c, "deploy store")
  BY <1>5, GotoGoesOn, Zenon
  DEF SpawnCall, SpawnRoute, SpawnUndo, StopCall, StopWait, StopRoute, DeployCall, DeploySwap,
      DeployRoute, RestartCall
<1>7. CASE Respond(c)
  BY <1>1, <1>2, <1>4, <1>7, ResponseOK, ZenonT(60) DEF RequestsOK, StoreStep
<1>8. ASSUME NEW pc \in Pcs \ {"idle", "lock", "rollback"}, GoesOn(c, pc), UNCHANGED lock,
             pc \in SpawnPcs <=> r.pc \in SpawnPcs, pc \in LockedPcs <=> r.pc \in LockedPcs,
             pc \in DeployPcs => r.pc \in DeployPcs
      PROVE  RequestsOK'
  BY <1>1, <1>2, <1>4, <1>8, ClientGoes, Zenon DEF RequestsOK
<1>9. CASE ~Respond(c)
  <2> DEFINE Goes(pc) == /\ GoesOn(c, pc)
                         /\ pc \in SpawnPcs <=> r.pc \in SpawnPcs
                         /\ pc \in LockedPcs <=> r.pc \in LockedPcs
                         /\ pc \in DeployPcs => r.pc \in DeployPcs
  <2>1. UNCHANGED lock
    BY <1>6, <1>9, Zenon
  <2>2. \/ Goes("spawn route") \/ Goes("spawn store") \/ Goes("stop wait") \/ Goes("stop route")
        \/ Goes("stop store") \/ Goes("deploy swap") \/ Goes("deploy route") \/ Goes("deploy store")
    BY <1>6, <1>9, Zenon DEF SpawnPcs, LockedPcs, DeployPcs
  <2>3. \A pc \in {"spawn route", "spawn store", "stop wait", "stop route", "stop store",
                   "deploy swap", "deploy route", "deploy store"} : pc \in Pcs \ {"idle", "lock", "rollback"}
    BY DEF Pcs, SpawnPcs, LockedPcs, DeployPcs
  <2>4. \E pc \in Pcs \ {"idle", "lock", "rollback"} : Goes(pc)
    BY <2>2, <2>3, Zenon
  <2>5. RequestsOK'
    BY <1>8, <2>1, <2>4, Zenon
  <2> QED BY <1>1, <1>2, <2>5, ZenonT(60) DEF StoreStep
<1> QED BY <1>7, <1>9, Zenon

\* The record of a new app, and the undoing of a create.
LEMMA SpawnStoreKeeps ==
  ASSUME ApiInv, NEW c \in Clients, SpawnStore(c)
  PROVE  AllPointed' /\ RequestsOK' /\ StoreStep
<1> DEFINE r == req[c]
<1>1. /\ r.pc = "spawn store" /\ UNCHANGED <<running, restore, served, mixed>>
      /\ AddApp(r.id, r.cfg) \/ AddAppFails(r.id, r.cfg)
      /\ Respond(c) \/ (Goto(c, "spawn undo") /\ UNCHANGED lock)
  BY DEF SpawnStore
<1>2. open /\ r.id \in Ids /\ r.cfg \in Configs /\ r.op = "spawn" /\ running \in [Ids -> Proc]
  BY <1>1, ZenonT(60) DEF ApiInv, ApiTypes, RequestOK, SpawnPcs
<1>3. /\ AllPointed' /\ open' = open
      /\ \A j \in Ids : mem'.apps[j].rels = mem.apps[j].rels
      /\ \A j \in Ids \ {r.id} : mem'.apps[j] = mem.apps[j]
  BY <1>1, <1>2, AddAppEffect, ZenonT(60) DEF ApiInv
<1>4. \A d \in Clients \ {c} : RecordsKept(d)
  BY <1>1, <1>2, <1>3, SpawnRecord, Zenon
<1>5. StoreStep
  BY <1>1, <1>2, Zenon DEF StoreStep, RecordsNext, Mutate
<1>6. CASE Respond(c)
  BY <1>1, <1>2, <1>3, <1>4, <1>5, <1>6, ResponseOK, Zenon DEF RequestsOK
<1>7. CASE Goto(c, "spawn undo") /\ UNCHANGED lock
  <2>1. /\ "spawn undo" \in Pcs \ {"idle", "lock", "rollback"}
        /\ "spawn undo" \in SpawnPcs /\ r.pc \in SpawnPcs
        /\ "spawn undo" \notin LockedPcs /\ r.pc \notin LockedPcs /\ "spawn undo" \notin DeployPcs
        /\ r.pc \notin {"idle", "lock", "deploy ledger"}
    BY <1>1 DEF Pcs, SpawnPcs, LockedPcs, DeployPcs
  <2>2. GoesOn(c, "spawn undo")
    BY <1>7, GotoGoesOn
  <2> QED BY <1>1, <1>2, <1>3, <1>4, <1>5, <1>7, <2>1, <2>2, ClientGoes, ZenonT(60) DEF RequestsOK
<1> QED BY <1>1, <1>6, <1>7

\* The record of a stopped app is removed.
LEMMA StopStoreKeeps ==
  ASSUME ApiInv, NEW c \in Clients, StopStore(c)
  PROVE  AllPointed' /\ RequestsOK' /\ StoreStep
<1> DEFINE r == req[c]
<1>1. /\ r.pc = "stop store" /\ Respond(c) /\ UNCHANGED <<running, restore, served, mixed>>
      /\ RemoveApp(r.id) \/ RemoveAppFails(r.id)
  BY Zenon DEF StopStore
<1>2. open /\ r.id \in Ids /\ lock[r.id] = c /\ running \in [Ids -> Proc]
  BY <1>1, Zenon DEF ApiInv, ApiTypes, RequestOK, LockedPcs
<1>3. AllPointed' /\ open' = open /\ \A j \in Ids \ {r.id} : mem'.apps[j] = mem.apps[j]
  BY <1>1, <1>2, RemoveAppEffect, Zenon DEF ApiInv
<1>4. \A d \in Clients \ {c} : RecordsKept(d)
  BY <1>2, <1>3, OwnRecord, ZenonT(60)
<1>5. RequestsOK'
  BY <1>1, <1>2, <1>3, <1>4, ResponseOK, ZenonT(60) DEF RequestsOK
<1>6. StoreStep
  BY <1>1, <1>2, ZenonT(60) DEF StoreStep, RecordsNext, Mutate
<1> QED BY <1>3, <1>5, <1>6, ZenonT(60)

\* The record of a deployed app.
LEMMA DeployStoreKeeps ==
  ASSUME ApiInv, NEW c \in Clients, DeployStore(c)
  PROVE  AllPointed' /\ RequestsOK' /\ StoreStep
<1> DEFINE r == req[c]
<1>1. /\ r.pc = "deploy store" /\ UNCHANGED <<running, restore, served, mixed>>
      /\ AddApp(r.id, r.cfg) \/ AddAppFails(r.id, r.cfg)
      /\ Respond(c) \/ (Goto(c, "deploy ledger") /\ UNCHANGED lock)
  BY DEF DeployStore
<1>2. open /\ r.id \in Ids /\ r.cfg \in Configs /\ lock[r.id] = c /\ running \in [Ids -> Proc]
  BY <1>1, ZenonT(60) DEF ApiInv, ApiTypes, RequestOK, DeployPcs, LockedPcs
<1>3. /\ AllPointed' /\ open' = open
      /\ \A j \in Ids : mem'.apps[j].rels = mem.apps[j].rels
      /\ \A j \in Ids \ {r.id} : mem'.apps[j] = mem.apps[j]
  BY <1>1, <1>2, AddAppEffect DEF ApiInv
<1>4. \A d \in Clients \ {c} : RecordsKept(d)
  BY <1>2, <1>3, OwnRecord, Zenon
<1>5. StoreStep
  BY <1>1, <1>2, ZenonT(60) DEF StoreStep, RecordsNext, Mutate
<1>6. CASE Respond(c)
  BY <1>1, <1>2, <1>3, <1>4, <1>5, <1>6, ResponseOK DEF RequestsOK
<1>7. CASE Goto(c, "deploy ledger") /\ UNCHANGED lock
  <2>1. /\ "deploy ledger" \in Pcs \ {"idle", "lock", "rollback"}
        /\ "deploy ledger" \notin SpawnPcs /\ r.pc \notin SpawnPcs
        /\ "deploy ledger" \in LockedPcs /\ r.pc \in LockedPcs
        /\ "deploy ledger" \in DeployPcs /\ r.pc \in DeployPcs
        /\ r.pc \notin {"idle", "lock", "deploy ledger"}
    BY <1>1 DEF Pcs, SpawnPcs, LockedPcs, DeployPcs
  <2>2. GoesOn(c, "deploy ledger")
    BY <1>7, GotoGoesOn
  <2> QED BY <1>1, <1>2, <1>3, <1>4, <1>5, <1>7, <2>1, <2>2, ClientGoes, ZenonT(60) DEF RequestsOK
<1> QED BY <1>1, <1>6, <1>7

\* The release is appended to the ledger.
LEMMA DeployLedgerKeeps ==
  ASSUME ApiInv, NEW c \in Clients, DeployLedger(c)
  PROVE  AllPointed' /\ RequestsOK' /\ StoreStep
<1> DEFINE r == req[c]
           prior == PriorActivePhase(r.op)
<1>1. /\ r.pc = "deploy ledger" /\ Respond(c) /\ UNCHANGED <<running, restore, served, mixed>>
      /\ \/ CreateRelease(r.id, r.cfg, r.to, r.orig, prior)
         \/ CreateReleaseFails(r.id, r.cfg, r.to, r.orig, prior)
         \/ UNCHANGED recordVars
  BY Zenon DEF DeployLedger, CreateReleaseNotFound
<1>2. /\ open /\ r.id \in Ids /\ r.cfg \in Configs /\ lock[r.id] = c /\ running \in [Ids -> Proc]
      /\ Points(mem.apps[r.id].rels, r) /\ r \in Requests
  BY <1>1, Zenon DEF ApiInv, ApiTypes, RequestOK, DeployPcs, LockedPcs
<1>3. prior \in Phases \ {"Active"}
  BY Zenon DEF PriorActivePhase, Phases
<1> HIDE DEF prior
<1>4. CASE UNCHANGED recordVars
  <2>1. open' = open /\ AllPointed' /\ \A d \in Clients : RecordsKept(d)
    BY <1>4, StoreUntouched, Zenon
  <2> QED BY <1>1, <1>2, <1>4, <2>1, ResponseOK, ZenonT(60) DEF RequestsOK, StoreStep
<1>5. CASE \/ CreateRelease(r.id, r.cfg, r.to, r.orig, prior)
           \/ CreateReleaseFails(r.id, r.cfg, r.to, r.orig, prior)
  <2>1. AllPointed' /\ open' = open /\ \A j \in Ids \ {r.id} : mem'.apps[j] = mem.apps[j]
    BY <1>2, <1>3, <1>5, CreateReleaseEffect, Zenon DEF ApiInv
  <2>2. \A d \in Clients \ {c} : RecordsKept(d)
    BY <1>2, <2>1, OwnRecord, Zenon
  <2>3. RequestsOK'
    BY <1>1, <1>2, <2>1, <2>2, ResponseOK, Zenon DEF RequestsOK
  <2>4. r.to \in Nat /\ r.orig \in Nat
    BY <1>2, Zenon DEF Requests
  <2>5. StoreStep
    BY <1>2, <1>3, <1>5, <2>4, Zenon DEF StoreStep, RecordsNext, Mutate
  <2> QED BY <2>1, <2>3, <2>5
<1> QED BY <1>1, <1>4, <1>5

\* A rollback looks up the release it goes back to.
LEMMA RollbackCallKeeps ==
  ASSUME ApiInv, NEW c \in Clients, RollbackCall(c)
  PROVE  AllPointed' /\ RequestsOK' /\ StoreStep
<1> DEFINE r == req[c]
           rels == mem.apps[r.id].rels
           i == CHOOSE k \in FindRelease(r.id, r.to) : TRUE
<1>1. r.pc = "rollback" /\ UNCHANGED <<recordVars, running, restore, served, mixed>>
  BY Zenon DEF RollbackCall
<1>2. open' = open /\ AllPointed' /\ mem' = mem /\ \A d \in Clients : RecordsKept(d)
  BY <1>1, StoreUntouched, Zenon
<1>3. /\ r \in Requests /\ open /\ restore = {} /\ r.id \in Ids /\ lock[r.id] = c
      /\ running \in [Ids -> Proc] /\ served \in Nat /\ lock \in [Ids -> Clients \cup {Free}]
      /\ req \in [Clients -> Requests] /\ r.op # "deploy"
  <2>1. r \in Requests /\ RequestOK(c)
    BY Zenon DEF ApiInv, ApiTypes
  <2> QED BY <1>1, <2>1, Zenon DEF ApiInv, ApiTypes, RequestOK, LockedPcs
<1>4. CASE Respond(c)
  BY <1>1, <1>2, <1>3, <1>4, ResponseOK DEF RequestsOK, StoreStep
<1>5. CASE /\ FindRelease(r.id, r.to) # {} /\ UNCHANGED lock
           /\ req' = [req EXCEPT ![c].pc = "deploy", ![c].cfg = rels[i].cfg,
                                 ![c].orig = resolveOriginalArtifactRelease(rels[i])]
  <2> DEFINE orig == resolveOriginalArtifactRelease(rels[i])
             x == [r EXCEPT !.pc = "deploy", !.cfg = rels[i].cfg, !.orig = orig]
  <2>1. i \in DOMAIN rels /\ rels[i].seq = r.to
    BY <1>5, Zenon DEF FindRelease
  <2>2. rels \in Seq(Release) /\ LedgerOrdered(rels) /\ Pointed(rels)
    BY <1>3, Zenon DEF ApiInv, RecordsInv, SoundDb, Database, StoredRecord, Sound, AllPointed
  <2>3. r.to \in Nat
    BY <1>3 DEF Requests
  <2> HIDE DEF i, rels
  <2>4. req' = [req EXCEPT ![c] = x]
    BY <1>3, <1>5, Zenon
  <2>5. rels[i].cfg \in Configs /\ orig \in Nat
    <3>1. rels[i] \in Release
      BY <2>1, <2>2
    <3> QED BY <3>1, ZenonT(60) DEF Release, resolveOriginalArtifactRelease
  <2>6. "deploy" \in Pcs /\ "deploy" \in DeployPcs /\ "deploy" \in LockedPcs /\ "deploy" \notin SpawnPcs
    BY Zenon DEF Pcs, DeployPcs, LockedPcs, SpawnPcs
  <2> HIDE DEF orig
  <2>7. /\ x \in Requests /\ x.pc = "deploy" /\ x.cfg = rels[i].cfg /\ x.orig = orig /\ x.op = r.op
        /\ x.id = r.id /\ x.match = r.match /\ x.to = r.to
    BY <1>3, <2>5, <2>6, RecordsAssumption, Zenon DEF Requests
  <2> HIDE DEF x
  <2>8. req'[c] = x
    BY <1>3, <2>4, Zenon
  <2>9. Points(rels, x)
    BY <2>1, <2>2, <2>3, <2>7, TargetPointsBack, Zenon DEF orig
  <2>10. RequestOK(c)'
    BY <1>1, <1>2, <1>3, <1>5, <2>5, <2>6, <2>7, <2>8, <2>9, ZenonT(60) DEF RequestOK, rels
  <2>11. x.id \notin mixed' => Matched(c)'
    <3>1. r.id \notin mixed => Matched(c)
      BY Zenon DEF ApiInv, MatchHolds
    <3> QED BY <1>1, <1>2, <2>7, <2>8, <3>1 DEF Matched
  <2>12. \A d \in Clients \ {c} : Undisturbed(d)
    BY <1>2, <1>5, Zenon DEF Undisturbed
  <2>13. \A d \in Clients \ {c} :
           /\ x.pc # "idle" /\ req[d].pc # "idle" /\ x.id = req[d].id
           /\ x.op = "spawn" \/ req[d].op = "spawn"
           => x.id \in mixed'
    BY <1>1, <2>7, Zenon DEF ApiInv, Overlaps
  <2>14. RequestsOK'
    BY <1>1, <1>2, <1>3, <1>5, <2>4, <2>7, <2>10, <2>11, <2>12, <2>13, ClientStep, ZenonT(60) DEF RequestsOK
  <2> QED BY <1>1, <1>2, <2>14, Zenon DEF StoreStep
<1> QED BY <1>4, <1>5, Zenon DEF RollbackCall

(***************************************************************************)
(* The steps of the daemon itself.                                         *)
(***************************************************************************)

LEMMA NobodyWaits ==
  ASSUME \A c \in Clients : req'[c].pc = "idle"
  PROVE  (\A c \in Clients : RequestOK(c)') /\ Overlaps' /\ MatchHolds'
BY DEF RequestOK, Overlaps, MatchHolds, Matched

LEMMA DaemonEndsKeeps ==
  ASSUME ApiInv, DaemonEnds
  PROVE  AllPointed' /\ RequestsOK' /\ StoreStep
<1>1. /\ CloseStore /\ running' = [id \in Ids |-> NoProc] /\ restore' = {}
      /\ lock' = [id \in Ids |-> Free] /\ req' = [c \in Clients |-> Idle] /\ served' = served
  BY Zenon DEF DaemonEnds
<1>2. Idle \in Requests /\ Idle.pc = "idle" /\ NoProc \in Proc /\ served \in Nat
  BY Zenon DEF Idle, Requests, Pcs, Ops, Proc, NoProc, ApiInv, ApiTypes
<1> HIDE DEF Idle, NoProc
<1>3. ApiTypes'
  BY <1>1, <1>2, Zenon DEF ApiTypes
<1>4. RequestsOK'
  BY <1>1, <1>2, <1>3, NobodyWaits, Zenon DEF RequestsOK
<1>5. mem' = EmptyDb /\ disk' = disk
  BY <1>1, Zenon DEF CloseStore
<1>6. \A id \in Ids : Pointed(mem'.apps[id].rels) /\ Pointed(disk'.apps[id].rels)
  BY <1>5, NothingIsPointed, Zenon DEF ApiInv, AllPointed
<1> QED BY <1>1, <1>4, <1>6, Zenon DEF AllPointed, Pointed, PointBack, StoreStep, RecordsNext

LEMMA BootKeeps ==
  ASSUME ApiInv, Boot \/ BootFails
  PROVE  AllPointed' /\ RequestsOK' /\ StoreStep
<1>1. ~open /\ UNCHANGED <<running, lock, req, served>> /\ (NewStore \/ NewStoreFails)
  BY Zenon DEF Boot, BootFails, NewStore, NewStoreFails, apiVars
<1>2. \A c \in Clients : req'[c].pc = "idle"
  BY <1>1, Zenon DEF ApiInv, RequestOK
<1>3. \A id \in Ids : Pointed(mem'.apps[id].rels) /\ Pointed(disk'.apps[id].rels)
  <2>1. PICK stamp \in Stamps : mem' \in {mem, Loaded(stamp)} /\ disk' \in {disk, Loaded(stamp)}
    BY <1>1, Zenon DEF NewStore, NewStoreFails
  <2>2. \A id \in Ids : Pointed(Loaded(stamp).apps[id].rels)
    BY LoadedEffect, Zenon DEF ApiInv
  <2> QED BY <2>1, <2>2, Zenon DEF ApiInv, AllPointed
<1>4. ApiTypes'
  <2>1. restore' \subseteq Ids /\ \A id \in restore' : Known(mem', id)
    BY Zenon DEF Boot, BootFails, NewStoreFails, apiVars, ApiInv, ApiTypes
  <2> QED BY <1>1, <2>1, Zenon DEF ApiInv, ApiTypes, Known
<1> QED BY <1>1, <1>2, <1>3, <1>4, NobodyWaits, Zenon
        DEF AllPointed, Pointed, PointBack, RequestsOK, StoreStep, RecordsNext

LEMMA RestoreKeeps ==
  ASSUME ApiInv, NEW id \in Ids, RestoreApp(id) \/ RestoreFails(id)
  PROVE  AllPointed' /\ RequestsOK' /\ StoreStep
<1> DEFINE cfg == mem.apps[id].cfg
<1>1. /\ id \in restore /\ restore' = restore \ {id} /\ UNCHANGED <<lock, req, served>>
      /\ AddApp(id, cfg) \/ AddAppFails(id, cfg) \/ UNCHANGED recordVars
      /\ running' = [running EXCEPT ![id] = [inst |-> 0, cfg |-> cfg]] \/ running' = running
  BY Zenon DEF RestoreApp, RestoreFails
<1>2. \A c \in Clients : req'[c].pc = "idle"
  BY <1>1, Zenon DEF ApiInv, RequestOK
<1>3. Known(mem, id) /\ SoundDb(mem)
  BY <1>1, Zenon DEF ApiInv, ApiTypes, RecordsInv
<1>4. cfg \in Configs
  BY <1>3, Zenon DEF SoundDb, Sound, Known
<1>5. open
  <2>1. ~open => mem = EmptyDb
    BY Zenon DEF ApiInv, RecordsInv
  <2> QED BY <1>3, <2>1, NothingIsPointed, Zenon DEF Known
<1>6. AllPointed' /\ \A j \in Ids \ {id} : mem'.apps[j] = mem.apps[j]
  <2>1. CASE AddApp(id, cfg) \/ AddAppFails(id, cfg)
    BY <1>4, <2>1, AddAppEffect, Zenon DEF ApiInv
  <2>2. CASE UNCHANGED recordVars
    BY <2>2, StoreUntouched, Zenon
  <2> QED BY <1>1, <2>1, <2>2, Zenon
<1>7. StoreStep
  BY <1>1, <1>4, <1>5, Zenon DEF StoreStep, RecordsNext, Mutate
<1>8. ApiTypes'
  <2>1. [inst |-> 0, cfg |-> cfg] \in Proc
    BY <1>4, RecordsAssumption, Zenon DEF Proc
  <2>2. running \in [Ids -> Proc]
    BY Zenon DEF ApiInv, ApiTypes
  <2> HIDE DEF cfg
  <2>3. running' \in [Ids -> Proc]
    BY <1>1, <2>1, <2>2, Zenon
  <2>4. restore' \subseteq Ids /\ \A j \in restore' : Known(mem', j)
    BY <1>1, <1>6, Zenon DEF ApiInv, ApiTypes, Known
  <2> QED BY <1>1, <2>3, <2>4, Zenon DEF ApiInv, ApiTypes, Known
<1> QED BY <1>2, <1>6, <1>7, <1>8, NobodyWaits, Zenon DEF RequestsOK

\* Nothing happens to the records, the requests or the locks.
LEMMA AsideKeeps ==
  ASSUME ApiInv, UNCHANGED <<recordVars, restore, lock, req, served, mixed>>, running' \in [Ids -> Proc]
  PROVE  AllPointed' /\ RequestsOK' /\ StoreStep
<1>1. open' = open /\ AllPointed' /\ mem' = mem /\ \A d \in Clients : RecordsKept(d)
  BY StoreUntouched, Zenon
<1>2. \A d \in Clients : RequestOK(d)' /\ (req'[d].id \notin mixed' => Matched(d)')
  BY <1>1, OthersKeep, Zenon DEF Undisturbed
<1>3. ApiTypes' /\ Overlaps'
  BY <1>1, Zenon DEF ApiInv, ApiTypes, Overlaps, Known
<1> QED BY <1>1, <1>2, <1>3, Zenon DEF RequestsOK, MatchHolds, StoreStep

(***************************************************************************)
(* The theorems.                                                           *)
(***************************************************************************)

\* The files a store may begin with point back.
LEMMA FilesPointed ==
  ASSUME NEW file \in Files, NEW j \in Ids
  PROVE  Pointed(file.apps[j].rels)
<1> DEFINE c == CHOOSE c \in Configs : TRUE
           two == newAppMetadata(Bare(c), 1)
           three(d) == [Bare(c) EXCEPT !.rels = RolledBackLedger(c, d)]
<1>1. c \in Configs
  BY RecordsAssumption, Zenon
<1>2. /\ Bare(c) \in StoredRecord /\ Sound(Bare(c)) /\ Bare(c).rels = <<>> /\ Bare(c).cfg = c
      /\ NoApp.rels = <<>>
  BY <1>1, NothingIsSound, Zenon DEF Bare, StoredRecord, Sound, NoApp
<1> HIDE DEF c
<1>3. two \in StoredRecord /\ two.rels = <<>> /\ two.cfg = c
  BY <1>2, RecordUpdates, ZenonT(60)
<1>4. Sound(two)
  BY <1>1, <1>2, <1>3, Zenon DEF Sound
<1> HIDE DEF two
<1>5. ASSUME NEW d \in Configs
      PROVE  three(d) \in StoredRecord /\ Sound(three(d)) /\ Pointed(three(d).rels)
  <2> DEFINE rels == RolledBackLedger(c, d)
  <2>1. /\ rels \in Seq(Release) /\ LedgerOrdered(rels)
        /\ rels = <<[seq |-> 1, phase |-> "Superseded", cfg |-> c, from |-> 0, orig |-> 0],
                    [seq |-> 2, phase |-> "RolledBack", cfg |-> d, from |-> 0, orig |-> 0],
                    [seq |-> 3, phase |-> "Active", cfg |-> c, from |-> 1, orig |-> 1]>>
    BY <1>1, RolledBackIsSound, Zenon
  <2> HIDE DEF rels
  <2>2. Pointed(rels)
    BY <2>1 DEF Pointed, PointBack
  <2>3. three(d) = [Bare(c) EXCEPT !.rels = rels]
    BY Zenon DEF rels
  <2> HIDE DEF three
  <2>4. three(d) \in StoredRecord /\ three(d).rels = rels /\ three(d).cfg = c
    BY <1>2, <2>1, <2>3, Zenon DEF StoredRecord
  <2> QED BY <1>1, <2>1, <2>2, <2>4, Zenon DEF Sound
<1> HIDE DEF three
<1>6. Pointed(<<>>)
  BY DEF Pointed, PointBack
<1>7. \/ file = EmptyDb
      \/ \E id \in Ids : \/ file = FileWith(1, id, Bare(c)) \/ file = FileWith(2, id, two)
                         \/ \E d \in Configs : file = FileWith(3, id, three(d))
  <2>1. file \in {EmptyDb} \cup UNION {
          {FileWith(1, id, Bare(c)), FileWith(2, id, two)}
            \cup {FileWith(3, id, three(d)) : d \in Configs \ {c}} : id \in Ids}
    BY Zenon DEF Files, c, two, three
  <2> QED BY <2>1, Zenon
<1>8. CASE file = EmptyDb
  BY <1>8, NothingIsPointed, Zenon
<1>9. ASSUME NEW id \in Ids, file = FileWith(1, id, Bare(c)) PROVE Pointed(file.apps[j].rels)
  BY <1>2, <1>6, <1>9, FileIsSound, Zenon
<1>10. ASSUME NEW id \in Ids, file = FileWith(2, id, two) PROVE Pointed(file.apps[j].rels)
  BY <1>2, <1>3, <1>4, <1>6, <1>10, FileIsSound, Zenon
<1>11. ASSUME NEW id \in Ids, NEW d \in Configs, file = FileWith(3, id, three(d))
       PROVE  Pointed(file.apps[j].rels)
  <2>1. file.apps[j] \in {NoApp, three(d)}
    BY <1>5, <1>11, FileIsSound, ZenonT(60)
  <2> QED BY <1>2, <1>5, <1>6, <2>1, Zenon
<1> QED BY <1>7, <1>8, <1>9, <1>10, <1>11, Zenon

LEMMA ApiInitial == Init => ApiInv
<1> SUFFICES ASSUME Init PROVE ApiInv
  BY Zenon
<1>1. RecordsInv
  BY RecordsInitial, Zenon DEF Init
<1>2. AllPointed
  BY FilesPointed, NothingIsPointed, Zenon DEF Init, RecordsInit, AllPointed
<1>3. Idle \in Requests /\ Idle.pc = "idle" /\ NoProc \in Proc
  BY Zenon DEF Idle, Requests, Pcs, Ops, Proc, NoProc
<1> HIDE DEF Idle, NoProc
<1>4. ApiTypes /\ \A c \in Clients : req[c].pc = "idle"
  BY <1>3, Zenon DEF Init, ApiTypes
<1> QED BY <1>1, <1>2, <1>4 DEF ApiInv, RequestOK, Overlaps, MatchHolds, Matched

LEMMA ApiStep ==
  ASSUME IdsCounted, ApiInv, Next
  PROVE  ApiInv' /\ StoreStep
<1>1. AllPointed' /\ RequestsOK' /\ StoreStep
  <2>1. CASE Quiet
    BY <2>1, AsideKeeps, Zenon DEF Quiet, vars, apiVars, ApiInv, ApiTypes
  <2>2. CASE DaemonEnds \/ Boot \/ BootFails
    BY <2>2, DaemonEndsKeeps, BootKeeps, Zenon
  <2>3. ASSUME NEW id \in Ids, RestoreApp(id) \/ RestoreFails(id)
        PROVE  AllPointed' /\ RequestsOK' /\ StoreStep
    BY <2>3, RestoreKeeps, Zenon
  <2>4. ASSUME NEW id \in Ids, GiveUp(id)
        PROVE  AllPointed' /\ RequestsOK' /\ StoreStep
    <3>1. running \in [Ids -> Proc] /\ NoProc \in Proc
      BY Zenon DEF ApiInv, ApiTypes, NoProc, Proc
    <3> HIDE DEF NoProc
    <3>2. running' \in [Ids -> Proc]
      BY <2>4, <3>1, Zenon DEF GiveUp
    <3> QED BY <2>4, <3>2, AsideKeeps, Zenon DEF GiveUp
  <2>5. ASSUME NEW c \in Clients, Request(c)
        PROVE  AllPointed' /\ RequestsOK' /\ StoreStep
    BY <2>5, RequestKeeps, Zenon
  <2>6. ASSUME NEW c \in Clients, Step(c)
        PROVE  AllPointed' /\ RequestsOK' /\ StoreStep
    BY <2>6, casMiddlewareKeeps, PlainCallKeeps, SpawnStoreKeeps, StopStoreKeeps, RollbackCallKeeps,
       DeployStoreKeeps, DeployLedgerKeeps, Zenon DEF Step
  <2> QED BY <2>1, <2>2, <2>3, <2>4, <2>5, <2>6, ZenonT(60) DEF Next
<1>2. RecordsInv'
  <2>1. CASE RecordsNext
    BY <2>1, RecordsStep, Zenon DEF ApiInv
  <2>2. CASE UNCHANGED recordVars
    BY <2>2, Zenon DEF ApiInv, RecordsInv, recordVars, SoundDb, Sound
  <2> QED BY <1>1, <2>1, <2>2, Zenon DEF StoreStep
<1> QED BY <1>1, <1>2, Zenon DEF ApiInv, RequestsOK

(***************************************************************************)
(* What clients were told.                                                 *)
(***************************************************************************)

\* The record of app i in db is what a client was told; what is 0 when it is gone.
Shows(db, i, what) ==
  /\ what \in Configs => db.apps[i].cfg = what
  /\ what = Gone => ~Known(db, i)

\* App i runs and is routed with config what, if it runs at all.
Runs(i, what) ==
  /\ what \in Configs /\ running[i] # NoProc => running[i].cfg = what /\ routes[i] = what
  /\ what = Gone => running[i] = NoProc /\ routes[i] = 0

\* What AckedHolds says of one app, and what of it is left while the store is closed.
Holds(i) == (open => Shows(mem, i, acked[i])) /\ Shows(disk, i, acked[i]) /\ Runs(i, acked[i])

\* The steps at which a handler has changed something, and has not answered.
StartedPcs == {"spawn route", "spawn store", "deploy route", "deploy store", "deploy ledger"}
StoppedPcs == {"stop wait", "stop route", "stop store"}
WorkingPcs == StartedPcs \cup StoppedPcs \cup {"spawn undo"}

\* How far a handler is that works on app i.
WorkOK(i, r) ==
  /\ r.pc \in StartedPcs /\ running[i] # NoProc => running[i].cfg = r.cfg
  /\ r.pc \in {"spawn store", "deploy store", "deploy ledger"} => routes[i] = r.cfg
  /\ r.pc = "deploy ledger" => mem.apps[i].cfg = r.cfg /\ disk.apps[i].cfg = r.cfg
  /\ r.pc \in StoppedPcs => running[i] = NoProc
  /\ r.pc = "stop wait" => /\ acked[i] # Gone
                           /\ Shows(mem, i, acked[i]) /\ Shows(disk, i, acked[i])
                           /\ acked[i] \in Configs => r.v1.cfg = acked[i] /\ routes[i] = acked[i]
  /\ r.pc = "stop store" => routes[i] = 0
  /\ r.pc = "spawn undo" => acked[i] = Unknown

\* What was answered for app i holds, unless a handler is at work on it.
AckedOK(i) ==
  /\ (\A c \in InFlight(i) : req[c].pc \notin WorkingPcs) => Holds(i)
  /\ \A c \in InFlight(i) : WorkOK(i, req[c])

\* With ApiInv, the inductive invariant for AckedHolds.
AckInv ==
  /\ acked \in [Ids -> Configs \cup {Gone, Unknown}]
  /\ routes \in [Ids -> Nat]
  /\ \A i \in Ids \ mixed : AckedOK(i)

\* Nothing happens to app i, but that a flush of another app writes its record again.
SameApp(i) ==
  /\ running'[i] = running[i] /\ routes'[i] = routes[i] /\ acked'[i] = acked[i]
  /\ mem'.apps[i] = mem.apps[i]
  /\ disk'.apps[i] = disk.apps[i] \/ (open /\ disk'.apps[i] = mem.apps[i])

\* Then what AckedOK says of it stays.
LEMMA AppKept ==
  ASSUME NEW i \in Ids, AckedOK(i), SameApp(i), open' = open, InFlight(i) # {} => open,
         \A c \in Clients : req'[c] = req[c] \/ (c \notin InFlight(i) /\ ~(req'[c].pc # "idle" /\ req'[c].id = i))
  PROVE  AckedOK(i)'
<1>1. InFlight(i)' = InFlight(i) /\ \A c \in InFlight(i) : req'[c] = req[c]
  BY Zenon DEF InFlight
<1>2. \A what : Shows(disk, i, what) /\ (open => Shows(mem, i, what)) =>
                  Shows(disk', i, what) /\ (open' => Shows(mem', i, what))
  BY Zenon DEF SameApp, Shows, Known
<1>3. Holds(i) => Holds(i)'
  BY <1>2, Zenon DEF Holds, Runs, Shows, Known, SameApp
<1>4. ASSUME NEW r, WorkOK(i, r), open PROVE WorkOK(i, r)'
  <2>1. r.pc = "deploy ledger" => mem'.apps[i].cfg = r.cfg /\ disk'.apps[i].cfg = r.cfg
    BY <1>4, Zenon DEF WorkOK, SameApp
  <2>2. r.pc = "stop wait" => Shows(mem', i, acked[i]) /\ Shows(disk', i, acked[i])
    BY <1>2, <1>4, Zenon DEF WorkOK
  <2> QED BY <1>4, <2>1, <2>2, Zenon DEF WorkOK, SameApp, Shows, Known
<1> QED BY <1>1, <1>3, <1>4, Zenon DEF AckedOK

\* Beside a request that creates an app, or has its lock, the others wait.
LEMMA OthersWait ==
  ASSUME ApiInv, NEW c \in Clients, req[c].pc \in SpawnPcs \cup LockedPcs, req[c].id \notin mixed,
         NEW d \in Clients \ {c}, d \in InFlight(req[c].id)
  PROVE  req[d].pc \notin WorkingPcs
<1>1. req[c].pc # "idle" /\ req[d].pc # "idle" /\ req[d].id = req[c].id
  BY DEF InFlight, SpawnPcs, LockedPcs, DeployPcs
<1>2. req[c].op # "spawn" /\ req[d].op # "spawn"
  BY <1>1, Zenon DEF ApiInv, Overlaps
<1>3. RequestOK(c) /\ RequestOK(d)
  BY Zenon DEF ApiInv
<1>4. req[c].pc \in LockedPcs /\ req[d].pc \notin SpawnPcs
  BY <1>1, <1>2, <1>3, Zenon DEF RequestOK
<1>5. req[d].pc \notin LockedPcs
  BY <1>1, <1>3, <1>4, Zenon DEF RequestOK
<1> QED BY <1>4, <1>5 DEF WorkingPcs, StartedPcs, StoppedPcs, SpawnPcs, LockedPcs, DeployPcs

\* A step of client c that concerns its own app only.
OwnApp(c) ==
  /\ open' = open /\ mixed' = mixed
  /\ acked' \in [Ids -> Configs \cup {Gone, Unknown}] /\ routes' \in [Ids -> Nat]
  /\ \A j \in Ids \ {req[c].id} : SameApp(j)

\* What is left to show when a handler goes on, or answers: how far it is, or that the answer holds.
LEMMA HandlerKeeps ==
  ASSUME ApiInv, AckInv, NEW c \in Clients, req[c].pc \in SpawnPcs \cup LockedPcs,
         NEW x, req' = [req EXCEPT ![c] = x], x.pc = "idle" \/ x.id = req[c].id,
         OwnApp(c), NEW i, i = req[c].id,
         (i \notin mixed /\ x.pc \in WorkingPcs) => WorkOK(i, x)',
         (i \notin mixed /\ x.pc \notin WorkingPcs) => Holds(i)'
  PROVE  AckInv'
<1>1. req \in [Clients -> Requests] /\ req[c].pc # "idle" /\ RequestOK(c)
  BY DEF ApiInv, ApiTypes, SpawnPcs, LockedPcs, DeployPcs
<1>2. req'[c] = x /\ \A d \in Clients \ {c} : req'[d] = req[d]
  BY <1>1, Zenon
<1>3. open /\ i \in Ids
  BY <1>1, Zenon DEF RequestOK
<1>4. ASSUME NEW j \in Ids \ mixed, j # i PROVE AckedOK(j)'
  <2>1. \A d \in Clients : req'[d] = req[d] \/ (d \notin InFlight(j) /\ ~(req'[d].pc # "idle" /\ req'[d].id = j))
    BY <1>2, <1>4, Zenon DEF InFlight
  <2> QED BY <1>3, <1>4, <2>1, AppKept, Zenon DEF AckInv, OwnApp
<1>5. ASSUME i \notin mixed PROVE AckedOK(i)'
  <2>1. x.pc \notin WorkingPcs => WorkOK(i, x)'
    BY DEF WorkOK, WorkingPcs, StartedPcs, StoppedPcs
  <2>2. \A d \in InFlight(i)' : d = c \/ (d \in InFlight(i) /\ req'[d] = req[d])
    BY <1>2, Zenon DEF InFlight
  <2>3. \A d \in InFlight(i)' : d = c \/ req'[d].pc \notin WorkingPcs
    BY <1>5, <2>2, OthersWait, Zenon DEF InFlight
  <2>4. ASSUME NEW d \in Clients, req'[d].pc \notin WorkingPcs PROVE WorkOK(i, req[d])'
    BY <2>4 DEF WorkOK, WorkingPcs, StartedPcs, StoppedPcs
  <2>7. WorkOK(i, x)' => WorkOK(i, req[c])'
    BY <1>2, Zenon DEF WorkOK
  <2>5. \A d \in InFlight(i)' : WorkOK(i, req[d])'
    BY <1>5, <2>1, <2>3, <2>4, <2>7, Zenon DEF InFlight
  <2>6. c \notin InFlight(i)' => x.pc \notin WorkingPcs
    BY <1>2 DEF InFlight, WorkingPcs, StartedPcs, StoppedPcs
  <2> QED BY <1>2, <1>5, <2>3, <2>5, <2>6, Zenon DEF AckedOK
<1> QED BY <1>4, <1>5, Zenon DEF AckInv, OwnApp

\* A step that takes no handler into its work or out of it, and changes nothing.
LEMMA WaitingKeeps ==
  ASSUME ApiInv, AckInv, NEW c \in Clients, req[c].pc \notin WorkingPcs,
         NEW x, x.pc \notin WorkingPcs, req' = [req EXCEPT ![c] = x],
         UNCHANGED <<recordVars, running, routes, acked>>, mixed \subseteq mixed'
  PROVE  AckInv'
<1>1. req \in [Clients -> Requests] /\ mem' = mem /\ disk' = disk /\ open' = open
  BY Zenon DEF ApiInv, ApiTypes, recordVars
<1>2. req'[c] = x /\ \A d \in Clients \ {c} : req'[d] = req[d]
  BY <1>1, Zenon
<1>3. ASSUME NEW i \in Ids \ mixed PROVE AckedOK(i)'
  <2>1. AckedOK(i)
    BY Zenon DEF AckInv
  <2>2. Holds(i) => Holds(i)'
    BY <1>1, Zenon DEF Holds, Runs, Shows, Known
  <2>3. \A r : WorkOK(i, r) => WorkOK(i, r)'
    BY <1>1, Zenon DEF WorkOK, Shows, Known
  <2>4. \A r : r.pc \notin WorkingPcs => WorkOK(i, r)'
    BY DEF WorkOK, WorkingPcs, StartedPcs, StoppedPcs
  <2>5. \A d \in InFlight(i)' : d = c \/ (d \in InFlight(i) /\ req'[d] = req[d])
    BY <1>2, Zenon DEF InFlight
  <2>6. \A d \in InFlight(i) : d = c \/ (d \in InFlight(i)' /\ req'[d] = req[d])
    BY <1>2, Zenon DEF InFlight
  <2> QED BY <1>2, <2>1, <2>2, <2>3, <2>4, <2>5, <2>6, Zenon DEF AckedOK
<1> QED BY <1>3, Zenon DEF AckInv

\* The answers are told apart.
LEMMA Answers ==
  /\ Gone \notin Configs /\ Unknown \notin Configs /\ Gone # Unknown /\ Configs \subseteq Nat
  /\ Idle.pc = "idle" /\ "idle" \notin WorkingPcs
BY RecordsAssumption DEF Gone, Unknown, Idle, WorkingPcs, StartedPcs, StoppedPcs

\* Nothing was promised, so nothing can be broken.
LEMMA UnknownHolds ==
  ASSUME NEW i, acked'[i] = Unknown
  PROVE  Holds(i)'
BY Answers, Zenon DEF Holds, Shows, Runs

\* Where a handler is before its step.
LEMMA AtWork ==
  ASSUME ApiInv, AckInv, NEW c \in Clients, req[c].pc \in SpawnPcs \cup LockedPcs
  PROVE  /\ open /\ req[c].id \in Ids /\ req[c] \in Requests
         /\ req[c].id \notin mixed => WorkOK(req[c].id, req[c])
         /\ req[c].id \notin mixed /\ req[c].pc \notin WorkingPcs => Holds(req[c].id)
<1>1. req[c].pc # "idle" /\ RequestOK(c) /\ req[c] \in Requests
  BY DEF ApiInv, ApiTypes, SpawnPcs, LockedPcs, DeployPcs
<1>2. open /\ req[c].id \in Ids /\ c \in InFlight(req[c].id)
  BY <1>1, Zenon DEF RequestOK, InFlight
<1>3. ASSUME req[c].id \notin mixed, req[c].pc \notin WorkingPcs PROVE Holds(req[c].id)
  <2>1. \A d \in InFlight(req[c].id) : req[d].pc \notin WorkingPcs
    BY <1>3, OthersWait, Zenon DEF InFlight
  <2> QED BY <1>2, <1>3, <2>1, Zenon DEF AckInv, AckedOK
<1> QED BY <1>1, <1>2, <1>3, Zenon DEF AckInv, AckedOK

\* A handler answers.
LEMMA AnswerKeeps ==
  ASSUME ApiInv, AckInv, NEW c \in Clients, req[c].pc \in SpawnPcs \cup LockedPcs, Respond(c), OwnApp(c),
         NEW i, i = req[c].id, i \notin mixed => Holds(i)'
  PROVE  AckInv'
BY Answers, HandlerKeeps, Zenon DEF Respond

\* A handler goes on: its request, but for where it is and what it has found in the registry.
Becomes(c, pc, v, x) ==
  req' = [req EXCEPT ![c] = x] /\ x.pc = pc /\ x.id = req[c].id /\ x.cfg = req[c].cfg /\ x.v1 = v

\* What Goto, and an assignment of pc and v1, make of the request.
LEMMA GoesTo ==
  ASSUME ApiInv, NEW c \in Clients, NEW pc
  PROVE  /\ Goto(c, pc) => \E x : Becomes(c, pc, req[c].v1, x)
         /\ \A v : req' = [req EXCEPT ![c].pc = pc, ![c].v1 = v] => \E x : Becomes(c, pc, v, x)
<1>1. req \in [Clients -> Requests] /\ req[c] \in Requests
  BY DEF ApiInv, ApiTypes
<1>2. ASSUME Goto(c, pc) PROVE \E x : Becomes(c, pc, req[c].v1, x)
  <2> DEFINE x == [req[c] EXCEPT !.pc = pc]
  <2>1. x.pc = pc /\ x.id = req[c].id /\ x.cfg = req[c].cfg /\ x.v1 = req[c].v1
    BY <1>1, Zenon DEF Requests
  <2>2. req' = [req EXCEPT ![c] = x]
    BY <1>2, Zenon DEF Goto
  <2> QED BY <2>1, <2>2, Zenon DEF Becomes
<1>3. ASSUME NEW v, req' = [req EXCEPT ![c].pc = pc, ![c].v1 = v] PROVE \E x : Becomes(c, pc, v, x)
  <2> DEFINE x == [req[c] EXCEPT !.pc = pc, !.v1 = v]
  <2>1. x.pc = pc /\ x.id = req[c].id /\ x.cfg = req[c].cfg /\ x.v1 = v
    BY <1>1, Zenon DEF Requests
  <2>2. req' = [req EXCEPT ![c] = x]
    BY <1>1, <1>3, Zenon
  <2> QED BY <2>1, <2>2, Zenon DEF Becomes
<1> QED BY <1>2, <1>3, Zenon

\* So what is left to show is how far the handler is.
LEMMA ProgressKeeps ==
  ASSUME ApiInv, AckInv, NEW c \in Clients, req[c].pc \in SpawnPcs \cup LockedPcs, OwnApp(c),
         NEW pc \in WorkingPcs, NEW v, NEW x, Becomes(c, pc, v, x), NEW i, i = req[c].id,
         i \notin mixed => WorkOK(i, x)'
  PROVE  AckInv'
BY HandlerKeeps, Zenon DEF Becomes

(***************************************************************************)
(* The calls of the handlers.                                              *)
(***************************************************************************)

\* What a call that leaves the store alone does to the app of its request only.
LEMMA OwnCall ==
  ASSUME ApiInv, AckInv, NEW c \in Clients, req[c].pc \in SpawnPcs \cup LockedPcs,
         UNCHANGED <<recordVars, mixed, acked>>,
         running' = running \/ (\E p : running' = [running EXCEPT ![req[c].id] = p]),
         routes' = routes \/ (\E n \in Nat : routes' = [routes EXCEPT ![req[c].id] = n])
  PROVE  OwnApp(c) /\ mem' = mem /\ disk' = disk /\ open' = open /\ acked' = acked
<1>1. mem' = mem /\ disk' = disk /\ open' = open /\ mixed' = mixed /\ acked' = acked
  BY Zenon DEF recordVars
<1>2. running \in [Ids -> Proc] /\ req[c].id \in Ids
  BY AtWork, Zenon DEF ApiInv, ApiTypes
<1>3. \A j \in Ids \ {req[c].id} : running'[j] = running[j]
  BY <1>2, Zenon
<1>4. routes \in [Ids -> Nat] /\ acked \in [Ids -> Configs \cup {Gone, Unknown}]
  BY Zenon DEF AckInv
<1>5. routes' \in [Ids -> Nat] /\ \A j \in Ids \ {req[c].id} : routes'[j] = routes[j]
  BY <1>2, <1>4, Zenon
<1> QED BY <1>1, <1>3, <1>4, <1>5, Zenon DEF OwnApp, SameApp

\* Spawn registers the app, or refuses and changes nothing.
LEMMA SpawnCallAcked ==
  ASSUME ApiInv, AckInv, NEW c \in Clients, SpawnCall(c)
  PROVE  AckInv'
<1>0. PICK i : i = req[c].id
  OBVIOUS
<1>1. req[c].pc = "spawn" /\ UNCHANGED <<recordVars, routes, mixed, acked>>
  BY Zenon DEF SpawnCall
<1>2. "spawn" \in SpawnPcs /\ "spawn" \notin WorkingPcs /\ "spawn route" \in WorkingPcs
  BY DEF SpawnPcs, WorkingPcs, StartedPcs, StoppedPcs
<1>3. CASE Respond(c) /\ UNCHANGED running
  BY <1>1, <1>2, <1>3, Answers, WaitingKeeps, Zenon DEF Respond
<1>4. CASE running' = [running EXCEPT ![req[c].id] = [inst |-> req[c].inst, cfg |-> req[c].cfg]] /\ Goto(c, "spawn route")
  <2>1. OwnApp(c)
    BY <1>1, <1>2, <1>4, OwnCall, Zenon
  <2>2. running'[i].cfg = req[c].cfg
    BY <1>0, <1>1, <1>2, <1>4, AtWork, Zenon DEF ApiInv, ApiTypes
  <2>3. PICK x : Becomes(c, "spawn route", req[c].v1, x)
    BY <1>4, GoesTo, Zenon
  <2>4. WorkOK(i, x)'
    BY <2>2, <2>3 DEF WorkOK, StoppedPcs, Becomes
  <2> QED BY <1>0, <1>1, <1>2, <2>1, <2>3, <2>4, ProgressKeeps, Zenon
<1> QED BY <1>3, <1>4, Zenon DEF SpawnCall

\* The route follows the process that was started.
LEMMA RouteAcked ==
  ASSUME ApiInv, AckInv, NEW c \in Clients, SpawnRoute(c) \/ DeployRoute(c)
  PROVE  AckInv'
<1>0. PICK i, pc : i = req[c].id /\ pc = IF SpawnRoute(c) THEN "spawn store" ELSE "deploy store"
  OBVIOUS
<1>1. /\ req[c].pc \in {"spawn route", "deploy route"} /\ UNCHANGED <<recordVars, running, mixed, acked>>
      /\ routes' = [routes EXCEPT ![req[c].id] = req[c].cfg] /\ Goto(c, pc)
      /\ pc \in {"spawn store", "deploy store"}
  BY <1>0, Zenon DEF SpawnRoute, DeployRoute
<1>2. req[c].pc \in SpawnPcs \cup LockedPcs /\ req[c].pc \in StartedPcs /\ pc \in WorkingPcs
  BY <1>1 DEF SpawnPcs, LockedPcs, DeployPcs, WorkingPcs, StartedPcs, StoppedPcs
<1>3. req[c].cfg \in Nat /\ i \in Ids /\ (i \notin mixed => WorkOK(i, req[c]))
  BY <1>0, <1>2, AtWork, Zenon DEF Requests
<1>4. OwnApp(c)
  BY <1>1, <1>2, <1>3, OwnCall, Zenon
<1>5. routes'[i] = req[c].cfg /\ running' = running
  BY <1>0, <1>1, <1>3, Zenon DEF AckInv
<1>6. PICK x : Becomes(c, pc, req[c].v1, x)
  BY <1>1, GoesTo, Zenon
<1>7. i \notin mixed => WorkOK(i, x)'
  BY <1>1, <1>2, <1>3, <1>5, <1>6, Zenon DEF WorkOK, StoppedPcs, Becomes
<1> QED BY <1>0, <1>2, <1>4, <1>6, <1>7, ProgressKeeps, Zenon

\* The undoing of a create leaves an app of which nothing is promised.
LEMMA SpawnUndoAcked ==
  ASSUME ApiInv, AckInv, NEW c \in Clients, SpawnUndo(c)
  PROVE  AckInv'
<1>0. PICK i : i = req[c].id
  OBVIOUS
<1>1. /\ req[c].pc = "spawn undo" /\ UNCHANGED <<recordVars, mixed, acked>> /\ Respond(c)
      /\ running' = running \/ running' = [running EXCEPT ![req[c].id] = NoProc]
      /\ routes' = [routes EXCEPT ![req[c].id] = 0] /\ 0 \in Nat
  BY DEF SpawnUndo
<1>2. req[c].pc \in SpawnPcs
  BY <1>1 DEF SpawnPcs
<1>3. OwnApp(c) /\ acked' = acked
  BY <1>1, <1>2, OwnCall, Zenon
<1>4. i \notin mixed => Holds(i)'
  BY <1>0, <1>1, <1>2, <1>3, AtWork, UnknownHolds, Zenon DEF WorkOK
<1> QED BY <1>0, <1>1, <1>2, <1>3, <1>4, AnswerKeeps, Zenon

\* Stop takes the app out of the registry: what was answered is with the handler now.
LEMMA StopCallAcked ==
  ASSUME ApiInv, AckInv, NEW c \in Clients, StopCall(c)
  PROVE  AckInv'
<1>0. PICK i : i = req[c].id
  OBVIOUS
<1>1. req[c].pc = "stop" /\ UNCHANGED <<recordVars, routes, mixed, acked>>
  BY Zenon DEF StopCall
<1>2. "stop" \in LockedPcs /\ "stop" \notin WorkingPcs /\ "stop wait" \in WorkingPcs
  BY DEF LockedPcs, WorkingPcs, StartedPcs, StoppedPcs
<1>3. CASE Respond(c) /\ UNCHANGED running
  BY <1>1, <1>2, <1>3, Answers, WaitingKeeps, Zenon DEF Respond
<1>4. CASE /\ running[req[c].id] # NoProc
           /\ running' = [running EXCEPT ![req[c].id] = NoProc]
           /\ req' = [req EXCEPT ![c].pc = "stop wait", ![c].v1 = running[req[c].id]]
  <2>1. OwnApp(c) /\ mem' = mem /\ disk' = disk /\ acked' = acked
    BY <1>1, <1>2, <1>4, OwnCall, Zenon
  <2>2. running'[i] = NoProc /\ open /\ (i \notin mixed => Holds(i)) /\ routes' = routes
    BY <1>0, <1>1, <1>2, <1>4, AtWork, Zenon DEF ApiInv, ApiTypes
  <2>3. PICK x : Becomes(c, "stop wait", running[req[c].id], x)
    BY <1>4, GoesTo, Zenon
  <2>4. x.pc = "stop wait" /\ x.v1 = running[i] /\ running[i] # NoProc
    BY <1>0, <1>4, <2>3, Zenon DEF Becomes
  <2>5. ASSUME i \notin mixed PROVE WorkOK(i, x)'
    <3>1. acked[i] # Gone /\ (acked[i] \in Configs => x.v1.cfg = acked[i] /\ routes[i] = acked[i])
      BY <2>2, <2>4, <2>5, Zenon DEF Holds, Runs
    <3>2. Shows(mem', i, acked'[i]) /\ Shows(disk', i, acked'[i])
      BY <2>1, <2>2, <2>5, Zenon DEF Holds, Shows, Known
    <3> QED BY <2>1, <2>2, <2>4, <3>1, <3>2, Zenon DEF WorkOK, StartedPcs, Shows, Known
  <2> QED BY <1>0, <1>1, <1>2, <2>1, <2>3, <2>5, ProgressKeeps, Zenon
<1> QED BY <1>3, <1>4, Zenon DEF StopCall

\* When the process lives on, the app is put back, and with it what was answered.
LEMMA StopWaitAcked ==
  ASSUME ApiInv, AckInv, NEW c \in Clients, StopWait(c)
  PROVE  AckInv'
<1>0. PICK i : i = req[c].id
  OBVIOUS
<1>1. req[c].pc = "stop wait" /\ UNCHANGED <<recordVars, routes, mixed, acked>>
  BY Zenon DEF StopWait
<1>2. "stop wait" \in LockedPcs /\ "stop route" \in WorkingPcs
  BY DEF LockedPcs, WorkingPcs, StartedPcs, StoppedPcs
<1>3. open /\ i \in Ids /\ (i \notin mixed => WorkOK(i, req[c])) /\ running \in [Ids -> Proc]
  BY <1>0, <1>1, <1>2, AtWork, Zenon DEF ApiInv, ApiTypes
<1>4. i \notin mixed => running[i] = NoProc
  BY <1>1, <1>3 DEF WorkOK, StoppedPcs
<1>5. CASE Goto(c, "stop route") /\ UNCHANGED running
  <2>1. OwnApp(c)
    BY <1>1, <1>2, <1>5, OwnCall, Zenon
  <2>2. PICK x : Becomes(c, "stop route", req[c].v1, x)
    BY <1>5, GoesTo, Zenon
  <2>3. i \notin mixed => WorkOK(i, x)'
    BY <1>4, <1>5, <2>2 DEF WorkOK, StartedPcs, Becomes
  <2> QED BY <1>0, <1>1, <1>2, <2>1, <2>2, <2>3, ProgressKeeps, Zenon
<1>6. CASE /\ running' = [running EXCEPT ![req[c].id] = IF @ = NoProc THEN req[c].v1 ELSE @]
           /\ Respond(c)
  <2>1. running' = [running EXCEPT ![req[c].id] = IF running[req[c].id] = NoProc THEN req[c].v1 ELSE running[req[c].id]]
    BY <1>6, Zenon
  <2>2. OwnApp(c) /\ mem' = mem /\ disk' = disk /\ acked' = acked
    BY <1>1, <1>2, <2>1, OwnCall, Zenon
  <2>3. ASSUME i \notin mixed PROVE Holds(i)'
    <3>1. running'[i] = req[c].v1 /\ routes' = routes
      BY <1>0, <1>1, <1>3, <1>4, <2>1, <2>3, Zenon
    <3>2. /\ acked[i] # Gone /\ Shows(mem, i, acked[i]) /\ Shows(disk, i, acked[i])
          /\ acked[i] \in Configs => req[c].v1.cfg = acked[i] /\ routes[i] = acked[i]
      BY <1>1, <1>3, <2>3, Zenon DEF WorkOK
    <3>3. Runs(i, acked[i])'
      BY <2>2, <3>1, <3>2, Zenon DEF Runs
    <3>4. Shows(mem', i, acked'[i]) /\ Shows(disk', i, acked'[i])
      BY <2>2, <3>2, Zenon DEF Shows, Known
    <3> QED BY <2>2, <3>3, <3>4, Zenon DEF Holds, Shows, Known
  <2> QED BY <1>0, <1>1, <1>2, <1>6, <2>2, <2>3, AnswerKeeps, Zenon
<1> QED BY <1>5, <1>6, Zenon DEF StopWait

\* The route of a stopped app goes.
LEMMA StopRouteAcked ==
  ASSUME ApiInv, AckInv, NEW c \in Clients, StopRoute(c)
  PROVE  AckInv'
<1>0. PICK i : i = req[c].id
  OBVIOUS
<1>1. /\ req[c].pc = "stop route" /\ UNCHANGED <<recordVars, running, mixed, acked>>
      /\ routes' = [routes EXCEPT ![req[c].id] = 0] /\ Goto(c, "stop store") /\ 0 \in Nat
  BY DEF StopRoute
<1>2. "stop route" \in LockedPcs /\ "stop store" \in WorkingPcs
  BY DEF LockedPcs, WorkingPcs, StartedPcs, StoppedPcs
<1>3. i \in Ids /\ (i \notin mixed => WorkOK(i, req[c]))
  BY <1>0, <1>1, <1>2, AtWork, Zenon
<1>4. OwnApp(c)
  BY <1>1, <1>2, OwnCall, Zenon
<1>5. routes'[i] = 0 /\ running' = running /\ (i \notin mixed => running[i] = NoProc)
  BY <1>0, <1>1, <1>3 DEF AckInv, WorkOK, StoppedPcs
<1>6. PICK x : Becomes(c, "stop store", req[c].v1, x)
  BY <1>1, GoesTo, Zenon
<1>7. i \notin mixed => WorkOK(i, x)'
  BY <1>5, <1>6 DEF WorkOK, StartedPcs, Becomes
<1> QED BY <1>0, <1>1, <1>2, <1>4, <1>6, <1>7, ProgressKeeps, Zenon

\* The swap registers v2, or reports a conflict and changes nothing.
LEMMA DeploySwapAcked ==
  ASSUME ApiInv, AckInv, NEW c \in Clients, DeploySwap(c)
  PROVE  AckInv'
<1>0. PICK i : i = req[c].id
  OBVIOUS
<1>1. req[c].pc = "deploy swap" /\ UNCHANGED <<recordVars, routes, mixed, acked>>
  BY Zenon DEF DeploySwap
<1>2. "deploy swap" \in LockedPcs /\ "deploy swap" \notin WorkingPcs /\ "deploy route" \in WorkingPcs
  BY DEF LockedPcs, DeployPcs, WorkingPcs, StartedPcs, StoppedPcs
<1>3. CASE Respond(c) /\ UNCHANGED running
  BY <1>1, <1>2, <1>3, Answers, WaitingKeeps, Zenon DEF Respond
<1>4. CASE running' = [running EXCEPT ![req[c].id] = [inst |-> req[c].inst, cfg |-> req[c].cfg]] /\ Goto(c, "deploy route")
  <2>1. OwnApp(c)
    BY <1>1, <1>2, <1>4, OwnCall, Zenon
  <2>2. running'[i].cfg = req[c].cfg
    BY <1>0, <1>1, <1>2, <1>4, AtWork, Zenon DEF ApiInv, ApiTypes
  <2>3. PICK x : Becomes(c, "deploy route", req[c].v1, x)
    BY <1>4, GoesTo, Zenon
  <2>4. WorkOK(i, x)'
    BY <2>2, <2>3 DEF WorkOK, StoppedPcs, Becomes
  <2> QED BY <1>0, <1>1, <1>2, <2>1, <2>3, <2>4, ProgressKeeps, Zenon
<1> QED BY <1>3, <1>4, Zenon DEF DeploySwap

\* Calls that start nothing, stop nothing and record nothing.
LEMMA WaitingAcked ==
  ASSUME ApiInv, AckInv, NEW c \in Clients,
         Request(c) \/ casMiddleware(c) \/ RollbackCall(c) \/ DeployCall(c) \/ RestartCall(c)
  PROVE  AckInv'
<1>1. /\ UNCHANGED <<recordVars, running, routes, acked>> /\ mixed \subseteq mixed'
      /\ req[c].pc \in {"idle", "lock", "rollback", "deploy", "restart"}
  BY Answers, Zenon DEF Request, Begin, casMiddleware, RollbackCall, DeployCall, RestartCall
<1>2. \E x : x.pc \notin WorkingPcs /\ req' = [req EXCEPT ![c] = x]
  <2>0. req \in [Clients -> Requests] /\ req[c] \in Requests
    BY Zenon DEF ApiInv, ApiTypes
  <2>1. ASSUME NEW x, req' = [req EXCEPT ![c] = x],
               x.pc \in {"idle", "lock", "spawn", "deploy", "stop", "rollback", "restart", "deploy swap"}
        PROVE  \E y : y.pc \notin WorkingPcs /\ req' = [req EXCEPT ![c] = y]
    <3>1. x.pc \notin WorkingPcs
      BY <2>1 DEF WorkingPcs, StartedPcs, StoppedPcs
    <3> QED BY <2>1, <3>1, Zenon
  <2>2. CASE Respond(c)
    BY <2>1, <2>2, Answers, Zenon DEF Respond
  <2>3. CASE Request(c)
    <3>0. PICK op \in {"spawn", "deploy", "stop", "rollback", "restart"} :
            \E id, cfg, match, to : Begin(c, op, id, cfg, match, to)
      BY <2>3, Zenon DEF Request
    <3>1. PICK id, cfg, match, to : Begin(c, op, id, cfg, match, to)
      BY <3>0, Zenon
    <3> DEFINE x == [Idle EXCEPT !.pc = IF casApplies(op) THEN "lock" ELSE op, !.op = op, !.id = id, !.cfg = cfg,
                                 !.match = match, !.to = to, !.inst = served + 1]
    <3>2. x.pc \in {"lock", op} /\ req' = [req EXCEPT ![c] = x]
      BY <3>1, Zenon DEF Begin, Idle
    <3> HIDE DEF x
    <3> QED BY <2>1, <3>2, Zenon
  <2>4. CASE casMiddleware(c)
    <3>1. CASE req' = [req EXCEPT ![c] = Idle]
      BY <2>1, <3>1, Answers, Zenon
    <3>2. CASE req' = [req EXCEPT ![c].pc = req[c].op, ![c].match = IF Known(mem, req[c].id) THEN @ ELSE 0]
      <4> DEFINE x == [req[c] EXCEPT !.pc = req[c].op, !.match = IF Known(mem, req[c].id) THEN req[c].match ELSE 0]
      <4>1. x.pc = req[c].op /\ req' = [req EXCEPT ![c] = x]
        BY <2>0, <3>2, Zenon DEF Requests
      <4>2. req[c].op \in {"stop", "deploy", "rollback"}
        BY <2>4 DEF casMiddleware, ApiInv, RequestOK, casApplies
      <4> HIDE DEF x
      <4> QED BY <2>1, <4>1, <4>2, Zenon
    <3> QED BY <2>4, <3>1, <3>2, Zenon DEF casMiddleware
  <2>5. CASE RollbackCall(c) /\ ~Respond(c)
    <3>1. PICK cfg, orig : req' = [req EXCEPT ![c].pc = "deploy", ![c].cfg = cfg, ![c].orig = orig]
      BY <2>5, Zenon DEF RollbackCall
    <3> DEFINE x == [req[c] EXCEPT !.pc = "deploy", !.cfg = cfg, !.orig = orig]
    <3>2. x.pc = "deploy" /\ req' = [req EXCEPT ![c] = x]
      BY <2>0, <3>1, Zenon DEF Requests
    <3> HIDE DEF x
    <3> QED BY <2>1, <3>2, Zenon
  <2>6. CASE DeployCall(c) /\ ~Respond(c)
    <3>1. req' = [req EXCEPT ![c].pc = "deploy swap", ![c].v1 = running[req[c].id]]
      BY <2>6, Zenon DEF DeployCall
    <3>2. PICK x : Becomes(c, "deploy swap", running[req[c].id], x)
      BY <3>1, GoesTo, Zenon
    <3> QED BY <2>1, <3>2, Zenon DEF Becomes
  <2> QED BY <2>2, <2>3, <2>4, <2>5, <2>6, Zenon DEF RestartCall
<1>3. req[c].pc \notin WorkingPcs
  BY <1>1 DEF WorkingPcs, StartedPcs, StoppedPcs
<1> QED BY <1>1, <1>2, <1>3, WaitingKeeps, Zenon

(***************************************************************************)
(* The calls that write a record.                                          *)
(***************************************************************************)

\* A write leaves the records of other apps; the disk has them as memory does, or as it had them.
OtherRecords(id) ==
  open' = open /\ \A j \in Ids \ {id} : /\ mem'.apps[j] = mem.apps[j]
                                        /\ disk'.apps[j] \in {disk.apps[j], mem.apps[j]}

\* A flush, whether it succeeds or fails, of a state that differs in one record.
LEMMA FlushOthers ==
  ASSUME NEW id \in Ids, NEW next, \A j \in Ids \ {id} : next.apps[j] = mem.apps[j],
         flushFull(next) \/ flushFullFails(next)
  PROVE  /\ OtherRecords(id) /\ mem' \in {mem, next} /\ disk' \in {disk, next}
         /\ flushFull(next) => mem' = next /\ disk' = next
<1>1. mem' \in {mem, next} /\ disk' \in {disk, next} /\ open' = open
  BY Zenon DEF flushFull, flushFullFails
<1> QED BY <1>1, Zenon DEF OtherRecords, flushFull

\* AddApp writes the config, or leaves what was there.
LEMMA AddAppShows ==
  ASSUME RecordsInv, NEW id \in Ids, NEW cfg \in Configs, AddApp(id, cfg) \/ AddAppFails(id, cfg)
  PROVE  /\ OtherRecords(id)
         /\ AddApp(id, cfg) => mem'.apps[id].cfg = cfg /\ disk'.apps[id].cfg = cfg
         /\ mem'.apps[id] = mem.apps[id] \/ mem'.apps[id].cfg = cfg
         /\ disk'.apps[id] = disk.apps[id] \/ disk'.apps[id].cfg = cfg
<1> DEFINE next == AddAppState(id, cfg)
<1>1. (flushFull(next) \/ flushFullFails(next)) /\ (AddApp(id, cfg) => flushFull(next))
  BY Zenon DEF AddApp, AddAppFails
<1>2. next.apps[id].cfg = cfg /\ \A j \in Ids \ {id} : next.apps[j] = mem.apps[j]
  BY AddAppWrites, Zenon DEF RecordsInv
<1> HIDE DEF next
<1> QED BY <1>1, <1>2, FlushOthers, Zenon

\* RemoveApp clears the record wherever it was known.
LEMMA RemoveAppShows ==
  ASSUME RecordsInv, NEW id \in Ids, RemoveApp(id) \/ RemoveAppFails(id)
  PROVE  /\ OtherRecords(id)
         /\ RemoveApp(id) /\ (Known(mem, id) \/ ~Known(disk, id)) => mem'.apps[id] = NoApp /\ disk'.apps[id] = NoApp
<1> DEFINE next == WithApp(id, NoApp)
<1>1. next.apps[id] = NoApp /\ \A j \in Ids \ {id} : next.apps[j] = mem.apps[j]
  BY WithAppWrites, NothingIsSound, Zenon DEF RecordsInv
<1>2. CASE Known(mem, id)
  <2>1. (flushFull(next) \/ flushFullFails(next)) /\ (RemoveApp(id) => flushFull(next))
    BY <1>2, Zenon DEF RemoveApp, RemoveAppFails
  <2> HIDE DEF next
  <2> QED BY <1>1, <2>1, FlushOthers, Zenon
<1>3. CASE ~Known(mem, id)
  <2>1. mem' = mem /\ disk' = disk /\ open' = open
    BY <1>3, Zenon DEF RemoveApp, RemoveAppFails
  <2> QED BY <1>3, <2>1, Zenon DEF OtherRecords, Known
<1> QED BY <1>2, <1>3, Zenon

\* CreateRelease leaves the config.
LEMMA CreateReleaseShows ==
  ASSUME RecordsInv, NEW id \in Ids, NEW cfg \in Configs, NEW from \in Nat, NEW orig \in Nat,
         NEW prior \in Phases \ {"Active"},
         \/ CreateRelease(id, cfg, from, orig, prior) \/ CreateReleaseFails(id, cfg, from, orig, prior)
         \/ CreateReleaseNotFound(id)
  PROVE  /\ OtherRecords(id)
         /\ CreateRelease(id, cfg, from, orig, prior) =>
              mem'.apps[id].cfg = mem.apps[id].cfg /\ disk'.apps[id].cfg = mem.apps[id].cfg
<1> DEFINE next == CreateReleaseState(id, cfg, from, orig, prior)
<1>1. CASE CreateReleaseNotFound(id)
  <2>1. mem' = mem /\ disk' = disk /\ open' = open /\ ~Known(mem, id)
    BY <1>1, Zenon DEF CreateReleaseNotFound, recordVars
  <2> QED BY <2>1, Zenon DEF OtherRecords, CreateRelease
<1>2. CASE ~CreateReleaseNotFound(id)
  <2>1. /\ flushFull(next) \/ flushFullFails(next)
        /\ CreateRelease(id, cfg, from, orig, prior) => flushFull(next)
        /\ Known(mem, id)
    BY <1>2, Zenon DEF CreateRelease, CreateReleaseFails
  <2>0. ReleaseWritten(id, cfg, from, orig, prior, next)
    BY <2>1, CreateReleaseWrites, Zenon DEF RecordsInv
  <2> HIDE DEF next
  <2>2. next.apps[id].cfg = mem.apps[id].cfg /\ \A j \in Ids \ {id} : next.apps[j] = mem.apps[j]
    BY <2>0, Zenon DEF ReleaseWritten
  <2> QED BY <2>1, <2>2, FlushOthers, Zenon
<1> QED BY <1>1, <1>2, Zenon

\* A call that writes the record of its own app, and may answer.
LEMMA OwnWrite ==
  ASSUME ApiInv, AckInv, NEW c \in Clients, req[c].pc \in SpawnPcs \cup LockedPcs,
         OtherRecords(req[c].id), UNCHANGED <<running, routes, mixed>>,
         acked' = acked \/ (\E what \in Configs \cup {Gone, Unknown} : Ack(c, what))
  PROVE  OwnApp(c)
<1>1. open /\ req[c].id \in Ids
  BY AtWork, Zenon
<1>2. acked \in [Ids -> Configs \cup {Gone, Unknown}] /\ routes \in [Ids -> Nat]
  BY Zenon DEF AckInv
<1>3. /\ acked' \in [Ids -> Configs \cup {Gone, Unknown}]
      /\ \A j \in Ids \ {req[c].id} : acked'[j] = acked[j]
  BY <1>1, <1>2, Zenon DEF Ack
<1>4. \A j \in Ids \ {req[c].id} : SameApp(j)
  BY <1>1, <1>3, Zenon DEF SameApp, OtherRecords
<1> QED BY <1>2, <1>3, <1>4, Zenon DEF OwnApp, OtherRecords

\* What Ack notes.
LEMMA AckIs ==
  ASSUME ApiInv, AckInv, NEW c \in Clients, req[c].pc \in SpawnPcs \cup LockedPcs, NEW what, Ack(c, what)
  PROVE  acked'[req[c].id] = what
<1>1. req[c].id \in Ids
  BY AtWork, Zenon
<1> QED BY <1>1, Zenon DEF Ack, AckInv

\* The record of an app that runs and is routed is written.
LEMMA AddAppAcked ==
  ASSUME ApiInv, AckInv, NEW c \in Clients, SpawnStore(c) \/ DeployStore(c)
  PROVE  AckInv'
<1>0. PICK i, cfg : i = req[c].id /\ cfg = req[c].cfg
  OBVIOUS
<1>1. /\ req[c].pc \in {"spawn store", "deploy store"} /\ UNCHANGED <<running, routes, mixed>>
      /\ AddApp(i, cfg) \/ AddAppFails(i, cfg)
  BY <1>0, Zenon DEF SpawnStore, DeployStore
<1>2. /\ req[c].pc \in SpawnPcs \cup LockedPcs /\ req[c].pc \in StartedPcs
      /\ "spawn undo" \in WorkingPcs /\ "deploy ledger" \in WorkingPcs
  BY <1>1 DEF SpawnPcs, LockedPcs, DeployPcs, WorkingPcs, StartedPcs, StoppedPcs
<1>3. i \in Ids /\ cfg \in Configs /\ RecordsInv
  BY <1>0, <1>1 DEF ApiInv, RequestOK, SpawnPcs, DeployPcs
<1>4. /\ OtherRecords(i)
      /\ AddApp(i, cfg) => mem'.apps[i].cfg = cfg /\ disk'.apps[i].cfg = cfg
  BY <1>1, <1>3, AddAppShows, Zenon
<1>5. i \notin mixed => WorkOK(i, req[c])
  BY <1>0, <1>2, AtWork, Zenon
<1>6. i \notin mixed => (running'[i] # NoProc => running'[i].cfg = cfg) /\ routes'[i] = cfg
  BY <1>0, <1>1, <1>2, <1>5, Zenon DEF WorkOK
<1>7. CASE AddApp(i, cfg) /\ Respond(c) /\ Ack(c, cfg)
  <2>1. OwnApp(c)
    BY <1>0, <1>1, <1>2, <1>3, <1>4, <1>7, OwnWrite, Zenon
  <2>2. acked'[i] = cfg
    BY <1>0, <1>2, <1>7, AckIs, Zenon
  <2>3. i \notin mixed => Holds(i)'
    BY <1>3, <1>4, <1>6, <1>7, <2>2, Answers, Zenon DEF Holds, Shows, Runs
  <2> QED BY <1>0, <1>2, <1>7, <2>1, <2>3, AnswerKeeps, Zenon
<1>8. CASE Respond(c) /\ Ack(c, Unknown)
  <2>1. OwnApp(c)
    BY <1>0, <1>1, <1>2, <1>4, <1>8, OwnWrite, Zenon
  <2>2. Holds(i)'
    BY <1>0, <1>2, <1>8, AckIs, UnknownHolds, Zenon
  <2> QED BY <1>0, <1>2, <1>8, <2>1, <2>2, AnswerKeeps, Zenon
<1>9. CASE Goto(c, "spawn undo") /\ Ack(c, Unknown)
  <2>1. OwnApp(c)
    BY <1>0, <1>1, <1>2, <1>4, <1>9, OwnWrite, Zenon
  <2>2. PICK x : Becomes(c, "spawn undo", req[c].v1, x)
    BY <1>9, GoesTo, Zenon
  <2>3. acked'[i] = Unknown /\ x.pc = "spawn undo"
    BY <1>0, <1>2, <1>9, <2>2, AckIs, Zenon DEF Becomes
  <2>4. WorkOK(i, x)'
    BY <2>3 DEF WorkOK, StartedPcs, StoppedPcs
  <2> QED BY <1>0, <1>2, <2>1, <2>2, <2>4, ProgressKeeps, Zenon
<1>10. CASE AddApp(i, cfg) /\ Goto(c, "deploy ledger") /\ UNCHANGED acked
  <2>1. OwnApp(c)
    BY <1>0, <1>1, <1>2, <1>4, <1>10, OwnWrite, Zenon
  <2>2. PICK x : Becomes(c, "deploy ledger", req[c].v1, x)
    BY <1>10, GoesTo, Zenon
  <2>3. x.pc = "deploy ledger" /\ x.cfg = cfg
    BY <1>0, <2>2, Zenon DEF Becomes
  <2>4. i \notin mixed => WorkOK(i, x)'
    BY <1>4, <1>6, <1>10, <2>3 DEF WorkOK, StoppedPcs
  <2> QED BY <1>0, <1>2, <2>1, <2>2, <2>4, ProgressKeeps, Zenon
<1> QED BY <1>0, <1>7, <1>8, <1>9, <1>10, Zenon DEF SpawnStore, DeployStore

\* The record of an app that neither runs nor is routed is removed.
LEMMA StopStoreAcked ==
  ASSUME ApiInv, AckInv, NEW c \in Clients, StopStore(c)
  PROVE  AckInv'
<1>0. PICK i : i = req[c].id
  OBVIOUS
<1>1. /\ req[c].pc = "stop store" /\ UNCHANGED <<running, routes, mixed>> /\ Respond(c)
      /\ RemoveApp(i) \/ RemoveAppFails(i)
      /\ \/ /\ RemoveApp(i) /\ (Known(mem, i) \/ ~Known(disk, i)) /\ Ack(c, Gone)
         \/ Ack(c, Unknown)
  BY <1>0, Zenon DEF StopStore
<1>2. "stop store" \in LockedPcs /\ "stop store" \in StoppedPcs
  BY DEF LockedPcs, StoppedPcs
<1>3. i \in Ids /\ RecordsInv /\ (i \notin mixed => WorkOK(i, req[c]))
  BY <1>0, <1>1, <1>2, AtWork, Zenon DEF ApiInv
<1>4. /\ OtherRecords(i)
      /\ RemoveApp(i) /\ (Known(mem, i) \/ ~Known(disk, i)) => mem'.apps[i] = NoApp /\ disk'.apps[i] = NoApp
  BY <1>1, <1>3, RemoveAppShows, Zenon
<1>5. OwnApp(c)
  BY <1>0, <1>1, <1>2, <1>4, OwnWrite, Zenon
<1>6. i \notin mixed => running'[i] = NoProc /\ routes'[i] = 0
  BY <1>1, <1>2, <1>3, Zenon DEF WorkOK
<1>7. CASE Ack(c, Unknown)
  <2>1. Holds(i)'
    BY <1>0, <1>1, <1>2, <1>7, AckIs, UnknownHolds, Zenon
  <2> QED BY <1>0, <1>1, <1>2, <1>5, <2>1, AnswerKeeps, Zenon
<1>8. CASE RemoveApp(i) /\ (Known(mem, i) \/ ~Known(disk, i)) /\ Ack(c, Gone)
  <2>1. acked'[i] = Gone
    BY <1>0, <1>1, <1>2, <1>8, AckIs, Zenon
  <2>2. i \notin mixed => Holds(i)'
    BY <1>4, <1>6, <1>8, <2>1, Answers, Zenon DEF Holds, Shows, Runs, Known
  <2> QED BY <1>0, <1>1, <1>2, <1>5, <2>2, AnswerKeeps, Zenon
<1> QED BY <1>1, <1>7, <1>8, Zenon

\* The release is appended, and the deploy answered.
LEMMA DeployLedgerAcked ==
  ASSUME ApiInv, AckInv, NEW c \in Clients, DeployLedger(c)
  PROVE  AckInv'
<1>0. PICK i, cfg, from, orig, prior : /\ i = req[c].id /\ cfg = req[c].cfg /\ from = req[c].to
                                       /\ orig = req[c].orig /\ prior = PriorActivePhase(req[c].op)
  BY Zenon
<1>1. /\ req[c].pc = "deploy ledger" /\ UNCHANGED <<running, routes, mixed>> /\ Respond(c)
      /\ \/ CreateRelease(i, cfg, from, orig, prior) /\ Ack(c, cfg)
         \/ CreateReleaseFails(i, cfg, from, orig, prior) /\ Ack(c, Unknown)
         \/ CreateReleaseNotFound(i) /\ Ack(c, Unknown)
  BY <1>0, Zenon DEF DeployLedger
<1>2. "deploy ledger" \in LockedPcs /\ "deploy ledger" \in StartedPcs /\ "deploy ledger" \in DeployPcs
  BY DEF LockedPcs, DeployPcs, StartedPcs
<1>3. /\ i \in Ids /\ RecordsInv /\ (i \notin mixed => WorkOK(i, req[c]))
      /\ cfg \in Configs /\ from \in Nat /\ orig \in Nat /\ prior \in Phases \ {"Active"}
  <2>1. i \in Ids /\ req[c] \in Requests /\ RecordsInv /\ (i \notin mixed => WorkOK(i, req[c]))
    BY <1>0, <1>1, <1>2, AtWork, Zenon DEF ApiInv
  <2>2. from \in Nat /\ orig \in Nat
    BY <1>0, <2>1, Zenon DEF Requests
  <2>3. cfg \in Configs
    BY <1>0, <1>1, <1>2, Zenon DEF ApiInv, RequestOK
  <2>4. prior \in Phases \ {"Active"}
    BY <1>0 DEF PriorActivePhase, Phases
  <2> QED BY <2>1, <2>2, <2>3, <2>4, Zenon
<1>4. /\ OtherRecords(i)
      /\ CreateRelease(i, cfg, from, orig, prior) =>
           mem'.apps[i].cfg = mem.apps[i].cfg /\ disk'.apps[i].cfg = mem.apps[i].cfg
  BY <1>1, <1>3, CreateReleaseShows, Zenon
<1>5. OwnApp(c)
  BY <1>0, <1>1, <1>2, <1>3, <1>4, OwnWrite, Zenon
<1>6. i \notin mixed => /\ running'[i] # NoProc => running'[i].cfg = cfg
                        /\ routes'[i] = cfg /\ mem.apps[i].cfg = cfg
  BY <1>0, <1>1, <1>2, <1>3, Zenon DEF WorkOK
<1>7. CASE Ack(c, Unknown)
  <2>1. Holds(i)'
    BY <1>0, <1>1, <1>2, <1>7, AckIs, UnknownHolds, Zenon
  <2> QED BY <1>0, <1>1, <1>2, <1>5, <2>1, AnswerKeeps, Zenon
<1>8. CASE CreateRelease(i, cfg, from, orig, prior) /\ Ack(c, cfg)
  <2>1. acked'[i] = cfg
    BY <1>0, <1>1, <1>2, <1>8, AckIs, Zenon
  <2>2. i \notin mixed => Holds(i)'
    BY <1>3, <1>4, <1>6, <1>8, <2>1, Answers, Zenon DEF Holds, Shows, Runs
  <2> QED BY <1>0, <1>1, <1>2, <1>5, <2>2, AnswerKeeps, Zenon
<1> QED BY <1>1, <1>7, <1>8, Zenon

(***************************************************************************)
(* What happens beside the handlers.                                       *)
(***************************************************************************)

\* While nobody works on app i, only what was answered counts.
LEMMA NobodyWorks ==
  ASSUME NEW i, \A c \in Clients : req'[c].pc = "idle", Holds(i)'
  PROVE  AckedOK(i)'
BY Zenon DEF AckedOK, InFlight

\* With no request in flight for app i, what was answered for it holds.
LEMMA HeldWhileIdle ==
  ASSUME AckInv, NEW i \in Ids \ mixed, InFlight(i) = {}
  PROVE  Holds(i)
BY Zenon DEF AckInv, AckedOK

\* An app that the registry forgets breaks no answer: nothing was said of whether it runs.
LEMMA GiveUpAcked ==
  ASSUME ApiInv, AckInv, NEW id \in Ids, GiveUp(id)
  PROVE  AckInv'
<1>1. /\ running' = [running EXCEPT ![id] = NoProc] /\ mem' = mem /\ disk' = disk /\ open' = open
      /\ UNCHANGED <<routes, req, mixed, acked>>
  BY Zenon DEF GiveUp, recordVars
<1>2. \A i \in Ids : running'[i] = running[i] \/ running'[i] = NoProc
  BY <1>1, Zenon DEF ApiInv, ApiTypes
<1>3. ASSUME NEW i \in Ids \ mixed PROVE AckedOK(i)'
  <2>1. AckedOK(i) /\ (running'[i] = running[i] \/ running'[i] = NoProc)
    BY <1>2, Zenon DEF AckInv
  <2>2. InFlight(i)' = InFlight(i) /\ req' = req
    BY <1>1, Zenon DEF InFlight
  <2>3. Holds(i) => Holds(i)'
    BY <1>1, <2>1, Zenon DEF Holds, Runs, Shows, Known
  <2>4. ASSUME NEW c \in InFlight(i) PROVE WorkOK(i, req[c])'
    <3>1. WorkOK(i, req[c])
      BY <2>1, Zenon DEF AckedOK
    <3> QED BY <1>1, <2>1, <2>2, <3>1, Zenon DEF WorkOK, Shows, Known
  <2> QED BY <2>1, <2>2, <2>3, <2>4, Zenon DEF AckedOK
<1> QED BY <1>1, <1>3, Zenon DEF AckInv

\* A crash takes the registry, the routes and the maps; the disk still shows what was answered.
LEMMA DaemonEndsAcked ==
  ASSUME ApiInv, AckInv, DaemonEnds
  PROVE  AckInv'
<1>1. /\ ~open' /\ disk' = disk /\ running' = [id \in Ids |-> NoProc] /\ routes' = [id \in Ids |-> 0]
      /\ req' = [c \in Clients |-> Idle] /\ mixed' = mixed
      /\ acked' = [id \in Ids |-> IF InFlight(id) = {} THEN acked[id] ELSE Unknown]
  BY Zenon DEF DaemonEnds, CloseStore
<1>2. acked' \in [Ids -> Configs \cup {Gone, Unknown}] /\ routes' \in [Ids -> Nat]
  <2>1. acked \in [Ids -> Configs \cup {Gone, Unknown}] /\ 0 \in Nat
    BY DEF AckInv
  <2> QED BY <1>1, <2>1, Zenon
<1>3. \A c \in Clients : req'[c].pc = "idle"
  BY <1>1, Answers, Zenon
<1>4. ASSUME NEW i \in Ids \ mixed PROVE AckedOK(i)'
  <2>1. running'[i] = NoProc /\ routes'[i] = 0
    BY <1>1, Zenon
  <2>2. CASE InFlight(i) = {}
    <3>1. acked'[i] = acked[i] /\ Holds(i)
      BY <1>1, <2>2, HeldWhileIdle, Zenon
    <3>2. Holds(i)'
      BY <1>1, <2>1, <3>1, Zenon DEF Holds, Shows, Runs, Known
    <3> QED BY <1>3, <3>2, NobodyWorks, Zenon
  <2>3. CASE InFlight(i) # {}
    <3>1. acked'[i] = Unknown
      BY <1>1, <2>3, Zenon
    <3> QED BY <1>3, <3>1, UnknownHolds, NobodyWorks, Zenon
  <2> QED BY <2>2, <2>3, Zenon
<1> QED BY <1>1, <1>2, <1>4, Zenon DEF AckInv

\* A boot loads what the disk shows, and writes nothing else back.
LEMMA LoadedShows ==
  ASSUME RecordsInv, NEW stamp \in Stamps, NEW i \in Ids, NEW what
  PROVE  Shows(disk, i, what) => Shows(Loaded(stamp), i, what)
<1> DEFINE a == disk.apps[i]
<1>1. Loaded(stamp).apps[i] = IF i \in DOMAIN stamp THEN newAppMetadata(a, stamp[i]) ELSE a
  BY DEF Loaded
<1>2. DOMAIN stamp = Unstamped(disk)
  BY DEF Stamps
<1>3. a \in StoredRecord
  BY Zenon DEF RecordsInv, SoundDb, Database
<1>4. newAppMetadata(a, stamp[i]).cfg = a.cfg
  BY <1>3, Zenon DEF newAppMetadata, StoredRecord
<1>5. ~Known(disk, i) => i \notin DOMAIN stamp
  BY <1>2, Zenon DEF Unstamped
<1> QED BY <1>1, <1>4, <1>5, Zenon DEF Shows, Known

\* So what was answered survives the boot, and a boot that fails.
LEMMA BootAcked ==
  ASSUME ApiInv, AckInv, Boot \/ BootFails
  PROVE  AckInv'
<1>1. /\ ~open /\ UNCHANGED <<running, routes, req, mixed, acked>>
      /\ \E stamp \in Stamps : /\ disk' \in {disk, Loaded(stamp)}
                               /\ open' => mem' = Loaded(stamp)
  <2>1. CASE Boot
    BY <2>1, Zenon DEF Boot, NewStore
  <2>2. CASE BootFails
    BY <2>2, Zenon DEF BootFails, NewStoreFails, apiVars
  <2> QED BY <2>1, <2>2, Zenon
<1>2. \A c \in Clients : req[c].pc = "idle" /\ req'[c].pc = "idle"
  BY <1>1, Zenon DEF ApiInv, RequestOK
<1>3. ASSUME NEW i \in Ids \ mixed PROVE AckedOK(i)'
  <2>1. Holds(i)
    BY <1>2, HeldWhileIdle, Zenon DEF InFlight
  <2>2. PICK stamp \in Stamps : disk' \in {disk, Loaded(stamp)} /\ (open' => mem' = Loaded(stamp))
    BY <1>1, Zenon
  <2>3. Shows(disk, i, acked[i]) /\ Shows(Loaded(stamp), i, acked[i])
    BY <2>1, LoadedShows, Zenon DEF Holds, ApiInv
  <2>4. Shows(disk', i, acked[i]) /\ (open' => Shows(mem', i, acked[i]))
    BY <2>2, <2>3, Zenon
  <2>5. Holds(i)'
    BY <1>1, <2>1, <2>4, Zenon DEF Holds, Shows, Runs, Known
  <2> QED BY <1>2, <2>5, NobodyWorks, Zenon
<1> QED BY <1>1, <1>3, Zenon DEF AckInv

\* The restore starts each app with the config of its record.
LEMMA RestoreAppAcked ==
  ASSUME ApiInv, AckInv, NEW id \in Ids, RestoreApp(id)
  PROVE  AckInv'
<1>0. PICK cfg : cfg = mem.apps[id].cfg
  OBVIOUS
<1>1. /\ id \in restore /\ UNCHANGED <<req, mixed, acked>>
      /\ running' = [running EXCEPT ![id] = [inst |-> 0, cfg |-> cfg]]
      /\ routes' = [routes EXCEPT ![id] = cfg]
      /\ AddApp(id, cfg) \/ AddAppFails(id, cfg) \/ UNCHANGED recordVars
  BY <1>0, Zenon DEF RestoreApp
<1>2. \A c \in Clients : req[c].pc = "idle" /\ req'[c].pc = "idle"
  BY <1>1, Zenon DEF ApiInv, RequestOK
<1>3. Known(mem, id) /\ RecordsInv /\ SoundDb(mem)
  BY <1>1, Zenon DEF ApiInv, ApiTypes, RecordsInv
<1>4. cfg \in Configs /\ cfg \in Nat
  BY <1>0, <1>3, Answers, Zenon DEF SoundDb, Sound, Known
<1>5. open
  <2>1. ~open => mem = EmptyDb
    BY <1>3, Zenon DEF RecordsInv
  <2> QED BY <1>3, <2>1, NothingIsPointed, Zenon DEF Known
<1>6. /\ OtherRecords(id)
      /\ mem'.apps[id].cfg = cfg
      /\ disk'.apps[id] = disk.apps[id] \/ disk'.apps[id].cfg = cfg
  <2>1. CASE AddApp(id, cfg) \/ AddAppFails(id, cfg)
    BY <1>0, <1>3, <1>4, <2>1, AddAppShows, Zenon
  <2>2. CASE UNCHANGED recordVars
    BY <1>0, <2>2, Zenon DEF recordVars, OtherRecords
  <2> QED BY <1>1, <2>1, <2>2, Zenon
<1>7. routes \in [Ids -> Nat] /\ running \in [Ids -> Proc] /\ acked \in [Ids -> Configs \cup {Gone, Unknown}]
  BY Zenon DEF AckInv, ApiInv, ApiTypes
<1>8. routes' \in [Ids -> Nat] /\ acked' \in [Ids -> Configs \cup {Gone, Unknown}]
  BY <1>1, <1>4, <1>7, Zenon
<1>9. ASSUME NEW i \in Ids \ mixed PROVE AckedOK(i)'
  <2>1. Holds(i)
    BY <1>2, <1>9, HeldWhileIdle, Zenon DEF InFlight
  <2>2. CASE i # id
    <3>1. SameApp(i)
      BY <1>1, <1>5, <1>6, <1>7, <2>2, Zenon DEF SameApp, OtherRecords
    <3>2. Holds(i)'
      BY <1>5, <1>6, <2>1, <3>1, Zenon DEF Holds, Shows, Runs, Known, SameApp
    <3> QED BY <1>2, <3>2, NobodyWorks, Zenon
  <2>3. CASE i = id
    <3>1. running'[i].cfg = cfg /\ routes'[i] = cfg
      BY <1>1, <1>7, <2>3, Zenon
    <3>2. acked[i] # Gone /\ (acked[i] \in Configs => acked[i] = cfg)
      BY <1>0, <1>3, <1>5, <2>1, <2>3, Zenon DEF Holds, Shows
    <3>3. acked[i] \in Configs => disk'.apps[i].cfg = cfg /\ mem'.apps[i].cfg = cfg
      BY <1>6, <2>1, <2>3, <3>2, Zenon DEF Holds, Shows
    <3>4. Holds(i)'
      BY <1>1, <3>1, <3>2, <3>3, Zenon DEF Holds, Shows, Runs
    <3> QED BY <1>2, <3>4, NobodyWorks, Zenon
  <2> QED BY <2>2, <2>3, Zenon
<1> QED BY <1>1, <1>8, <1>9, Zenon DEF AckInv

\* Nothing that AckInv speaks of changes.
LEMMA AckedAside ==
  ASSUME AckInv, UNCHANGED <<recordVars, running, routes, req, mixed, acked>>
  PROVE  AckInv'
<1>1. mem' = mem /\ disk' = disk /\ open' = open /\ running' = running /\ routes' = routes /\ req' = req
      /\ mixed' = mixed /\ acked' = acked
  BY Zenon DEF recordVars
<1>2. ASSUME NEW i \in Ids \ mixed PROVE AckedOK(i)'
  <2>1. AckedOK(i) /\ InFlight(i)' = InFlight(i)
    BY <1>1, Zenon DEF AckInv, InFlight
  <2>2. Holds(i) => Holds(i)'
    BY <1>1, Zenon DEF Holds, Shows, Runs, Known
  <2>3. ASSUME NEW c \in InFlight(i), WorkOK(i, req[c]) PROVE WorkOK(i, req[c])'
    BY <1>1, <2>3, Zenon DEF WorkOK, Shows, Known
  <2> QED BY <1>1, <2>1, <2>2, <2>3, Zenon DEF AckedOK
<1> QED BY <1>1, <1>2, Zenon DEF AckInv

\* Nothing was answered yet.
LEMMA AckInitial ==
  ASSUME Init
  PROVE  AckInv
<1>1. /\ acked = [id \in Ids |-> Unknown] /\ routes = [id \in Ids |-> 0] /\ req = [c \in Clients |-> Idle]
      /\ 0 \in Nat
  BY DEF Init
<1>2. \A i \in Ids : InFlight(i) = {} /\ acked[i] = Unknown
  BY <1>1, Answers, Zenon DEF InFlight
<1>3. \A i \in Ids : AckedOK(i)
  BY <1>2, Answers, Zenon DEF AckedOK, Holds, Shows, Runs
<1> QED BY <1>1, <1>3, Zenon DEF AckInv

\* Every step keeps AckInv.
LEMMA AckStep ==
  ASSUME ApiInv, AckInv, [Next]_vars
  PROVE  AckInv'
<1>1. CASE UNCHANGED vars \/ Quiet
  BY <1>1, AckedAside, Zenon DEF Quiet, vars, apiVars
<1>2. CASE DaemonEnds \/ Boot \/ BootFails
  BY <1>2, DaemonEndsAcked, BootAcked, Zenon
<1>3. ASSUME NEW id \in Ids, RestoreApp(id) \/ RestoreFails(id) \/ GiveUp(id) PROVE AckInv'
  BY <1>3, RestoreAppAcked, GiveUpAcked, AckedAside, Zenon DEF RestoreFails
<1>4. ASSUME NEW c \in Clients, Request(c) \/ Step(c) PROVE AckInv'
  BY <1>4, WaitingAcked, SpawnCallAcked, RouteAcked, SpawnUndoAcked, StopCallAcked, StopWaitAcked,
     StopRouteAcked, DeploySwapAcked, AddAppAcked, StopStoreAcked, DeployLedgerAcked, Zenon DEF Step
<1> QED BY <1>1, <1>2, <1>3, <1>4, Zenon DEF Next

(***************************************************************************)
(* The theorems.                                                           *)
(***************************************************************************)
INSTANCE FiniteSetTheorems

\* There are finitely many apps.
LEMMA IdsAreCounted == IdsCounted
BY FS_Subset, FS_CardinalityType, RecordsAssumption DEF IdsCounted

\* The records stay sound.
THEOREM RecordsAreSound == RecordsSpec => []RecordsInv
<1>1. RecordsInv /\ [RecordsNext]_recordVars => RecordsInv'
  <2>1. ASSUME RecordsInv, UNCHANGED recordVars PROVE RecordsInv'
    BY <2>1 DEF RecordsInv, recordVars, SoundDb, Sound
  <2> QED BY <2>1, IdsAreCounted, RecordsStep, ZenonT(60)
<1> QED BY <1>1, RecordsInitial, PTL DEF RecordsSpec

\* CreateRelease's retire, number and append: whatever is written, fails to be written, or is loaded
\* again, every ledger in memory and on disk is numbered without a gap and has one Active release.
THEOREM LedgersStayOrdered == RecordsSpec => []LedgersOrdered
<1>1. RecordsInv => LedgersOrdered
  BY DEF RecordsInv, SoundDb, Sound, LedgersOrdered
<1> QED BY <1>1, RecordsAreSound, PTL

\* What If-Match relies on: no mutation changes a record and leaves its resourceVersion.
THEOREM VersionsNameContent == RecordsSpec => VersionNamesContent
<1>1. RecordsInv /\ [RecordsNext]_recordVars
      => [ \A id \in Ids :
             /\ Known(mem, id) /\ Known(mem', id)
             /\ mem.apps[id].uid = mem'.apps[id].uid
             /\ mem.apps[id] # mem'.apps[id]
             => mem'.apps[id].rv > mem.apps[id].rv ]_recordVars
  BY IdsAreCounted, RecordsStep, Zenon DEF Raises
<1> QED BY <1>1, RecordsAreSound, PTL DEF RecordsSpec, VersionNamesContent

\* The handlers, the restore at boot and the daemon's crashes keep ApiInv.
THEOREM ApiInvariant == Spec => []ApiInv
<1>1. ApiInv /\ [Next]_vars => ApiInv'
  <2>1. ASSUME ApiInv, UNCHANGED vars PROVE ApiInv'
    <3>1. AllPointed' /\ RequestsOK'
      BY <2>1, AsideKeeps, Zenon DEF vars, apiVars, ApiInv, ApiTypes
    <3>2. RecordsInv'
      BY <2>1, Zenon DEF ApiInv, RecordsInv, vars, recordVars, SoundDb, Sound
    <3> QED BY <3>1, <3>2, Zenon DEF ApiInv, RequestsOK
  <2> QED BY <2>1, IdsAreCounted, ApiStep, Zenon
<1> QED BY <1>1, ApiInitial, PTL DEF Spec

\* Whatever the handlers interleave, the store sees a behaviour that AppRecords allows.
THEOREM ApiImplementsRecords == Spec => RecordsSpec
<1>1. Init => RecordsInit
  BY Zenon DEF Init
<1>2. ApiInv /\ [Next]_vars => [RecordsNext]_recordVars
  BY IdsAreCounted, ApiStep, Zenon DEF StoreStep, vars
<1> QED BY <1>1, <1>2, ApiInvariant, PTL DEF Spec, RecordsSpec

\* So the daemon's ledgers stay in order: CreateRelease's retire, number and append, over every
\* interleaving of requests, failed flush, crash and boot.
THEOREM ApiLedgersOrdered == Spec => []LedgersOrdered
BY ApiImplementsRecords, LedgersStayOrdered, PTL

\* And a record that clients see never changes under the version they have read.
THEOREM ApiVersionsNameContent == Spec => VersionNamesContent
BY ApiImplementsRecords, VersionsNameContent, PTL

\* What a rollback recorded leads back to the deploy whose artifact it runs: the lock that
\* casMiddleware takes keeps the ledger from the look-up of the target to the append.
THEOREM RollbacksPointBack == Spec => []RollbackPointers
<1>1. ApiInv => RollbackPointers
  BY Zenon DEF ApiInv, AllPointed, Pointed, RollbackPointers
<1> QED BY <1>1, ApiInvariant, PTL

\* From its If-Match check to its first write a request works on the version it named, for every
\* number of clients, unless a create shared the app.
THEOREM MatchesHold == Spec => []MatchHolds
<1>1. ApiInv => MatchHolds
  BY DEF ApiInv
<1> QED BY <1>1, ApiInvariant, PTL

\* What a client was told stays true: for every number of apps, clients, requests, crashes, failed
\* flushes and failed supervisor calls, after a 201 or 200 the record in memory and on disk has the
\* config that was acknowledged, and the app runs and is routed with it if it runs; after a 204 it
\* is gone from all of them.  Apps whose create overlapped another request are exempt.
THEOREM AnswersHold == Spec => []AckedHolds
<1>1. AckInv => AckedHolds
  BY HeldWhileIdle, Zenon DEF AckedHolds, Holds, Shows, Runs
<1>2. Init => AckInv
  BY AckInitial
<1>3. ApiInv /\ AckInv /\ [Next]_vars => AckInv'
  BY AckStep
<1> QED BY <1>1, <1>2, <1>3, ApiInvariant, PTL DEF Spec
=============================================================================
