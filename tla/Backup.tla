-------------------------------- MODULE Backup --------------------------------
(***************************************************************************)
(* Tier 0 backups beside a store that is being written (internal/backup):  *)
(* WriteTier0 reads state.json and then state.json.wal while flushes go    *)
(* on, signs what it read with the host key and keeps the newest           *)
(* artifacts.  A restore is a boot of the store on the two files.          *)
(*                                                                         *)
(* The audit log and the certificates in an artifact, the tar format and   *)
(* the hashes are left out: an artifact is the two files it holds, and the *)
(* key that signed them.  The clock that names the artifacts does not go   *)
(* backwards.                                                              *)
(***************************************************************************)
EXTENDS StateStore, Sequences

CONSTANTS
  BackupKeep,  \* Options.Keep
  BackupMax    \* bound: backups started

ASSUME BackupAssumption == BackupKeep \in Nat \ {0} /\ BackupMax \in Nat

VARIABLES
  backup,      \* the WriteTier0 under way
  artifacts,   \* state-<time>.tar.gz, oldest first
  backups,     \* backups started
  keyFile,     \* the host key as a read sees it (0: none)
  keyDurable,  \* the host key as a crash leaves it
  keyMem,      \* the key the daemon has loaded
  keyMade,     \* keys generated so far
  keyUnsure    \* keys whose directory fsync failed

backupVars == <<backup, artifacts, backups>>
keyVars == <<keyFile, keyDurable, keyMem, keyMade, keyUnsure>>
tierVars == <<vars, backupVars, keyVars>>

NoBackup == [pc |-> "idle", state |-> [fmt |-> "current", snap |-> {}],
             log |-> [pendings |-> {}, closings |-> {}, torn |-> FALSE], since |-> {}]

\* The backup under way, the artifacts and the host key have their types.
BackupTypeOK ==
  /\ backup.pc \in {"idle", "wal", "write", "prune"}
  /\ Len(artifacts) <= BackupMax
  /\ {keyFile, keyDurable, keyMem} \subseteq 0 .. keyMade
  /\ keyUnsure \subseteq 1 .. keyMade

(***************************************************************************)
(* LoadOrCreateHostKey, at the start of the daemon.                        *)
(***************************************************************************)
LoadHostKey ==
  /\ Up /\ keyMem = 0 /\ keyFile # 0
  /\ keyMem' = keyFile
  /\ UNCHANGED <<vars, backupVars, keyFile, keyDurable, keyMade, keyUnsure>>

\* The new key is renamed into place; the fsync of the directory makes it
\* durable, and only then is it handed out.
generateAndPersistHostKey ==
  /\ Up /\ keyMem = 0 /\ keyFile = 0
  /\ keyMade < MaxCrashes + 2
  /\ keyMade' = keyMade + 1
  /\ keyFile' = keyMade + 1
  /\ \/ /\ keyDurable' = keyMade + 1
        /\ keyMem' = keyMade + 1
        /\ UNCHANGED <<keyUnsure, vars>>
     \/ /\ Fails("dirsync")
        /\ keyUnsure' = keyUnsure \cup {keyMade + 1}
        /\ UNCHANGED <<keyDurable, keyMem, file, durable, wal, mem, pc, flush, last, acked,
                       rejected, crashes>>
  /\ UNCHANGED backupVars

(***************************************************************************)
(* WriteTier0                                                              *)
(***************************************************************************)
BackupReadsState ==
  /\ Up /\ keyMem # 0
  /\ backup.pc = "idle" /\ backups < BackupMax
  /\ backups' = backups + 1
  /\ backup' = [NoBackup EXCEPT !.pc = "wal", !.state = file, !.since = acked]
  /\ UNCHANGED <<vars, artifacts, keyVars>>

\* A record that is being appended may be read in part.
BackupReadsWAL ==
  /\ Up /\ backup.pc = "wal"
  /\ \E w \in {wal} \cup (IF Appended = wal THEN {} ELSE {[wal EXCEPT !.torn = TRUE]}) :
       backup' = [backup EXCEPT !.pc = "write", !.log = w]
  /\ UNCHANGED <<vars, artifacts, backups, keyVars>>

SignManifest(b) == [state |-> b.state, log |-> b.log, since |-> b.since, key |-> keyMem]

\* The manifest is signed, the tar is written beside its name and renamed;
\* an error leaves no artifact.
writeArtifact ==
  /\ Up /\ backup.pc = "write"
  /\ \/ /\ artifacts' = Append(artifacts, SignManifest(backup))
        /\ backup' = [backup EXCEPT !.pc = "prune"]
     \/ backup' = NoBackup /\ UNCHANGED artifacts
  /\ UNCHANGED <<vars, backups, keyVars>>

\* Without the oldest artifacts beyond BackupKeep.
Pruned(s) == SubSeq(s, Len(s) - BackupKeep + 1, Len(s))

pruneOldest ==
  /\ Up /\ backup.pc = "prune"
  /\ artifacts' = IF Len(artifacts) <= BackupKeep THEN artifacts ELSE Pruned(artifacts)
  /\ backup' = NoBackup
  /\ UNCHANGED <<vars, backups, keyVars>>

(***************************************************************************)
(* The store goes on meanwhile; a crash ends the backup, and a power loss  *)
(* may lose a key that was not synced.                                     *)
(***************************************************************************)
StoreSteps == Step /\ UNCHANGED <<backupVars, keyVars>>

TierCrash ==
  /\ Crash
  /\ backup' = NoBackup
  /\ keyMem' = 0
  /\ keyFile' \in {keyFile, keyDurable}
  /\ keyDurable' \in {keyDurable, keyFile'}
  /\ UNCHANGED <<artifacts, backups, keyMade, keyUnsure>>

TierInit ==
  /\ Init
  /\ backup = NoBackup
  /\ artifacts = <<>>
  /\ backups = 0
  /\ keyFile = 0 /\ keyDurable = 0 /\ keyMem = 0 /\ keyMade = 0
  /\ keyUnsure = {}

TierNext ==
  \/ StoreSteps
  \/ LoadHostKey \/ generateAndPersistHostKey
  \/ BackupReadsState \/ BackupReadsWAL \/ writeArtifact \/ pruneOldest
  \/ TierCrash

TierSpec == TierInit /\ [][TierNext]_tierVars

\* The host's key file verifies the signature.
VerifyManifest(a) == a.key = keyFile

\* What a boot on the files of an artifact loads.
Restored(b) ==
  IF scanOrphanPending(b.log) = {} THEN b.state.snap ELSE Latest(b.log).snap

(***************************************************************************)
(* A backup taken while the store is written, restored on another host,    *)
(* has everything the store had acknowledged when the backup began, and is *)
(* signed by the key the host still has.  (Not claimed: a log record that  *)
(* was read in part makes the restored store refuse to open, and a key     *)
(* whose directory fsync failed may be lost with the power.)               *)
(***************************************************************************)
BackupRestores ==
  \A k \in 1 .. Len(artifacts) :
    LET b == artifacts[k]
    IN  /\ ~b.log.torn => b.since \subseteq Restored(b)
        /\ b.key \in keyUnsure \/ VerifyManifest(b)
=============================================================================
