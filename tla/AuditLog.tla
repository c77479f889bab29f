------------------------------ MODULE AuditLog ------------------------------
(***************************************************************************)
(* The audit log of the admin API (internal/adminapi/audit.go): every      *)
(* record names the hash of the one before it, across rotations of the     *)
(* file and restarts of the daemon.                                        *)
(*                                                                         *)
(* A record is its number, which stands for its hash, and the hash it      *)
(* names; hash 0 is genesis.  One mutex admits one Log at a time; what     *)
(* interleaves with it is a crash, between any two system calls of a       *)
(* rotation, and a system call that fails.                                 *)
(***************************************************************************)
EXTENDS Integers, Sequences, SequencesExt

CONSTANTS
  AuditMax,      \* records that fill a file (auditMaxFileBytes)
  AuditKeep,     \* auditKeepRotated
  AuditRecords,  \* bound: records
  AuditFaults,   \* bound: failing system calls
  AuditCrashes   \* bound: restarts

ASSUME AuditAssumption == AuditMax \in Nat \ {0} /\ AuditKeep \in Nat \ {0}

VARIABLES
  auditDisk,   \* audit.log (0) and its rotations 1 .. AuditKeep
  auditPc,     \* "off" (no file handle), "open", or the step of a rotation
  auditSlot,   \* the step of the shift of the rotated files
  auditTorn,   \* the last line of audit.log has no newline
  lastHash,    \* AuditLogger.lastHash
  auditBytes,  \* AuditLogger.bytes
  auditCount,  \* records made so far
  auditScars,  \* lines at which the chain is known to break
  auditFresh,  \* the last restart found no record in audit.log
  auditFaults,
  auditCrashes

auditVars == <<auditDisk, auditPc, auditSlot, auditTorn, lastHash, auditBytes, auditCount,
               auditScars, auditFresh, auditFaults, auditCrashes>>

\* A file is a sequence of lines; Absent is a file that is not there.
Absent == <<[hash |-> 0, prev |-> 0]>>
auditGenesisHash == 0

\* The chain state, the files and the rotation under way have their types.
AuditTypeOK ==
  /\ DOMAIN auditDisk = 0 .. AuditKeep
  /\ lastHash \in 0 .. AuditRecords
  /\ auditPc \in {"off", "open", "shift", "promote", "cursor", "reopen"}
  /\ auditSlot \in 0 .. AuditKeep
  /\ auditTorn \in BOOLEAN
  /\ auditScars \subseteq 1 .. AuditRecords
  /\ auditFresh \in BOOLEAN

AuditFault == auditFaults < AuditFaults /\ auditFaults' = auditFaults + 1

\* An append lands on the unfinished line, if there is one.
appendLine(f, line) == Append(IF auditTorn THEN Front(f) ELSE f, line)

\* lastHash advances only when the bytes landed.
advance(landed) == IF landed THEN auditCount + 1 ELSE lastHash

\* Log: the record is written and, when it filled the file, a rotation
\* begins, which closes the file.
Log ==
  /\ auditPc = "open"
  /\ auditCount < AuditRecords
  /\ LET n == auditCount + 1
         line == [hash |-> n, prev |-> lastHash]
     IN  /\ auditCount' = n
         /\ \/ /\ auditDisk' = [auditDisk EXCEPT ![0] = appendLine(@, line)]
               /\ lastHash' = advance(TRUE)
               /\ auditBytes' = auditBytes + 1
               /\ auditScars' = IF auditTorn \/ auditFresh THEN auditScars \cup {n} ELSE auditScars
               /\ auditTorn' = FALSE
               /\ auditFresh' = FALSE
               /\ IF auditBytes' >= AuditMax
                  THEN auditPc' = "shift" /\ auditSlot' = AuditKeep
                  ELSE UNCHANGED <<auditPc, auditSlot>>
               /\ UNCHANGED auditFaults
            \/ \* a write that fails with nothing written
               /\ AuditFault
               /\ lastHash' = advance(FALSE)
               /\ UNCHANGED <<auditDisk, auditBytes, auditPc, auditSlot, auditTorn, auditScars, auditFresh>>
            \/ \* a write that fails after a part of the line
               /\ AuditFault
               /\ auditDisk' = [auditDisk EXCEPT ![0] = appendLine(@, line)]
               /\ auditTorn' = TRUE
               /\ auditScars' = auditScars \cup {n}
               /\ lastHash' = advance(FALSE)
               /\ UNCHANGED <<auditBytes, auditPc, auditSlot, auditFresh>>
  /\ UNCHANGED auditCrashes

\* A rotation that fails leaves the logger without a file.
rotateFails == AuditFault /\ auditPc' = "off" /\ UNCHANGED auditDisk

\* The rotated file that the i-th step, from the highest, moves up.
shiftFrom(i) == i

\* .N is dropped, .N-1 becomes .N, and so on down to .1.
rotateShift ==
  LET k == shiftFrom(auditSlot)
  IN  /\ auditPc = "shift"
      /\ \/ /\ auditDisk' = IF k = AuditKeep THEN [auditDisk EXCEPT ![k] = Absent]
                            ELSE IF auditDisk[k] = Absent THEN auditDisk
                            ELSE [auditDisk EXCEPT ![k + 1] = auditDisk[k], ![k] = Absent]
            /\ auditSlot' = auditSlot - 1
            /\ auditPc' = IF auditSlot = 1 THEN "promote" ELSE "shift"
            /\ UNCHANGED auditFaults
         \/ rotateFails /\ UNCHANGED auditSlot
      /\ UNCHANGED <<auditTorn, lastHash, auditBytes, auditCount, auditScars, auditFresh, auditCrashes>>

\* audit.log becomes .1.
rotatePromote ==
  /\ auditPc = "promote"
  /\ \/ /\ auditDisk' = [auditDisk EXCEPT ![1] = auditDisk[0], ![0] = Absent]
        /\ auditTorn' = FALSE
        /\ auditPc' = "cursor"
        /\ UNCHANGED auditFaults
     \/ rotateFails /\ UNCHANGED auditTorn
  /\ UNCHANGED <<auditSlot, lastHash, auditBytes, auditCount, auditScars, auditFresh, auditCrashes>>

\* The cursor file, which nothing reads.
writeCursor ==
  /\ auditPc = "cursor"
  /\ \/ auditPc' = "reopen" /\ UNCHANGED <<auditDisk, auditFaults>>
     \/ rotateFails
  /\ UNCHANGED <<auditSlot, auditTorn, lastHash, auditBytes, auditCount, auditScars, auditFresh, auditCrashes>>

rotateReopen ==
  /\ auditPc = "reopen"
  /\ \/ /\ auditDisk' = [auditDisk EXCEPT ![0] = <<>>]
        /\ auditPc' = "open"
        /\ auditBytes' = 0
        /\ UNCHANGED auditFaults
     \/ rotateFails /\ UNCHANGED auditBytes
  /\ UNCHANGED <<auditSlot, auditTorn, lastHash, auditCount, auditScars, auditFresh, auditCrashes>>

Current == IF auditDisk[0] = Absent THEN <<>> ELSE auditDisk[0]

\* faulty: every start of the daemon starts a chain
resumeChain_Genesis == auditGenesisHash

\* resumeChain takes the tip from the current file alone.
resumeChain == IF Current = <<>> THEN auditGenesisHash ELSE Last(Current).hash

\* The daemon ends, at any point, and starts again: NewAuditLogger.  A
\* current file without a record starts a new chain, whose first record is
\* marked for the property.
NewAuditLogger ==
  /\ auditCrashes < AuditCrashes
  /\ auditCrashes' = auditCrashes + 1
  /\ lastHash' = resumeChain
  /\ auditDisk' = [auditDisk EXCEPT ![0] = Current]
  /\ auditBytes' = Len(Current)
  /\ auditPc' = "open"
  /\ auditFresh' = (Current = <<>> /\ auditCount > 0)
  /\ auditSlot' = 0
  /\ UNCHANGED <<auditTorn, auditCount, auditScars, auditFaults>>

AuditInit ==
  /\ auditDisk = [i \in 0 .. AuditKeep |-> IF i = 0 THEN <<>> ELSE Absent]
  /\ auditPc = "open"
  /\ auditSlot = 0
  /\ auditTorn = FALSE
  /\ lastHash = auditGenesisHash
  /\ auditBytes = 0
  /\ auditCount = 0
  /\ auditScars = {}
  /\ auditFresh = FALSE
  /\ auditFaults = 0
  /\ auditCrashes = 0

AuditNext ==
  \/ Log
  \/ rotateShift \/ rotatePromote \/ writeCursor \/ rotateReopen
  \/ NewAuditLogger

AuditSpec == AuditInit /\ [][AuditNext]_auditVars

(***************************************************************************)
(* Verification                                                            *)
(***************************************************************************)
Broken == -1

\* verifyChainInFile: the tip of a file whose first record must name prev.
verifyChainInFile(f, prev) ==
  IF f = Absent THEN prev
  ELSE FoldLeft(LAMBDA tip, line :
                  IF tip # Broken /\ line.prev = tip /\ line.hash \notin auditScars
                  THEN line.hash ELSE Broken, prev, f)

\* The files are walked from the oldest to the newest; the code starts from
\* the genesis hash.
VerifyAuditChain(from) ==
  FoldLeft(LAMBDA tip, i : IF tip = Broken THEN Broken
                           ELSE verifyChainInFile(auditDisk[AuditKeep + 1 - i], tip),
           from, [i \in 1 .. AuditKeep + 1 |-> i]) # Broken

\* All retained lines, oldest first.
Retained ==
  FlattenSeq([i \in 1 .. AuditKeep + 1 |->
                IF auditDisk[AuditKeep + 1 - i] = Absent THEN <<>>
                ELSE auditDisk[AuditKeep + 1 - i]])

(***************************************************************************)
(* "making the chain traversable across rotation boundaries": whatever     *)
(* fails and wherever the daemon is killed in a rotation, the retained     *)
(* files verify, from the hash the oldest retained record names.  Two      *)
(* breaks the code makes are left out: a line that was written in part,    *)
(* and the first record after a restart that found no record in audit.log. *)
(***************************************************************************)
ChainVerifies ==
  LET lines == Retained
  IN  lines # <<>> /\ (\A k \in DOMAIN lines : lines[k].hash \notin auditScars)
        => VerifyAuditChain(lines[1].prev)
=============================================================================
