------------------------------- MODULE AppLogs -------------------------------
(***************************************************************************)
(* The log of one app: the rotator and its two stream writers              *)
(* (internal/logs/rotator.go), the two goroutines that close it            *)
(* (Supervisor.watch and stopApp), and a client that follows current.log   *)
(* by polling its size (internal/adminapi/logs.go).                        *)
(*                                                                         *)
(* A line is a number, in the order in which the child began it, and its   *)
(* stream; its size is 1 and it is written whole or not at all.  The mutex *)
(* of the rotator covers a whole writeLine; the follower takes no lock and *)
(* sees the disk between the system calls of a rotation.                   *)
(***************************************************************************)
EXTENDS Integers, Sequences, SequencesExt

CONSTANTS
  LogMax,       \* lines that fill current.log (MaxSizeBytes)
  LogKeep,      \* MaxBackups
  LogTail,      \* lines the follower asks for first
  LogLines,     \* bound: lines of the child
  LogRestarts,  \* bound: restarts of the child
  LogFaults     \* bound: failing system calls

ASSUME LogAssumption == LogMax \in Nat \ {0} /\ LogKeep \in Nat \ {0}

VARIABLES
  logDisk,     \* current.log (0) and its backups 1 .. LogKeep
  logFile,     \* Rotator.file is set
  logSize,     \* Rotator.size
  logPc,       \* what the holder of the mutex does: free, shift, promote, open, write
  logLine,     \* the line it writes
  logBuf,      \* the unfinished line of each StreamWriter
  child,       \* the process runs
  copying,     \* the io.Copy goroutine of each stream runs
  closer,      \* the two calls of Rotator.Close
  follow,      \* the follower
  lineCount,
  flushedTwice,  \* lines both closers took
  logRestarts,
  logFaults

logVars == <<logDisk, logFile, logSize, logPc, logLine, logBuf, child, copying, closer, follow,
             lineCount, flushedTwice, logRestarts, logFaults>>

Streams == {"stdout", "stderr"}
Closers == {"watch", "stop"}
NoFile == <<[n |-> 0, stream |-> "none"]>>
NoLine == [n |-> 0, stream |-> "none"]

\* The disk, the mutex holder, the closers and the follower have their types.
LogsTypeOK ==
  /\ DOMAIN logDisk = 0 .. LogKeep
  /\ logPc \in {"free", "shift", "promote", "open", "write"}
  /\ logBuf \in [Streams -> 0 .. LogLines]
  /\ copying \subseteq Streams
  /\ \A c \in Closers : closer[c].pc \in {"off", "stdout", "stderr", "file", "done"}
  /\ follow.pc \in {"off", "seek", "poll", "read"}

LogFault == logFaults < LogFaults /\ logFaults' = logFaults + 1

Text(f) == IF f = NoFile THEN <<>> ELSE f

\* The projected size exceeds the limit: rotate before writing.
overflows == logSize + 1 > LogMax

\* writeLine takes the mutex; on a closed rotator it is an error.
writeLine(s, n) ==
  /\ logPc = "free"
  /\ logFile
  /\ logPc' = IF overflows THEN "shift" ELSE "write"
  /\ logLine' = [n |-> n, stream |-> s]

\* rotateLocked failing leaves file nil: every later line is refused, and the
\* goroutine that brought this one stops copying.
rotateLockedFails(disk) ==
  /\ LogFault
  /\ logDisk' = disk
  /\ logFile' = FALSE
  /\ logPc' = "free"
  /\ logLine' = NoLine
  /\ copying' = copying \ {logLine.stream}

\* The backups above k have moved up by one, the oldest is gone; for LogKeep
\* nothing has happened yet.
ShiftedAbove(k) ==
  [i \in 0 .. LogKeep |->
     CASE i <= k -> logDisk[i]
       [] i = k + 1 /\ i >= 1 -> NoFile
       [] OTHER -> logDisk[i - 1]]

rotateLockedShift ==
  /\ logPc = "shift"
  /\ \/ /\ logDisk' = ShiftedAbove(0)
        /\ logPc' = "promote"
        /\ UNCHANGED <<logFile, logLine, copying, logFaults>>
     \/ \E k \in 1 .. LogKeep : rotateLockedFails(ShiftedAbove(k))
  /\ UNCHANGED <<logSize, logBuf, child, closer, follow, lineCount, flushedTwice, logRestarts>>

rotateLockedPromote ==
  /\ logPc = "promote"
  /\ \/ /\ logDisk' = [logDisk EXCEPT ![1] = logDisk[0], ![0] = NoFile]
        /\ logPc' = "open"
        /\ UNCHANGED <<logFile, logLine, copying, logFaults>>
     \/ rotateLockedFails(logDisk)
  /\ UNCHANGED <<logSize, logBuf, child, closer, follow, lineCount, flushedTwice, logRestarts>>

\* openCurrent appends to whatever is there and takes its size.
openCurrent ==
  /\ logPc = "open"
  /\ \/ /\ logDisk' = [logDisk EXCEPT ![0] = Text(@)]
        /\ logSize' = Len(Text(logDisk[0]))
        /\ logPc' = "write"
        /\ UNCHANGED <<logFile, logLine, copying, logFaults>>
     \/ rotateLockedFails(logDisk) /\ UNCHANGED logSize
  /\ UNCHANGED <<logBuf, child, closer, follow, lineCount, flushedTwice, logRestarts>>

\* The record lands, or the write fails and the copying of its stream ends.
writeRecord ==
  /\ logPc = "write"
  /\ \/ /\ logDisk' = [logDisk EXCEPT ![0] = Append(@, logLine)]
        /\ logSize' = logSize + 1
        /\ UNCHANGED <<copying, logFaults>>
     \/ /\ LogFault
        /\ copying' = copying \ {logLine.stream}
        /\ UNCHANGED <<logDisk, logSize>>
  /\ logPc' = "free"
  /\ logLine' = NoLine
  /\ UNCHANGED <<logFile, logBuf, child, closer, follow, lineCount, flushedTwice, logRestarts>>

(***************************************************************************)
(* StreamWriter.Write: a complete line goes to the rotator, the trailing   *)
(* part of one is kept, also across a restart of the child.                *)
(***************************************************************************)
Begin(s) == IF logBuf[s] = 0 THEN lineCount + 1 ELSE logBuf[s]

Write(s) ==
  /\ child /\ s \in copying
  /\ Begin(s) <= LogLines
  /\ lineCount' = IF logBuf[s] = 0 THEN lineCount + 1 ELSE lineCount
  /\ \/ /\ logBuf[s] = 0
        /\ logBuf' = [logBuf EXCEPT ![s] = Begin(s)]
        /\ UNCHANGED <<logPc, logLine, copying>>
     \/ /\ logBuf' = [logBuf EXCEPT ![s] = 0]
        /\ writeLine(s, Begin(s))
        /\ UNCHANGED copying
     \/ /\ ~logFile /\ logPc = "free"
        /\ logBuf' = [logBuf EXCEPT ![s] = 0]
        /\ copying' = copying \ {s}
        /\ UNCHANGED <<logPc, logLine>>
  /\ UNCHANGED <<logDisk, logFile, logSize, child, closer, follow, flushedTwice, logRestarts, logFaults>>

\* The child ends; cmd.Wait returns when both copies have.
ChildEnds ==
  /\ child /\ logPc = "free"
  /\ child' = FALSE
  /\ copying' = {}
  /\ UNCHANGED <<logDisk, logFile, logSize, logPc, logLine, logBuf, closer, follow, lineCount,
                 flushedTwice, logRestarts, logFaults>>

\* The watch goroutine starts it again on the same writers.
ChildRestarts ==
  /\ ~child /\ logRestarts < LogRestarts
  /\ \A c \in Closers : closer[c].pc = "off"
  /\ child' = TRUE
  /\ copying' = Streams
  /\ logRestarts' = logRestarts + 1
  /\ UNCHANGED <<logDisk, logFile, logSize, logPc, logLine, logBuf, closer, follow, lineCount,
                 flushedTwice, logFaults>>

(***************************************************************************)
(* Rotator.Close, called by stopApp and, when the app is no longer         *)
(* tracked, by watch as well.  The stream buffers have no lock.            *)
(***************************************************************************)
CloseBegins(c) ==
  /\ ~child /\ closer[c].pc = "off"
  /\ closer' = [closer EXCEPT ![c] = [pc |-> "stdout", took |-> logBuf["stdout"], read |-> TRUE]]
  /\ UNCHANGED <<logDisk, logFile, logSize, logPc, logLine, logBuf, child, copying, follow,
                 lineCount, flushedTwice, logRestarts, logFaults>>

AfterStream(s) == IF s = "stdout" THEN "stderr" ELSE "file"

\* The buffer was read; it is reset and the line is written.
CloseFlushes(c) ==
  LET s == closer[c].pc
      n == closer[c].took
      other == CHOOSE d \in Closers : d # c
  IN  /\ s \in Streams /\ closer[c].read /\ logPc = "free"
      /\ closer' = [closer EXCEPT ![c] = [pc |-> AfterStream(s), took |-> 0, read |-> FALSE]]
      /\ flushedTwice' = IF n # 0 /\ closer[other].pc = s /\ closer[other].took = n
                         THEN flushedTwice \cup {n} ELSE flushedTwice
      /\ logBuf' = [logBuf EXCEPT ![s] = IF n = 0 THEN @ ELSE 0]
      /\ IF n # 0 /\ logFile THEN writeLine(s, n) ELSE UNCHANGED <<logPc, logLine>>
      /\ UNCHANGED <<logDisk, logFile, logSize, child, copying, follow, lineCount, logRestarts, logFaults>>

CloseReadsStderr(c) ==
  /\ closer[c].pc = "stderr" /\ ~closer[c].read /\ logPc = "free"
  /\ closer' = [closer EXCEPT ![c].took = logBuf["stderr"], ![c].read = TRUE]
  /\ UNCHANGED <<logDisk, logFile, logSize, logPc, logLine, logBuf, child, copying, follow,
                 lineCount, flushedTwice, logRestarts, logFaults>>

CloseFile(c) ==
  /\ closer[c].pc = "file" /\ logPc = "free"
  /\ logFile' = FALSE
  /\ closer' = [closer EXCEPT ![c].pc = "done"]
  /\ UNCHANGED <<logDisk, logSize, logPc, logLine, logBuf, child, copying, follow, lineCount,
                 flushedTwice, logRestarts, logFaults>>

(***************************************************************************)
(* GET /v1/apps/{id}/logs?follow: the tail, then whatever the file has     *)
(* beyond the last position.  A file that is shorter than the position     *)
(* was rotated.                                                            *)
(***************************************************************************)
readTail(f) == LET t == Text(f) IN IF Len(t) <= LogTail THEN t ELSE SubSeq(t, Len(t) - LogTail + 1, Len(t))

FollowTail ==
  /\ follow.pc = "off"
  /\ follow' = [pc |-> "seek", pos |-> 0, sent |-> readTail(logDisk[0])]
  /\ UNCHANGED <<logDisk, logFile, logSize, logPc, logLine, logBuf, child, copying, closer,
                 lineCount, flushedTwice, logRestarts, logFaults>>

FollowSeek ==
  /\ follow.pc = "seek"
  /\ follow' = [follow EXCEPT !.pc = "poll", !.pos = Len(Text(logDisk[0]))]
  /\ UNCHANGED <<logDisk, logFile, logSize, logPc, logLine, logBuf, child, copying, closer,
                 lineCount, flushedTwice, logRestarts, logFaults>>

resetPos(size, pos) == IF size < pos THEN 0 ELSE pos

FollowPoll ==
  LET size == Len(Text(logDisk[0]))
      pos == resetPos(size, follow.pos)
  IN  /\ follow.pc = "poll"
      /\ logDisk[0] # NoFile
      /\ size # follow.pos
      /\ follow' = [follow EXCEPT !.pc = IF size = pos THEN "poll" ELSE "read", !.pos = pos]
      /\ UNCHANGED <<logDisk, logFile, logSize, logPc, logLine, logBuf, child, copying, closer,
                     lineCount, flushedTwice, logRestarts, logFaults>>

\* faulty: the position stays where the read began
readFromOffset_KeepsPos ==
  LET f == Text(logDisk[0])
  IN  /\ follow.pc = "read"
      /\ follow' = IF logDisk[0] = NoFile \/ follow.pos >= Len(f)
                   THEN [follow EXCEPT !.pc = "poll"]
                   ELSE [follow EXCEPT !.pc = "poll", !.sent = @ \o SubSeq(f, follow.pos + 1, Len(f))]
      /\ UNCHANGED <<logDisk, logFile, logSize, logPc, logLine, logBuf, child, copying, closer,
                     lineCount, flushedTwice, logRestarts, logFaults>>

\* A position beyond the end reads nothing and stays.
readFromOffset ==
  LET f == Text(logDisk[0])
  IN  /\ follow.pc = "read"
      /\ follow' = IF logDisk[0] = NoFile \/ follow.pos >= Len(f)
                   THEN [follow EXCEPT !.pc = "poll"]
                   ELSE [pc |-> "poll", pos |-> Len(f),
                         sent |-> follow.sent \o SubSeq(f, follow.pos + 1, Len(f))]
      /\ UNCHANGED <<logDisk, logFile, logSize, logPc, logLine, logBuf, child, copying, closer,
                     lineCount, flushedTwice, logRestarts, logFaults>>

\* NewRotator, and the child started on it.
LogsInit ==
  /\ logDisk = [i \in 0 .. LogKeep |-> IF i = 0 THEN <<>> ELSE NoFile]
  /\ logFile = TRUE
  /\ logSize = 0
  /\ logPc = "free"
  /\ logLine = NoLine
  /\ logBuf = [s \in Streams |-> 0]
  /\ child = TRUE
  /\ copying = Streams
  /\ closer = [c \in Closers |-> [pc |-> "off", took |-> 0, read |-> FALSE]]
  /\ follow = [pc |-> "off", pos |-> 0, sent |-> <<>>]
  /\ lineCount = 0
  /\ flushedTwice = {}
  /\ logRestarts = 0
  /\ logFaults = 0

LogsNext ==
  \/ rotateLockedShift \/ rotateLockedPromote \/ openCurrent \/ writeRecord
  \/ \E s \in Streams : Write(s)
  \/ ChildEnds \/ ChildRestarts
  \/ \E c \in Closers : CloseBegins(c) \/ CloseFlushes(c) \/ CloseReadsStderr(c) \/ CloseFile(c)
  \/ FollowTail \/ FollowSeek \/ FollowPoll \/ readFromOffset

LogsSpec == LogsInit /\ [][LogsNext]_logVars

\* The lines of stream s that were not flushed twice, in order.
Of(seq, s) == SelectSeq(seq, LAMBDA l : l.stream = s /\ l.n \notin flushedTwice)
Increasing(seq) == \A k \in 2 .. Len(seq) : seq[k - 1].n < seq[k].n

OldestFirst == FlattenSeq([i \in 1 .. LogKeep + 1 |-> Text(logDisk[LogKeep + 1 - i])])

(***************************************************************************)
(* The lines of a stream are on disk once each and in the order the child  *)
(* wrote them, from the oldest backup to current.log, and a follower sees  *)
(* none twice and none out of order, wherever a rotation falls between its *)
(* polls and whatever fails.  The one line that can be written twice is    *)
(* the unfinished one that both goroutines closing the rotator flush.      *)
(***************************************************************************)
LinesOnceInOrder ==
  LET lines == OldestFirst
  IN  \A s \in Streams : Increasing(Of(lines, s)) /\ Increasing(Of(follow.sent, s))
=============================================================================
