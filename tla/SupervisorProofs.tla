-------------------------- MODULE SupervisorProofs --------------------------
(***************************************************************************)
(* Proofs about Supervisor, for every set of ids, Apps and callers, every  *)
(* mix of calls, every threshold and every bound: its types; an App has at *)
(* most one process, and a watch goroutine that waits for it; a done       *)
(* channel is closed once; a swap registers the v2 of its own deploy; no   *)
(* process is orphaned or loses its isolation while it runs; a registered  *)
(* App is looked after; no stop waits for nobody; and all of it together   *)
(* keeps the promise of AppLifecycle.  Each theorem names what it needs    *)
(* of the calls and of the environment (ResetsApart, Orderly,              *)
(* ResetsSucceed).                                                         *)
(***************************************************************************)
EXTENDS Supervisor, TLAPS

-----------------------------------------------------------------------------
(* The operating system and the goroutines *)

\* What the local variables of a call hold once it has started: they are read
\* from the registry, so a call works on an App, under a key of the registry.
CallerOK ==
  \A c \in Callers :
    /\ caller[c].pc # "idle" => caller[c].app \in Apps
    /\ caller[c].pc \in DeployPc \cup {"resetWait"} => caller[c].key \in Keys
    /\ caller[c].pc \in DeployPc \ {"deploySpawn"} => caller[c].v2 \in Apps

TypeInv == TypeOK /\ CallerOK

\* The initial state has its types.
LEMMA InitTypeInv == Init => TypeInv
<1> SUFFICES ASSUME Init PROVE TypeInv
  OBVIOUS
<1> USE SupervisorAssumption DEF Init
<1>1. RegistryType
  BY DEF RegistryType
<1>2. ProcessType
  BY DEF ProcessType, Status, Proc
<1>3. ChannelType
  <2>1. 0 \in Epochs
    BY DEF Epochs
  <2> QED
    BY <2>1, Zenon DEF ChannelType
<1>4. WatchType
  BY DEF WatchType, WatchPc
<1>5. ProbeType
  BY DEF ProbeType, NoProbe, ProbePc
<1>6. CallerType
  BY DEF CallerType, Idle, CallerPc
<1>7. CallerOK
  BY DEF CallerOK, Idle, DeployPc
<1>8. faults \in 0 .. MaxFaults
  OBVIOUS
<1> QED
  BY <1>1, <1>2, <1>3, <1>4, <1>5, <1>6, <1>7, <1>8 DEF TypeInv, TypeOK

\* Writing the local variables of one probe goroutine keeps their type.
LEMMA ProbeWrite ==
  ASSUME ProbeType, NEW a \in Apps, NEW e \in Epochs,
         NEW pc \in ProbePc, NEW n \in Nat, NEW f \in Nat,
         probe' = [probe EXCEPT ![a][e] = [pc |-> pc, failures |-> n, first |-> f]]
  PROVE  ProbeType'
BY DEF ProbeType

\* Moving a probe goroutine to another step keeps the types of all of them.
LEMMA ProbeGotoType ==
  ASSUME ProbeType, NEW a \in Apps, NEW e \in Epochs,
         NEW pc \in ProbePc, NEW n \in Nat, ProbeGoto(a, e, pc, n)
  PROVE  ProbeType'
<1> DEFINE f == IF n = 0 THEN 0 ELSE probe[a][e].first
<1>1. f \in Nat
  BY DEF ProbeType
<1>2. probe' = [probe EXCEPT ![a][e] = [pc |-> pc, failures |-> n, first |-> f]]
  BY DEF ProbeGoto
<1> HIDE DEF f
<1> QED
  BY <1>1, <1>2, ProbeWrite, Zenon

\* Starting the two goroutines of an App keeps the types.
LEMMA goWatchAndProbeType ==
  ASSUME WatchType, ProbeType, NEW a \in Apps, NEW e \in Epochs,
         goWatchAndProbe(a, e)
  PROVE  WatchType' /\ ProbeType'
<1>1. WatchType'
  BY DEF goWatchAndProbe, WatchType, WatchPc
<1>2. CASE HealthEnabled
  <2>1. PICK n \in Nat, f \in Nat :
          probe' = [probe EXCEPT ![a][e] = [pc |-> "select", failures |-> n, first |-> f]]
    <3>1. probe[a][e].failures \in Nat /\ probe[a][e].first \in Nat
      BY DEF ProbeType
    <3>2. [probe[a][e] EXCEPT !.pc = "select"] =
            [pc |-> "select", failures |-> probe[a][e].failures, first |-> probe[a][e].first]
      BY DEF ProbeType
    <3>3. probe' = [probe EXCEPT ![a][e] = [probe[a][e] EXCEPT !.pc = "select"]]
      BY <1>2 DEF goWatchAndProbe, ProbeType
    <3> QED
      BY <3>1, <3>2, <3>3, Zenon
  <2>2. ProbeType'
    <3>1. "select" \in ProbePc
      BY DEF ProbePc
    <3> QED
      BY <2>1, <3>1, ProbeWrite, Zenon
  <2> QED
    BY <1>1, <2>2
<1>3. CASE ~HealthEnabled
  BY <1>1, <1>3, Zenon DEF goWatchAndProbe, ProbeType
<1> QED
  BY <1>2, <1>3

\* A step of the operating system or of a goroutine keeps the types.
LEMMA GoroutineTypeInv ==
  ASSUME TypeInv, NEW a \in Apps, NEW e \in Epochs,
         Exit(a) \/ WatchStep(a, e) \/ ProbeStep(a, e)
  PROVE  TypeInv'
<1> USE SupervisorAssumption DEF TypeInv, TypeOK
<1>1. CASE Exit(a)
  <2> USE <1>1 DEF Exit, Fault
  <2>1. ProcessType'
    BY DEF ProcessType, Proc, Status
  <2>2. faults' \in 0 .. MaxFaults
    OBVIOUS
  <2> QED
    BY <2>1, <2>2 DEF appVars, procVars, doneVars,
       RegistryType, ChannelType, WatchType, ProbeType, CallerType, CallerOK
<1>2. CASE WatchReap(a, e)
  <2> USE <1>2 DEF WatchReap, WatchGoto
  <2>1. ProcessType'
    BY DEF ProcessType, Proc, Status
  <2>2. WatchType'
    BY Zenon DEF WatchType, WatchPc
  <2> QED
    BY <2>1, <2>2 DEF appVars, procVars, doneVars,
       RegistryType, ChannelType, ProbeType, CallerType, CallerOK
<1>3. CASE WatchCrashed(a, e)
  <2> USE <1>3 DEF WatchCrashed, WatchGoto, setStatus
  <2>1. ProcessType'
    BY DEF ProcessType, Proc, Status
  <2>2. WatchType'
    BY Zenon DEF WatchType, WatchPc
  <2> QED
    BY <2>1, <2>2, Zenon DEF appVars, procVars, doneVars,
       RegistryType, ChannelType, ProbeType, CallerType, CallerOK
<1>4. CASE WatchRecord(a, e)
  <2> USE <1>4 DEF WatchRecord, WatchGoto, setStatus, recordRestart, Suspend
  <2>1. ProcessType'
    BY DEF ProcessType, Proc, Status
  <2>2. WatchType'
    BY DEF WatchType, WatchPc
  <2> QED
    BY <2>1, <2>2, Zenon DEF appVars, procVars, doneVars,
       RegistryType, ChannelType, ProbeType, CallerType, CallerOK
<1>5. CASE WatchRestart(a, e)
  <2> USE <1>5 DEF WatchRestart, WatchGoto, startLocked, startFails, Fault
  <2>1. RegistryType'
    BY Zenon DEF RegistryType
  <2>2. ProcessType'
    BY DEF ProcessType, Proc, Status
  <2>3. WatchType'
    BY SMTT(60) DEF WatchType, WatchPc
  <2>4. faults' \in 0 .. MaxFaults
    OBVIOUS
  <2> QED
    BY <2>1, <2>2, <2>3, <2>4, Zenon DEF appVars, procVars, doneVars,
       ChannelType, ProbeType, CallerType, CallerOK
<1>6. CASE WatchStopped(a, e)
  <2> USE <1>6 DEF WatchStopped, WatchGoto, setStatus
  <2>1. ProcessType'
    BY DEF ProcessType, Proc, Status
  <2>2. WatchType'
    BY Zenon DEF WatchType, WatchPc
  <2> QED
    BY <2>1, <2>2, Zenon DEF appVars, procVars, doneVars,
       RegistryType, ChannelType, ProbeType, CallerType, CallerOK
<1>7. CASE WatchClose(a, e)
  <2> USE <1>7 DEF WatchClose, WatchGoto
  <2>1. ChannelType'
    BY Zenon DEF ChannelType
  <2>2. WatchType'
    BY Zenon DEF WatchType, WatchPc
  <2> QED
    BY <2>1, <2>2, Zenon DEF appVars, procVars, doneVars,
       RegistryType, ProcessType, ProbeType, CallerType, CallerOK
<1>8. CASE WatchRelease(a, e)
  <2> USE <1>8 DEF WatchRelease, WatchGoto
  <2>1. RegistryType'
    BY Zenon DEF RegistryType
  <2>2. WatchType'
    BY Zenon DEF WatchType, WatchPc
  <2> QED
    BY <2>1, <2>2, Zenon DEF appVars, procVars, doneVars,
       ProcessType, ChannelType, ProbeType, CallerType, CallerOK
<1>9. CASE ProbeExit(a, e)
  <2> USE <1>9 DEF ProbeExit, ProbeGoto
  <2>1. ProbeType'
    BY Zenon DEF ProbeType, ProbePc, ProcessType
  <2> QED
    BY <2>1, Zenon DEF appVars, procVars, doneVars,
       RegistryType, ProcessType, ChannelType, WatchType, CallerType, CallerOK
<1>10. CASE ProbeTick(a, e)
  <2> USE <1>10 DEF ProbeTick, ProbeGoto
  <2>1. ProbeType'
    <3>1. CASE status[a] \in {"Running", "Unhealthy"}
      <4> DEFINE f == IF probe[a][e].failures = 0 THEN pid[a] ELSE probe[a][e].first
      <4>1. f \in Nat /\ probe[a][e].failures \in Nat
        BY DEF ProbeType, ProcessType
      <4>2. probe' = [probe EXCEPT ![a][e] =
              [pc |-> "check", failures |-> probe[a][e].failures, first |-> f]]
        BY <3>1, Zenon
      <4> HIDE DEF f
      <4> QED
        BY <4>1, <4>2, ProbeWrite, Zenon DEF ProbePc
    <3>2. CASE status[a] \notin {"Running", "Unhealthy"}
      BY <3>2, ProbeGotoType, Zenon DEF ProbePc
    <3> QED
      BY <3>1, <3>2
  <2> QED
    BY <2>1, Zenon DEF appVars, procVars, doneVars,
       RegistryType, ProcessType, ChannelType, WatchType, CallerType, CallerOK
<1>11. CASE ProbePass(a, e)
  <2> USE <1>11 DEF ProbePass, ProbeGoto
  <2>1. ProbeType'
    BY Zenon DEF ProbeType, ProbePc, ProcessType
  <2> QED
    BY <2>1, Zenon DEF appVars, procVars, doneVars,
       RegistryType, ProcessType, ChannelType, WatchType, CallerType, CallerOK
<1>12. CASE ProbeRecover(a, e)
  <2> USE <1>12 DEF ProbeRecover, ProbeGoto, setStatus
  <2>1. ProcessType'
    BY Zenon DEF ProcessType, Proc, Status
  <2>2. ProbeType'
    BY Zenon DEF ProbeType, ProbePc, ProcessType
  <2> QED
    BY <2>1, <2>2, Zenon DEF appVars, procVars, doneVars,
       RegistryType, ChannelType, WatchType, CallerType, CallerOK
<1>13. CASE ProbeFail(a, e)
  <2> USE <1>13 DEF ProbeFail, ProbeGoto, setStatus, Kill, Fault
  <2>1. ProcessType'
    <3>1. status' \in [Apps -> Status]
      BY Zenon DEF ProcessType, Status
    <3>2. proc' \in [Apps -> Proc]
      BY DEF ProcessType, Proc
    <3> QED
      BY <3>1, <3>2, Zenon DEF ProcessType
  <2>2. ProbeType'
    <3> USE DEF ProbePc
    <3>1. probe[a][e].failures + 1 \in Nat
      BY DEF ProbeType
    <3>2. \/ ProbeGoto(a, e, "select", probe[a][e].failures + 1)
          \/ ProbeGoto(a, e, "select", 0)
      BY Zenon
    <3> HIDE <1>13 DEF ProbeFail, ProbeGoto, setStatus, Kill, Fault
    <3>3. CASE ProbeGoto(a, e, "select", probe[a][e].failures + 1)
      BY <3>1, <3>3, ProbeGotoType, Zenon
    <3>4. CASE ProbeGoto(a, e, "select", 0)
      BY <3>4, ProbeGotoType, Zenon
    <3> QED
      BY <3>2, <3>3, <3>4, Zenon
  <2>3. faults' \in 0 .. MaxFaults
    OBVIOUS
  <2> QED
    BY <2>1, <2>2, <2>3, Zenon DEF appVars, procVars, doneVars,
       RegistryType, ChannelType, WatchType, CallerType, CallerOK
<1> QED
  BY ZenonT(60), <1>1, <1>2, <1>3, <1>4, <1>5, <1>6, <1>7, <1>8, <1>9, <1>10, <1>11, <1>12,
     <1>13 DEF WatchStep, ProbeStep

-----------------------------------------------------------------------------
(* The calls *)

\* The later steps of Restart, Reset and Stop keep the types.
LEMMA StopTypeInv ==
  ASSUME TypeInv, NEW c \in Callers,
         \/ RestartReturn(c) \/ ResetResume(c)
         \/ StopTerm(c) \/ StopDone(c) \/ StopKill(c) \/ StopDenied(c)
         \/ StopCleanup(c) \/ StopFailed(c)
  PROVE  TypeInv'
<1> USE SupervisorAssumption DEF TypeInv, TypeOK
<1>1. CASE RestartReturn(c)
  <2> USE <1>1 DEF RestartReturn, Return, Idle
  <2>1. CallerType'
    BY Zenon DEF CallerType, CallerPc, StopPc, DeployPc
  <2>2. CallerOK'
    BY Zenon DEF CallerOK, CallerType, DeployPc
  <2> QED
    BY <2>1, <2>2, Zenon DEF appVars, procVars, doneVars,
       RegistryType, ProcessType, ChannelType, WatchType, ProbeType
<1>2. CASE ResetResume(c)
  <2> DEFINE a == caller[c].app
  <2>a. a \in Apps
    BY <1>2, Zenon DEF ResetResume, CallerOK
  <2>b. CallerType' /\ CallerOK'
    BY <1>2, Zenon DEF ResetResume, Return, Idle, CallerType, CallerPc, CallerOK, DeployPc
  <2>1. CASE ~StillSuspended(c)
    BY <1>2, <2>1, <2>b, Zenon DEF ResetResume, procVars, appVars, RegistryType, ProcessType,
       ChannelType, WatchType, ProbeType
  <2>2. CASE StillSuspended(c)
    <3>1. /\ done[a] < MaxResets
          /\ done' = [done EXCEPT ![a] = @ + 1]
          /\ restarts' = [restarts EXCEPT ![a] = 0]
          /\ \/ startLocked(a) /\ goWatchAndProbe(a, done[a] + 1) /\ UNCHANGED faults
             \/ startFails(a) /\ UNCHANGED <<watch, probe>>
          /\ UNCHANGED <<appVars, closed, panicked>>
      BY <1>2, <2>2, Zenon DEF ResetResume
    <3> HIDE DEF a
    <3>2. done[a] + 1 \in Epochs
      BY <2>a, <3>1 DEF ChannelType, Epochs
    <3>3. ProcessType' /\ faults' \in 0 .. MaxFaults
      BY <2>a, <3>1 DEF ProcessType, Proc, Status, startLocked, startFails, Fault
    <3>4. ChannelType'
      BY <2>a, <3>1, <3>2, Zenon DEF ChannelType
    <3>5. WatchType' /\ ProbeType'
      BY <2>a, <3>1, <3>2, goWatchAndProbeType, Zenon DEF WatchType, ProbeType
    <3> QED
      BY <3>1, <3>3, <3>4, <3>5, <2>b, Zenon DEF appVars, RegistryType
  <2> QED
    BY <2>1, <2>2, Zenon
<1>3. CASE StopTerm(c)
  <2> USE <1>3 DEF StopTerm, Terminate
  <2>1. ProcessType'
    BY Zenon DEF ProcessType, Proc, Status
  <2>2. CallerType'
    <3>1. done[caller[c].app] \in Nat
      BY DEF CallerOK, ChannelType, Epochs
    <3>2. "stopWait" \in CallerPc
      BY DEF CallerPc, StopPc
    <3> DEFINE r == [[caller[c] EXCEPT !.pc = "stopWait"] EXCEPT !.seen = done[caller[c].app]]
    <3>3. caller' = [caller EXCEPT ![c] = r]
      BY Zenon DEF CallerType
    <3> QED
      BY <3>1, <3>2, <3>3 DEF CallerType
  <2>3. CallerOK'
    BY DEF CallerOK, CallerType, DeployPc
  <2> QED
    BY <2>1, <2>2, <2>3 DEF appVars, procVars, doneVars,
       RegistryType, ChannelType, WatchType, ProbeType
<1>4. CASE StopDone(c)
  <2> USE <1>4 DEF StopDone, Goto
  <2>1. CallerType'
    BY DEF CallerType, CallerPc, StopPc, DeployPc
  <2>2. CallerOK'
    BY DEF CallerOK, CallerType, DeployPc
  <2> QED
    BY <2>1, <2>2, Zenon DEF appVars, procVars, doneVars,
       RegistryType, ProcessType, ChannelType, WatchType, ProbeType
<1>5. CASE StopKill(c)
  <2> USE <1>5 DEF StopKill, Kill, Goto, AfterKill
  <2>1. ProcessType'
    BY Zenon DEF ProcessType, Proc, Status
  <2>2. CallerType'
    BY DEF CallerType, CallerPc, StopPc, DeployPc
  <2>3. CallerOK'
    BY DEF CallerOK, CallerType, DeployPc
  <2> QED
    BY <2>1, <2>2, <2>3 DEF appVars, procVars, doneVars,
       RegistryType, ChannelType, WatchType, ProbeType
<1>6. CASE StopDenied(c)
  <2> USE <1>6 DEF StopDenied, Goto
  <2>1. CallerType'
    BY DEF CallerType, CallerPc, StopPc, DeployPc
  <2>2. CallerOK'
    BY DEF CallerOK, CallerType, DeployPc
  <2> QED
    BY <2>1, <2>2, Zenon DEF appVars, procVars, doneVars,
       RegistryType, ProcessType, ChannelType, WatchType, ProbeType
<1>7. CASE StopCleanup(c)
  <2> USE <1>7 DEF StopCleanup, Return, Idle
  <2>1. RegistryType'
    BY Zenon DEF RegistryType
  <2>2. CallerType'
    BY Zenon DEF CallerType, CallerPc, StopPc, DeployPc
  <2>3. CallerOK'
    BY Zenon DEF CallerOK, CallerType, DeployPc
  <2> QED
    BY <2>1, <2>2, <2>3 DEF appVars, procVars, doneVars,
       ProcessType, ChannelType, WatchType, ProbeType
<1>8. CASE StopFailed(c)
  <2> USE <1>8 DEF StopFailed, PutBack, Return, Idle
  <2>1. RegistryType'
    BY Zenon DEF RegistryType, CallerType
  <2>2. CallerType'
    BY ZenonT(60) DEF CallerType, CallerPc, StopPc, DeployPc
  <2>3. CallerOK'
    BY DEF CallerOK, CallerType, DeployPc
  <2> QED
    BY <2>1, <2>2, <2>3, Zenon DEF appVars, procVars, doneVars,
       ProcessType, ChannelType, WatchType, ProbeType
<1> QED
  BY <1>1, <1>2, <1>3, <1>4, <1>5, <1>6, <1>7, <1>8, Zenon

\* Entering stopApp with an App keeps the types of the calls.
LEMMA stopAppType ==
  ASSUME TypeInv, NEW c \in Callers, NEW a \in Apps, stopApp(c, a)
  PROVE  CallerType' /\ CallerOK'
<1> USE DEF TypeInv, TypeOK, stopApp, Idle
<1>1. CallerType'
  BY Zenon DEF CallerType, CallerPc, StopPc
<1>2. CallerOK'
  BY Zenon DEF CallerType, CallerOK, DeployPc
<1> QED
  BY <1>1, <1>2

\* The steps of Deploy keep the types.
LEMMA DeployTypeInv ==
  ASSUME TypeInv, NEW c \in Callers,
         \/ \E a \in Apps : DeploySpawn(c, a)
         \/ DeployRefused(c) \/ DeployHealth(c) \/ DeploySwap(c)
         \/ DeployAbort(c) \/ DeployRoute(c) \/ DeployRollback(c)
  PROVE  TypeInv'
<1> USE SupervisorAssumption DEF TypeInv, TypeOK
<1>1. CASE \E a \in Apps : DeploySpawn(c, a)
  <2> PICK a \in Apps : DeploySpawn(c, a)
    BY <1>1, Zenon
  <2>1. 0 \in Epochs
    BY DEF Epochs
  <2>2. tempID(c) \in Keys
    BY Zenon DEF DeploySpawn, CallerOK, DeployPc, tempID, deployTempID, Keys
  <2>3. RegistryType'
    BY <2>2, ZenonT(60) DEF DeploySpawn, spawnUnchecked, RegistryType
  <2>4. ProcessType'
    BY DEF DeploySpawn, spawnUnchecked, startLocked, ProcessType, Proc, Status
  <2>5. WatchType' /\ ProbeType'
    BY <2>1, goWatchAndProbeType, Zenon DEF DeploySpawn, spawnUnchecked
  <2>6. caller[c].pc = "deploySpawn"
        /\ caller' = [caller EXCEPT ![c].pc = "deployHealth", ![c].v2 = a]
    BY Zenon DEF DeploySpawn
  <2>7. CallerType' /\ CallerOK'
    <3>1. "deployHealth" \in CallerPc
      BY Zenon DEF CallerPc, DeployPc
    <3>2. CallerType'
      <4> DEFINE Local == [pc : CallerPc, app : Apps \cup {NULL}, v2 : Apps \cup {NULL},
                           key : Keys \cup {NULL}, seen : Nat]
      <4>1. caller \in [Callers -> Local]
        BY DEF CallerType
      <4>2. [caller[c] EXCEPT !.pc = "deployHealth", !.v2 = a] \in Local
        BY <3>1, <4>1, ZenonT(60)
      <4>3. caller' = [caller EXCEPT ![c] = [caller[c] EXCEPT !.pc = "deployHealth", !.v2 = a]]
        BY <2>6, <4>1, Zenon
      <4> HIDE DEF Local
      <4>4. caller' \in [Callers -> Local]
        BY <4>1, <4>2, <4>3
      <4> QED
        BY <4>4, Zenon DEF Local, CallerType
    <3>3. CallerOK'
      BY <2>6 DEF CallerOK, CallerType, DeployPc
    <3> QED
      BY <3>2, <3>3, Zenon
  <2>8. ChannelType' /\ faults' \in 0 .. MaxFaults
    BY Zenon DEF DeploySpawn, spawnUnchecked, doneVars, ChannelType
  <2> QED
    BY <2>3, <2>4, <2>5, <2>7, <2>8, Zenon
<1>2. CASE DeployRefused(c)
  <2>1. faults' \in 0 .. MaxFaults
    <3>1. UNCHANGED faults \/ Fault
      BY <1>2, Zenon DEF DeployRefused
    <3> QED
      BY <3>1 DEF Fault
  <2> USE <1>2 DEF DeployRefused, Return, Idle
  <2>2. CallerType'
    BY Zenon DEF CallerType, CallerPc, StopPc, DeployPc
  <2>3. CallerOK'
    BY Zenon DEF CallerOK, CallerType, DeployPc
  <2> QED
    BY <2>1, <2>2, <2>3, Zenon DEF appVars, procVars, doneVars,
       RegistryType, ProcessType, ChannelType, WatchType, ProbeType
<1>3. CASE DeployHealth(c)
  <2> USE <1>3 DEF DeployHealth, Goto
  <2>1. CallerType'
    BY DEF CallerType, CallerPc, StopPc, DeployPc
  <2>2. CallerOK'
    BY SMTT(60) DEF CallerOK, CallerType, DeployPc
  <2> QED
    BY <2>1, <2>2, Zenon DEF appVars, procVars, doneVars,
       RegistryType, ProcessType, ChannelType, WatchType, ProbeType
<1>4. CASE DeploySwap(c)
  <2> USE <1>4 DEF DeploySwap, rename, Goto
  <2>1. RegistryType'
    BY SMTT(60) DEF RegistryType, CallerType
  <2>2. CallerType'
    BY DEF CallerType, CallerPc, StopPc, DeployPc
  <2>3. CallerOK'
    BY DEF CallerOK, CallerType, DeployPc
  <2> QED
    BY <2>1, <2>2, <2>3, Zenon DEF appVars, procVars, doneVars,
       ProcessType, ChannelType, WatchType, ProbeType
<1>5. CASE DeployAbort(c)
  <2>1. tempID(c) \in Keys
    BY <1>5, Zenon DEF DeployAbort, CallerOK, DeployPc, tempID, deployTempID, Keys
  <2>2. RegistryType'
    BY <1>5, ZenonT(60) DEF DeployAbort, RegistryType
  <2>3. CallerType' /\ CallerOK'
    <3>1. CASE apps[tempID(c)] = NULL
      BY <1>5, <3>1 DEF DeployAbort, Return, Idle, CallerType, CallerPc, CallerOK, DeployPc
    <3>2. CASE apps[tempID(c)] # NULL
      <4> DEFINE a == apps[tempID(c)]
                 k == tempID(c)
      <4>1. a \in Apps
        BY <2>1, <3>2 DEF RegistryType
      <4>2. caller' = [caller EXCEPT ![c] =
              [pc |-> "stopTerm", app |-> a, v2 |-> NULL, key |-> k, seen |-> 0]]
        BY <1>5, <3>2, ZenonT(60) DEF DeployAbort, Idle
      <4> HIDE DEF a, k
      <4>3. k \in Keys
        BY <2>1, Zenon DEF k
      <4> QED
        BY <4>1, <4>2, <4>3, Zenon DEF CallerType, CallerPc, StopPc, CallerOK, DeployPc
    <3> QED
      BY <3>1, <3>2, Zenon
  <2> QED
    BY <1>5, <2>2, <2>3, Zenon DEF DeployAbort, procVars, doneVars, ProcessType,
       ChannelType, WatchType, ProbeType
<1>6. CASE DeployRoute(c)
  <2> USE <1>6 DEF DeployRoute
  <2>1. RegistryType' /\ faults' \in 0 .. MaxFaults
    BY DEF RegistryType, CallerType, Fault
  <2>2. CASE stopApp(c, caller[c].app)
    <3>1. caller[c].app \in Apps
      BY Zenon DEF CallerOK
    <3> QED
      BY <2>1, <2>2, <3>1, stopAppType, ZenonT(60) DEF procVars, doneVars, ProcessType, ChannelType,
         WatchType, ProbeType
  <2>3. CASE Goto(c, "deployRollback")
    <3>1. CallerType' /\ CallerOK'
      BY <2>3 DEF Goto, CallerType, CallerOK, CallerPc, DeployPc
    <3> QED
      BY <2>1, <3>1, ZenonT(60) DEF procVars, doneVars, ProcessType, ChannelType,
         WatchType, ProbeType
  <2> QED
    BY <2>2, <2>3, Zenon
<1>7. CASE DeployRollback(c)
  <2> USE <1>7 DEF DeployRollback
  <2>1. caller[c].v2 \in Apps
    BY Zenon DEF CallerOK, DeployPc
  <2>2. CallerType' /\ CallerOK'
    BY <2>1, stopAppType, Zenon
  <2>3. RegistryType'
    BY Zenon DEF RegistryType, CallerType
  <2> QED
    BY <2>2, <2>3, Zenon DEF procVars, doneVars, ProcessType, ChannelType, WatchType,
       ProbeType
<1> QED
  BY <1>1, <1>2, <1>3, <1>4, <1>5, <1>6, <1>7, Zenon

\* The first step of a call keeps the types.
LEMMA BeginTypeInv ==
  ASSUME TypeInv,
         \/ \E i \in Ids, a \in Apps : Spawn(i, a)
         \/ \E c \in Callers, i \in Ids :
              RestartSignal(c, i) \/ ResetBegin(c, i) \/ DeployBegin(c, i)
         \/ \E c \in Callers, k \in Keys : StopBegin(c, k)
  PROVE  TypeInv'
<1> USE SupervisorAssumption DEF TypeInv, TypeOK
<1>1. CASE \E i \in Ids, a \in Apps : Spawn(i, a)
  <2> PICK i \in Ids, a \in Apps : Spawn(i, a)
    BY <1>1, Zenon
  <2>1. 0 \in Epochs /\ Key(i) \in Keys
    BY DEF Epochs, Key, Keys
  <2>2. RegistryType'
    BY <2>1, ZenonT(60) DEF Spawn, spawnUnchecked, RegistryType
  <2>3. ProcessType'
    BY DEF Spawn, spawnUnchecked, startLocked, ProcessType, Proc, Status
  <2>4. WatchType' /\ ProbeType'
    BY <2>1, goWatchAndProbeType, Zenon DEF Spawn, spawnUnchecked
  <2> QED
    BY <2>2, <2>3, <2>4, Zenon DEF Spawn, spawnUnchecked, doneVars, ChannelType,
       CallerType, CallerOK
<1>2. ASSUME NEW c \in Callers, NEW i \in Ids,
             RestartSignal(c, i) \/ ResetBegin(c, i) \/ DeployBegin(c, i)
      PROVE  TypeInv'
  <2> DEFINE a == apps[Key(i)]
  <2>1. Key(i) \in Keys
    BY DEF Key, Keys
  <2>2. a \in Apps
    BY <1>2, <2>1, Zenon DEF RegistryType, RestartSignal, ResetBegin, DeployBegin
  <2>3. CASE RestartSignal(c, i)
    <3>1. ProcessType'
      BY <2>2, <2>3, Zenon DEF RestartSignal, TermForRestart, Terminate, ProcessType, Proc
    <3>2. pid[a] \in Nat
      BY <2>2 DEF ProcessType
    <3>3. CallerType' /\ CallerOK'
      <4> HIDE DEF a
      <4> QED
        BY <2>2, <2>3, <3>2, Zenon DEF RestartSignal, a, CallerType, CallerOK, CallerPc,
           DeployPc, Idle
    <3> QED
      BY <2>3, <3>1, <3>3, Zenon DEF RestartSignal, appVars, doneVars, RegistryType,
         ChannelType, WatchType, ProbeType
  <2>4. CASE ResetBegin(c, i)
    <3>1. done[a] \in Nat
      BY <2>2 DEF ChannelType, Epochs
    <3>2. CallerType'
      BY <2>1, <2>2, <2>4, <3>1, Zenon DEF ResetBegin, CallerType, CallerPc, Idle
    <3>3. CallerOK'
      BY <2>1, <2>2, <2>4, ZenonT(60) DEF ResetBegin, CallerType, CallerOK, DeployPc, Idle
    <3> QED
      BY <2>4, <3>2, <3>3, Zenon DEF ResetBegin, appVars, procVars, doneVars,
         RegistryType, ProcessType, ChannelType, WatchType, ProbeType
  <2>5. CASE DeployBegin(c, i)
    <3>1. CallerType'
      BY <2>1, <2>2, <2>5, Zenon DEF DeployBegin, CallerType, CallerPc, DeployPc, Idle
    <3>2. CallerOK'
      BY <2>1, <2>2, <2>5, Zenon DEF DeployBegin, CallerType, CallerOK, DeployPc, Idle
    <3> QED
      BY <2>5, <3>1, <3>2, Zenon DEF DeployBegin, appVars, procVars, doneVars,
         RegistryType, ProcessType, ChannelType, WatchType, ProbeType
  <2> QED
    BY <1>2, <2>3, <2>4, <2>5, Zenon
<1>3. ASSUME NEW c \in Callers, NEW k \in Keys, StopBegin(c, k)
      PROVE  TypeInv'
  <2>1. apps[k] \in Apps
    BY <1>3, Zenon DEF StopBegin, RegistryType
  <2>2. RegistryType'
    BY <1>3, Zenon DEF StopBegin, RegistryType
  <2>3. CallerType'
    BY <1>3, <2>1, Zenon DEF StopBegin, CallerType, CallerPc, StopPc, Idle
  <2>4. CallerOK'
    BY <1>3, <2>1, ZenonT(60) DEF StopBegin, CallerType, CallerOK, DeployPc, Idle
  <2> QED
    BY <1>3, <2>2, <2>3, <2>4, Zenon DEF StopBegin, procVars, doneVars, ProcessType,
       ChannelType, WatchType, ProbeType
<1> QED
  BY <1>1, <1>2, <1>3, Zenon

\* Every step keeps the types.
LEMMA NextTypeInv == TypeInv /\ [Next]_vars => TypeInv'
<1> SUFFICES ASSUME TypeInv, [Next]_vars PROVE TypeInv'
  OBVIOUS
<1>1. CASE UNCHANGED vars
  BY <1>1 DEF vars, appVars, procVars, doneVars, TypeInv, TypeOK, RegistryType,
     ProcessType, ChannelType, WatchType, ProbeType, CallerType, CallerOK
<1>2. ASSUME NEW a \in Apps, Exit(a) PROVE TypeInv'
  <2>1. 0 \in Epochs
    BY SupervisorAssumption DEF Epochs
  <2> QED
    BY <1>2, <2>1, GoroutineTypeInv, Zenon
<1>3. ASSUME NEW a \in Apps, NEW e \in Epochs, WatchStep(a, e) \/ ProbeStep(a, e)
      PROVE  TypeInv'
  BY <1>3, GoroutineTypeInv, Zenon
<1>4. ASSUME NEW c \in Callers, CallerStep(c) PROVE TypeInv'
  BY <1>4, StopTypeInv, DeployTypeInv DEF CallerStep
<1> QED
  BY <1>1, <1>2, <1>3, <1>4, BeginTypeInv DEF Next

\* Type correctness, and that every call under way works on an App.
THEOREM TypeInvariance == Spec => []TypeInv
<1> QED
  BY InitTypeInv, NextTypeInv, PTL DEF Spec

\* Type correctness of the supervisor: every variable keeps its type through
\* every interleaving of the goroutines, the calls and the operating system.
THEOREM TypeCorrect == Spec => []TypeOK
<1>1. TypeInv => TypeOK
  BY DEF TypeInv
<1> QED
  BY <1>1, TypeInvariance, PTL

-----------------------------------------------------------------------------
(* Every start follows the wait for the process before it *)

\* Inside the loop of watch, and in the part of it where the process is gone.
InLoop == Looping \cup {"untracked"}
ProcessGone == InLoop \ {"wait"}

\* At most one watch goroutine of an App is inside its loop; past Wait the
\* process was waited for; a suspended App has no goroutine in the loop and no
\* process; an App that was never spawned has nothing.
ReapOK(a) ==
  /\ \A e, f \in Epochs : watch[a][e] \in InLoop /\ watch[a][f] \in InLoop => e = f
  /\ \A e \in Epochs : watch[a][e] \in ProcessGone => proc[a] = "reaped"
  /\ status[a] = "CrashLooping" =>
       /\ id[a] # NULL
       /\ proc[a] = "reaped"
       /\ \A e \in Epochs : watch[a][e] \notin InLoop
  /\ id[a] = NULL =>
       /\ proc[a] = "none"
       /\ done[a] = 0
       /\ \A e \in Epochs : watch[a][e] = "off"

ReapInv == \A a \in Apps : ReapOK(a)

\* A step that starts nothing: no watch goroutine moves, no channel is made, no
\* App becomes suspended or loses its id, and a process that is not there
\* stays away.
Quiet ==
  /\ UNCHANGED <<watch, done>>
  /\ \A a \in Apps : id'[a] = NULL => id[a] = NULL
  /\ \A a \in Apps : status'[a] = "CrashLooping" => status[a] = "CrashLooping"
  /\ \A a \in Apps : proc[a] \in {"none", "reaped"} => proc'[a] = proc[a]

\* A quiet step starts no process and no loop, so the invariant stays.
LEMMA QuietReap == ReapInv /\ Quiet => ReapInv'
BY DEF ReapInv, ReapOK, Quiet

\* Signals, exits, probes, and every step of a call except a start are quiet.
LEMMA QuietSteps ==
  ASSUME TypeInv, ReapInv,
         \/ \E a \in Apps : Exit(a)
         \/ \E a \in Apps, e \in Epochs : ProbeStep(a, e)
         \/ \E c \in Callers, i \in Ids :
              RestartSignal(c, i) \/ ResetBegin(c, i) \/ DeployBegin(c, i)
         \/ \E c \in Callers, k \in Keys : StopBegin(c, k)
         \/ \E c \in Callers :
              \/ RestartReturn(c)
              \/ StopTerm(c) \/ StopDone(c) \/ StopKill(c) \/ StopDenied(c)
              \/ StopCleanup(c) \/ StopFailed(c)
              \/ DeployRefused(c) \/ DeployHealth(c) \/ DeploySwap(c)
              \/ DeployAbort(c) \/ DeployRoute(c) \/ DeployRollback(c)
         \/ UNCHANGED vars
  PROVE  Quiet /\ UNCHANGED pid
<1> USE DEF Quiet, TypeInv, TypeOK, appVars, procVars, doneVars
<1>1. CASE \E a \in Apps : Exit(a)
  BY <1>1 DEF Exit, ProcessType
<1>2. ASSUME NEW a \in Apps, NEW e \in Epochs, ProbeStep(a, e) PROVE Quiet /\ UNCHANGED pid
  BY <1>2, Zenon DEF ProbeStep, ProbeExit, ProbeTick, ProbePass, ProbeRecover, ProbeFail,
     setStatus, Kill, ProcessType
<1>3. ASSUME NEW c \in Callers, NEW i \in Ids,
             RestartSignal(c, i) \/ ResetBegin(c, i) \/ DeployBegin(c, i)
      PROVE  Quiet /\ UNCHANGED pid
  BY <1>3, Zenon DEF RestartSignal, ResetBegin, DeployBegin, TermForRestart, Terminate,
     ProcessType
<1>4. CASE \E c \in Callers, k \in Keys : StopBegin(c, k)
  BY <1>4, Zenon DEF StopBegin
<1>5. ASSUME NEW c \in Callers,
             \/ RestartReturn(c)
             \/ StopTerm(c) \/ StopDone(c) \/ StopKill(c) \/ StopDenied(c)
             \/ StopCleanup(c) \/ StopFailed(c)
      PROVE  Quiet /\ UNCHANGED pid
  BY <1>5, Zenon DEF RestartReturn, StopTerm, StopDone, StopKill, StopDenied,
     StopCleanup, StopFailed, Terminate, Kill, ProcessType
<1>6. ASSUME NEW c \in Callers, DeploySwap(c) PROVE Quiet /\ UNCHANGED pid
  <2>1. caller[c].key # NULL
    BY <1>6, SupervisorAssumption, Zenon DEF DeploySwap, CallerOK, DeployPc
  <2>2. caller[c].v2 \in Apps
    BY <1>6, Zenon DEF DeploySwap, CallerOK, DeployPc
  <2> QED
    BY <1>6, <2>1, <2>2, Zenon DEF DeploySwap, rename, RegistryType
<1>7. ASSUME NEW c \in Callers,
             \/ DeployRefused(c) \/ DeployHealth(c)
             \/ DeployAbort(c) \/ DeployRoute(c) \/ DeployRollback(c)
      PROVE  Quiet /\ UNCHANGED pid
  BY <1>7, Zenon DEF DeployRefused, DeployHealth, DeployAbort, DeployRoute, DeployRollback
<1>8. CASE UNCHANGED vars
  BY <1>8, Zenon DEF vars
<1> QED
  BY <1>1, <1>2, <1>3, <1>4, <1>5, <1>6, <1>7, <1>8, ZenonT(60)

\* Spawning a fresh App.
LEMMA SpawnReap ==
  ASSUME TypeInv, ReapInv, NEW a \in Apps, NEW k \in Keys, spawnUnchecked(k, a)
  PROVE  ReapInv'
<1>1. k # NULL
  BY SupervisorAssumption
<1>2. 0 \in Epochs
  BY SupervisorAssumption DEF Epochs
<1> SUFFICES ASSUME NEW b \in Apps PROVE ReapOK(b)'
  BY SMTT(60) DEF ReapInv
<1>3. CASE b = a
  <2>1. id'[b] # NULL /\ status'[b] = "Running"
    BY <1>1, <1>3 DEF spawnUnchecked, startLocked, TypeInv, TypeOK, RegistryType, ProcessType
  <2>2. \A e \in Epochs : watch'[b][e] = IF e = 0 THEN "wait" ELSE "off"
    BY <1>2, <1>3, Zenon DEF ReapInv, ReapOK, spawnUnchecked, goWatchAndProbe, TypeInv, TypeOK, WatchType
  <2> QED
    BY <2>1, <2>2 DEF ReapOK, InLoop, Looping, ProcessGone
<1>4. CASE b # a
  BY <1>4 DEF ReapInv, ReapOK, spawnUnchecked, goWatchAndProbe, startLocked, doneVars,
     TypeInv, TypeOK, RegistryType, ProcessType, WatchType
<1> QED
  BY <1>3, <1>4

\* A Reset starts a suspended App, which has no process and no loop.
LEMMA ResetReap ==
  ASSUME TypeInv, ReapInv, NEW c \in Callers, ResetResume(c)
  PROVE  ReapInv'
<1> DEFINE a == caller[c].app
<1>1. a \in Apps
  BY ZenonT(60) DEF ResetResume, TypeInv, CallerOK
<1>2. CASE ~StillSuspended(c)
  BY <1>2, ZenonT(60) DEF ResetResume, procVars, appVars, ReapInv, ReapOK
<1>3. CASE StillSuspended(c)
  <2>1. /\ done' = [done EXCEPT ![a] = @ + 1]
        /\ \/ startLocked(a) /\ goWatchAndProbe(a, done[a] + 1)
           \/ startFails(a) /\ UNCHANGED watch
        /\ UNCHANGED id
        /\ done[a] < MaxResets
    BY <1>3, Zenon DEF ResetResume, appVars
  <2>2. status[a] = "CrashLooping"
    BY <1>3 DEF StillSuspended
  <2> HIDE DEF a
  <2>3. done[a] + 1 \in Epochs
    BY <1>1, <2>1, SupervisorAssumption DEF TypeInv, TypeOK, ChannelType, Epochs
  <2> SUFFICES ASSUME NEW b \in Apps PROVE ReapOK(b)'
    BY Zenon DEF ReapInv
  <2>4. CASE b # a
    BY <1>1, <2>1, <2>4 DEF ReapInv, ReapOK, goWatchAndProbe, startLocked, startFails,
       TypeInv, TypeOK, ProcessType, ChannelType, WatchType
  <2>5. CASE b = a /\ startLocked(a) /\ goWatchAndProbe(a, done[a] + 1)
    <3>1. id[a] # NULL /\ \A e \in Epochs : watch[a][e] \notin InLoop
      BY <1>1, <2>2 DEF ReapInv, ReapOK
    <3>2. \A e \in Epochs : watch'[a][e] = IF e = done[a] + 1 THEN "wait" ELSE watch[a][e]
      BY <1>1, <2>3, <2>5, Zenon DEF goWatchAndProbe, TypeInv, TypeOK, WatchType
    <3>3. status'[a] = "Running" /\ id'[a] # NULL
      BY <1>1, <2>1, <2>5, <3>1, Zenon DEF startLocked, TypeInv, TypeOK, ProcessType
    <3> QED
      BY <2>5, <3>1, <3>2, <3>3, Zenon DEF ReapOK, InLoop, Looping, ProcessGone
  <2>6. CASE b = a /\ startFails(a) /\ UNCHANGED watch
    <3>1. /\ id[a] # NULL /\ proc[a] = "reaped"
          /\ \A e \in Epochs : watch[a][e] \notin InLoop
      BY <1>1, <2>2, Zenon DEF ReapInv, ReapOK
    <3>2. status'[a] = "Crashed" /\ id'[a] # NULL
      BY <1>1, <2>1, <2>6, <3>1 DEF startFails, TypeInv, TypeOK, ProcessType
    <3> QED
      BY <2>6, <3>1, <3>2, Zenon DEF ReapOK, InLoop, ProcessGone
  <2> QED
    BY <2>1, <2>4, <2>5, <2>6
<1> QED
  BY <1>2, <1>3, Zenon

\* Where the goroutines are after one of them moved.
LEMMA WatchMoves ==
  ASSUME WatchType, NEW a \in Apps, NEW e \in Epochs, NEW pc, WatchGoto(a, e, pc)
  PROVE  \A b \in Apps, f \in Epochs :
           watch'[b][f] = IF b = a /\ f = e THEN pc ELSE watch[b][f]
BY Zenon DEF WatchType, WatchGoto

\* A goroutine that moves within its loop, or leaves it, keeps the App as the
\* code believes it: only from inside the loop may it change the process or
\* suspend the App, and it suspends it after Wait, on leaving.
LEMMA MoveReap ==
  ASSUME NEW a \in Apps, NEW e \in Epochs, NEW pc, ReapOK(a),
         \A f \in Epochs : watch'[a][f] = IF f = e THEN pc ELSE watch[a][f],
         id'[a] = id[a], done'[a] = done[a],
         watch[a][e] # "off",
         pc \in InLoop => watch[a][e] \in InLoop,
         pc \in ProcessGone => proc'[a] = "reaped",
         proc'[a] # proc[a] => watch[a][e] \in InLoop,
         status'[a] = "CrashLooping" =>
           \/ status[a] = "CrashLooping"
           \/ watch[a][e] \in ProcessGone /\ pc \notin InLoop /\ proc'[a] = proc[a]
  PROVE  ReapOK(a)'
<1>1. ProcessGone \subseteq InLoop
  BY Zenon DEF ProcessGone
<1>2. \A f, g \in Epochs : watch'[a][f] \in InLoop /\ watch'[a][g] \in InLoop => f = g
  BY Zenon DEF ReapOK
<1>3. \A f \in Epochs : watch'[a][f] \in ProcessGone => proc'[a] = "reaped"
  BY <1>1, Zenon DEF ReapOK
<1>4. id[a] # NULL
  BY ZenonT(60) DEF ReapOK
<1>5. ASSUME status'[a] = "CrashLooping"
      PROVE  proc'[a] = "reaped" /\ \A f \in Epochs : watch'[a][f] \notin InLoop
  BY <1>1, <1>5, Zenon DEF ReapOK
<1> QED
  BY <1>2, <1>3, <1>4, <1>5, Zenon DEF ReapOK

\* A step that leaves an App alone keeps what holds of it.
LEMMA SameReap ==
  ASSUME NEW b \in Apps, ReapOK(b), id'[b] = id[b], done'[b] = done[b],
         status'[b] = status[b], proc'[b] = proc[b],
         \A f \in Epochs : watch'[b][f] = watch[b][f]
  PROVE  ReapOK(b)'
<1>1. \A f, g \in Epochs : watch'[b][f] \in InLoop /\ watch'[b][g] \in InLoop => f = g
  BY Zenon DEF ReapOK
<1>2. \A f \in Epochs : watch'[b][f] \in ProcessGone => proc'[b] = "reaped"
  BY Zenon DEF ReapOK
<1>3. status'[b] = "CrashLooping" =>
        id'[b] # NULL /\ proc'[b] = "reaped" /\ \A f \in Epochs : watch'[b][f] \notin InLoop
  BY Zenon DEF ReapOK
<1>4. id'[b] = NULL =>
        proc'[b] = "none" /\ done'[b] = 0 /\ \A f \in Epochs : watch'[b][f] = "off"
  BY Zenon DEF ReapOK
<1> QED
  BY <1>1, <1>2, <1>3, <1>4, Zenon DEF ReapOK

\* The steps of the watch goroutine.
LEMMA WatchReaps ==
  ASSUME TypeInv, ReapInv, NEW a \in Apps, NEW e \in Epochs, WatchStep(a, e)
  PROVE  ReapInv'
<1> USE DEF TypeInv, TypeOK
<1>1. PICK pc : WatchGoto(a, e, pc)
  BY Zenon DEF WatchStep, WatchReap, WatchCrashed, WatchRecord, Suspend, WatchRestart,
     WatchStopped, WatchClose, WatchRelease
<1>2. \A b \in Apps, f \in Epochs :
        watch'[b][f] = IF b = a /\ f = e THEN pc ELSE watch[b][f]
  BY <1>1, WatchMoves
<1>3. UNCHANGED <<id, done>>
  BY Zenon DEF WatchStep, WatchReap, WatchCrashed, WatchRecord, WatchRestart,
     WatchStopped, WatchClose, WatchRelease, appVars, doneVars
<1>4. ASSUME NEW b \in Apps, b # a PROVE status'[b] = status[b] /\ proc'[b] = proc[b]
  BY <1>4, Zenon DEF WatchStep, WatchReap, WatchCrashed, WatchRecord, WatchRestart, Suspend,
     WatchStopped, WatchClose, WatchRelease, startLocked, startFails, setStatus,
     procVars, ProcessType
<1>5. ASSUME NEW b \in Apps, b # a PROVE ReapOK(b)'
  <2>1. ReapOK(b)
    BY Zenon DEF ReapInv
  <2>2. \A f \in Epochs : watch'[b][f] = watch[b][f]
    BY <1>2, <1>5, Zenon
  <2>3. id'[b] = id[b] /\ done'[b] = done[b]
    BY <1>3, Zenon
  <2> QED
    BY <1>4, <1>5, <2>1, <2>2, <2>3, SameReap, Zenon
<1>6. /\ watch[a][e] # "off"
      /\ pc \in InLoop => watch[a][e] \in InLoop
      /\ proc'[a] # proc[a] => watch[a][e] \in InLoop
  <2>1. watch'[a][e] = pc
    BY <1>2
  <2> QED
    BY <1>1, <2>1, ZenonT(60) DEF WatchStep, WatchReap, WatchCrashed, WatchRecord, WatchRestart,
       Suspend, WatchStopped, WatchClose, WatchRelease, WatchGoto, WatchType, procVars,
       InLoop, Looping
<1>7. pc \in ProcessGone => proc'[a] = "reaped"
  <2>1. watch'[a][e] = pc
    BY <1>2
  <2>2. watch[a][e] \in ProcessGone => proc[a] = "reaped"
    BY Zenon DEF ReapInv, ReapOK
  <2>3. CASE WatchReap(a, e)
    BY <2>3, Zenon DEF WatchReap, ProcessType
  <2>4. CASE WatchRestart(a, e)
    <3>1. proc[a] = "reaped"
      BY <2>2, <2>4 DEF WatchRestart, ProcessGone, InLoop, Looping
    <3>2. CASE UNCHANGED proc
      BY <3>1, <3>2
    <3>3. CASE WatchGoto(a, e, "wait")
      BY <2>1, <3>3, Zenon DEF WatchGoto, WatchType, ProcessGone
    <3> QED
      BY <2>4, <3>2, <3>3, Zenon DEF WatchRestart, startFails
  <2>5. CASE WatchCrashed(a, e) \/ WatchRecord(a, e) \/ WatchStopped(a, e)
    BY <2>2, <2>5, ZenonT(60) DEF WatchCrashed, WatchRecord, WatchStopped, ProcessGone,
       InLoop, Looping
  <2>6. CASE WatchClose(a, e) \/ WatchRelease(a, e)
    BY <2>1, <2>6 DEF WatchClose, WatchRelease, WatchGoto, WatchType, ProcessGone,
       InLoop, Looping
  <2> QED
    BY <2>3, <2>4, <2>5, <2>6 DEF WatchStep
<1>8. status'[a] = "CrashLooping" =>
        \/ status[a] = "CrashLooping"
        \/ watch[a][e] \in ProcessGone /\ pc \notin InLoop /\ proc'[a] = proc[a]
  <2>1. watch'[a][e] = pc
    BY <1>2
  <2>2. CASE WatchRecord(a, e)
    <3>1. CASE Suspend(a, e)
      BY <2>1, <2>2, <3>1, Zenon DEF WatchRecord, Suspend, WatchGoto, WatchType, ProcessGone,
         InLoop, Looping
    <3>2. CASE UNCHANGED status
      BY <3>2, ZenonT(60)
    <3> QED
      BY <2>2, <3>1, <3>2, Zenon DEF WatchRecord
  <2>3. CASE WatchReap(a, e) \/ WatchClose(a, e) \/ WatchRelease(a, e)
    BY <2>3, Zenon DEF WatchReap, WatchClose, WatchRelease, procVars
  <2>4. CASE WatchCrashed(a, e) \/ WatchStopped(a, e)
    BY <2>4, ZenonT(60) DEF WatchCrashed, WatchStopped, setStatus, ProcessType
  <2>5. CASE WatchRestart(a, e)
    BY <2>5, Zenon DEF WatchRestart, startLocked, startFails, ProcessType
  <2> QED
    BY <2>2, <2>3, <2>4, <2>5, Zenon DEF WatchStep
<1>9. ReapOK(a)'
  BY <1>2, <1>3, <1>6, <1>7, <1>8, MoveReap, Zenon DEF ReapInv
<1> QED
  BY <1>5, <1>9 DEF ReapInv

\* Nothing is spawned, suspended or closed initially.
LEMMA InitReap == Init => ReapInv
BY DEF Init, ReapInv, ReapOK, InLoop, Looping, ProcessGone

\* Every step keeps at most one loop per App, and its process as believed.
LEMMA NextReap == TypeInv /\ ReapInv /\ [Next]_vars => ReapInv'
<1> SUFFICES ASSUME TypeInv, ReapInv, [Next]_vars PROVE ReapInv'
  OBVIOUS
<1>1. ASSUME NEW i \in Ids, NEW a \in Apps, Spawn(i, a) PROVE ReapInv'
  <2>1. Key(i) \in Keys
    BY DEF Key, Keys
  <2> QED
    BY <1>1, <2>1, SpawnReap DEF Spawn
<1>2. ASSUME NEW c \in Callers, NEW a \in Apps, DeploySpawn(c, a) PROVE ReapInv'
  <2>1. tempID(c) \in Keys
    BY <1>2 DEF DeploySpawn, TypeInv, CallerOK, DeployPc, tempID, deployTempID, Keys
  <2> QED
    BY <1>2, <2>1, SpawnReap, Zenon DEF DeploySpawn
<1>3. ASSUME NEW c \in Callers, ResetResume(c) PROVE ReapInv'
  BY <1>3, ResetReap
<1>4. ASSUME NEW a \in Apps, NEW e \in Epochs, WatchStep(a, e) PROVE ReapInv'
  BY <1>4, WatchReaps
<1> QED
  BY <1>1, <1>2, <1>3, <1>4, QuietSteps, QuietReap, Zenon DEF Next, CallerStep

\* At most one watch goroutine of an App is in its loop, and it, a suspended
\* App and a fresh App have the process the code believes they have.
THEOREM ReapInvariance == Spec => []ReapInv
<1> QED
  BY InitReap, NextReap, TypeInvariance, PTL DEF Spec

\* No App ever has two processes, whatever calls are made at the same time and
\* whatever fails: the watch goroutine, Reset and Spawn start a process only
\* when the previous one was waited for.
THEOREM OneProcess == Spec => StartAfterReap
<1> DEFINE A == \A a \in Apps : pid'[a] # pid[a] => proc[a] \in {"none", "reaped"}
<1>1. TypeInv /\ ReapInv /\ [Next]_vars => [A]_vars
  <2> SUFFICES ASSUME TypeInv, ReapInv, Next PROVE A
    BY Zenon
  <2> USE DEF TypeInv, TypeOK, ProcessType
  <2>1. ASSUME NEW k, NEW a \in Apps, spawnUnchecked(k, a) PROVE A
    BY <2>1, Zenon DEF spawnUnchecked, startLocked, ReapInv, ReapOK
  <2>2. ASSUME NEW c \in Callers, ResetResume(c) PROVE A
    <3>1. caller[c].app \in Apps
      BY <2>2, Zenon DEF ResetResume, CallerOK
    <3>2. CASE StillSuspended(c)
      <4>1. proc[caller[c].app] = "reaped"
        BY <3>1, <3>2 DEF StillSuspended, ReapInv, ReapOK
      <4> QED
        BY <2>2, <3>1, <3>2, <4>1, ZenonT(60) DEF ResetResume, startLocked, startFails
    <3>3. CASE ~StillSuspended(c)
      BY <2>2, <3>3, Zenon DEF ResetResume, procVars
    <3> QED
      BY <3>2, <3>3
  <2>3. ASSUME NEW a \in Apps, NEW e \in Epochs, WatchStep(a, e) PROVE A
    <3>1. CASE WatchRestart(a, e)
      <4>1. proc[a] = "reaped"
        BY <3>1, Zenon DEF WatchRestart, ReapInv, ReapOK, InLoop, Looping, ProcessGone
      <4> QED
        BY <3>1, <4>1, ZenonT(60) DEF WatchRestart, startLocked, startFails
    <3>2. CASE ~WatchRestart(a, e)
      BY <2>3, <3>2, Zenon DEF WatchStep, WatchReap, WatchCrashed, WatchRecord, WatchStopped,
         WatchClose, WatchRelease, procVars
    <3> QED
      BY <3>1, <3>2
  <2>4. CASE UNCHANGED pid
    BY <2>4, Zenon
  <2> QED
    BY <2>1, <2>2, <2>3, <2>4, QuietSteps, Zenon DEF Next, CallerStep, Spawn, DeploySpawn
<1> QED
  BY <1>1, TypeInvariance, ReapInvariance, PTL DEF Spec, StartAfterReap

-----------------------------------------------------------------------------
(* Each channel is closed once *)

\* A channel is closed exactly when the goroutine started with it has closed
\* it; a goroutine that has yet to close one will close its own; channels not
\* made yet have no goroutine.
ChannelOK(a) ==
  /\ closed[a] = {e \in Epochs : watch[a][e] \in {"closed", "gone"}}
  /\ \A e \in Epochs : watch[a][e] \in InLoop \cup {"closing"} => e = done[a]
  /\ \A e \in Epochs : e > done[a] => watch[a][e] = "off"

\* A Reset waits for the App's current channel, and it is the only one.
ResetOK ==
  /\ \A c \in Callers : caller[c].pc = "resetWait" => caller[c].seen = done[caller[c].app]
  /\ \A c, d \in Callers :
       /\ caller[c].pc = "resetWait" /\ caller[d].pc = "resetWait"
       /\ caller[c].app = caller[d].app
       => c = d

CloseInv == ResetOK /\ ~panicked /\ \A a \in Apps : ChannelOK(a)

\* Channels and goroutines that do not change stay in order.
LEMMA SameChannels ==
  ASSUME CloseInv, UNCHANGED <<watch, done, closed>>
  PROVE  \A a \in Apps : ChannelOK(a)'
BY Zenon DEF CloseInv, ChannelOK

\* So do the waiting Resets, when none begins and no channel is replaced.
LEMMA SameResets ==
  ASSUME CloseInv, UNCHANGED done,
         \A c \in Callers : caller'[c].pc = "resetWait" => caller'[c] = caller[c]
  PROVE  ResetOK'
<1>1. \A c \in Callers : caller'[c].pc = "resetWait" => caller'[c].seen = done'[caller'[c].app]
  BY ZenonT(60) DEF CloseInv, ResetOK
<1>2. \A c, d \in Callers :
        /\ caller'[c].pc = "resetWait" /\ caller'[d].pc = "resetWait"
        /\ caller'[c].app = caller'[d].app
        => c = d
  BY SMTT(60) DEF CloseInv, ResetOK
<1> QED
  BY <1>1, <1>2, Zenon DEF ResetOK

\* No step but a spawn, a step of watch, and the two steps of Reset touches a
\* channel, a watch goroutine or a waiting Reset.
LEMMA QuietClose ==
  ASSUME TypeInv, ReapInv, CloseInv,
         \/ \E a \in Apps : Exit(a)
         \/ \E a \in Apps, e \in Epochs : ProbeStep(a, e)
         \/ \E c \in Callers, i \in Ids : RestartSignal(c, i) \/ DeployBegin(c, i)
         \/ \E c \in Callers, k \in Keys : StopBegin(c, k)
         \/ \E c \in Callers :
              \/ RestartReturn(c)
              \/ StopTerm(c) \/ StopDone(c) \/ StopKill(c) \/ StopDenied(c)
              \/ StopCleanup(c) \/ StopFailed(c)
              \/ DeployRefused(c) \/ DeployHealth(c) \/ DeploySwap(c)
              \/ DeployAbort(c) \/ DeployRoute(c) \/ DeployRollback(c)
         \/ UNCHANGED vars
  PROVE  CloseInv'
<1> DEFINE Still == \A c \in Callers : caller'[c].pc = "resetWait" => caller'[c] = caller[c]
<1>1. UNCHANGED <<watch, done>>
  BY QuietSteps, Zenon DEF Quiet
<1>2. UNCHANGED <<closed, panicked>>
  BY ZenonT(60) DEF Exit, ProbeStep, ProbeExit, ProbeTick, ProbePass, ProbeRecover, ProbeFail,
     RestartSignal, DeployBegin, StopBegin, RestartReturn, StopTerm, StopDone,
     StopKill, StopDenied, StopCleanup, StopFailed, DeployRefused, DeployHealth,
     DeploySwap, DeployAbort, DeployRoute, DeployRollback, vars, doneVars
<1>3. Still
  <2> USE DEF TypeInv, TypeOK, CallerType, Idle, Goto, Return
  <2>1. CASE UNCHANGED caller
    BY <2>1
  <2>2. ASSUME NEW c \in Callers, NEW i \in Ids, RestartSignal(c, i) \/ DeployBegin(c, i)
        PROVE  Still
    BY <2>2, ZenonT(60) DEF RestartSignal, DeployBegin
  <2>3. ASSUME NEW c \in Callers, NEW k \in Keys, StopBegin(c, k) PROVE Still
    BY <2>3, Zenon DEF StopBegin
  <2>4. ASSUME NEW c \in Callers,
               \/ RestartReturn(c)
               \/ StopTerm(c) \/ StopDone(c) \/ StopKill(c) \/ StopDenied(c)
               \/ StopCleanup(c) \/ StopFailed(c)
        PROVE  Still
    <3>1. CASE RestartReturn(c) \/ StopCleanup(c) \/ StopFailed(c)
      <4>1. caller' = [caller EXCEPT ![c] = Idle]
        BY <3>1, ZenonT(60) DEF RestartReturn, StopCleanup, StopFailed
      <4> QED
        BY <4>1, Zenon
    <3>2. CASE StopTerm(c) \/ StopDone(c) \/ StopDenied(c)
      BY <3>2 DEF StopTerm, StopDone, StopDenied
    <3>3. CASE StopKill(c)
      BY <3>3 DEF StopKill, AfterKill
    <3> QED
      BY <2>4, <3>1, <3>2, <3>3, Zenon
  <2>5. ASSUME NEW c \in Callers,
               \/ DeployRefused(c) \/ DeployHealth(c) \/ DeploySwap(c)
               \/ DeployAbort(c) \/ DeployRoute(c) \/ DeployRollback(c)
        PROVE  Still
    <3>1. CASE DeployRefused(c) \/ DeployHealth(c) \/ DeploySwap(c)
      BY <3>1, SMTT(60) DEF DeployRefused, DeployHealth, DeploySwap
    <3>2. CASE DeployAbort(c)
      <4>1. caller'[c].pc # "resetWait" /\ \A d \in Callers : d # c => caller'[d] = caller[d]
        <5>1. CASE apps[tempID(c)] = NULL
          <6>1. caller' = [caller EXCEPT ![c] = Idle]
            BY <3>2, <5>1, Zenon DEF DeployAbort
          <6> QED
            BY <6>1
        <5>2. CASE apps[tempID(c)] # NULL
          <6>1. caller' = [caller EXCEPT ![c] = [Idle EXCEPT !.pc = "stopTerm",
                             !.app = apps[tempID(c)], !.key = tempID(c)]]
            BY <3>2, <5>2, Zenon DEF DeployAbort
          <6> QED
            BY <6>1
        <5> QED
          BY <5>1, <5>2, Zenon
      <4> QED
        BY <4>1, Zenon
    <3>3. CASE DeployRoute(c) \/ DeployRollback(c)
      BY <3>3, ZenonT(60) DEF DeployRoute, DeployRollback, stopApp
    <3> QED
      BY <2>5, <3>1, <3>2, <3>3, ZenonT(60)
  <2>6. (\/ \E a \in Apps : Exit(a)
         \/ \E a \in Apps, e \in Epochs : ProbeStep(a, e)
         \/ UNCHANGED vars) => UNCHANGED caller
    BY ZenonT(60) DEF Exit, ProbeStep, ProbeExit, ProbeTick, ProbePass, ProbeRecover, ProbeFail, vars
  <2> QED
    BY <2>1, <2>2, <2>3, <2>4, <2>5, <2>6, Zenon
<1> QED
  BY <1>1, <1>2, <1>3, SameChannels, SameResets, Zenon DEF CloseInv

\* Spawn starts the goroutine of the first channel.
LEMMA SpawnClose ==
  ASSUME TypeInv, ReapInv, CloseInv, NEW a \in Apps, NEW k, spawnUnchecked(k, a),
         \A c \in Callers : caller'[c].pc = "resetWait" => caller'[c] = caller[c]
  PROVE  CloseInv'
<1>1. done[a] = 0 /\ \A e \in Epochs : watch[a][e] = "off"
  BY Zenon DEF spawnUnchecked, ReapInv, ReapOK
<1>2. UNCHANGED <<done, closed, panicked>>
  BY Zenon DEF spawnUnchecked, doneVars
<1>3. \A b \in Apps, e \in Epochs :
        watch'[b][e] = IF b = a /\ e = 0 THEN "wait" ELSE watch[b][e]
  BY Zenon DEF spawnUnchecked, goWatchAndProbe, TypeInv, TypeOK, WatchType
<1>4. ASSUME NEW b \in Apps PROVE ChannelOK(b)'
  BY <1>1, <1>2, <1>3, SMTT(60) DEF CloseInv, ChannelOK, InLoop, Looping
<1> QED
  BY <1>2, <1>4, SameResets DEF CloseInv

\* The steps of watch: the channel it closes is its own, and still open.
LEMMA WatchCloses ==
  ASSUME TypeInv, CloseInv, NEW a \in Apps, NEW e \in Epochs, WatchStep(a, e)
  PROVE  CloseInv'
<1>1. UNCHANGED <<done, caller>>
  BY Zenon DEF WatchStep, WatchReap, WatchCrashed, WatchRecord, WatchRestart, WatchStopped,
     WatchClose, WatchRelease, doneVars
<1> USE DEF TypeInv, TypeOK, ChannelType, WatchType
<1>2. CASE WatchClose(a, e)
  <2>1. e = done[a] /\ done[a] \notin closed[a]
    BY <1>2 DEF WatchClose, CloseInv, ChannelOK
  <2>2. ~panicked'
    BY <1>2, <2>1, Zenon DEF WatchClose, CloseInv
  <2>3. \A b \in Apps, f \in Epochs :
          watch'[b][f] = IF b = a /\ f = e THEN "closed" ELSE watch[b][f]
    BY <1>2 DEF WatchClose, WatchGoto
  <2>4. \A b \in Apps : closed'[b] = IF b = a THEN closed[b] \cup {e} ELSE closed[b]
    BY <1>2, <2>1, Zenon DEF WatchClose
  <2>5. watch[a][e] = "closing"
    BY <1>2, Zenon DEF WatchClose
  <2>6. ASSUME NEW b \in Apps PROVE ChannelOK(b)'
    <3>1. ChannelOK(b)
      BY ZenonT(60) DEF CloseInv
    <3>2. \A f \in Epochs : f \in closed'[b] <=> watch'[b][f] \in {"closed", "gone"}
      <4>1. \A f \in Epochs : f \in closed[b] <=> watch[b][f] \in {"closed", "gone"}
        BY <3>1, Zenon DEF ChannelOK
      <4>2. CASE b = a
        <5>1. \A f \in Epochs : f \in closed'[a] <=> f \in closed[a] \/ f = e
          BY <2>4, Zenon
        <5>2. \A f \in Epochs : watch'[a][f] = IF f = e THEN "closed" ELSE watch[a][f]
          BY <2>3, Zenon
        <5> QED
          BY <4>1, <4>2, <5>1, <5>2, Zenon
      <4>3. CASE b # a
        <5>1. closed'[b] = closed[b] /\ \A f \in Epochs : watch'[b][f] = watch[b][f]
          BY <2>3, <2>4, <4>3, Zenon
        <5> QED
          BY <4>1, <5>1
      <4> QED
        BY <4>2, <4>3
    <3>3. closed'[b] \subseteq Epochs
      BY <2>4, <3>1, ZenonT(60) DEF ChannelOK
    <3>4. \A f \in Epochs : watch'[b][f] \in InLoop \cup {"closing"} => f = done'[b]
      BY <1>1, <2>3, <3>1 DEF ChannelOK, InLoop, Looping
    <3>5. \A f \in Epochs : f > done'[b] => watch'[b][f] = "off"
      BY <1>1, <2>3, <2>5, <3>1 DEF ChannelOK
    <3> QED
      BY <3>2, <3>3, <3>4, <3>5, Zenon DEF ChannelOK
  <2> QED
    BY <1>1, <2>2, <2>6, SameResets, Zenon DEF CloseInv
<1>3. CASE ~WatchClose(a, e)
  <2>1. UNCHANGED <<closed, panicked>>
    BY <1>3, Zenon DEF WatchStep, WatchReap, WatchCrashed, WatchRecord, WatchRestart,
       WatchStopped, WatchRelease, doneVars
  <2>2. \/ /\ watch[a][e] \in InLoop
           /\ \E pc \in InLoop \cup {"closing"} : WatchGoto(a, e, pc)
        \/ watch[a][e] = "closed" /\ WatchGoto(a, e, "gone")
    BY <1>3, Zenon DEF WatchStep, WatchReap, WatchCrashed, WatchRecord, Suspend, WatchRestart,
       WatchStopped, WatchRelease, InLoop, Looping
  <2>3. ASSUME NEW b \in Apps PROVE ChannelOK(b)'
    BY <1>1, <2>1, <2>2 DEF CloseInv, ChannelOK, WatchGoto, InLoop, Looping
  <2> QED
    BY <1>1, <2>1, <2>3, SameResets, Zenon DEF CloseInv
<1> QED
  BY <1>2, <1>3

\* No two Resets of one App at a time.
ResetsApart == SerialReset \/ "Reset" \notin Ops

\* Reset: serialised by its callers, it waits for the current channel, so it
\* replaces a closed one.
LEMMA ResetClose ==
  ASSUME ResetsApart, TypeInv, CloseInv, NEW c \in Callers,
         ResetResume(c) \/ \E i \in Ids : ResetBegin(c, i)
  PROVE  CloseInv'
<1> USE DEF TypeInv, TypeOK
<1>1. ASSUME NEW i \in Ids, ResetBegin(c, i) PROVE CloseInv'
  <2> DEFINE a == apps[Key(i)]
  <2>1. Resetting(a) = {}
    BY <1>1, Zenon DEF ResetBegin, ResetsApart
  <2>2. UNCHANGED <<watch, done, closed, panicked>>
    BY <1>1, Zenon DEF ResetBegin, doneVars
  <2>3. caller'[c].app = a /\ caller'[c].seen = done[a]
    BY <1>1, Zenon DEF ResetBegin, CallerType, Idle
  <2>4. \A d \in Callers : d # c => caller'[d] = caller[d]
    BY <1>1, Zenon DEF ResetBegin, CallerType
  <2> HIDE DEF a
  <2>5. \A d \in Callers : caller[d].pc = "resetWait" => caller[d].app # a
    BY <2>1, Zenon DEF Resetting
  <2>6. \A d \in Callers : caller'[d].pc = "resetWait" => caller'[d].seen = done'[caller'[d].app]
    BY <2>2, <2>3, <2>4, Zenon DEF CloseInv, ResetOK
  <2>7. ASSUME NEW d \in Callers, NEW f \in Callers,
               caller'[d].pc = "resetWait", caller'[f].pc = "resetWait",
               caller'[d].app = caller'[f].app
        PROVE  d = f
    <3>1. CASE d = c \/ f = c
      BY <2>3, <2>4, <2>5, <2>7, <3>1, Zenon
    <3>2. CASE d # c /\ f # c
      <4>1. caller'[d] = caller[d] /\ caller'[f] = caller[f]
        BY <2>4, <3>2, Zenon
      <4>2. ResetOK
        BY ZenonT(60) DEF CloseInv
      <4> QED
        BY <2>7, <4>1, <4>2, Zenon DEF ResetOK
    <3> QED
      BY <3>1, <3>2, Zenon
  <2>8. ResetOK'
    BY <2>6, <2>7 DEF ResetOK
  <2> QED
    BY <2>2, <2>8, SameChannels DEF CloseInv
<1>2. CASE ResetResume(c)
  <2> DEFINE a == caller[c].app
  <2>1. a \in Apps
    BY <1>2, ZenonT(60) DEF ResetResume, CallerOK
  <2>2. caller'[c].pc = "idle" /\ \A d \in Callers : d # c => caller'[d] = caller[d]
    BY <1>2 DEF ResetResume, Return, Idle, CallerType
  <2>3. CASE ~StillSuspended(c)
    <3>1. UNCHANGED <<watch, done, closed, panicked>>
      BY <1>2, <2>3, Zenon DEF ResetResume
    <3> QED
      BY <2>2, <3>1, SameChannels, SameResets, Zenon DEF CloseInv
  <2>4. CASE StillSuspended(c)
    <3>1. /\ done[a] < MaxResets
          /\ done' = [done EXCEPT ![a] = @ + 1]
          /\ UNCHANGED <<closed, panicked>>
          /\ UNCHANGED watch \/ watch' = [watch EXCEPT ![a][done[a] + 1] = "wait"]
      BY <1>2, <2>4, Zenon DEF ResetResume, goWatchAndProbe
    <3>2. done[a] \in closed[a]
      BY <1>2, <2>1, Zenon DEF ResetResume, PrevDone, CloseInv, ResetOK
    <3>3. \A d \in Callers : d # c /\ caller[d].pc = "resetWait" => caller[d].app # a
      BY <1>2, Zenon DEF ResetResume, CloseInv, ResetOK
    <3>4. \A d \in Callers : caller[d].pc = "resetWait" => caller[d].app \in Apps
      BY Zenon DEF CallerOK
    <3> HIDE DEF a
    <3>5. done[a] \in Nat /\ done[a] + 1 \in Epochs
      BY <2>1, <3>1, SupervisorAssumption DEF ChannelType, Epochs
    <3>6. \A b \in Apps : done'[b] = IF b = a THEN done[a] + 1 ELSE done[b]
      BY <2>1, <3>1, Zenon DEF ChannelType
    <3>7. ResetOK'
      <4>1. ASSUME NEW d \in Callers, caller'[d].pc = "resetWait"
            PROVE  caller'[d].seen = done'[caller'[d].app]
        <5>1. d # c /\ caller'[d] = caller[d]
          BY <2>2, <4>1, Zenon
        <5> QED
          BY <3>3, <3>4, <3>6, <4>1, <5>1, ZenonT(60) DEF CloseInv, ResetOK
      <4>2. \A d, f \in Callers :
              /\ caller'[d].pc = "resetWait" /\ caller'[f].pc = "resetWait"
              /\ caller'[d].app = caller'[f].app
              => d = f
        BY <2>2, ZenonT(60) DEF CloseInv, ResetOK
      <4> QED
        BY <4>1, <4>2, ZenonT(60) DEF ResetOK
    <3>8. ASSUME NEW b \in Apps PROVE ChannelOK(b)'
      <4>1. CASE b # a
        <5>1. done'[b] = done[b]
          BY <3>6, <4>1, Zenon
        <5>2. watch'[b] = watch[b]
          BY <2>1, <3>1, <4>1, Zenon DEF WatchType
        <5> QED
          BY <3>1, <5>1, <5>2 DEF CloseInv, ChannelOK
      <4>2. CASE b = a
        <5>0. ChannelOK(a)
          BY <2>1, Zenon DEF CloseInv
        <5>1. watch[a][done[a]] \in {"closed", "gone"}
          BY <3>2, <5>0, Zenon DEF ChannelOK
        <5>2. \A e \in Epochs : watch[a][e] \notin InLoop \cup {"closing"}
          BY <2>1, <5>1, Zenon DEF CloseInv, ChannelOK, InLoop, Looping
        <5>3. watch[a][done[a] + 1] = "off"
          BY <2>1, <3>5 DEF CloseInv, ChannelOK
        <5>4. \A e \in Epochs :
                \/ watch'[a][e] = watch[a][e]
                \/ e = done[a] + 1 /\ watch'[a][e] = "wait"
          <6>1. CASE UNCHANGED watch
            BY <6>1, Zenon
          <6>2. CASE watch' = [watch EXCEPT ![a][done[a] + 1] = "wait"]
            BY <2>1, <3>5, <6>2, Zenon DEF WatchType
          <6> QED
            BY <3>1, <6>1, <6>2, Zenon
        <5>5. \A e \in Epochs : e > done[a] + 1 => e > done[a] /\ e # done[a] + 1
          BY <3>5 DEF Epochs
        <5> QED
          BY <2>1, <3>1, <3>6, <4>2, <5>2, <5>3, <5>4, <5>5 DEF CloseInv, ChannelOK, InLoop, Looping
      <4> QED
        BY <4>1, <4>2, Zenon
    <3> QED
      BY <3>1, <3>7, <3>8 DEF CloseInv
  <2> QED
    BY <2>3, <2>4
<1> QED
  BY <1>1, <1>2, Zenon

\* Initially there is no channel to close.
LEMMA InitClose == Init => CloseInv
BY DEF Init, CloseInv, ResetOK, ChannelOK, InLoop, Looping, Idle

\* Every step keeps the channels of a supervisor whose Resets are serialised.
LEMMA NextClose ==
  ASSUME ResetsApart
  PROVE  TypeInv /\ ReapInv /\ CloseInv /\ [Next]_vars => CloseInv'
<1> SUFFICES ASSUME TypeInv, ReapInv, CloseInv, [Next]_vars PROVE CloseInv'
  BY Zenon
<1>1. ASSUME NEW i \in Ids, NEW a \in Apps, Spawn(i, a) PROVE CloseInv'
  BY <1>1, SpawnClose DEF Spawn
<1>2. ASSUME NEW c \in Callers, NEW a \in Apps, DeploySpawn(c, a) PROVE CloseInv'
  BY <1>2, SpawnClose, Zenon DEF DeploySpawn, TypeInv, TypeOK, CallerType
<1>3. ASSUME NEW c \in Callers, NEW i \in Ids, ResetBegin(c, i) PROVE CloseInv'
  BY <1>3, ResetClose, Zenon
<1>4. ASSUME NEW c \in Callers, ResetResume(c) PROVE CloseInv'
  BY <1>4, ResetClose, Zenon
<1>5. ASSUME NEW a \in Apps, NEW e \in Epochs, WatchStep(a, e) PROVE CloseInv'
  BY <1>5, WatchCloses
<1> QED
  BY <1>1, <1>2, <1>3, <1>4, <1>5, QuietClose, Zenon DEF Next, CallerStep

\* Done channels, with no two Resets of one App at a time.
THEOREM CloseInvariance == ResetsApart => (Spec => []CloseInv)
<1> SUFFICES ASSUME ResetsApart PROVE Spec => []CloseInv
  OBVIOUS
<1>1. TypeInv /\ ReapInv /\ CloseInv /\ [Next]_vars => CloseInv'
  BY NextClose
<1> QED BY <1>1, InitClose, TypeInvariance, ReapInvariance, PTL DEF Spec

\* The daemon never panics on a closed done channel, provided no two Resets of
\* one app overlap (or none is made): under that assumption the wait for the
\* previous channel in Reset is enough, whatever Stop, Deploy, restarts and
\* failed starts do at the same time.
THEOREM ChannelsClosedOnce == ResetsApart => (Spec => []NoDoubleClose)
<1>1. CloseInv => NoDoubleClose
  BY DEF CloseInv, NoDoubleClose
<1> QED
  BY <1>1, CloseInvariance, PTL

-----------------------------------------------------------------------------
(* The registry, and what the calls in flight know of it *)

\* A call at one of the first steps has taken its App out of the registry to
\* stop it; at one of the second it has spawned v2 under the temporary key.
Removing == StopPc \cup {"deployRoute"}
Staged == {"deployHealth", "deploySwap", "deployAbort"}

\* When nothing puts back into the registry what a call took out of it, and a
\* deploy finds its v2 where it put it: signals are delivered, or a failed stop
\* puts its App back; and beside deploys the router takes v2, or v1 is put
\* back, and neither a failed restart nor StopAll empties a temporary key.
Orderly ==
  /\ CanKill
  /\ "Deploy" \in Ops => ~RouterMayFail /\ ~StartMayFail /\ "StopTemp" \notin Ops

\* What a call in flight knows: its App was spawned; a deploy has a live key,
\* and its v2 is at the temporary one; an App being stopped is not registered;
\* no stop and no route fails.
CallOK(c) ==
  /\ caller[c].pc # "idle" => id[caller[c].app] # NULL
  /\ caller[c].pc \in DeployPc => caller[c].key[2] = "live" /\ "Deploy" \in Ops
  /\ caller[c].pc \in Staged => apps[tempID(c)] = caller[c].v2
  /\ caller[c].pc \in Removing => ~Registered(caller[c].app)
  /\ caller[c].pc \notin {"deniedWait", "stopFailed", "deployRollback"}

\* Every App is registered under its own id.
KeysOwn == \A k \in Keys : apps[k] # NULL => id[apps[k]] = k

\* No two deploys have spawned under the same temporary key.
StagesApart ==
  \A c, d \in Callers :
    /\ caller[c].pc \in Staged /\ caller[d].pc \in Staged
    /\ tempID(c) = tempID(d)
    => c = d

RegistryInv == KeysOwn /\ StagesApart /\ \A c \in Callers : CallOK(c)

\* Which steps are steps of a deploy, and which of some call.
LEMMA StagedIsDeploy == \A pc : pc \in Staged => pc \in DeployPc /\ pc # "idle" /\ pc # "deploySpawn"
BY Zenon DEF Staged, DeployPc

\* A call that is removing an App is not idle.
LEMMA RemovingIsBusy == \A pc : pc \in Removing => pc # "idle"
BY Zenon DEF Removing, StopPc

\* A deploy's temporary key is a key, of its own kind.
LEMMA TempIsKey ==
  ASSUME TypeInv, NEW c \in Callers, caller[c].pc \in DeployPc \/ caller[c].pc \in Staged
  PROVE  tempID(c) \in Keys /\ tempID(c)[2] = "deploying" /\ caller[c].key \in Keys
<1>1. caller[c].key \in Keys
  BY StagedIsDeploy, Zenon DEF TypeInv, CallerOK
<1> QED BY <1>1 DEF tempID, deployTempID, Keys

\* A call that is under way has an App.
LEMMA CallHasApp ==
  ASSUME TypeInv, NEW c \in Callers, caller[c].pc # "idle"
  PROVE  caller[c].app \in Apps /\ caller[c].app # NULL
BY SupervisorAssumption, Zenon DEF TypeInv, CallerOK

\* A deploy that has spawned its v2 finds it at its temporary key.
LEMMA StagedHasV2 ==
  ASSUME TypeInv, RegistryInv, NEW c \in Callers, caller[c].pc \in Staged
  PROVE  apps[tempID(c)] = caller[c].v2 /\ caller[c].v2 \in Apps /\ caller[c].v2 # NULL
<1>1. caller[c].v2 \in Apps
  BY StagedIsDeploy, Zenon DEF TypeInv, CallerOK
<1> QED BY <1>1, SupervisorAssumption, Zenon DEF RegistryInv, CallOK

\* Of the calls, only that of c moves.
Only(c) == \A d \in Callers : d # c => caller'[d] = caller[d]

\* What writing the local variables of one call does.
LEMMA CallMoves ==
  ASSUME CallerType, NEW c \in Callers, NEW x, caller' = [caller EXCEPT ![c] = x]
  PROVE  caller'[c] = x /\ Only(c)
BY Zenon DEF CallerType, Only

\* A call that goes to another step keeps its other variables.
SameLocals(c) ==
  /\ caller'[c].app = caller[c].app /\ caller'[c].v2 = caller[c].v2
  /\ caller'[c].key = caller[c].key

\* Only its pc changes.
LEMMA CallGoes ==
  ASSUME CallerType, NEW c \in Callers, NEW pc, Goto(c, pc)
  PROVE  caller'[c].pc = pc /\ SameLocals(c) /\ caller'[c].seen = caller[c].seen /\ Only(c)
BY Zenon DEF CallerType, Goto, Only, SameLocals

\* A call that returns is idle.
LEMMA CallReturns ==
  ASSUME CallerType, NEW c \in Callers, Return(c)
  PROVE  caller'[c].pc = "idle" /\ Only(c)
BY Zenon DEF CallerType, Return, Idle, Only

\* A call that does not move keeps what it knows, if the registry does.
LEMMA CallKept ==
  ASSUME NEW d \in Callers, CallOK(d), caller'[d] = caller[d],
         caller[d].pc # "idle" => id'[caller[d].app] # NULL,
         caller[d].pc \in Staged => apps'[tempID(d)] = apps[tempID(d)],
         caller[d].pc \in Removing => \A k \in Keys : apps'[k] # caller[d].app
  PROVE  CallOK(d)'
<1>1. tempID(d)' = tempID(d)
  BY Zenon DEF tempID, deployTempID
<1> QED BY <1>1, Zenon DEF CallOK, Registered

\* A call at its first step, or at none.
LEMMA CallBegins ==
  ASSUME NEW c \in Callers,
         caller'[c].pc \in {"idle", "restartPoll", "resetWait", "deploySpawn"},
         caller'[c].pc # "idle" => id'[caller'[c].app] # NULL,
         caller'[c].pc = "deploySpawn" => caller'[c].key[2] = "live" /\ "Deploy" \in Ops
  PROVE  CallOK(c)'
<1>1. /\ caller'[c].pc \notin Staged /\ caller'[c].pc \notin Removing
      /\ caller'[c].pc \notin {"deniedWait", "stopFailed", "deployRollback"}
      /\ caller'[c].pc \in DeployPc => caller'[c].pc = "deploySpawn"
  BY Zenon DEF Staged, Removing, StopPc, DeployPc
<1> QED BY <1>1, Zenon DEF CallOK

\* A call that stops an App which is not registered.
LEMMA CallStops ==
  ASSUME NEW c \in Callers,
         caller'[c].pc \in {"stopTerm", "stopWait", "killWait", "cleanup"},
         id'[caller'[c].app] # NULL, \A k \in Keys : apps'[k] # caller'[c].app
  PROVE  CallOK(c)'
<1>1. /\ caller'[c].pc \notin Staged /\ caller'[c].pc \notin DeployPc
      /\ caller'[c].pc \notin {"deniedWait", "stopFailed", "deployRollback"}
  BY Zenon DEF Staged, DeployPc
<1> QED BY <1>1, Zenon DEF CallOK, Registered

\* A deploy whose v2 is where it was.
LEMMA CallStaged ==
  ASSUME NEW c \in Callers, CallOK(c), caller[c].pc \in Staged, caller'[c].pc \in Staged,
         SameLocals(c), UNCHANGED <<apps, id>>
  PROVE  CallOK(c)'
<1>1. tempID(c)' = tempID(c)
  BY Zenon DEF tempID, deployTempID, SameLocals
<1>2. /\ caller'[c].pc \notin Removing
      /\ caller'[c].pc \notin {"deniedWait", "stopFailed", "deployRollback"}
      /\ caller[c].pc # "idle" /\ caller[c].pc \in DeployPc
  BY Zenon DEF Staged, Removing, StopPc, DeployPc
<1> QED BY <1>1, <1>2, Zenon DEF CallOK, SameLocals

\* No temporary key comes to be shared when no deploy comes to have spawned.
LEMMA StagesStay ==
  ASSUME StagesApart,
         \A d \in Callers : caller'[d].pc \in Staged =>
           caller[d].pc \in Staged /\ caller'[d].key = caller[d].key
  PROVE  StagesApart'
<1>1. \A d \in Callers : caller'[d].pc \in Staged => tempID(d)' = tempID(d)
  BY Zenon DEF tempID, deployTempID
<1> QED BY <1>1, Zenon DEF StagesApart

\* A call moves, and the registry stays.
LEMMA MoveKeeps ==
  ASSUME RegistryInv, NEW c \in Callers, Only(c), UNCHANGED <<apps, id>>, CallOK(c)',
         caller'[c].pc \in Staged => caller[c].pc \in Staged /\ caller'[c].key = caller[c].key
  PROVE  RegistryInv'
<1>1. KeysOwn'
  BY Zenon DEF RegistryInv, KeysOwn
<1>2. StagesApart'
  BY StagesStay, Zenon DEF RegistryInv, Only
<1>3. ASSUME NEW d \in Callers PROVE CallOK(d)'
  <2>1. CASE d = c
    BY <2>1, Zenon
  <2>2. CASE d # c
    <3>1. CallOK(d) /\ caller'[d] = caller[d]
      BY <2>2, Zenon DEF RegistryInv, Only
    <3> QED BY <3>1, CallKept, Zenon DEF CallOK, Registered
  <2> QED BY <2>1, <2>2, Zenon
<1> QED BY <1>1, <1>2, <1>3, Zenon DEF RegistryInv

\* A call takes the App at key k out of the registry, to stop it.
Takes(c, k) ==
  /\ apps[k] # NULL /\ apps' = [apps EXCEPT ![k] = NULL] /\ UNCHANGED id
  /\ Only(c) /\ caller'[c].pc = "stopTerm" /\ caller'[c].app = apps[k]

\* It is then not registered under any key.
LEMMA TakenIsOut ==
  ASSUME TypeInv, RegistryInv, NEW k \in Keys, apps[k] # NULL, apps' = [apps EXCEPT ![k] = NULL]
  PROVE  /\ apps[k] \in Apps /\ id[apps[k]] = k
         /\ \A j \in Keys : apps'[j] = IF j = k THEN NULL ELSE apps[j]
         /\ \A j \in Keys : apps'[j] # apps[k]
<1>1. apps \in [Keys -> Apps \cup {NULL}]
  BY Zenon DEF TypeInv, TypeOK, RegistryType
<1>2. \A j \in Keys : apps'[j] = IF j = k THEN NULL ELSE apps[j]
  BY <1>1, Zenon
<1>3. apps[k] \in Apps /\ id[apps[k]] = k
  BY <1>1, Zenon DEF RegistryInv, KeysOwn
<1>4. \A j \in Keys : apps[j] = apps[k] => j = k
  BY <1>3, Zenon DEF RegistryInv, KeysOwn
<1> QED BY <1>2, <1>3, <1>4, Zenon

\* Taking an App out of the registry keeps the invariant, if its key is not the
\* temporary key of another deploy.
LEMMA TakeKeeps ==
  ASSUME TypeInv, RegistryInv, NEW c \in Callers, NEW k \in Keys, Takes(c, k),
         \A d \in Callers : d # c /\ caller[d].pc \in Staged => tempID(d) # k
  PROVE  RegistryInv'
<1>1. /\ apps[k] \in Apps /\ id[apps[k]] = k
      /\ \A j \in Keys : apps'[j] = IF j = k THEN NULL ELSE apps[j]
      /\ \A j \in Keys : apps'[j] # apps[k]
  BY TakenIsOut, Zenon DEF Takes
<1>2. KeysOwn'
  <2> SUFFICES ASSUME NEW j \in Keys, apps'[j] # NULL PROVE id'[apps'[j]] = j
    BY Zenon DEF KeysOwn
  <2>1. apps'[j] = apps[j] /\ id' = id
    BY <1>1, Zenon DEF Takes
  <2> QED BY <2>1, Zenon DEF RegistryInv, KeysOwn
<1>3. StagesApart'
  <2>1. caller'[c].pc \notin Staged
    BY Zenon DEF Takes, Staged
  <2> QED BY <2>1, StagesStay, Zenon DEF RegistryInv, Takes, Only
<1>4. k # NULL
  BY SupervisorAssumption, Zenon
<1>5. CallOK(c)'
  BY <1>1, <1>4, CallStops, Zenon DEF Takes
<1>6. ASSUME NEW d \in Callers, d # c PROVE CallOK(d)'
  <2>1. CallOK(d) /\ caller'[d] = caller[d]
    BY <1>6, Zenon DEF RegistryInv, Takes, Only
  <2>2. caller[d].pc # "idle" => id'[caller[d].app] # NULL
    BY <2>1, Zenon DEF CallOK, Takes
  <2>3. caller[d].pc \in Staged => apps'[tempID(d)] = apps[tempID(d)]
    <3>1. caller[d].pc \in Staged => tempID(d) \in Keys
      BY TempIsKey, Zenon
    <3> QED BY <1>1, <1>6, <3>1, Zenon
  <2>4. caller[d].pc \in Removing => \A j \in Keys : apps'[j] # caller[d].app
    <3>1. caller[d].pc \in Removing => caller[d].app \in Apps /\ caller[d].app # NULL
      BY RemovingIsBusy, CallHasApp, Zenon
    <3> QED BY <1>1, <2>1, <3>1, Zenon DEF CallOK, Registered
  <2> QED BY <2>1, <2>2, <2>3, <2>4, CallKept, Zenon
<1> QED BY <1>2, <1>3, <1>5, <1>6, Zenon DEF RegistryInv

\* Spawn puts a fresh App under a free key: nobody waited for that key to stay
\* free or works on that App.
Puts(k, a) ==
  /\ apps[k] = NULL /\ id[a] = NULL
  /\ apps' = [apps EXCEPT ![k] = a] /\ id' = [id EXCEPT ![a] = k]

\* A spawn keeps every App under its id and disturbs no call.
LEMMA PutKeeps ==
  ASSUME TypeInv, RegistryInv, NEW a \in Apps, NEW k \in Keys, Puts(k, a)
  PROVE  /\ KeysOwn'
         /\ \A d \in Callers : caller[d].pc \in Staged => tempID(d) # k
         /\ \A d \in Callers : caller'[d] = caller[d] => CallOK(d)'
<1>0. k # NULL /\ a # NULL
  BY SupervisorAssumption, Zenon
<1>1. /\ \A j \in Keys : apps'[j] = IF j = k THEN a ELSE apps[j]
      /\ \A b \in Apps : id'[b] = IF b = a THEN k ELSE id[b]
  BY Zenon DEF Puts, TypeInv, TypeOK, RegistryType
<1>2. \A j \in Keys : apps[j] # NULL => apps[j] \in Apps /\ id[apps[j]] = j /\ j # NULL
  BY SupervisorAssumption, Zenon DEF RegistryInv, KeysOwn, TypeInv, TypeOK, RegistryType
<1>3. KeysOwn'
  <2> SUFFICES ASSUME NEW j \in Keys, apps'[j] # NULL PROVE id'[apps'[j]] = j
    BY Zenon DEF KeysOwn
  <2>1. CASE j = k
    BY <1>1, <2>1, Zenon
  <2>2. CASE j # k
    <3>0. apps'[j] = apps[j]
      BY <1>1, <2>2, Zenon
    <3>1. apps'[j] = apps[j] /\ apps[j] \in Apps /\ id[apps[j]] = j /\ apps[j] # a
      BY <1>2, <3>0, Zenon DEF Puts
    <3> QED BY <1>1, <3>1, Zenon
  <2> QED BY <2>1, <2>2, Zenon
<1>4. ASSUME NEW d \in Callers, caller[d].pc \in Staged PROVE tempID(d) # k
  <2>1. apps[tempID(d)] = caller[d].v2 /\ caller[d].v2 \in Apps
    BY <1>4, StagedHasV2, Zenon
  <2> QED BY <2>1, SupervisorAssumption, Zenon DEF Puts
<1>5. ASSUME NEW d \in Callers, caller'[d] = caller[d] PROVE CallOK(d)'
  <2>0. CallOK(d)
    BY Zenon DEF RegistryInv
  <2>1. caller[d].pc # "idle" => caller[d].app \in Apps /\ caller[d].app # a
    BY <2>0, CallHasApp, Zenon DEF CallOK, Puts
  <2>2. caller[d].pc # "idle" => id'[caller[d].app] # NULL
    BY <1>1, <2>0, <2>1, Zenon DEF CallOK
  <2>3. caller[d].pc \in Staged => apps'[tempID(d)] = apps[tempID(d)]
    BY <1>1, <1>4, TempIsKey, Zenon
  <2>4. caller[d].pc \in Removing => \A j \in Keys : apps'[j] # caller[d].app
    BY <1>1, <2>0, <2>1, RemovingIsBusy, Zenon DEF CallOK, Registered
  <2> QED BY <1>5, <2>0, <2>2, <2>3, <2>4, CallKept, Zenon
<1> QED BY <1>3, <1>4, <1>5, Zenon

\* The swap takes v1 out, and v2 from the temporary key to the live one.
Swaps(c) ==
  /\ caller[c].pc = "deploySwap" /\ apps[caller[c].key] = caller[c].app
  /\ apps' = [apps EXCEPT ![tempID(c)] = NULL, ![caller[c].key] = caller[c].v2]
  /\ id' = [id EXCEPT ![caller[c].v2] = caller[c].key]
  /\ caller'[c].pc = "deployRoute" /\ SameLocals(c) /\ Only(c)

\* The registry around a swap: t is the temporary key, k the live one, v2 and
\* v1 the two Apps.
SwapView(c, t, k, v2, v1) ==
  /\ t = tempID(c) /\ k = caller[c].key /\ v2 = caller[c].v2 /\ v1 = caller[c].app
  /\ t \in Keys /\ k \in Keys /\ t # k /\ k[2] = "live" /\ "Deploy" \in Ops
  /\ v1 \in Apps /\ v2 \in Apps /\ v1 # v2
  /\ apps[t] = v2 /\ apps[k] = v1 /\ id[v2] = t /\ id[v1] = k
  /\ \A j \in Keys : apps'[j] = IF j = k THEN v2 ELSE IF j = t THEN NULL ELSE apps[j]
  /\ \A b \in Apps : id'[b] = IF b = v2 THEN k ELSE id[b]
  /\ \A j \in Keys : apps[j] # NULL => apps[j] \in Apps /\ id[apps[j]] = j
  /\ \A j \in Keys : apps'[j] # v1

\* An orderly registry looks like that around every swap.
LEMMA SwapViewed ==
  ASSUME TypeInv, RegistryInv, NEW c \in Callers, Swaps(c)
  PROVE  SwapView(c, tempID(c), caller[c].key, caller[c].v2, caller[c].app)
<1>1. caller[c].pc \in Staged /\ caller[c].pc \in DeployPc /\ caller[c].pc # "idle"
  BY Zenon DEF Swaps, Staged, DeployPc
<1>2. tempID(c) \in Keys /\ tempID(c)[2] = "deploying" /\ caller[c].key \in Keys
  BY <1>1, TempIsKey, Zenon
<1>3. CallOK(c)
  BY Zenon DEF RegistryInv
<1>4. caller[c].key[2] = "live" /\ "Deploy" \in Ops /\ apps[tempID(c)] = caller[c].v2
  BY <1>1, <1>3, Zenon DEF CallOK
<1>5. tempID(c) # caller[c].key
  BY <1>2, <1>4
<1>6. caller[c].v2 \in Apps /\ caller[c].app \in Apps
  BY <1>1, StagedHasV2, CallHasApp, Zenon
<1>7. apps \in [Keys -> Apps \cup {NULL}] /\ id \in [Apps -> Keys \cup {NULL}]
  BY Zenon DEF TypeInv, TypeOK, RegistryType
<1>8. \A j \in Keys : apps[j] # NULL => apps[j] \in Apps /\ id[apps[j]] = j
  BY <1>7, Zenon DEF RegistryInv, KeysOwn
<1>9. id[caller[c].v2] = tempID(c) /\ id[caller[c].app] = caller[c].key
  BY <1>2, <1>4, <1>6, <1>8, SupervisorAssumption, Zenon DEF Swaps
<1>10. \A j \in Keys : apps'[j] = IF j = caller[c].key THEN caller[c].v2
                                  ELSE IF j = tempID(c) THEN NULL ELSE apps[j]
  <2> HIDE DEF tempID
  <2> QED BY <1>2, <1>7, Zenon DEF Swaps
<1>11. \A b \in Apps : id'[b] = IF b = caller[c].v2 THEN caller[c].key ELSE id[b]
  BY <1>7, Zenon DEF Swaps
<1>12. caller[c].app # caller[c].v2
  BY <1>5, <1>9, Zenon
<1>13. ASSUME NEW j \in Keys PROVE apps'[j] # caller[c].app
  <2>1. caller[c].app # NULL
    BY <1>6, SupervisorAssumption, Zenon
  <2>2. j # caller[c].key => apps[j] # caller[c].app
    BY <1>8, <1>9, <2>1, Zenon
  <2>3. \/ apps'[j] = caller[c].v2 \/ apps'[j] = NULL
        \/ j # caller[c].key /\ apps'[j] = apps[j]
    BY <1>10, Zenon
  <2> QED BY <1>12, <2>1, <2>2, <2>3, Zenon
<1> QED
  BY <1>2, <1>4, <1>5, <1>6, <1>8, <1>9, <1>10, <1>11, <1>12, <1>13, Zenon DEF SwapView, Swaps

\* The swap keeps the invariant: v2 gets the key it is registered under, v1 is
\* in the hands of its call.
LEMMA SwapKeeps ==
  ASSUME TypeInv, RegistryInv, NEW c \in Callers, Swaps(c)
  PROVE  RegistryInv'
<1>1. PICK t, k, v2, v1 : SwapView(c, t, k, v2, v1)
  BY SwapViewed, Zenon
<1>2. KeysOwn'
  <2> SUFFICES ASSUME NEW j \in Keys, apps'[j] # NULL PROVE id'[apps'[j]] = j
    BY Zenon DEF KeysOwn
  <2>1. CASE j = k
    BY <1>1, <2>1, Zenon DEF SwapView
  <2>2. CASE j # k
    <3>1. apps'[j] = apps[j] /\ apps[j] \in Apps /\ id[apps[j]] = j /\ j # t
      BY <1>1, <2>2, Zenon DEF SwapView
    <3>2. apps[j] # v2
      BY <1>1, <3>1, Zenon DEF SwapView
    <3> QED BY <1>1, <3>1, <3>2, Zenon DEF SwapView
  <2> QED BY <2>1, <2>2, Zenon
<1>3. StagesApart'
  <2>1. caller'[c].pc \notin Staged
    BY Zenon DEF Swaps, Staged
  <2>2. StagesApart
    BY Zenon DEF RegistryInv
  <2> QED BY <2>1, <2>2, StagesStay, Zenon DEF Swaps, Only
<1>4. \A b \in Apps : id[b] # NULL => id'[b] # NULL
  <2>1. k # NULL
    BY <1>1, SupervisorAssumption, Zenon DEF SwapView
  <2> QED BY <1>1, <2>1, Zenon DEF SwapView
<1>5. CallOK(c)'
  <2>1. /\ caller'[c].pc \notin Staged
        /\ caller'[c].pc \notin {"deniedWait", "stopFailed", "deployRollback"}
    BY Zenon DEF Swaps, Staged
  <2>2. caller'[c].app = v1 /\ caller'[c].key = k
    BY <1>1, Zenon DEF Swaps, SameLocals, SwapView
  <2>3. id'[v1] # NULL /\ k[2] = "live" /\ "Deploy" \in Ops /\ \A j \in Keys : apps'[j] # v1
    <3>1. k # NULL
      BY <1>1, SupervisorAssumption, Zenon DEF SwapView
    <3> QED BY <1>1, <3>1, Zenon DEF SwapView
  <2> QED BY <2>1, <2>2, <2>3, Zenon DEF CallOK, Registered
<1>6. ASSUME NEW d \in Callers, d # c PROVE CallOK(d)'
  <2>1. CallOK(d) /\ caller'[d] = caller[d]
    BY <1>6, Zenon DEF RegistryInv, Swaps, Only
  <2>2. caller[d].pc # "idle" => id'[caller[d].app] # NULL
    BY <1>4, <2>1, CallHasApp, Zenon DEF CallOK
  <2>3. ASSUME caller[d].pc \in Staged PROVE apps'[tempID(d)] = apps[tempID(d)]
    <3>1. tempID(d) \in Keys /\ tempID(d)[2] = "deploying"
      BY <2>3, TempIsKey, Zenon
    <3>2. tempID(d) # k
      BY <1>1, <3>1 DEF SwapView
    <3>3. caller[c].pc \in Staged
      BY Zenon DEF Swaps, Staged
    <3>4. tempID(d) # t
      <4>1. StagesApart
        BY Zenon DEF RegistryInv
      <4>2. tempID(d) # tempID(c)
        BY <1>6, <2>3, <3>3, <4>1, Zenon DEF StagesApart
      <4> QED BY <1>1, <4>2, Zenon DEF SwapView
    <3> QED BY <1>1, <3>1, <3>2, <3>4, Zenon DEF SwapView
  <2>4. ASSUME caller[d].pc \in Removing, NEW j \in Keys PROVE apps'[j] # caller[d].app
    <3>1. caller[d].app \in Apps /\ caller[d].app # NULL
      BY <2>4, RemovingIsBusy, CallHasApp, Zenon
    <3>2. \A i \in Keys : apps[i] # caller[d].app
      BY <2>1, <2>4, Zenon DEF CallOK, Registered
    <3> QED BY <1>1, <3>1, <3>2, Zenon DEF SwapView
  <2> QED BY <2>1, <2>2, <2>3, <2>4, CallKept, Zenon
<1> QED BY <1>2, <1>3, <1>5, <1>6, Zenon DEF RegistryInv

\* A failed restart gives up the slot of its App; there is then no deploy.
LEMMA GiveUpKeeps ==
  ASSUME TypeInv, RegistryInv, NEW k \in Keys, apps' = [apps EXCEPT ![k] = NULL],
         UNCHANGED <<id, caller>>, "Deploy" \notin Ops
  PROVE  RegistryInv'
<1>1. \A j \in Keys : apps'[j] = IF j = k THEN NULL ELSE apps[j]
  BY Zenon DEF TypeInv, TypeOK, RegistryType
<1>2. KeysOwn'
  BY <1>1, Zenon DEF RegistryInv, KeysOwn
<1>3. StagesApart'
  BY StagesStay, Zenon DEF RegistryInv
<1>4. ASSUME NEW d \in Callers PROVE CallOK(d)'
  <2>1. CallOK(d) /\ caller[d].pc \notin Staged
    BY StagedIsDeploy, Zenon DEF RegistryInv, CallOK
  <2>2. caller[d].pc \in Removing => caller[d].app # NULL
    BY RemovingIsBusy, CallHasApp, Zenon
  <2>3. caller[d].pc \in Removing => \A j \in Keys : apps'[j] # caller[d].app
    BY <1>1, <2>1, <2>2, Zenon DEF CallOK, Registered
  <2> QED BY <2>1, <2>3, CallKept, Zenon DEF CallOK
<1> QED BY <1>2, <1>3, <1>4, Zenon DEF RegistryInv

\* No call moves and the registry stays.
LEMMA StillKeeps ==
  ASSUME RegistryInv, UNCHANGED <<apps, id, caller>>
  PROVE  RegistryInv'
<1>1. \A c \in Callers : CallOK(c)'
  BY CallKept, Zenon DEF RegistryInv, CallOK, Registered
<1>2. StagesApart'
  BY StagesStay, Zenon DEF RegistryInv
<1>3. KeysOwn'
  BY Zenon DEF RegistryInv, KeysOwn
<1> QED BY <1>1, <1>2, <1>3, Zenon DEF RegistryInv

\* The first step of a call reads its App from the registry.
Begun(c, i) ==
  /\ apps[Key(i)] # NULL /\ UNCHANGED <<apps, id>>
  /\ Only(c) /\ caller'[c].app = apps[Key(i)]
  /\ caller'[c].pc \in {"restartPoll", "resetWait", "deploySpawn"}
  /\ caller'[c].pc = "resetWait" => "Reset" \in Ops
  /\ caller'[c].pc = "deploySpawn" => caller'[c].key = Key(i) /\ "Deploy" \in Ops

\* The three calls that read the registry first begin like that.
LEMMA CallBegun ==
  ASSUME TypeInv, NEW c \in Callers, NEW i \in Ids,
         RestartSignal(c, i) \/ ResetBegin(c, i) \/ DeployBegin(c, i)
  PROVE  Begun(c, i)
<1> DEFINE a == apps[Key(i)]
<1>1. a # NULL /\ UNCHANGED <<apps, id>>
  BY Zenon DEF RestartSignal, ResetBegin, DeployBegin, appVars
<1>2. CallerType
  BY Zenon DEF TypeInv, TypeOK
<1>3. CASE RestartSignal(c, i)
  <2> DEFINE x == [Idle EXCEPT !.pc = "restartPoll", !.app = a, !.seen = pid[a]]
  <2>1. x.pc = "restartPoll" /\ x.app = a
    BY DEF Idle
  <2>2. caller' = [caller EXCEPT ![c] = x]
    BY <1>3, Zenon DEF RestartSignal
  <2> HIDE DEF x
  <2>3. caller'[c] = x /\ Only(c)
    BY <1>2, <2>2, CallMoves, Zenon
  <2> QED BY <1>1, <2>1, <2>3, Zenon DEF Begun
<1>4. CASE ResetBegin(c, i)
  <2> DEFINE x == [Idle EXCEPT !.pc = "resetWait", !.app = a, !.key = Key(i), !.seen = done[a]]
  <2>1. x.pc = "resetWait" /\ x.app = a
    BY DEF Idle
  <2>2. caller' = [caller EXCEPT ![c] = x] /\ "Reset" \in Ops
    BY <1>4, Zenon DEF ResetBegin
  <2> HIDE DEF x
  <2>3. caller'[c] = x /\ Only(c)
    BY <1>2, <2>2, CallMoves, Zenon
  <2> QED BY <1>1, <2>1, <2>2, <2>3, Zenon DEF Begun
<1>5. CASE DeployBegin(c, i)
  <2> DEFINE x == [Idle EXCEPT !.pc = "deploySpawn", !.app = a, !.key = Key(i)]
  <2>1. x.pc = "deploySpawn" /\ x.app = a /\ x.key = Key(i)
    BY DEF Idle
  <2>2. caller' = [caller EXCEPT ![c] = x] /\ "Deploy" \in Ops
    BY <1>5, Zenon DEF DeployBegin
  <2> HIDE DEF x
  <2>3. caller'[c] = x /\ Only(c)
    BY <1>2, <2>2, CallMoves, Zenon
  <2> QED BY <1>1, <2>1, <2>2, <2>3, Zenon DEF Begun
<1> QED BY <1>3, <1>4, <1>5, Zenon

\* The first step of a call keeps the invariant.
LEMMA BeginKeeps ==
  ASSUME TypeInv, RegistryInv, NEW c \in Callers, NEW i \in Ids,
         RestartSignal(c, i) \/ ResetBegin(c, i) \/ DeployBegin(c, i)
  PROVE  RegistryInv'
<1>1. Key(i) \in Keys /\ Key(i)[2] = "live"
  BY DEF Key, Keys
<1>2. Begun(c, i)
  BY CallBegun, Zenon
<1>3. id[apps[Key(i)]] # NULL
  BY <1>1, <1>2, SupervisorAssumption, Zenon DEF RegistryInv, KeysOwn, Begun
<1>4. CallOK(c)'
  <2>1. id'[caller'[c].app] # NULL
    BY <1>2, <1>3, Zenon DEF Begun
  <2>2. caller'[c].pc = "deploySpawn" => caller'[c].key[2] = "live" /\ "Deploy" \in Ops
    BY <1>1, <1>2, Zenon DEF Begun
  <2>3. caller'[c].pc \in {"idle", "restartPoll", "resetWait", "deploySpawn"}
    BY <1>2, Zenon DEF Begun
  <2> QED BY <2>1, <2>2, <2>3, CallBegins, Zenon
<1>5. caller'[c].pc \notin Staged
  BY <1>2, Zenon DEF Staged, Begun
<1> QED BY <1>2, <1>4, <1>5, MoveKeeps, Zenon DEF Begun

\* The end of a call.
LEMMA EndKeeps ==
  ASSUME TypeInv, RegistryInv, NEW c \in Callers, Return(c), UNCHANGED <<apps, id>>
  PROVE  RegistryInv'
<1>1. caller'[c].pc = "idle" /\ Only(c)
  BY CallReturns, Zenon DEF TypeInv, TypeOK
<1>2. CallOK(c)'
  BY <1>1, CallBegins, Zenon
<1>3. caller'[c].pc \notin Staged
  BY <1>1, Zenon DEF Staged
<1> QED BY <1>1, <1>2, <1>3, MoveKeeps, Zenon

\* The steps of a stop whose signals are delivered.
LEMMA StopMoves ==
  ASSUME TypeInv, CanKill, NEW c \in Callers, StopTerm(c) \/ StopDone(c) \/ StopKill(c)
  PROVE  /\ caller[c].pc \in Removing /\ caller'[c].pc \in {"stopWait", "killWait", "cleanup"}
         /\ caller'[c].app = caller[c].app /\ Only(c)
<1>1. CallerType
  BY Zenon DEF TypeInv, TypeOK
<1>2. caller[c].pc \in Removing
  BY Zenon DEF StopTerm, StopDone, StopKill, Removing, StopPc
<1>3. CASE StopTerm(c)
  BY <1>1, <1>2, <1>3, Zenon DEF StopTerm, CallerType, Only
<1>4. CASE StopDone(c)
  BY <1>1, <1>2, <1>4, CallGoes, Zenon DEF StopDone, SameLocals
<1>5. CASE StopKill(c)
  <2>1. Goto(c, "killWait")
    BY <1>5, Zenon DEF StopKill, AfterKill, signalFailed
  <2> QED BY <1>1, <1>2, <2>1, CallGoes, Zenon DEF SameLocals
<1> QED BY <1>3, <1>4, <1>5, Zenon

\* The steps of a stop keep the invariant.
LEMMA StopKeeps ==
  ASSUME TypeInv, RegistryInv, CanKill, NEW c \in Callers,
         StopTerm(c) \/ StopDone(c) \/ StopKill(c)
  PROVE  RegistryInv'
<1>1. UNCHANGED <<apps, id>>
  BY Zenon DEF StopTerm, StopDone, StopKill, appVars
<1>2. /\ caller[c].pc \in Removing /\ caller'[c].pc \in {"stopWait", "killWait", "cleanup"}
      /\ caller'[c].app = caller[c].app /\ Only(c)
  BY StopMoves, Zenon
<1>3. id[caller[c].app] # NULL /\ ~Registered(caller[c].app)
  BY <1>2, RemovingIsBusy, Zenon DEF RegistryInv, CallOK
<1>4. CallOK(c)'
  BY <1>1, <1>2, <1>3, CallStops, Zenon DEF Registered
<1>5. caller'[c].pc \notin Staged
  BY <1>2, Zenon DEF Staged
<1> QED BY <1>1, <1>2, <1>4, <1>5, MoveKeeps, Zenon

\* The start of a stop.
LEMMA StopBegins ==
  ASSUME TypeInv, NEW c \in Callers, NEW k \in Keys, StopBegin(c, k)
  PROVE  Takes(c, k)
<1> DEFINE x == [Idle EXCEPT !.pc = "stopTerm", !.app = apps[k], !.key = k]
<1>1. x.pc = "stopTerm" /\ x.app = apps[k]
  BY DEF Idle
<1>2. caller' = [caller EXCEPT ![c] = x]
  BY Zenon DEF StopBegin
<1> HIDE DEF x
<1>3. caller'[c] = x /\ Only(c)
  BY <1>2, CallMoves, Zenon DEF TypeInv, TypeOK
<1> QED BY <1>1, <1>3, Zenon DEF StopBegin, Takes

\* The start of a stop keeps the invariant: it takes a live key, which is no
\* deploy's temporary key.
LEMMA StopBeginKeeps ==
  ASSUME TypeInv, RegistryInv, Orderly, NEW c \in Callers, NEW k \in Keys, StopBegin(c, k)
  PROVE  RegistryInv'
<1>1. Takes(c, k)
  BY StopBegins
<1>2. ASSUME NEW d \in Callers, caller[d].pc \in Staged PROVE tempID(d) # k
  <2>1. "Deploy" \in Ops
    BY <1>2, StagedIsDeploy, Zenon DEF RegistryInv, CallOK
  <2>2. k[2] = "live"
    BY <2>1, Zenon DEF StopBegin, Orderly
  <2>3. tempID(d)[2] = "deploying"
    BY <1>2, TempIsKey, Zenon
  <2> QED BY <2>2, <2>3
<1> QED BY <1>1, <1>2, TakeKeeps, Zenon

\* The abort of a deploy stops its own v2.
LEMMA AbortTakes ==
  ASSUME TypeInv, RegistryInv, NEW c \in Callers, DeployAbort(c)
  PROVE  Takes(c, tempID(c)) /\ tempID(c) \in Keys
<1>1. caller[c].pc \in Staged
  BY Zenon DEF DeployAbort, Staged
<1>2. apps[tempID(c)] # NULL /\ tempID(c) \in Keys
  BY <1>1, StagedHasV2, TempIsKey, Zenon
<1> DEFINE x == [Idle EXCEPT !.pc = "stopTerm", !.app = apps[tempID(c)], !.key = tempID(c)]
<1>3. x.pc = "stopTerm" /\ x.app = apps[tempID(c)]
  BY DEF Idle
<1>4. caller' = [caller EXCEPT ![c] = x]
  BY <1>2, Zenon DEF DeployAbort
<1> HIDE DEF x
<1>5. caller'[c] = x /\ Only(c)
  BY <1>4, CallMoves, Zenon DEF TypeInv, TypeOK
<1> QED BY <1>2, <1>3, <1>5, Zenon DEF DeployAbort, Takes

\* The abort of a deploy keeps the invariant: no other deploy has its key.
LEMMA AbortKeeps ==
  ASSUME TypeInv, RegistryInv, NEW c \in Callers, DeployAbort(c)
  PROVE  RegistryInv'
<1>1. Takes(c, tempID(c)) /\ tempID(c) \in Keys
  BY AbortTakes, Zenon
<1>2. caller[c].pc \in Staged
  BY Zenon DEF DeployAbort, Staged
<1>3. \A d \in Callers : d # c /\ caller[d].pc \in Staged => tempID(d) # tempID(c)
  BY <1>2, Zenon DEF RegistryInv, StagesApart
<1> QED BY <1>1, <1>3, TakeKeeps, Zenon

\* The two spawns.
LEMMA SpawnKeeps ==
  ASSUME TypeInv, RegistryInv, NEW a \in Apps, NEW i \in Ids, Spawn(i, a)
  PROVE  RegistryInv'
<1>1. Key(i) \in Keys /\ Puts(Key(i), a) /\ UNCHANGED caller
  BY Zenon DEF Key, Keys, Spawn, spawnUnchecked, SlotFree, Puts
<1>2. KeysOwn' /\ \A d \in Callers : CallOK(d)'
  BY <1>1, PutKeeps, Zenon
<1>3. StagesApart'
  BY <1>1, StagesStay, Zenon DEF RegistryInv
<1> QED BY <1>2, <1>3, Zenon DEF RegistryInv

\* The spawn of v2 keeps the invariant: a free temporary key is no deploy's.
LEMMA DeploySpawnKeeps ==
  ASSUME TypeInv, RegistryInv, NEW c \in Callers, NEW a \in Apps, DeploySpawn(c, a)
  PROVE  RegistryInv'
<1>1. caller[c].pc \in DeployPc /\ caller[c].pc # "idle"
  BY Zenon DEF DeploySpawn, DeployPc
<1>2. tempID(c) \in Keys /\ Puts(tempID(c), a)
  BY <1>1, TempIsKey, Zenon DEF DeploySpawn, spawnUnchecked, SlotFree, Puts
<1>3. /\ caller'[c].pc = "deployHealth" /\ caller'[c].v2 = a
      /\ caller'[c].app = caller[c].app /\ caller'[c].key = caller[c].key /\ Only(c)
  BY Zenon DEF DeploySpawn, TypeInv, TypeOK, CallerType, Only
<1>4. /\ KeysOwn'
      /\ \A d \in Callers : caller[d].pc \in Staged => tempID(d) # tempID(c)
      /\ \A d \in Callers : caller'[d] = caller[d] => CallOK(d)'
  BY <1>2, PutKeeps, Zenon
<1>5. tempID(c)' = tempID(c) /\ \A d \in Callers : d # c => tempID(d)' = tempID(d)
  BY <1>3, Zenon DEF tempID, deployTempID, Only
<1>6. StagesApart'
  <2> SUFFICES ASSUME NEW d \in Callers, NEW f \in Callers, d # f,
                      caller'[d].pc \in Staged, caller'[f].pc \in Staged
               PROVE  tempID(d)' # tempID(f)'
    BY Zenon DEF StagesApart
  <2>1. \A g \in Callers : g # c => caller'[g] = caller[g]
    BY <1>3, Zenon DEF Only
  <2>2. CASE d = c
    BY <1>4, <1>5, <2>1, <2>2, Zenon
  <2>3. CASE f = c
    BY <1>4, <1>5, <2>1, <2>3, Zenon
  <2>4. CASE d # c /\ f # c
    <3>1. caller[d].pc \in Staged /\ caller[f].pc \in Staged
      BY <2>1, <2>4, Zenon
    <3>2. StagesApart
      BY Zenon DEF RegistryInv
    <3>3. tempID(d) # tempID(f)
      BY <3>1, <3>2, Zenon DEF StagesApart
    <3> QED BY <1>5, <2>4, <3>3, Zenon
  <2> QED BY <2>2, <2>3, <2>4, Zenon
<1>7. CallOK(c)'
  <2>0. CallOK(c) /\ caller[c].app \in Apps
    BY <1>1, CallHasApp, Zenon DEF RegistryInv
  <2>1. /\ \A b \in Apps : id'[b] = IF b = a THEN tempID(c) ELSE id[b]
        /\ apps'[tempID(c)] = a
    BY <1>2, Zenon DEF Puts, TypeInv, TypeOK, RegistryType
  <2>2. id'[caller'[c].app] # NULL
    BY <1>1, <1>2, <1>3, <2>0, <2>1, Zenon DEF CallOK, Puts
  <2>3. caller'[c].key[2] = "live" /\ "Deploy" \in Ops
    BY <1>1, <1>3, <2>0, Zenon DEF CallOK
  <2>4. apps'[tempID(c)'] = caller'[c].v2
    BY <1>3, <1>5, <2>1, Zenon
  <2>5. /\ caller'[c].pc \notin Removing
        /\ caller'[c].pc \notin {"deniedWait", "stopFailed", "deployRollback"}
    BY <1>3, Zenon DEF Removing, StopPc
  <2> QED BY <2>2, <2>3, <2>4, <2>5, Zenon DEF CallOK
<1>8. ASSUME NEW d \in Callers, d # c PROVE CallOK(d)'
  <2>1. caller'[d] = caller[d]
    BY <1>3, <1>8, Zenon DEF Only
  <2> QED BY <1>4, <2>1, Zenon
<1> QED BY <1>4, <1>6, <1>7, <1>8, Zenon DEF RegistryInv

\* A bare stopApp.
LEMMA StopsApp ==
  ASSUME CallerType, NEW c \in Callers, NEW a, stopApp(c, a)
  PROVE  caller'[c].pc = "stopTerm" /\ caller'[c].app = a /\ Only(c)
<1> DEFINE x == [Idle EXCEPT !.pc = "stopTerm", !.app = a]
<1>1. x.pc = "stopTerm" /\ x.app = a
  BY DEF Idle
<1>2. caller' = [caller EXCEPT ![c] = x]
  BY Zenon DEF stopApp
<1> HIDE DEF x
<1> QED BY <1>1, <1>2, CallMoves, Zenon

\* The swap.
LEMMA SwapSwaps ==
  ASSUME TypeInv, NEW c \in Callers, DeploySwap(c), V1Registered(c)
  PROVE  Swaps(c)
<1>1. Goto(c, "deployRoute") /\ CallerType
  BY Zenon DEF DeploySwap, TypeInv, TypeOK
<1>2. caller'[c].pc = "deployRoute" /\ SameLocals(c) /\ Only(c)
  BY <1>1, CallGoes, Zenon
<1> QED BY <1>2, Zenon DEF DeploySwap, Swaps, V1Registered, rename

\* The other steps of a deploy.
LEMMA DeployKeeps ==
  ASSUME TypeInv, RegistryInv, Orderly, NEW c \in Callers,
         DeployHealth(c) \/ DeploySwap(c) \/ DeployRoute(c)
  PROVE  RegistryInv'
<1>0. CallerType /\ CallOK(c)
  BY Zenon DEF TypeInv, TypeOK, RegistryInv
<1>1. ASSUME caller[c].pc \in Staged, NEW pc \in {"deploySwap", "deployAbort"}, Goto(c, pc),
             UNCHANGED <<apps, id>>
      PROVE  RegistryInv'
  <2>1. caller'[c].pc = pc /\ SameLocals(c) /\ Only(c)
    BY <1>0, <1>1, CallGoes, Zenon
  <2>2. caller'[c].pc \in Staged
    BY <1>1, <2>1, Zenon DEF Staged
  <2>3. CallOK(c)'
    BY <1>0, <1>1, <2>1, <2>2, CallStaged, Zenon
  <2> QED BY <1>1, <2>1, <2>2, <2>3, MoveKeeps, Zenon DEF SameLocals
<1>2. CASE DeployHealth(c)
  BY <1>1, <1>2, Zenon DEF DeployHealth, appVars, Staged
<1>3. CASE DeploySwap(c) /\ ~V1Registered(c)
  BY <1>1, <1>3, Zenon DEF DeploySwap, Staged
<1>4. CASE DeploySwap(c) /\ V1Registered(c)
  BY <1>4, SwapSwaps, SwapKeeps, Zenon
<1>5. CASE DeployRoute(c)
  <2>0. caller[c].pc \in Removing /\ caller[c].pc \in DeployPc /\ caller[c].pc # "idle"
    BY <1>5, Zenon DEF DeployRoute, Removing, DeployPc
  <2>1. stopApp(c, caller[c].app) /\ UNCHANGED <<apps, id>>
    BY <1>0, <1>5, <2>0, Zenon DEF DeployRoute, Orderly, CallOK
  <2>2. caller'[c].pc = "stopTerm" /\ caller'[c].app = caller[c].app /\ Only(c)
    BY <1>0, <2>1, StopsApp, Zenon
  <2>3. id'[caller'[c].app] # NULL /\ \A k \in Keys : apps'[k] # caller'[c].app
    BY <1>0, <2>0, <2>1, <2>2, Zenon DEF CallOK, Registered
  <2>4. CallOK(c)'
    BY <2>2, <2>3, CallStops, Zenon
  <2>5. caller'[c].pc \notin Staged
    BY <2>2, Zenon DEF Staged
  <2> QED BY <2>1, <2>2, <2>4, <2>5, MoveKeeps, Zenon
<1> QED BY <1>2, <1>3, <1>4, <1>5, Zenon

\* The goroutines leave the registry alone, except after a failed restart.
LEMMA WatchKeeps ==
  ASSUME TypeInv, RegistryInv, Orderly, NEW a \in Apps, NEW e \in Epochs,
         Exit(a) \/ WatchStep(a, e) \/ ProbeStep(a, e)
  PROVE  RegistryInv'
<1>1. UNCHANGED <<id, caller>>
  BY Zenon DEF Exit, WatchStep, WatchReap, WatchCrashed, WatchRecord, WatchRestart, WatchStopped,
     WatchClose, WatchRelease, ProbeStep, ProbeExit, ProbeTick, ProbePass, ProbeRecover,
     ProbeFail, appVars
<1>2. CASE UNCHANGED apps
  BY <1>1, <1>2, StillKeeps, Zenon
<1>3. CASE WatchRestart(a, e) /\ apps' # apps
  <2>1. StillTracked(a) /\ startFails(a) /\ apps' = [apps EXCEPT ![id[a]] = NULL]
    BY <1>3, Zenon DEF WatchRestart
  <2>2. id[a] \in Keys
    BY <2>1, Zenon DEF StillTracked, isTracked, TypeInv, TypeOK, RegistryType
  <2>3. "Deploy" \notin Ops
    BY <2>1, Zenon DEF startFails, Orderly
  <2> QED BY <1>1, <2>1, <2>2, <2>3, GiveUpKeeps, Zenon
<1>4. CASE ~WatchRestart(a, e)
  <2>1. UNCHANGED apps
    BY <1>4, Zenon DEF Exit, WatchStep, WatchReap, WatchCrashed, WatchRecord, WatchStopped,
       WatchClose, WatchRelease, ProbeStep, ProbeExit, ProbeTick, ProbePass, ProbeRecover,
       ProbeFail, appVars
  <2> QED BY <1>2, <2>1, Zenon
<1> QED BY <1>2, <1>3, <1>4, Zenon

\* Nothing is registered and no call is under way initially.
LEMMA InitRegistry == Init => RegistryInv
<1> SUFFICES ASSUME Init PROVE RegistryInv
  OBVIOUS
<1>1. \A c \in Callers : caller[c].pc = "idle"
  BY Zenon DEF Init, Idle
<1>2. KeysOwn
  BY Zenon DEF Init, KeysOwn
<1>3. StagesApart
  BY <1>1, StagedIsDeploy, Zenon DEF StagesApart
<1>4. ASSUME NEW c \in Callers PROVE CallOK(c)
  BY <1>1, Zenon DEF CallOK, DeployPc, Staged, Removing, StopPc
<1> QED BY <1>2, <1>3, <1>4, Zenon DEF RegistryInv

\* Every step keeps the registry.
LEMMA NextRegistry ==
  ASSUME Orderly
  PROVE  TypeInv /\ RegistryInv /\ [Next]_vars => RegistryInv'
<1> SUFFICES ASSUME TypeInv, RegistryInv, [Next]_vars PROVE RegistryInv'
  BY Zenon
<1>1. CASE UNCHANGED vars
  BY <1>1, StillKeeps, Zenon DEF vars, appVars
<1>2. ASSUME NEW a \in Apps, Exit(a) PROVE RegistryInv'
  <2>1. 0 \in Epochs
    BY SupervisorAssumption DEF Epochs
  <2> QED BY <1>2, <2>1, WatchKeeps, Zenon
<1>3. ASSUME NEW a \in Apps, NEW e \in Epochs, WatchStep(a, e) \/ ProbeStep(a, e)
      PROVE  RegistryInv'
  BY <1>3, WatchKeeps, Zenon
<1>4. ASSUME NEW i \in Ids, NEW a \in Apps, Spawn(i, a) PROVE RegistryInv'
  BY <1>4, SpawnKeeps, Zenon
<1>5. ASSUME NEW c \in Callers, NEW k \in Keys, StopBegin(c, k) PROVE RegistryInv'
  BY <1>5, StopBeginKeeps, Zenon
<1>6. ASSUME NEW c \in Callers, NEW i \in Ids,
             RestartSignal(c, i) \/ ResetBegin(c, i) \/ DeployBegin(c, i)
      PROVE  RegistryInv'
  BY <1>6, BeginKeeps, Zenon
<1>7. ASSUME NEW c \in Callers, CallerStep(c) PROVE RegistryInv'
  <2>1. CASE RestartReturn(c) \/ ResetResume(c) \/ StopCleanup(c) \/ DeployRefused(c)
    <3>1. Return(c) /\ UNCHANGED <<apps, id>>
      BY <2>1, Zenon DEF RestartReturn, ResetResume, StopCleanup, DeployRefused, appVars
    <3> QED BY <3>1, EndKeeps, Zenon
  <2>2. CASE StopTerm(c) \/ StopDone(c) \/ StopKill(c)
    BY <2>2, StopKeeps, Zenon DEF Orderly
  <2>3. CASE StopDenied(c) \/ StopFailed(c) \/ DeployRollback(c)
    BY <2>3, Zenon DEF StopDenied, StopFailed, DeployRollback, RegistryInv, CallOK
  <2>4. CASE \E a \in Apps : DeploySpawn(c, a)
    BY <2>4, DeploySpawnKeeps, Zenon
  <2>5. CASE DeployHealth(c) \/ DeploySwap(c) \/ DeployRoute(c)
    BY <2>5, DeployKeeps, Zenon
  <2>6. CASE DeployAbort(c)
    BY <2>6, AbortKeeps, Zenon
  <2> QED BY <1>7, <2>1, <2>2, <2>3, <2>4, <2>5, <2>6, Zenon DEF CallerStep
<1> QED BY <1>1, <1>2, <1>3, <1>4, <1>5, <1>6, <1>7, Zenon DEF Next

\* Every App is registered under its own id, no two deploys hold the same
\* temporary key, and every call in flight is right about the App it works on:
\* what it stops nobody can reach through the registry, what it deploys is
\* still where it put it.
THEOREM RegistryInvariance == Orderly => (Spec => []RegistryInv)
<1> SUFFICES ASSUME Orderly PROVE Spec => []RegistryInv
  OBVIOUS
<1>1. TypeInv /\ RegistryInv /\ [Next]_vars => RegistryInv'
  BY NextRegistry
<1> QED BY <1>1, InitRegistry, TypeInvariance, PTL DEF Spec

\* A deploy swaps in its own v2: that of no other deploy, and nothing spawned
\* under the temporary key by anyone else.
THEOREM SwapsOwnV2 == Orderly => (Spec => SwapRenamesOwnV2)
<1> SUFFICES ASSUME Orderly PROVE Spec => SwapRenamesOwnV2
  OBVIOUS
<1> DEFINE A == \A c \in Callers :
                  caller[c].pc = "deploySwap" /\ caller'[c].pc = "deployRoute"
                    => apps[tempID(c)] = caller[c].v2
<1>1. RegistryInv => [A]_vars
  <2>1. RegistryInv => A
    BY Zenon DEF RegistryInv, CallOK, Staged
  <2> QED BY <2>1, Zenon
<1> QED BY <1>1, RegistryInvariance, PTL DEF SwapRenamesOwnV2

-----------------------------------------------------------------------------
(* A process that runs is waited for, in the isolation it was started in *)

\* Started and not waited for yet.
Live(a) == Up(a) \/ proc[a] = "zombie"
Isolated(a) == "isolation" \in held[a]

\* A process that was not waited for has a watch goroutine in Wait.
LiveInv == \A a \in Apps : Live(a) => \E e \in Epochs : watch[a][e] = "wait"

\* The states of a process.
LEMMA LiveStates ==
  ASSUME TypeInv, NEW a \in Apps
  PROVE  ~Live(a) <=> proc[a] \in {"none", "reaped"}
BY DEF Live, Up, TypeInv, TypeOK, ProcessType, Proc

\* The steps of watch: only Wait ends the life of a process, of its own App,
\* and only the restart begins one; nobody enters the loop.
WatchMoved(a, e) ==
  /\ \A b \in Apps : b # a => proc'[b] = proc[b]
  /\ \A b \in Apps, f \in Epochs : b # a \/ f # e => watch'[b][f] = watch[b][f]
  /\ watch[a][e] = "wait" => proc'[a] = "reaped"
  /\ proc'[a] = proc[a] \/ proc'[a] = "reaped" \/ watch'[a][e] = "wait"
  /\ watch'[a][e] \in InLoop => watch[a][e] \in InLoop

\* Every step of watch is of that kind.
LEMMA WatchLives ==
  ASSUME TypeInv, NEW a \in Apps, NEW e \in Epochs, WatchStep(a, e)
  PROVE  WatchMoved(a, e)
<1> USE DEF TypeInv, TypeOK, ProcessType, WatchType, WatchMoved
<1>0. PICK pc : WatchGoto(a, e, pc)
  BY Zenon DEF WatchStep, WatchReap, WatchCrashed, WatchRecord, Suspend, WatchRestart,
     WatchStopped, WatchClose, WatchRelease
<1>1. \A b \in Apps, f \in Epochs : b # a \/ f # e => watch'[b][f] = watch[b][f]
  <2>1. \A b \in Apps, f \in Epochs :
          watch'[b][f] = IF b = a /\ f = e THEN pc ELSE watch[b][f]
    BY <1>0, WatchMoves
  <2> QED BY <2>1, Zenon
<1>2. CASE WatchReap(a, e)
  BY <1>1, <1>2, Zenon DEF WatchReap, InLoop, Looping
<1>3. CASE WatchRestart(a, e)
  <2>1. watch[a][e] = "backoff"
    BY <1>3, Zenon DEF WatchRestart
  <2>2. CASE UNCHANGED proc
    BY <1>1, <2>1, <2>2, Zenon DEF InLoop, Looping
  <2>3. CASE startLocked(a) /\ WatchGoto(a, e, "wait")
    BY <1>1, <2>1, <2>3, Zenon DEF startLocked, WatchGoto, InLoop, Looping
  <2> QED BY <1>3, <2>2, <2>3, Zenon DEF WatchRestart, startFails
<1>4. CASE WatchCrashed(a, e) \/ WatchRecord(a, e) \/ WatchStopped(a, e)
  BY <1>1, <1>4, Zenon DEF WatchCrashed, WatchRecord, WatchStopped, InLoop, Looping
<1>5. CASE WatchClose(a, e) \/ WatchRelease(a, e)
  <2>1. watch[a][e] # "wait" /\ UNCHANGED proc
    BY <1>5, Zenon DEF WatchClose, WatchRelease, procVars
  <2>2. watch'[a][e] \in {"closed", "gone"}
    <3>1. PICK p \in {"closed", "gone"} : WatchGoto(a, e, p)
      BY <1>5, Zenon DEF WatchClose, WatchRelease
    <3>2. watch'[a][e] = p
      BY <3>1, Zenon DEF WatchGoto
    <3> QED BY <3>1, <3>2, Zenon
  <2>3. watch'[a][e] \notin InLoop
    BY <2>2, Zenon DEF InLoop, Looping
  <2> QED BY <1>1, <2>1, <2>3, Zenon
<1> QED BY <1>2, <1>3, <1>4, <1>5, Zenon DEF WatchStep

\* A start, by Spawn or Reset, starts the goroutine that waits for it.
Started(a, e) ==
  /\ \A b \in Apps : b # a => proc'[b] = proc[b] /\ pid'[b] = pid[b]
  /\ proc'[a] = "alive" /\ pid'[a] = pid[a] + 1
  /\ watch'[a][e] = "wait"
  /\ \A b \in Apps, f \in Epochs : b # a \/ f # e => watch'[b][f] = watch[b][f]

\* startLocked, followed by the start of the goroutines, is that start.
LEMMA StartLives ==
  ASSUME TypeInv, NEW a \in Apps, NEW e \in Epochs, startLocked(a), goWatchAndProbe(a, e)
  PROVE  Started(a, e)
BY Zenon DEF startLocked, goWatchAndProbe, TypeInv, TypeOK, ProcessType, WatchType, Started

\* A process that does not change is as live as it was.
LEMMA SameLive ==
  ASSUME NEW b, proc'[b] = proc[b]
  PROVE  Live(b)' <=> Live(b)
BY Zenon DEF Live, Up

\* A Reset either starts its App, which was registered and suspended, or
\* leaves processes and goroutines alone.
Resumes(c) ==
  LET a == caller[c].app IN
  /\ a \in Apps /\ Registered(a) /\ proc[a] = "reaped" /\ id[a] # NULL
  /\ startLocked(a) /\ done[a] + 1 \in Epochs /\ goWatchAndProbe(a, done[a] + 1)

\* The second step of a Reset does one or the other.
LEMMA ResetLives ==
  ASSUME TypeInv, ReapInv, NEW c \in Callers, ResetResume(c)
  PROVE  Resumes(c) \/ UNCHANGED <<proc, pid, watch>>
<1> DEFINE a == caller[c].app
<1>1. CASE ~StillSuspended(c)
  BY <1>1, Zenon DEF ResetResume, procVars
<1>2. CASE StillSuspended(c)
  <2>1. a \in Apps /\ caller[c].key \in Keys
    BY Zenon DEF ResetResume, TypeInv, CallerOK
  <2>2. apps[caller[c].key] = a /\ status[a] = "CrashLooping" /\ done[a] < MaxResets
    BY <1>2, Zenon DEF StillSuspended, ResetResume
  <2>3. \/ startLocked(a) /\ goWatchAndProbe(a, done[a] + 1)
        \/ startFails(a) /\ UNCHANGED watch
    BY <1>2, Zenon DEF ResetResume
  <2>4. proc[a] = "reaped" /\ id[a] # NULL
    BY <2>1, <2>2, Zenon DEF ReapInv, ReapOK
  <2>5. Registered(a)
    BY <2>1, <2>2, Zenon DEF Registered
  <2> HIDE DEF a
  <2>6. done[a] + 1 \in Epochs
    BY <2>1, <2>2, SupervisorAssumption DEF TypeInv, TypeOK, ChannelType, Epochs
  <2> USE DEF a
  <2> QED BY <2>1, <2>3, <2>4, <2>5, <2>6, Zenon DEF Resumes, startFails
<1> QED BY <1>1, <1>2, Zenon

\* Initially no process runs.
LEMMA InitLive == Init => LiveInv
BY Zenon DEF Init, LiveInv, Live, Up

\* Every step keeps a goroutine waiting for every process that runs.
LEMMA NextLive == TypeInv /\ ReapInv /\ LiveInv /\ [Next]_vars => LiveInv'
<1> SUFFICES ASSUME TypeInv, ReapInv, LiveInv, [Next]_vars, NEW b \in Apps, Live(b)'
             PROVE  \E e \in Epochs : watch'[b][e] = "wait"
  BY Zenon DEF LiveInv
<1>1. Live(b) => \E e \in Epochs : watch[b][e] = "wait"
  BY Zenon DEF LiveInv
<1>2. CASE Quiet
  <2>1. Live(b)
    <3>1. ~Live(b) => proc'[b] \in {"none", "reaped"}
      BY <1>2, LiveStates, Zenon DEF Quiet
    <3> QED BY <3>1 DEF Live, Up
  <2> QED BY <1>1, <1>2, <2>1, Zenon DEF Quiet
<1>3. ASSUME NEW a \in Apps, NEW e \in Epochs, Started(a, e)
      PROVE  \E f \in Epochs : watch'[b][f] = "wait"
  <2>1. CASE b = a
    BY <1>3, <2>1, Zenon DEF Started
  <2>2. CASE b # a
    <3>1. Live(b)
      BY <1>3, <2>2, SameLive, Zenon DEF Started
    <3> QED BY <1>1, <1>3, <2>2, <3>1, Zenon DEF Started
  <2> QED BY <2>1, <2>2, Zenon
<1>4. ASSUME NEW k, NEW a \in Apps, spawnUnchecked(k, a)
      PROVE  \E e \in Epochs : watch'[b][e] = "wait"
  <2>1. 0 \in Epochs
    BY SupervisorAssumption DEF Epochs
  <2>2. startLocked(a) /\ goWatchAndProbe(a, 0)
    BY <1>4, Zenon DEF spawnUnchecked
  <2>3. Started(a, 0)
    BY <2>1, <2>2, StartLives, Zenon
  <2> QED BY <2>1, <2>3, <1>3, Zenon
<1>5. ASSUME NEW c \in Callers, ResetResume(c)
      PROVE  \E e \in Epochs : watch'[b][e] = "wait"
  <2>1. CASE Resumes(c)
    <3> DEFINE a == caller[c].app
    <3>1. a \in Apps /\ done[a] + 1 \in Epochs /\ startLocked(a) /\ goWatchAndProbe(a, done[a] + 1)
      BY <2>1, Zenon DEF Resumes
    <3>2. Started(a, done[a] + 1)
      BY <3>1, StartLives, Zenon
    <3> QED BY <3>1, <3>2, <1>3, Zenon
  <2>2. CASE UNCHANGED <<proc, watch>>
    BY <1>1, <2>2, Zenon DEF Live, Up
  <2> QED BY <1>5, <2>1, <2>2, ResetLives, Zenon
<1>6. ASSUME NEW a \in Apps, NEW e \in Epochs, WatchStep(a, e)
      PROVE  \E f \in Epochs : watch'[b][f] = "wait"
  <2>1. CASE b # a
    <3>1. WatchMoved(a, e)
      BY <1>6, WatchLives, Zenon
    <3>2. Live(b)
      BY <2>1, <3>1, SameLive, Zenon DEF WatchMoved
    <3> QED BY <1>1, <2>1, <3>1, <3>2, Zenon DEF WatchMoved
  <2>2. CASE b = a
    <3>1. proc'[a] # "reaped"
      BY <2>2 DEF Live, Up
    <3>2. CASE watch'[a][e] = "wait"
      BY <2>2, <3>2, Zenon
    <3>3. CASE proc'[a] = proc[a] /\ watch[a][e] # "wait"
      <4>1. PICK f \in Epochs : watch[a][f] = "wait"
        BY <1>1, <2>2, <3>3, Zenon DEF Live, Up
      <4>2. watch'[a][f] = "wait"
        <5>1. \A g \in Epochs : g # e => watch'[a][g] = watch[a][g]
          BY <1>6, WatchLives, ZenonT(60) DEF WatchMoved
        <5>2. f # e
          BY <3>3, <4>1, Zenon
        <5> QED BY <4>1, <5>1, <5>2, Zenon
      <4> QED BY <2>2, <4>2, Zenon
    <3> QED BY <1>6, <3>1, <3>2, <3>3, WatchLives, Zenon DEF WatchMoved
  <2> QED BY <2>1, <2>2, Zenon
<1> QED
  BY <1>2, <1>4, <1>5, <1>6, QuietSteps, Zenon DEF Next, CallerStep, Spawn, DeploySpawn

\* Every process that was not waited for has a watch goroutine waiting for it.
THEOREM LiveInvariance == Spec => []LiveInv
<1> QED BY InitLive, NextLive, TypeInvariance, ReapInvariance, PTL DEF Spec

\* A stop waits for the App's current channel, and finds it closed at its
\* teardown.
EndCall(c) ==
  /\ caller[c].pc \in StopPc \ {"stopTerm"} => caller[c].seen = done[caller[c].app]
  /\ caller[c].pc = "cleanup" => done[caller[c].app] \in closed[caller[c].app]
  /\ caller[c].pc = "resetWait" => "Reset" \in Ops

\* An App whose isolation was released, or that never had any, has no watch
\* goroutine that could start a process, or still waits for one.
EndApp(a) == ~Isolated(a) => \A e \in Epochs : watch[a][e] \notin InLoop

EndInv == (\A c \in Callers : EndCall(c)) /\ (\A a \in Apps : EndApp(a))

\* What Reset must not do: start an App that a stop is working on, or one whose
\* isolation is gone.
ResetSafe ==
  \A c \in Callers : caller[c].pc = "resetWait" /\ StillSuspended(c) =>
    /\ Isolated(caller[c].app)
    /\ \A d \in Callers : caller[d].pc \in StopPc => caller[d].app # caller[c].app

\* A call that did not move, or moved to a step that waits for no channel.
LEMMA EndCallKept ==
  ASSUME NEW c \in Callers, EndCall(c), caller'[c] = caller[c],
         caller[c].pc \in StopPc =>
           /\ done'[caller[c].app] = done[caller[c].app]
           /\ closed[caller[c].app] \subseteq closed'[caller[c].app]
  PROVE  EndCall(c)'
<1>1. "cleanup" \in StopPc
  BY Zenon DEF StopPc
<1> QED BY <1>1, Zenon DEF EndCall

\* A call that moved to a step that waits for no channel.
LEMMA EndCallMoved ==
  ASSUME NEW c \in Callers, caller'[c].pc \notin StopPc \ {"stopTerm"},
         caller'[c].pc = "resetWait" => "Reset" \in Ops
  PROVE  EndCall(c)'
<1>1. "cleanup" \in StopPc \ {"stopTerm"}
  BY Zenon DEF StopPc
<1> QED BY <1>1, Zenon DEF EndCall

\* A call moves, and channels, goroutines and isolation stay.
LEMMA EndMove ==
  ASSUME EndInv, NEW c \in Callers, Only(c), EndCall(c)', UNCHANGED <<done, closed, watch, held>>
  PROVE  EndInv'
<1>1. ASSUME NEW d \in Callers PROVE EndCall(d)'
  <2>1. CASE d = c
    BY <2>1, Zenon
  <2>2. CASE d # c
    BY <2>2, EndCallKept, Zenon DEF EndInv, Only
  <2> QED BY <2>1, <2>2, Zenon
<1>2. ASSUME NEW a \in Apps PROVE EndApp(a)'
  BY Zenon DEF EndInv, EndApp, Isolated
<1> QED BY <1>1, <1>2, Zenon DEF EndInv

\* No call moves.
LEMMA EndStill ==
  ASSUME EndInv, UNCHANGED <<caller, done>>, \A a \in Apps : EndApp(a)',
         \A c \in Callers : closed[caller[c].app] \subseteq closed'[caller[c].app]
  PROVE  EndInv'
<1>1. ASSUME NEW d \in Callers PROVE EndCall(d)'
  BY EndCallKept, Zenon DEF EndInv
<1> QED BY <1>1, Zenon DEF EndInv

\* The steps of a stop.
LEMMA StopEnds ==
  ASSUME TypeInv, EndInv, NEW c \in Callers,
         StopTerm(c) \/ StopDone(c) \/ StopKill(c) \/ StopDenied(c)
  PROVE  EndInv'
<1>0. CallerType /\ EndCall(c)
  BY Zenon DEF TypeInv, TypeOK, EndInv
<1>1. UNCHANGED <<done, closed, watch, held>>
  BY Zenon DEF StopTerm, StopDone, StopKill, StopDenied, appVars, doneVars
<1>2. CASE StopTerm(c)
  <2>1. /\ caller'[c].pc = "stopWait" /\ caller'[c].app = caller[c].app
        /\ caller'[c].seen = done[caller[c].app] /\ Only(c)
    BY <1>0, <1>2, Zenon DEF StopTerm, CallerType, Only
  <2>2. EndCall(c)'
    BY <1>1, <2>1, Zenon DEF EndCall
  <2> QED BY <1>1, <2>1, <2>2, EndMove, Zenon
<1>3. ASSUME NEW pc \in StopPc, Goto(c, pc), caller[c].pc \in StopPc \ {"stopTerm"},
             pc = "cleanup" => caller[c].seen \in closed[caller[c].app]
      PROVE  EndInv'
  <2>1. /\ caller'[c].pc = pc /\ caller'[c].app = caller[c].app
        /\ caller'[c].seen = caller[c].seen /\ Only(c)
    BY <1>0, <1>3, CallGoes, Zenon DEF SameLocals
  <2>2. caller[c].seen = done[caller[c].app]
    BY <1>0, <1>3, Zenon DEF EndCall
  <2>3. pc # "resetWait"
    BY <1>3, Zenon DEF StopPc
  <2>4. EndCall(c)'
    BY <1>1, <1>3, <2>1, <2>2, <2>3, Zenon DEF EndCall
  <2> QED BY <1>1, <2>1, <2>4, EndMove, Zenon
<1>4. CASE StopDone(c)
  <2>1. caller[c].pc \in StopPc \ {"stopTerm"} /\ "cleanup" \in StopPc
    BY <1>4, Zenon DEF StopDone, StopPc
  <2> QED BY <1>3, <1>4, <2>1, Zenon DEF StopDone
<1>5. CASE StopKill(c)
  <2>1. /\ caller[c].pc \in StopPc \ {"stopTerm"}
        /\ AfterKill(caller[c].app) \in StopPc /\ AfterKill(caller[c].app) # "cleanup"
    BY <1>5, Zenon DEF StopKill, StopPc, AfterKill
  <2> QED BY <1>3, <1>5, <2>1, Zenon DEF StopKill
<1>6. CASE StopDenied(c)
  <2>1. caller[c].pc \in StopPc \ {"stopTerm"} /\ "stopFailed" \in StopPc
    BY <1>6, Zenon DEF StopDenied, StopPc
  <2> QED BY <1>3, <1>6, <2>1, Zenon DEF StopDenied
<1> QED BY <1>2, <1>4, <1>5, <1>6, Zenon

\* The other steps of a call that was started wait for no channel.
LEMMA CallOthers ==
  ASSUME TypeInv, NEW c \in Callers,
         \/ RestartReturn(c) \/ ResetResume(c) \/ StopCleanup(c) \/ StopFailed(c)
         \/ (\E a \in Apps : DeploySpawn(c, a)) \/ DeployRefused(c) \/ DeployHealth(c)
         \/ DeploySwap(c) \/ DeployAbort(c) \/ DeployRoute(c) \/ DeployRollback(c)
  PROVE  Only(c) /\ caller'[c].pc \in DeployPc \cup {"idle", "stopTerm"}
<1>0. CallerType
  BY Zenon DEF TypeInv, TypeOK
<1>1. CASE Return(c)
  BY <1>0, <1>1, CallReturns, Zenon
<1>2. CASE \E pc \in DeployPc : Goto(c, pc)
  BY <1>0, <1>2, CallGoes, Zenon
<1>3. CASE \E a : stopApp(c, a)
  BY <1>0, <1>3, StopsApp, Zenon
<1>4. ASSUME NEW a \in Apps, DeploySpawn(c, a)
      PROVE  Only(c) /\ caller'[c].pc = "deployHealth"
  BY <1>0, <1>4, Zenon DEF DeploySpawn, CallerType, Only
<1>5. CASE DeployAbort(c) /\ apps[tempID(c)] # NULL
  <2> DEFINE x == [Idle EXCEPT !.pc = "stopTerm", !.app = apps[tempID(c)], !.key = tempID(c)]
  <2>1. x.pc = "stopTerm"
    BY DEF Idle
  <2>2. caller' = [caller EXCEPT ![c] = x]
    BY <1>5, Zenon DEF DeployAbort
  <2> HIDE DEF x
  <2>3. caller'[c] = x /\ Only(c)
    BY <1>0, <2>2, CallMoves, Zenon
  <2> QED BY <2>1, <2>3, Zenon
<1>6. CASE DeployHealth(c) \/ DeploySwap(c)
  BY <1>2, <1>6, Zenon DEF DeployHealth, DeploySwap, DeployPc
<1>7. CASE DeployRoute(c) \/ DeployRollback(c)
  BY <1>2, <1>3, <1>7, Zenon DEF DeployRoute, DeployRollback, DeployPc
<1>8. CASE DeployAbort(c)
  BY <1>1, <1>5, <1>8, Zenon DEF DeployAbort
<1>9. CASE RestartReturn(c) \/ ResetResume(c) \/ StopCleanup(c) \/ StopFailed(c) \/ DeployRefused(c)
  BY <1>1, <1>9, Zenon DEF RestartReturn, ResetResume, StopCleanup, StopFailed, DeployRefused
<1>10. "deployHealth" \in DeployPc
  BY Zenon DEF DeployPc
<1> QED BY <1>4, <1>6, <1>7, <1>8, <1>9, <1>10, Zenon

\* None of these is a wait for a channel.
LEMMA OtherPcs ==
  \A pc \in DeployPc \cup {"idle", "stopTerm", "restartPoll", "resetWait"} :
    pc \notin StopPc \ {"stopTerm"} /\ (pc \in DeployPc \cup {"idle", "stopTerm"} => pc # "resetWait")
BY Zenon DEF DeployPc, StopPc

\* Of what an App holds, watch only ever closes the log.
LEMMA WatchIsolates ==
  ASSUME TypeInv, NEW a \in Apps, NEW e \in Epochs, WatchStep(a, e)
  PROVE  \A b \in Apps : Isolated(b)' <=> Isolated(b)
<1>1. CASE WatchRelease(a, e)
  BY <1>1, Zenon DEF WatchRelease, Isolated, TypeInv, TypeOK, RegistryType
<1>2. CASE UNCHANGED held
  BY <1>2, Zenon DEF Isolated
<1> QED BY <1>1, <1>2, Zenon DEF WatchStep, WatchReap, WatchCrashed, WatchRecord,
           WatchRestart, WatchStopped, WatchClose, appVars

\* The goroutines: watch closes channels and never opens one, and releases no
\* isolation.
LEMMA GoroutineEnds ==
  ASSUME TypeInv, EndInv, NEW a \in Apps, NEW e \in Epochs,
         Exit(a) \/ WatchStep(a, e) \/ ProbeStep(a, e) \/ UNCHANGED vars
  PROVE  EndInv'
<1>1. CASE UNCHANGED <<caller, done, closed, watch, held>>
  <2>1. \A b \in Apps : EndApp(b)'
    BY <1>1, Zenon DEF EndInv, EndApp, Isolated
  <2> QED BY <1>1, <2>1, EndStill, Zenon
<1>2. CASE Exit(a) \/ ProbeStep(a, e) \/ UNCHANGED vars
  <2>1. UNCHANGED <<caller, done, closed, watch, held>>
    BY <1>2, Zenon DEF Exit, ProbeStep, ProbeExit, ProbeTick, ProbePass, ProbeRecover, ProbeFail,
       vars, appVars, doneVars
  <2> QED BY <1>1, <2>1, Zenon
<1>3. CASE WatchStep(a, e)
  <2>1. UNCHANGED <<caller, done>>
    BY <1>3, Zenon DEF WatchStep, WatchReap, WatchCrashed, WatchRecord, WatchRestart, WatchStopped,
       WatchClose, WatchRelease, doneVars
  <2>2. \A b : closed[b] \subseteq closed'[b] \/ b \notin Apps
    <3>1. CASE WatchClose(a, e)
      BY <3>1, Zenon DEF WatchClose, TypeInv, TypeOK, ChannelType
    <3>2. CASE UNCHANGED closed
      BY <3>2, Zenon
    <3> QED BY <1>3, <3>1, <3>2, Zenon DEF WatchStep, WatchReap, WatchCrashed, WatchRecord,
               WatchRestart, WatchStopped, WatchRelease, doneVars
  <2>3. \A b \in Apps : Isolated(b)' <=> Isolated(b)
    BY <1>3, WatchIsolates, Zenon
  <2>4. WatchMoved(a, e)
    BY <1>3, WatchLives, Zenon
  <2>5. ASSUME NEW b \in Apps PROVE EndApp(b)'
    <3>1. EndApp(b)
      BY Zenon DEF EndInv
    <3>2. \A f \in Epochs : watch'[b][f] \in InLoop => watch[b][f] \in InLoop
      BY <2>4, Zenon DEF WatchMoved
    <3> QED BY <2>3, <3>1, <3>2, Zenon DEF EndApp
  <2>6. ASSUME NEW c \in Callers PROVE EndCall(c)'
    <3>1. caller[c].pc \in StopPc => caller[c].app \in Apps
      BY CallHasApp, Zenon DEF StopPc
    <3> QED BY <2>1, <2>2, <3>1, EndCallKept, Zenon DEF EndInv
  <2> QED BY <2>5, <2>6, Zenon DEF EndInv
<1> QED BY <1>2, <1>3, Zenon

\* A spawn gives its App a new isolation.
LEMMA SpawnEnds ==
  ASSUME TypeInv, EndInv, NEW a \in Apps, NEW k, spawnUnchecked(k, a),
         \A c \in Callers : caller'[c] # caller[c] => caller'[c].pc = "deployHealth"
  PROVE  EndInv'
<1>1. 0 \in Epochs
  BY SupervisorAssumption DEF Epochs
<1>2. Started(a, 0) /\ UNCHANGED <<done, closed>>
  BY <1>1, StartLives, Zenon DEF spawnUnchecked, doneVars
<1>3. Isolated(a)' /\ \A b \in Apps : b # a => (Isolated(b)' <=> Isolated(b))
  BY Zenon DEF spawnUnchecked, Isolated, TypeInv, TypeOK, RegistryType
<1>4. ASSUME NEW b \in Apps PROVE EndApp(b)'
  <2>1. CASE b = a
    BY <1>3, <2>1, Zenon DEF EndApp
  <2>2. CASE b # a
    <3>1. \A f \in Epochs : watch'[b][f] = watch[b][f]
      BY <1>2, <2>2, Zenon DEF Started
    <3> QED BY <1>3, <2>2, <3>1, Zenon DEF EndApp, EndInv
  <2> QED BY <2>1, <2>2, Zenon
<1>5. ASSUME NEW c \in Callers PROVE EndCall(c)'
  <2>1. CASE caller'[c] = caller[c]
    BY <1>2, <2>1, EndCallKept, Zenon DEF EndInv
  <2>2. CASE caller'[c].pc = "deployHealth"
    <3>1. "deployHealth" \notin StopPc \ {"stopTerm"}
      BY Zenon DEF StopPc
    <3> QED BY <2>2, <3>1, EndCallMoved, Zenon
  <2> QED BY <2>1, <2>2, Zenon
<1> QED BY <1>4, <1>5, Zenon DEF EndInv

\* The teardown comes when the loop is over: its channel is closed, and the
\* channel of a goroutine in the loop is not.
LEMMA ClosedIsOver ==
  ASSUME CloseInv, NEW a \in Apps, done[a] \in closed[a]
  PROVE  \A e \in Epochs : watch[a][e] \notin InLoop
<1>1. ChannelOK(a)
  BY Zenon DEF CloseInv
<1>2. watch[a][done[a]] \in {"closed", "gone"}
  BY <1>1, Zenon DEF ChannelOK
<1>3. watch[a][done[a]] \notin InLoop
  BY <1>2, Zenon DEF InLoop, Looping
<1> QED BY <1>1, <1>3, Zenon DEF ChannelOK

\* The teardown releases the isolation of an App whose loop is over.
LEMMA CleanupEnds ==
  ASSUME TypeInv, CloseInv, EndInv, NEW c \in Callers, StopCleanup(c)
  PROVE  EndInv'
<1> DEFINE a == caller[c].app
<1>1. a \in Apps /\ done[a] \in closed[a]
  BY CallHasApp, Zenon DEF StopCleanup, EndInv, EndCall
<1>2. \A e \in Epochs : watch[a][e] \notin InLoop
  BY <1>1, ClosedIsOver, Zenon
<1>3. UNCHANGED <<done, closed, watch>> /\ \A b \in Apps : b # a => held'[b] = held[b]
  BY Zenon DEF StopCleanup, doneVars, TypeInv, TypeOK, RegistryType
<1>4. ASSUME NEW b \in Apps PROVE EndApp(b)'
  <2>1. CASE b = a
    BY <1>2, <1>3, <2>1, Zenon DEF EndApp
  <2>2. CASE b # a
    BY <1>3, <2>2, Zenon DEF EndApp, EndInv, Isolated
  <2> QED BY <2>1, <2>2, Zenon
<1>5. Only(c) /\ caller'[c].pc \in DeployPc \cup {"idle", "stopTerm"}
  BY CallOthers, Zenon
<1>6. ASSUME NEW d \in Callers PROVE EndCall(d)'
  <2>1. CASE d = c
    BY <1>5, <2>1, OtherPcs, EndCallMoved, Zenon
  <2>2. CASE d # c
    BY <1>3, <1>5, <2>2, EndCallKept, Zenon DEF EndInv, Only
  <2> QED BY <2>1, <2>2, Zenon
<1> QED BY <1>4, <1>6, Zenon DEF EndInv

\* A Reset of an App that is still suspended makes a channel, and perhaps starts
\* a goroutine, for this App only.
Renews(c) ==
  /\ caller[c].app \in Apps
  /\ \A b \in Apps : b # caller[c].app => done'[b] = done[b] /\ watch'[b] = watch[b]

\* The second step of a Reset does that, or touches no channel and goroutine.
LEMMA ResetRenews ==
  ASSUME TypeInv, NEW c \in Callers, ResetResume(c)
  PROVE  \/ UNCHANGED <<done, watch>>
         \/ StillSuspended(c) /\ Renews(c)
<1> DEFINE a == caller[c].app
<1>1. a \in Apps
  BY CallHasApp, Zenon DEF ResetResume
<1>2. CASE StillSuspended(c)
  <2>1. done' = [done EXCEPT ![a] = @ + 1]
    BY <1>2, Zenon DEF ResetResume
  <2>2. UNCHANGED watch \/ watch' = [watch EXCEPT ![a][done[a] + 1] = "wait"]
    BY <1>2, Zenon DEF ResetResume, goWatchAndProbe
  <2>3. \A b \in Apps : b # a => done'[b] = done[b]
    BY <2>1, Zenon DEF TypeInv, TypeOK, ChannelType
  <2>4. \A b \in Apps : b # a => watch'[b] = watch[b]
    BY <2>2, Zenon DEF TypeInv, TypeOK, WatchType
  <2> QED BY <1>1, <1>2, <2>3, <2>4, Zenon DEF Renews
<1>3. CASE ~StillSuspended(c)
  BY <1>3, Zenon DEF ResetResume
<1> QED BY <1>2, <1>3, Zenon

\* A safe Reset.
LEMMA ResetEnds ==
  ASSUME TypeInv, EndInv, ResetSafe, NEW c \in Callers, ResetResume(c)
  PROVE  EndInv'
<1> DEFINE a == caller[c].app
<1>1. Only(c) /\ caller'[c].pc \in DeployPc \cup {"idle", "stopTerm"}
  BY CallOthers, Zenon
<1>2. EndCall(c)'
  BY <1>1, OtherPcs, EndCallMoved, Zenon
<1>3. UNCHANGED <<held, closed>>
  BY Zenon DEF ResetResume, appVars
<1>4. CASE UNCHANGED <<done, watch>>
  BY <1>1, <1>2, <1>3, <1>4, EndMove, Zenon
<1>5. CASE StillSuspended(c) /\ Renews(c)
  <2>1. Isolated(a) /\ \A d \in Callers : caller[d].pc \in StopPc => caller[d].app # a
    BY <1>5, Zenon DEF ResetSafe, ResetResume
  <2>2. ASSUME NEW b \in Apps PROVE EndApp(b)'
    <3>1. CASE b = a
      BY <1>3, <2>1, <3>1, Zenon DEF EndApp, Isolated
    <3>2. CASE b # a
      BY <1>3, <1>5, <3>2, Zenon DEF EndApp, Isolated, EndInv, Renews
    <3> QED BY <3>1, <3>2, Zenon
  <2>3. ASSUME NEW d \in Callers, d # c PROVE EndCall(d)'
    <3>1. caller[d].pc \in StopPc => caller[d].app \in Apps
      BY CallHasApp, Zenon DEF StopPc
    <3>2. caller[d].pc \in StopPc => done'[caller[d].app] = done[caller[d].app]
      BY <1>5, <2>1, <3>1, Zenon DEF Renews
    <3>3. EndCall(d) /\ caller'[d] = caller[d]
      BY <1>1, <2>3, Zenon DEF EndInv, Only
    <3> QED BY <1>3, <3>2, <3>3, EndCallKept, Zenon
  <2> QED BY <1>2, <2>2, <2>3, Zenon DEF EndInv
<1> QED BY <1>4, <1>5, ResetRenews, Zenon

\* Initially no call waits and no goroutine runs.
LEMMA InitEnd == Init => EndInv
<1> SUFFICES ASSUME Init PROVE EndInv
  OBVIOUS
<1>1. \A c \in Callers : caller[c].pc = "idle"
  BY Zenon DEF Init, Idle
<1>2. \A c \in Callers : EndCall(c)
  BY <1>1, Zenon DEF EndCall, StopPc
<1>3. \A a \in Apps, e \in Epochs : watch[a][e] = "off"
  BY Zenon DEF Init
<1>4. "off" \notin InLoop
  BY Zenon DEF InLoop, Looping
<1> QED BY <1>2, <1>3, <1>4, Zenon DEF EndInv, EndApp

\* Every step keeps that, if Resets are safe.
LEMMA NextEnd ==
  ASSUME TypeInv, CloseInv, EndInv, ResetSafe, [Next]_vars
  PROVE  EndInv'
<1>1. ASSUME NEW a \in Apps, Exit(a) PROVE EndInv'
  <2>1. 0 \in Epochs
    BY SupervisorAssumption DEF Epochs
  <2> QED BY <1>1, <2>1, GoroutineEnds, Zenon
<1>2. ASSUME NEW a \in Apps, NEW e \in Epochs, WatchStep(a, e) \/ ProbeStep(a, e)
      PROVE  EndInv'
  BY <1>2, GoroutineEnds, Zenon
<1>3. CASE UNCHANGED vars
  <2>1. UNCHANGED <<caller, done, closed, watch, held>>
    BY <1>3, Zenon DEF vars, appVars, doneVars
  <2>2. \A b \in Apps : EndApp(b)'
    BY <2>1, Zenon DEF EndInv, EndApp, Isolated
  <2> QED BY <2>1, <2>2, EndStill, Zenon
<1>4. ASSUME NEW i \in Ids, NEW a \in Apps, Spawn(i, a) PROVE EndInv'
  BY <1>4, SpawnEnds, Zenon DEF Spawn
<1>5. ASSUME NEW c \in Callers, NEW i \in Ids,
             RestartSignal(c, i) \/ ResetBegin(c, i) \/ DeployBegin(c, i)
      PROVE  EndInv'
  <2>1. Begun(c, i)
    BY <1>5, CallBegun, Zenon
  <2>2. UNCHANGED <<done, closed, watch, held>>
    BY <1>5, Zenon DEF RestartSignal, ResetBegin, DeployBegin, appVars, doneVars
  <2>3. caller'[c].pc \notin StopPc \ {"stopTerm"} /\ (caller'[c].pc = "resetWait" => "Reset" \in Ops)
    BY <2>1, Zenon DEF Begun, StopPc
  <2>4. EndCall(c)'
    BY <2>3, EndCallMoved, Zenon
  <2> QED BY <2>1, <2>2, <2>4, EndMove, Zenon DEF Begun
<1>6. ASSUME NEW c \in Callers, NEW k \in Keys, StopBegin(c, k) PROVE EndInv'
  <2>1. Takes(c, k)
    BY <1>6, StopBegins, Zenon
  <2>2. UNCHANGED <<done, closed, watch, held>>
    BY <1>6, Zenon DEF StopBegin, doneVars
  <2>3. EndCall(c)'
    BY <2>1, EndCallMoved, Zenon DEF Takes
  <2> QED BY <2>1, <2>2, <2>3, EndMove, Zenon DEF Takes
<1>7. ASSUME NEW c \in Callers, CallerStep(c) PROVE EndInv'
  <2>1. CASE ResetResume(c)
    BY <2>1, ResetEnds, Zenon
  <2>2. CASE StopTerm(c) \/ StopDone(c) \/ StopKill(c) \/ StopDenied(c)
    BY <2>2, StopEnds, Zenon
  <2>3. CASE StopCleanup(c)
    BY <2>3, CleanupEnds, Zenon
  <2>4. ASSUME NEW a \in Apps, DeploySpawn(c, a) PROVE EndInv'
    <3>1. \A d \in Callers : caller'[d] # caller[d] => caller'[d].pc = "deployHealth"
      BY <2>4, Zenon DEF DeploySpawn, TypeInv, TypeOK, CallerType
    <3> QED BY <2>4, <3>1, SpawnEnds, Zenon DEF DeploySpawn
  <2>5. CASE \/ RestartReturn(c) \/ StopFailed(c) \/ DeployRefused(c) \/ DeployHealth(c)
             \/ DeploySwap(c) \/ DeployAbort(c) \/ DeployRoute(c) \/ DeployRollback(c)
    <3>1. Only(c) /\ caller'[c].pc \in DeployPc \cup {"idle", "stopTerm"}
      BY <2>5, CallOthers, Zenon
    <3>2. UNCHANGED <<done, closed, watch, held>>
      BY <2>5, Zenon DEF RestartReturn, StopFailed, DeployRefused, DeployHealth, DeploySwap,
         DeployAbort, DeployRoute, DeployRollback, appVars, doneVars
    <3>3. EndCall(c)'
      BY <3>1, OtherPcs, EndCallMoved, Zenon
    <3> QED BY <3>1, <3>2, <3>3, EndMove, Zenon
  <2> QED BY <1>7, <2>1, <2>2, <2>3, <2>4, <2>5, Zenon DEF CallerStep
<1> QED BY <1>1, <1>2, <1>3, <1>4, <1>5, <1>6, <1>7, Zenon DEF Next

\* Without Resets nothing starts an App again but its own watch goroutine.
LEMMA NoResetSafe == "Reset" \notin Ops /\ EndInv => ResetSafe
BY Zenon DEF EndInv, EndCall, ResetSafe

\* A process that was not waited for has a goroutine in the loop, so its
\* isolation was not released.
LEMMA IsolationHeld == LiveInv /\ EndInv => IsolationOutlivesProcess
<1> SUFFICES ASSUME LiveInv, EndInv, NEW a \in Apps, Live(a) PROVE Isolated(a)
  BY Zenon DEF IsolationOutlivesProcess, Live, Isolated
<1>1. PICK e \in Epochs : watch[a][e] = "wait"
  BY Zenon DEF LiveInv
<1>2. watch[a][e] \in InLoop
  BY <1>1, Zenon DEF InLoop, Looping
<1> QED BY <1>2, Zenon DEF EndInv, EndApp

-----------------------------------------------------------------------------
(* What a step does to each App *)

\* A call is stopping the App, which it has taken out of the registry.
Stopping(a) == \E c \in Callers : caller[c].pc \in Removing /\ caller[c].app = a

\* Seen from outside, a step leaves an App as it is, or ...
Same(a) ==
  /\ Live(a)' <=> Live(a)
  /\ Isolated(a)' <=> Isolated(a)
  /\ Registered(a)' <=> Registered(a)
  /\ pid'[a] = 0 <=> pid[a] = 0
  /\ Stopping(a) => Stopping(a)'

\* ... spawns it,
Spawned(a) ==
  /\ pid[a] = 0 /\ pid'[a] # 0 /\ Live(a)' /\ Isolated(a)' /\ Registered(a)'

\* ... starts it again while it is registered,
Restarted(a) ==
  /\ ~Live(a) /\ pid[a] # 0 /\ Registered(a)
  /\ Live(a)' /\ pid'[a] # 0 /\ Registered(a)'
  /\ Isolated(a)' <=> Isolated(a)

\* ... waits for its process,
Died(a) ==
  /\ Live(a) /\ ~Live(a)'
  /\ Isolated(a)' <=> Isolated(a)
  /\ Registered(a)' <=> Registered(a)
  /\ pid'[a] = 0 <=> pid[a] = 0

\* ... takes it out of the registry, to stop it if it runs,
Dropped(a) ==
  /\ Registered(a) /\ ~Registered(a)'
  /\ Live(a)' <=> Live(a)
  /\ Isolated(a)' <=> Isolated(a)
  /\ pid'[a] = 0 <=> pid[a] = 0
  /\ Live(a) => Stopping(a)'

\* ... or releases its isolation.
Released(a) ==
  /\ ~Registered(a) /\ ~Registered(a)' /\ ~Live(a) /\ ~Live(a)'
  /\ pid[a] # 0 /\ pid'[a] # 0 /\ ~Isolated(a)'

\* A step changes at most one App.
Changes(a) == Spawned(a) \/ Restarted(a) \/ Died(a) \/ Dropped(a) \/ Released(a)
OneChange ==
  \/ \A a \in Apps : Same(a)
  \/ \E a \in Apps : Changes(a) /\ \A b \in Apps : b # a => Same(b)

\* An App has started a process exactly if it was spawned.
PidInv == \A a \in Apps : pid[a] = 0 <=> id[a] = NULL

\* A call goes on stopping what it stops.
LEMMA StopKept ==
  ASSUME NEW c \in Callers, Only(c),
         caller[c].pc \in Removing => caller'[c].pc \in Removing /\ caller'[c].app = caller[c].app
  PROVE  \A a \in Apps : Stopping(a) => Stopping(a)'
<1> SUFFICES ASSUME NEW a \in Apps, Stopping(a) PROVE Stopping(a)'
  OBVIOUS
<1>1. PICK d \in Callers : caller[d].pc \in Removing /\ caller[d].app = a
  BY Zenon DEF Stopping
<1>2. caller'[d].pc \in Removing /\ caller'[d].app = a
  BY <1>1, Zenon DEF Only
<1> QED BY <1>2, Zenon DEF Stopping

\* Signals and exits end no process for good: that takes Wait.
LEMMA SignalLives ==
  ASSUME TypeInv, NEW a \in Apps, Exit(a) \/ Terminate(a) \/ Kill(a)
  PROVE  \A b \in Apps : Live(b)' <=> Live(b)
<1> SUFFICES ASSUME NEW b \in Apps PROVE Live(b)' <=> Live(b)
  OBVIOUS
<1>1. CASE b # a
  <2>1. proc'[b] = proc[b]
    BY <1>1, Zenon DEF Exit, Terminate, Kill, TypeInv, TypeOK, ProcessType
  <2> QED BY <2>1, SameLive, Zenon
<1>2. CASE b = a
  <2>0. proc \in [Apps -> Proc]
    BY Zenon DEF TypeInv, TypeOK, ProcessType
  <2>1. \/ proc'[a] = proc[a]
        \/ /\ proc[a] \in {"alive", "termed", "dying"}
           /\ proc'[a] \in {"zombie", "termed", "dying"}
    <3>1. CASE Exit(a)
      BY <2>0, <3>1, Zenon DEF Exit
    <3>2. CASE Terminate(a)
      BY <2>0, <3>2 DEF Terminate
    <3>3. CASE Kill(a)
      BY <2>0, <3>3 DEF Kill
    <3> QED BY <3>1, <3>2, <3>3, Zenon
  <2>2. CASE proc'[a] = proc[a]
    BY <1>2, <2>2, SameLive, Zenon
  <2>3. CASE proc[a] \in {"alive", "termed", "dying"} /\ proc'[a] \in {"zombie", "termed", "dying"}
    BY <1>2, <2>3, Zenon DEF Live, Up
  <2> QED BY <2>1, <2>2, <2>3, Zenon
<1> QED BY <1>1, <1>2, Zenon

\* Nothing an observer sees changes.
LEMMA AllSame ==
  ASSUME UNCHANGED <<apps, pid, held>>, \A b \in Apps : Live(b)' <=> Live(b),
         \A b \in Apps : Stopping(b) => Stopping(b)'
  PROVE  OneChange
<1>1. ASSUME NEW b \in Apps PROVE Same(b)
  <2>1. Isolated(b)' <=> Isolated(b)
    BY Zenon DEF Isolated
  <2>2. Registered(b)' <=> Registered(b)
    BY Zenon DEF Registered
  <2> QED BY <2>1, <2>2, Zenon DEF Same
<1> QED BY <1>1, Zenon DEF OneChange

\* No App changes when a call begins, waits, signals or ends, nor in the
\* operating system, nor in a probe.
LEMMA QuietSame ==
  ASSUME TypeInv, RegistryInv, Orderly,
         \/ \E a \in Apps : Exit(a)
         \/ \E a \in Apps, e \in Epochs : ProbeStep(a, e)
         \/ UNCHANGED vars
  PROVE  OneChange
<1>1. UNCHANGED <<apps, pid, held, caller>>
  BY ZenonT(60) DEF Exit, ProbeStep, ProbeExit, ProbeTick, ProbePass, ProbeRecover, ProbeFail,
     vars, appVars, procVars
<1>2. \A b \in Apps : Stopping(b) => Stopping(b)'
  BY <1>1, Zenon DEF Stopping
<1>3. CASE UNCHANGED proc
  BY <1>1, <1>2, <1>3, SameLive, AllSame, Zenon
<1>4. CASE \E a \in Apps : Exit(a) \/ Kill(a)
  <2>1. \A b \in Apps : Live(b)' <=> Live(b)
    BY <1>4, SignalLives, Zenon
  <2> QED BY <1>1, <1>2, <2>1, AllSame, Zenon
<1>5. CASE \E a \in Apps, e \in Epochs : ProbeStep(a, e)
  BY <1>3, <1>4, <1>5, ZenonT(60) DEF ProbeStep, ProbeExit, ProbeTick, ProbePass, ProbeRecover,
     ProbeFail, procVars
<1> QED BY <1>3, <1>4, <1>5, Zenon DEF vars, procVars

\* Nor when a call begins, signals, waits or ends.
LEMMA CallSame ==
  ASSUME TypeInv, RegistryInv, Orderly, NEW c \in Callers,
         \/ \E i \in Ids : RestartSignal(c, i) \/ ResetBegin(c, i) \/ DeployBegin(c, i)
         \/ RestartReturn(c) \/ StopTerm(c) \/ StopDone(c) \/ StopKill(c)
         \/ DeployRefused(c) \/ DeployHealth(c) \/ DeployRoute(c)
         \/ DeploySwap(c) /\ ~V1Registered(c)
  PROVE  OneChange
<1>0. CallerType /\ CallOK(c)
  BY Zenon DEF TypeInv, TypeOK, RegistryInv
<1>1. UNCHANGED <<apps, pid, held>>
  BY Zenon DEF RestartSignal, TermForRestart, ResetBegin, DeployBegin, RestartReturn, StopTerm,
     StopDone, StopKill, DeployRefused, DeployHealth, DeployRoute, DeploySwap, appVars, procVars
<1>2. \A b \in Apps : Live(b)' <=> Live(b)
  <2>1. CASE UNCHANGED proc
    BY <2>1, SameLive, Zenon
  <2>2. CASE \E a \in Apps : Terminate(a) \/ Kill(a)
    BY <2>2, SignalLives, Zenon
  <2>3. CASE \E i \in Ids : RestartSignal(c, i)
    <3>1. PICK i \in Ids : RestartSignal(c, i)
      BY <2>3, Zenon
    <3>2. Key(i) \in Keys
      BY DEF Key, Keys
    <3>3. apps[Key(i)] \in Apps
      BY <3>1, <3>2, Zenon DEF RestartSignal, TypeInv, TypeOK, RegistryType
    <3> QED BY <2>2, <3>1, <3>3, Zenon DEF RestartSignal, TermForRestart
  <2>4. CASE StopTerm(c) \/ StopKill(c)
    <3>1. caller[c].app \in Apps
      BY <2>4, CallHasApp, Zenon DEF StopTerm, StopKill
    <3> QED BY <2>2, <2>4, <3>1, Zenon DEF StopTerm, StopKill
  <2> QED BY <2>1, <2>3, <2>4, Zenon DEF ResetBegin, DeployBegin, RestartReturn, StopDone,
             DeployRefused, DeployHealth, DeployRoute, DeploySwap, procVars
<1>3. \A b \in Apps : Stopping(b) => Stopping(b)'
  <2>1. CASE \E i \in Ids : RestartSignal(c, i) \/ ResetBegin(c, i) \/ DeployBegin(c, i)
    <3>1. PICK i \in Ids : RestartSignal(c, i) \/ ResetBegin(c, i) \/ DeployBegin(c, i)
      BY <2>1, Zenon
    <3>2. Begun(c, i)
      BY <3>1, CallBegun, Zenon
    <3>3. caller[c].pc \notin Removing
      BY <3>1, RemovingIsBusy, Zenon DEF RestartSignal, ResetBegin, DeployBegin
    <3> QED BY <3>2, <3>3, StopKept, Zenon DEF Begun
  <2>2. CASE RestartReturn(c) \/ DeployRefused(c) \/ DeployHealth(c) \/ DeploySwap(c)
    <3>1. Only(c)
      BY <2>2, CallOthers, Zenon
    <3>2. caller[c].pc \notin Removing
      BY <2>2, Zenon DEF RestartReturn, DeployRefused, DeployHealth, DeploySwap, Removing, StopPc
    <3> QED BY <3>1, <3>2, StopKept, Zenon
  <2>3. CASE StopTerm(c) \/ StopDone(c) \/ StopKill(c)
    <3>1. caller'[c].pc \in Removing /\ caller'[c].app = caller[c].app /\ Only(c)
      BY <2>3, StopMoves, Zenon DEF Removing, StopPc, Orderly
    <3> QED BY <3>1, StopKept, Zenon
  <2>4. CASE DeployRoute(c)
    <3>0. caller[c].pc \in DeployPc
      BY <2>4, Zenon DEF DeployRoute, DeployPc
    <3>1. stopApp(c, caller[c].app)
      BY <1>0, <2>4, <3>0, Zenon DEF DeployRoute, Orderly, CallOK
    <3>2. caller'[c].pc = "stopTerm" /\ caller'[c].app = caller[c].app /\ Only(c)
      BY <1>0, <3>1, StopsApp, Zenon
    <3>3. caller'[c].pc \in Removing
      BY <3>2, Zenon DEF Removing, StopPc
    <3> QED BY <3>2, <3>3, StopKept, Zenon
  <2> QED BY <2>1, <2>2, <2>3, <2>4, Zenon
<1> QED BY <1>1, <1>2, <1>3, AllSame, Zenon

\* An App that a step does not touch.
LEMMA SameApp ==
  ASSUME NEW b \in Apps, proc'[b] = proc[b], pid'[b] = pid[b], Isolated(b)' <=> Isolated(b),
         Registered(b)' <=> Registered(b), Stopping(b) => Stopping(b)'
  PROVE  Same(b)
BY SameLive, Zenon DEF Same

\* Who is registered after one key was emptied.
LEMMA TakeRegistered ==
  ASSUME TypeInv, RegistryInv, NEW k \in Keys, apps[k] # NULL, apps' = [apps EXCEPT ![k] = NULL]
  PROVE  /\ apps[k] \in Apps /\ Registered(apps[k])
         /\ \A j \in Keys : apps'[j] # apps[k]
         /\ \A b \in Apps : b # apps[k] => (Registered(b)' <=> Registered(b))
<1>1. /\ apps[k] \in Apps /\ id[apps[k]] = k
      /\ \A j \in Keys : apps'[j] = IF j = k THEN NULL ELSE apps[j]
      /\ \A j \in Keys : apps'[j] # apps[k]
  BY TakenIsOut, Zenon
<1>2. Registered(apps[k])
  BY Zenon DEF Registered
<1>3. ASSUME NEW b \in Apps, b # apps[k] PROVE Registered(b)' <=> Registered(b)
  <2>1. b # NULL
    BY SupervisorAssumption, Zenon
  <2>2. \A j \in Keys : apps'[j] = b <=> apps[j] = b
    BY <1>1, <1>3, <2>1, Zenon
  <2> QED BY <2>2, Zenon DEF Registered
<1> QED BY <1>1, <1>2, <1>3, Zenon

\* A call that takes an App out of the registry begins to stop it.
LEMMA TakeDrops ==
  ASSUME TypeInv, RegistryInv, NEW c \in Callers, NEW k \in Keys, Takes(c, k),
         caller[c].pc \notin Removing, UNCHANGED <<held, proc, pid>>
  PROVE  OneChange
<1>1. apps[k] # NULL /\ apps' = [apps EXCEPT ![k] = NULL]
  BY Zenon DEF Takes
<1>2. /\ apps[k] \in Apps /\ Registered(apps[k])
      /\ \A j \in Keys : apps'[j] # apps[k]
      /\ \A b \in Apps : b # apps[k] => (Registered(b)' <=> Registered(b))
  BY <1>1, TakeRegistered, Zenon
<1>3. PICK a \in Apps : a = apps[k]
  BY <1>2, Zenon
<1>4. \A b \in Apps : Stopping(b) => Stopping(b)'
  BY StopKept, Zenon DEF Takes
<1>5. caller'[c].pc \in Removing /\ caller'[c].app = a
  BY <1>3, Zenon DEF Takes, Removing, StopPc
<1>6. Stopping(a)'
  BY <1>5, Zenon DEF Stopping
<1>7. \A b \in Apps : Isolated(b)' <=> Isolated(b)
  BY Zenon DEF Isolated
<1>8. ~Registered(a)' /\ Registered(a)
  BY <1>2, <1>3, Zenon DEF Registered
<1>9. Dropped(a)
  BY <1>6, <1>7, <1>8, SameLive, Zenon DEF Dropped
<1>10. ASSUME NEW b \in Apps, b # a PROVE Same(b)
  <2>1. Registered(b)' <=> Registered(b)
    BY <1>2, <1>3, <1>10, Zenon
  <2> QED BY <1>4, <1>7, <2>1, SameApp, Zenon
<1> QED BY <1>9, <1>10, Zenon DEF OneChange, Changes

\* The swap drops v1, and v2 stays registered.
LEMMA SwapDrops ==
  ASSUME TypeInv, RegistryInv, NEW c \in Callers, Swaps(c), UNCHANGED <<held, proc, pid>>
  PROVE  OneChange
<1>1. PICK t, k, v2, v1 : SwapView(c, t, k, v2, v1)
  BY SwapViewed, Zenon
<1>2. v1 \in Apps
  BY <1>1, Zenon DEF SwapView
<1>3. \A b \in Apps : Stopping(b) => Stopping(b)'
  <2>1. caller[c].pc \notin Removing
    BY Zenon DEF Swaps, Removing, StopPc
  <2> QED BY <2>1, StopKept, Zenon DEF Swaps
<1>4. Stopping(v1)'
  <2>1. caller'[c].pc \in Removing /\ caller'[c].app = v1
    BY <1>1, Zenon DEF Swaps, SameLocals, SwapView, Removing
  <2> QED BY <2>1, Zenon DEF Stopping
<1>5. \A b \in Apps : Isolated(b)' <=> Isolated(b)
  BY Zenon DEF Isolated
<1>6. Registered(v1) /\ ~Registered(v1)'
  BY <1>1, Zenon DEF Registered, SwapView
<1>7. Dropped(v1)
  BY <1>2, <1>4, <1>5, <1>6, SameLive, Zenon DEF Dropped
<1>8. ASSUME NEW b \in Apps, b # v1 PROVE Same(b)
  <2>1. CASE b = v2
    <3>1. Registered(b) /\ Registered(b)'
      BY <1>1, <2>1, Zenon DEF Registered, SwapView
    <3> QED BY <1>3, <1>5, <3>1, SameApp, Zenon
  <2>2. CASE b # v2
    <3>1. b # NULL
      BY SupervisorAssumption, Zenon
    <3>2. \A j \in Keys : apps'[j] = b <=> apps[j] = b
      BY <1>1, <1>8, <2>2, <3>1, Zenon DEF SwapView
    <3>3. Registered(b)' <=> Registered(b)
      BY <3>2, Zenon DEF Registered
    <3> QED BY <1>3, <1>5, <3>3, SameApp, Zenon
  <2> QED BY <2>1, <2>2, Zenon
<1> QED BY <1>2, <1>7, <1>8, Zenon DEF OneChange, Changes

\* The two spawns.
LEMMA SpawnSpawns ==
  ASSUME TypeInv, PidInv, NEW a \in Apps, NEW k \in Keys, spawnUnchecked(k, a),
         \A b \in Apps : Stopping(b) => Stopping(b)'
  PROVE  OneChange
<1>1. 0 \in Epochs
  BY SupervisorAssumption DEF Epochs
<1>2. Started(a, 0)
  BY <1>1, StartLives, Zenon DEF spawnUnchecked
<1>3. /\ apps[k] = NULL /\ id[a] = NULL
      /\ apps' = [apps EXCEPT ![k] = a] /\ held' = [held EXCEPT ![a] = {"log", "isolation"}]
  BY Zenon DEF spawnUnchecked, SlotFree
<1>4. \A j \in Keys : apps'[j] = IF j = k THEN a ELSE apps[j]
  BY <1>3, Zenon DEF TypeInv, TypeOK, RegistryType
<1>5. Isolated(a)' /\ \A b \in Apps : b # a => (Isolated(b)' <=> Isolated(b))
  BY <1>3, Zenon DEF Isolated, TypeInv, TypeOK, RegistryType
<1>6. Registered(a)'
  BY <1>4, Zenon DEF Registered
<1>7. pid[a] = 0 /\ pid'[a] # 0
  <2>1. pid[a] = 0 /\ pid'[a] = pid[a] + 1
    BY <1>2, <1>3, Zenon DEF Started, PidInv
  <2> QED BY <2>1
<1>8. Live(a)'
  BY <1>2, Zenon DEF Live, Up, Started
<1>9. ASSUME NEW b \in Apps, b # a PROVE Same(b)
  <2>1. b # NULL
    BY SupervisorAssumption, Zenon
  <2>2. \A j \in Keys : apps'[j] = b <=> apps[j] = b
    BY <1>3, <1>4, <1>9, <2>1, Zenon
  <2>3. Registered(b)' <=> Registered(b)
    BY <2>2, Zenon DEF Registered
  <2>4. proc'[b] = proc[b] /\ pid'[b] = pid[b]
    BY <1>2, <1>9, Zenon DEF Started
  <2> QED BY <1>5, <1>9, <2>3, <2>4, SameApp, Zenon
<1> QED BY <1>5, <1>6, <1>7, <1>8, <1>9, Zenon DEF OneChange, Changes, Spawned

\* A start of a registered App whose process was waited for.
LEMMA StartRestarts ==
  ASSUME TypeInv, PidInv, NEW a \in Apps, Registered(a), proc[a] = "reaped", id[a] # NULL,
         proc'[a] = "alive", pid'[a] = pid[a] + 1,
         Isolated(a)' <=> Isolated(a), Registered(a)' <=> Registered(a)
  PROVE  Restarted(a)
<1>1. pid[a] # 0 /\ pid[a] \in Nat
  BY Zenon DEF PidInv, TypeInv, TypeOK, ProcessType
<1>2. pid'[a] # 0
  BY <1>1
<1>3. ~Live(a) /\ Live(a)'
  BY Zenon DEF Live, Up
<1> QED BY <1>1, <1>2, <1>3, Zenon DEF Restarted

\* A Reset starts a registered App, or changes none.
LEMMA ResetRestarts ==
  ASSUME TypeInv, ReapInv, PidInv, NEW c \in Callers, ResetResume(c)
  PROVE  OneChange
<1>1. UNCHANGED <<apps, held>>
  BY Zenon DEF ResetResume, appVars
<1>2. Only(c)
  BY CallOthers, Zenon
<1>3. \A b \in Apps : Stopping(b) => Stopping(b)'
  <2>1. caller[c].pc \notin Removing
    BY Zenon DEF ResetResume, Removing, StopPc
  <2> QED BY <1>2, <2>1, StopKept, Zenon
<1>4. CASE UNCHANGED <<proc, pid>>
  <2>1. \A b \in Apps : Live(b)' <=> Live(b)
    BY <1>4, SameLive, Zenon
  <2> QED BY <1>1, <1>3, <1>4, <2>1, AllSame, Zenon
<1>5. CASE Resumes(c)
  <2>1. PICK a \in Apps : a = caller[c].app
    BY <1>5, Zenon DEF Resumes
  <2>2. /\ Registered(a) /\ proc[a] = "reaped" /\ id[a] # NULL
        /\ startLocked(a) /\ done[a] + 1 \in Epochs /\ goWatchAndProbe(a, done[a] + 1)
    BY <1>5, <2>1, Zenon DEF Resumes
  <2>3. Started(a, done[a] + 1)
    BY <2>2, StartLives, Zenon
  <2>4. \A b \in Apps : (Isolated(b)' <=> Isolated(b)) /\ (Registered(b)' <=> Registered(b))
    BY <1>1, Zenon DEF Isolated, Registered
  <2>5. proc'[a] = "alive" /\ pid'[a] = pid[a] + 1
    BY <2>3, Zenon DEF Started
  <2>6. Restarted(a)
    BY <2>2, <2>4, <2>5, StartRestarts, Zenon
  <2>7. ASSUME NEW b \in Apps, b # a PROVE Same(b)
    <3>1. proc'[b] = proc[b] /\ pid'[b] = pid[b]
      BY <2>3, <2>7, Zenon DEF Started
    <3> QED BY <1>3, <2>4, <3>1, SameApp, Zenon
  <2> QED BY <2>6, <2>7, Zenon DEF OneChange, Changes
<1> QED BY <1>4, <1>5, ResetLives, Zenon

\* The teardown of a stop releases an App that is down and not registered.
LEMMA CleanupReleases ==
  ASSUME TypeInv, RegistryInv, LiveInv, CloseInv, EndInv, PidInv,
         NEW c \in Callers, StopCleanup(c)
  PROVE  OneChange
<1>1. caller[c].pc = "cleanup" /\ caller[c].pc # "idle" /\ caller[c].pc \in Removing
  BY Zenon DEF StopCleanup, Removing, StopPc
<1>2. PICK a \in Apps : a = caller[c].app
  BY <1>1, CallHasApp, Zenon
<1>3. CallOK(c) /\ EndCall(c)
  BY Zenon DEF RegistryInv, EndInv
<1>4. id[a] # NULL /\ ~Registered(a) /\ done[a] \in closed[a]
  BY <1>1, <1>2, <1>3, Zenon DEF CallOK, EndCall
<1>5. ~Live(a)
  <2>1. \A e \in Epochs : watch[a][e] \notin InLoop
    BY <1>4, ClosedIsOver, Zenon
  <2>2. "wait" \in InLoop
    BY Zenon DEF InLoop, Looping
  <2> QED BY <2>1, <2>2, Zenon DEF LiveInv
<1>6. UNCHANGED <<apps, proc, pid>> /\ held' = [held EXCEPT ![a] = {}]
  BY <1>2, Zenon DEF StopCleanup, procVars
<1>7. ~Isolated(a)' /\ \A b \in Apps : b # a => (Isolated(b)' <=> Isolated(b))
  BY <1>6, Zenon DEF Isolated, TypeInv, TypeOK, RegistryType
<1>8. \A b \in Apps : Registered(b)' <=> Registered(b)
  BY <1>6, Zenon DEF Registered
<1>9. pid[a] # 0
  BY <1>4, Zenon DEF PidInv
<1>10. ~Live(a)'
  BY <1>5, <1>6, SameLive, Zenon
<1>11. Released(a)
  BY <1>4, <1>5, <1>6, <1>7, <1>8, <1>9, <1>10, Zenon DEF Released
<1>12. ASSUME NEW b \in Apps, b # a PROVE Same(b)
  <2>1. Only(c)
    BY CallOthers, Zenon
  <2>2. Stopping(b) => Stopping(b)'
    BY <1>2, <1>12, <2>1, Zenon DEF Stopping, Only
  <2> QED BY <1>6, <1>7, <1>8, <1>12, <2>2, SameApp, Zenon
<1> QED BY <1>11, <1>12, Zenon DEF OneChange, Changes

\* The steps of watch: Wait, the restart, and the end of a failed restart.
LEMMA WatchChanges ==
  ASSUME TypeInv, ReapInv, RegistryInv, PidInv, NEW a \in Apps, NEW e \in Epochs, WatchStep(a, e)
  PROVE  OneChange
<1>1. UNCHANGED caller
  BY Zenon DEF WatchStep, WatchReap, WatchCrashed, WatchRecord, WatchRestart, WatchStopped,
     WatchClose, WatchRelease
<1>2. \A b \in Apps : Stopping(b) => Stopping(b)'
  BY <1>1, Zenon DEF Stopping
<1>3. \A b \in Apps : Isolated(b)' <=> Isolated(b)
  BY WatchIsolates, Zenon
<1>4. \A b \in Apps : b # a => proc'[b] = proc[b]
  BY WatchLives, Zenon DEF WatchMoved
<1>5. CASE UNCHANGED <<apps, pid, proc>>
  <2>1. ASSUME NEW b \in Apps PROVE Same(b)
    BY <1>2, <1>3, <1>5, SameApp, Zenon DEF Registered
  <2> QED BY <2>1, Zenon DEF OneChange
<1>6. CASE WatchReap(a, e)
  <2>1. UNCHANGED <<apps, pid>> /\ proc[a] = "zombie" /\ proc'[a] = "reaped"
    BY <1>6, Zenon DEF WatchReap, appVars, TypeInv, TypeOK, ProcessType
  <2>2. Live(a) /\ ~Live(a)'
    BY <2>1, Zenon DEF Live, Up
  <2>3. \A b \in Apps : Registered(b)' <=> Registered(b)
    BY <2>1, Zenon DEF Registered
  <2>4. Died(a)
    BY <1>3, <2>1, <2>2, <2>3, Zenon DEF Died
  <2>5. ASSUME NEW b \in Apps, b # a PROVE Same(b)
    BY <1>2, <1>3, <1>4, <2>1, <2>3, <2>5, SameApp, Zenon
  <2> QED BY <2>4, <2>5, Zenon DEF OneChange, Changes
<1>7. CASE WatchRestart(a, e)
  <2>1. proc[a] = "reaped"
    <3>1. watch[a][e] = "backoff" /\ "backoff" \in ProcessGone
      BY <1>7, Zenon DEF WatchRestart, ProcessGone, InLoop, Looping
    <3> QED BY <3>1, Zenon DEF ReapInv, ReapOK
  <2>2. StillTracked(a) => /\ id[a] # NULL /\ id[a] \in Keys /\ apps[id[a]] = a
                           /\ Registered(a)
    BY Zenon DEF StillTracked, isTracked, Registered, TypeInv, TypeOK, RegistryType
  <2>3. CASE StillTracked(a) /\ startLocked(a) /\ UNCHANGED apps
    <3>1. /\ proc'[a] = "alive" /\ pid'[a] = pid[a] + 1
          /\ \A b \in Apps : b # a => pid'[b] = pid[b]
      BY <2>3, Zenon DEF startLocked, TypeInv, TypeOK, ProcessType
    <3>2. \A b \in Apps : Registered(b)' <=> Registered(b)
      BY <2>3, Zenon DEF Registered
    <3>3. Restarted(a)
      BY <1>3, <2>1, <2>2, <2>3, <3>1, <3>2, StartRestarts, Zenon
    <3>4. ASSUME NEW b \in Apps, b # a PROVE Same(b)
      BY <1>2, <1>3, <1>4, <3>1, <3>2, <3>4, SameApp, Zenon
    <3> QED BY <3>3, <3>4, Zenon DEF OneChange, Changes
  <2>4. CASE StillTracked(a) /\ startFails(a) /\ apps' = [apps EXCEPT ![id[a]] = NULL]
    <3>1. UNCHANGED <<proc, pid>>
      BY <2>4, Zenon DEF startFails
    <3>2. PICK k \in Keys : k = id[a] /\ apps[k] = a
      BY <2>2, <2>4, Zenon
    <3>3. apps[k] # NULL /\ apps' = [apps EXCEPT ![k] = NULL]
      BY <2>4, <3>2, SupervisorAssumption, Zenon
    <3>4. /\ Registered(a) /\ \A j \in Keys : apps'[j] # a
          /\ \A b \in Apps : b # a => (Registered(b)' <=> Registered(b))
      BY <3>2, <3>3, TakeRegistered, Zenon
    <3>5. ~Registered(a)'
      BY <3>4, Zenon DEF Registered
    <3>6. ~Live(a) /\ ~Live(a)'
      BY <2>1, <3>1, Zenon DEF Live, Up
    <3>7. Dropped(a)
      BY <1>3, <3>1, <3>4, <3>5, <3>6, Zenon DEF Dropped
    <3>8. ASSUME NEW b \in Apps, b # a PROVE Same(b)
      BY <1>2, <1>3, <1>4, <3>1, <3>4, <3>8, SameApp, Zenon
    <3> QED BY <3>7, <3>8, Zenon DEF OneChange, Changes
  <2> QED BY <1>5, <1>7, <2>3, <2>4, Zenon DEF WatchRestart
<1>8. CASE WatchCrashed(a, e) \/ WatchRecord(a, e) \/ WatchStopped(a, e) \/ WatchClose(a, e)
           \/ WatchRelease(a, e)
  BY <1>5, <1>8, Zenon DEF WatchCrashed, WatchRecord, WatchStopped, WatchClose, WatchRelease,
     appVars, procVars
<1> QED BY <1>6, <1>7, <1>8, Zenon DEF WatchStep

\* Every step changes at most one App, in one of these ways.
LEMMA NextChanges ==
  ASSUME Orderly, TypeInv, ReapInv, RegistryInv, LiveInv, CloseInv, EndInv, PidInv, [Next]_vars
  PROVE  OneChange
<1>1. CASE UNCHANGED vars \/ \E a \in Apps : Exit(a)
  BY <1>1, QuietSame, Zenon
<1>2. ASSUME NEW a \in Apps, NEW e \in Epochs, WatchStep(a, e) \/ ProbeStep(a, e)
      PROVE  OneChange
  BY <1>2, QuietSame, WatchChanges, Zenon
<1>3. ASSUME NEW i \in Ids, NEW a \in Apps, Spawn(i, a) PROVE OneChange
  <2>1. Key(i) \in Keys
    BY DEF Key, Keys
  <2>2. \A b \in Apps : Stopping(b) => Stopping(b)'
    BY <1>3, Zenon DEF Spawn, Stopping
  <2> QED BY <1>3, <2>1, <2>2, SpawnSpawns, Zenon DEF Spawn
<1>4. ASSUME NEW c \in Callers, NEW i \in Ids,
             RestartSignal(c, i) \/ ResetBegin(c, i) \/ DeployBegin(c, i)
      PROVE  OneChange
  BY <1>4, CallSame, Zenon
<1>5. ASSUME NEW c \in Callers, NEW k \in Keys, StopBegin(c, k) PROVE OneChange
  <2>1. Takes(c, k)
    BY <1>5, StopBegins, Zenon
  <2>2. caller[c].pc \notin Removing /\ UNCHANGED <<held, proc, pid>>
    BY <1>5, RemovingIsBusy, Zenon DEF StopBegin, procVars
  <2> QED BY <2>1, <2>2, TakeDrops, Zenon
<1>6. ASSUME NEW c \in Callers, CallerStep(c) PROVE OneChange
  <2>1. CASE ResetResume(c)
    BY <2>1, ResetRestarts, Zenon
  <2>2. CASE \/ RestartReturn(c) \/ StopTerm(c) \/ StopDone(c) \/ StopKill(c)
             \/ DeployRefused(c) \/ DeployHealth(c) \/ DeployRoute(c)
             \/ DeploySwap(c) /\ ~V1Registered(c)
    BY <2>2, CallSame, Zenon
  <2>3. CASE StopDenied(c) \/ StopFailed(c) \/ DeployRollback(c)
    BY <2>3, Zenon DEF StopDenied, StopFailed, DeployRollback, RegistryInv, CallOK
  <2>4. CASE StopCleanup(c)
    BY <2>4, CleanupReleases, Zenon
  <2>5. ASSUME NEW a \in Apps, DeploySpawn(c, a) PROVE OneChange
    <3>1. caller[c].pc \in DeployPc /\ caller[c].pc \notin Removing
      BY <2>5, Zenon DEF DeploySpawn, DeployPc, Removing, StopPc
    <3>2. tempID(c) \in Keys
      BY <3>1, TempIsKey, Zenon
    <3>3. Only(c)
      BY <2>5, CallOthers, Zenon
    <3>4. \A b \in Apps : Stopping(b) => Stopping(b)'
      BY <3>1, <3>3, StopKept, Zenon
    <3> QED BY <2>5, <3>2, <3>4, SpawnSpawns, Zenon DEF DeploySpawn
  <2>6. CASE DeploySwap(c) /\ V1Registered(c)
    <3>1. Swaps(c)
      BY <2>6, SwapSwaps, Zenon
    <3>2. UNCHANGED <<held, proc, pid>>
      BY <2>6, Zenon DEF DeploySwap, procVars
    <3> QED BY <3>1, <3>2, SwapDrops, Zenon
  <2>7. CASE DeployAbort(c)
    <3>1. Takes(c, tempID(c)) /\ tempID(c) \in Keys
      BY <2>7, AbortTakes, Zenon
    <3>2. caller[c].pc \notin Removing /\ UNCHANGED <<held, proc, pid>>
      BY <2>7, Zenon DEF DeployAbort, procVars, Removing, StopPc
    <3> QED BY <3>1, <3>2, TakeDrops, Zenon
  <2> QED BY <1>6, <2>1, <2>2, <2>3, <2>4, <2>5, <2>6, <2>7, Zenon DEF CallerStep
<1> QED BY <1>1, <1>2, <1>3, <1>4, <1>5, <1>6, Zenon DEF Next

\* Every start follows the spawn that gave the App its id.
LEMMA InitPid == Init => PidInv
BY DEF Init, PidInv

\* Every start is of an App that was spawned, by this step or before.
LEMMA NextPid ==
  ASSUME TypeInv, ReapInv, RegistryInv, PidInv, [Next]_vars
  PROVE  PidInv'
<1>0. pid \in [Apps -> Nat]
  BY Zenon DEF TypeInv, TypeOK, ProcessType
<1>1. CASE UNCHANGED <<pid, id>>
  BY <1>1, Zenon DEF PidInv
<1>2. ASSUME NEW a \in Apps, startLocked(a), id'[a] # NULL, \A b \in Apps : b # a => id'[b] = id[b]
      PROVE  PidInv'
  <2>1. pid'[a] = pid[a] + 1 /\ \A b \in Apps : b # a => pid'[b] = pid[b]
    BY <1>0, <1>2, Zenon DEF startLocked
  <2>2. pid'[a] # 0
    BY <1>0, <2>1
  <2> QED BY <1>2, <2>1, <2>2, Zenon DEF PidInv
<1>3. ASSUME NEW k \in Keys, NEW a \in Apps, spawnUnchecked(k, a) PROVE PidInv'
  <2>1. id'[a] # NULL /\ \A b \in Apps : b # a => id'[b] = id[b]
    BY <1>3, SupervisorAssumption, Zenon DEF spawnUnchecked, TypeInv, TypeOK, RegistryType
  <2> QED BY <1>2, <1>3, <2>1, Zenon DEF spawnUnchecked
<1>4. ASSUME NEW c \in Callers, ResetResume(c) PROVE PidInv'
  <2>1. UNCHANGED id
    BY <1>4, Zenon DEF ResetResume, appVars
  <2>2. CASE Resumes(c)
    BY <1>2, <2>1, <2>2, Zenon DEF Resumes
  <2> QED BY <1>1, <1>4, <2>1, <2>2, ResetLives, Zenon
<1>5. ASSUME NEW a \in Apps, NEW e \in Epochs, WatchStep(a, e) PROVE PidInv'
  <2>1. UNCHANGED id
    BY <1>5, Zenon DEF WatchStep, WatchReap, WatchCrashed, WatchRecord, WatchRestart, WatchStopped,
       WatchClose, WatchRelease, appVars
  <2>2. CASE UNCHANGED pid
    BY <1>1, <2>1, <2>2, Zenon
  <2>3. CASE StillTracked(a) /\ startLocked(a)
    BY <1>2, <2>1, <2>3, Zenon DEF StillTracked, isTracked
  <2> QED BY <1>5, <2>2, <2>3, ZenonT(60) DEF WatchStep, WatchReap, WatchCrashed, WatchRecord,
             WatchRestart, startFails, WatchStopped, WatchClose, WatchRelease, procVars
<1>6. ASSUME NEW c \in Callers, DeploySwap(c), V1Registered(c) PROVE PidInv'
  <2>1. Swaps(c)
    BY <1>6, SwapSwaps, Zenon
  <2>2. PICK t, k, v2, v1 : SwapView(c, t, k, v2, v1)
    BY <2>1, SwapViewed, Zenon
  <2>3. t # NULL /\ k # NULL
    BY <2>2, SupervisorAssumption, Zenon DEF SwapView
  <2>4. \A b \in Apps : id'[b] = NULL <=> id[b] = NULL
    BY <2>2, <2>3, Zenon DEF SwapView
  <2>5. UNCHANGED pid
    BY <1>6, Zenon DEF DeploySwap, procVars
  <2> QED BY <2>4, <2>5, Zenon DEF PidInv
<1>7. ASSUME NEW i \in Ids, NEW a \in Apps, Spawn(i, a) PROVE PidInv'
  <2>1. Key(i) \in Keys
    BY DEF Key, Keys
  <2> QED BY <1>3, <1>7, <2>1, Zenon DEF Spawn
<1>8. ASSUME NEW c \in Callers, NEW a \in Apps, DeploySpawn(c, a) PROVE PidInv'
  <2>1. tempID(c) \in Keys
    BY <1>8, TempIsKey, Zenon DEF DeploySpawn, DeployPc
  <2> QED BY <1>3, <1>8, <2>1, Zenon DEF DeploySpawn
<1>9. ASSUME \/ \E a \in Apps : Exit(a)
             \/ \E a \in Apps, e \in Epochs : ProbeStep(a, e)
             \/ \E c \in Callers, i \in Ids :
                  RestartSignal(c, i) \/ ResetBegin(c, i) \/ DeployBegin(c, i)
             \/ \E c \in Callers, k \in Keys : StopBegin(c, k)
             \/ \E c \in Callers :
                  \/ RestartReturn(c)
                  \/ StopTerm(c) \/ StopDone(c) \/ StopKill(c) \/ StopDenied(c)
                  \/ StopCleanup(c) \/ StopFailed(c)
                  \/ DeployRefused(c) \/ DeployHealth(c)
                  \/ DeployAbort(c) \/ DeployRoute(c) \/ DeployRollback(c)
                  \/ DeploySwap(c) /\ ~V1Registered(c)
             \/ UNCHANGED vars
      PROVE  PidInv'
  <2>1. UNCHANGED id
    BY <1>9, ZenonT(60) DEF Exit, ProbeStep, ProbeExit, ProbeTick, ProbePass, ProbeRecover, ProbeFail,
       RestartSignal, ResetBegin, DeployBegin, StopBegin, RestartReturn, StopTerm, StopDone,
       StopKill, StopDenied, StopCleanup, StopFailed, DeployRefused, DeployHealth, DeploySwap,
       DeployAbort, DeployRoute, DeployRollback, vars, appVars
  <2>2. UNCHANGED pid
    BY <1>9, QuietSteps, Zenon
  <2> QED BY <1>1, <2>1, <2>2, Zenon
<1> QED
  BY <1>4, <1>5, <1>6, <1>7, <1>8, <1>9, ZenonT(30) DEF Next, CallerStep

\* Every registered App has its isolation; every process that was not waited for
\* is registered, or in the hands of the call that took it out to stop it.
OwnInv ==
  \A a \in Apps :
    /\ Registered(a) => Isolated(a)
    /\ Live(a) => Registered(a) \/ Stopping(a)

\* Initially nothing runs and nothing is registered.
LEMMA InitOwn == Init => OwnInv
<1> SUFFICES ASSUME Init, NEW a \in Apps PROVE ~Registered(a) /\ ~Live(a)
  BY Zenon DEF OwnInv
<1>1. ~Live(a)
  BY Zenon DEF Init, Live, Up
<1>2. ~Registered(a)
  BY SupervisorAssumption, Zenon DEF Init, Registered
<1> QED BY <1>1, <1>2, Zenon

\* Each of the changes keeps that.
LEMMA NextOwn ==
  ASSUME OwnInv, OneChange
  PROVE  OwnInv'
<1> SUFFICES ASSUME NEW a \in Apps
             PROVE  /\ Registered(a)' => Isolated(a)'
                    /\ Live(a)' => Registered(a)' \/ Stopping(a)'
  BY Zenon DEF OwnInv
<1>1. /\ Registered(a) => Isolated(a)
      /\ Live(a) => Registered(a) \/ Stopping(a)
  BY Zenon DEF OwnInv
<1>2. CASE Same(a)
  BY <1>1, <1>2, Zenon DEF Same
<1>3. CASE Spawned(a) \/ Restarted(a)
  BY <1>1, <1>3, Zenon DEF Spawned, Restarted
<1>4. CASE Died(a) \/ Dropped(a) \/ Released(a)
  BY <1>1, <1>4, Zenon DEF Died, Dropped, Released
<1>5. Same(a) \/ Changes(a)
  BY Zenon DEF OneChange
<1> QED BY <1>2, <1>3, <1>4, <1>5, Zenon DEF Changes

\* A Reset finds its App registered, so no stop has taken it and its isolation
\* is there.
LEMMA OrderlySafe ==
  ASSUME TypeInv, RegistryInv, OwnInv
  PROVE  ResetSafe
<1> SUFFICES ASSUME NEW c \in Callers, caller[c].pc = "resetWait", StillSuspended(c)
             PROVE  /\ Isolated(caller[c].app)
                    /\ \A d \in Callers : caller[d].pc \in StopPc => caller[d].app # caller[c].app
  BY Zenon DEF ResetSafe
<1>1. caller[c].app \in Apps /\ caller[c].key \in Keys
  BY Zenon DEF TypeInv, CallerOK
<1>2. Registered(caller[c].app)
  BY <1>1, Zenon DEF StillSuspended, Registered
<1>3. Isolated(caller[c].app)
  BY <1>1, <1>2, Zenon DEF OwnInv
<1>4. ASSUME NEW d \in Callers, caller[d].pc \in StopPc PROVE ~Registered(caller[d].app)
  BY <1>4, Zenon DEF RegistryInv, CallOK, Removing
<1> QED BY <1>2, <1>3, <1>4, Zenon

LifeInv == EndInv /\ PidInv /\ OwnInv

\* Every step of an orderly supervisor keeps all of it.
LEMMA NextLife ==
  ASSUME Orderly, ResetsApart
  PROVE  /\ TypeInv /\ ReapInv /\ CloseInv /\ LiveInv /\ RegistryInv /\ LifeInv
         /\ [Next]_vars
         => LifeInv'
<1> SUFFICES ASSUME TypeInv, ReapInv, CloseInv, LiveInv, RegistryInv, LifeInv, [Next]_vars
             PROVE  LifeInv'
  BY Zenon
<1>1. EndInv /\ PidInv /\ OwnInv
  BY Zenon DEF LifeInv
<1>2. EndInv'
  BY <1>1, OrderlySafe, NextEnd, Zenon
<1>3. PidInv'
  BY <1>1, NextPid, Zenon
<1>4. OwnInv'
  BY <1>1, NextChanges, NextOwn, Zenon
<1> QED BY <1>2, <1>3, <1>4, Zenon DEF LifeInv

\* A stop waits for the current channel of an App nobody starts again; a live
\* process has its isolation and an owner.
THEOREM LifeInvariance == Orderly /\ ResetsApart => (Spec => []LifeInv)
<1> SUFFICES ASSUME Orderly, ResetsApart PROVE Spec => []LifeInv
  OBVIOUS
<1>1. Spec => [](TypeInv /\ ReapInv /\ CloseInv /\ LiveInv /\ RegistryInv)
  BY TypeInvariance, ReapInvariance, CloseInvariance, LiveInvariance, RegistryInvariance, PTL
<1>2. /\ TypeInv /\ ReapInv /\ CloseInv /\ LiveInv /\ RegistryInv /\ LifeInv
      /\ [Next]_vars
      => LifeInv'
  BY NextLife
<1>3. Init => LifeInv
  BY InitEnd, InitPid, InitOwn DEF LifeInv
<1> QED BY <1>1, <1>2, <1>3, PTL DEF Spec

\* No orphans: however Stop, Reset, Deploy and Restart interleave with crashes
\* and restarts, a process that runs is in the registry, or a call that will
\* stop it is under way.
THEOREM NobodyOrphaned == Orderly /\ ResetsApart => (Spec => []NoOrphan)
<1> SUFFICES ASSUME Orderly, ResetsApart PROVE Spec => []NoOrphan
  OBVIOUS
<1>1. LifeInv => NoOrphan
  <2> SUFFICES ASSUME LifeInv, NEW a \in Apps, Up(a), ~Registered(a)
               PROVE  \E c \in Callers : /\ caller[c].pc \in StopPc \cup DeployPc
                                         /\ a \in {caller[c].app, caller[c].v2}
    BY Zenon DEF NoOrphan
  <2>1. PICK c \in Callers : caller[c].pc \in Removing /\ caller[c].app = a
    BY Zenon DEF LifeInv, OwnInv, Live, Stopping
  <2>2. caller[c].pc \in StopPc \cup DeployPc
    BY <2>1, Zenon DEF Removing, DeployPc
  <2> QED BY <2>1, <2>2, Zenon
<1> QED BY <1>1, LifeInvariance, PTL

\* The cgroup and the network namespace of a process are torn down only after
\* the process was waited for.  Beside Resets this takes the orderly registry;
\* without them it holds whatever else fails: signals that are refused, a
\* router that refuses v2, starts that fail, StopAll in the middle of a deploy.
THEOREM IsolationKept ==
  (Orderly /\ ResetsApart) \/ "Reset" \notin Ops => (Spec => []IsolationOutlivesProcess)
<1>1. ASSUME Orderly, ResetsApart PROVE Spec => []IsolationOutlivesProcess
  <2>1. Orderly /\ ResetsApart
    BY <1>1
  <2>2. LiveInv /\ LifeInv => IsolationOutlivesProcess
    BY IsolationHeld DEF LifeInv
  <2> QED BY <2>1, <2>2, LiveInvariance, LifeInvariance, PTL
<1>2. ASSUME "Reset" \notin Ops PROVE Spec => []IsolationOutlivesProcess
  <2>1. ResetsApart
    BY <1>2 DEF ResetsApart
  <2>2. TypeInv /\ CloseInv /\ EndInv /\ [Next]_vars => EndInv'
    BY <1>2, NoResetSafe, NextEnd, Zenon
  <2>3. Spec => []EndInv
    BY <2>1, <2>2, InitEnd, TypeInvariance, CloseInvariance, PTL DEF Spec
  <2> QED BY <2>3, LiveInvariance, IsolationHeld, PTL
<1> QED BY <1>1, <1>2

-----------------------------------------------------------------------------
(* What the supervisor promises of its Apps *)

\* The phase of an App.
LEMMA PhaseIs ==
  ASSUME NEW a
  PROVE  /\ pid[a] = 0 => Phase(a) = "new"
         /\ pid[a] # 0 /\ Live(a) => Phase(a) = "running"
         /\ pid[a] # 0 /\ ~Live(a) /\ ~Isolated(a) => Phase(a) = "released"
         /\ pid[a] # 0 /\ ~Live(a) /\ Isolated(a) => Phase(a) = "down"
BY Zenon DEF Phase, Live, Isolated

\* And after the step.
LEMMA PhaseIsNext ==
  ASSUME NEW a
  PROVE  /\ pid'[a] = 0 => Phase(a)' = "new"
         /\ pid'[a] # 0 /\ Live(a)' => Phase(a)' = "running"
         /\ pid'[a] # 0 /\ ~Live(a)' /\ ~Isolated(a)' => Phase(a)' = "released"
         /\ pid'[a] # 0 /\ ~Live(a)' /\ Isolated(a)' => Phase(a)' = "down"
BY Zenon DEF Phase, Live, Isolated, Up

\* An App that stays the same stays in its phase.
LEMMA SamePhase ==
  ASSUME NEW a \in Apps, Same(a)
  PROVE  Phase(a)' = Phase(a) /\ (Registered(a)' <=> Registered(a))
BY PhaseIs, PhaseIsNext, Zenon DEF Same

\* What the abstract specification sees of one changed App: its new phase and
\* whether it is registered.
Becomes(a, p) ==
  /\ a \in Apps /\ Phase(a)' = p
  /\ \A b \in Apps : b # a => Phase(b)' = Phase(b) /\ (Registered(b)' <=> Registered(b))

\* The mapped variables after such a change.
LEMMA MappedPhase ==
  ASSUME NEW a, NEW p, Becomes(a, p)
  PROVE  [b \in Apps |-> Phase(b)]' = [[b \in Apps |-> Phase(b)] EXCEPT ![a] = p]
<1> DEFINE f == [b \in Apps |-> Phase(b)]
           g == [b \in Apps |-> Phase(b)']
<1>1. \A b \in Apps : f[b] = Phase(b) /\ g[b] = Phase(b)'
  BY Zenon
<1>2. \A b \in Apps : g[b] = [f EXCEPT ![a] = p][b]
  BY <1>1, Zenon DEF Becomes
<1> QED BY <1>2, Zenon

\* A change of one App is the step of the abstract specification of that name.
LEMMA ChangeRefines ==
  ASSUME OwnInv, IsolationOutlivesProcess, PidInv, ReapInv,
         NEW a \in Apps, Changes(a), \A b \in Apps : b # a => Same(b)
  PROVE  [Promise!Next]_(Promise!vars)
<1>0. \A b \in Apps : b # a => Phase(b)' = Phase(b) /\ (Registered(b)' <=> Registered(b))
  BY SamePhase, Zenon
<1>1. \A p : Phase(a)' = p => [b \in Apps |-> Phase(b)]' = [[b \in Apps |-> Phase(b)] EXCEPT ![a] = p]
  BY <1>0, MappedPhase, Zenon DEF Becomes
<1>2. [b \in Apps |-> Phase(b)][a] = Phase(a)
  BY Zenon
<1>3. Live(a) => Isolated(a) /\ pid[a] # 0
  <2>1. Live(a) => Isolated(a)
    BY Zenon DEF IsolationOutlivesProcess, Live, Isolated
  <2>2. Live(a) => id[a] # NULL
    BY Zenon DEF ReapInv, ReapOK, Live, Up
  <2> QED BY <2>1, <2>2, Zenon DEF PidInv
<1>4. Registered(a) => Isolated(a)
  BY Zenon DEF OwnInv
<1>5. ASSUME Registered(a)' <=> Registered(a)
      PROVE  {b \in Apps : Registered(b)}' = {b \in Apps : Registered(b)}
  BY <1>0, <1>5, Zenon
<1>6. CASE Spawned(a)
  <2>1. Phase(a) = "new" /\ Phase(a)' = "running" /\ Registered(a)'
    BY <1>6, PhaseIs, PhaseIsNext, Zenon DEF Spawned
  <2>2. {b \in Apps : Registered(b)}' = {b \in Apps : Registered(b)} \cup {a}
    BY <1>0, <2>1, Zenon
  <2>3. Promise!Start(a)
    BY <1>1, <1>2, <2>1, <2>2, Zenon DEF Promise!Start, Promise!Become
  <2> QED BY <2>3, Zenon DEF Promise!Next
<1>7. CASE Restarted(a)
  <2>1. Phase(a) = "down" /\ Phase(a)' = "running" /\ Registered(a) /\ Registered(a)'
    BY <1>4, <1>7, PhaseIs, PhaseIsNext, Zenon DEF Restarted
  <2>2. Promise!Revive(a)
    BY <1>1, <1>2, <1>5, <2>1, Zenon DEF Promise!Revive, Promise!Become
  <2> QED BY <2>2, Zenon DEF Promise!Next
<1>8. CASE Died(a)
  <2>1. Phase(a) = "running" /\ Phase(a)' = "down" /\ (Registered(a)' <=> Registered(a))
    BY <1>3, <1>8, PhaseIs, PhaseIsNext, Zenon DEF Died
  <2>2. Promise!Die(a)
    BY <1>1, <1>2, <1>5, <2>1, Zenon DEF Promise!Die, Promise!Become
  <2> QED BY <2>2, Zenon DEF Promise!Next
<1>9. CASE Dropped(a)
  <2>1. Phase(a)' = Phase(a) /\ Registered(a) /\ ~Registered(a)'
    BY <1>9, PhaseIs, PhaseIsNext, Zenon DEF Dropped
  <2>2. {b \in Apps : Registered(b)}' = {b \in Apps : Registered(b)} \ {a}
    BY <1>0, <2>1, Zenon
  <2>3. [b \in Apps |-> Phase(b)]' = [b \in Apps |-> Phase(b)]
    BY <1>0, <2>1, Zenon
  <2>4. Promise!Drop(a)
    BY <2>1, <2>2, <2>3, Zenon DEF Promise!Drop
  <2> QED BY <2>4, Zenon DEF Promise!Next
<1>10. CASE Released(a)
  <2>1. Phase(a) \in {"down", "released"} /\ Phase(a)' = "released" /\ ~Registered(a)
    BY <1>10, PhaseIs, PhaseIsNext, Zenon DEF Released
  <2>2. {b \in Apps : Registered(b)}' = {b \in Apps : Registered(b)}
    BY <1>5, <1>10, Zenon DEF Released
  <2>3. CASE Phase(a) = "down"
    <3>1. Promise!Release(a)
      BY <1>1, <1>2, <2>1, <2>2, <2>3, Zenon DEF Promise!Release, Promise!Become
    <3> QED BY <3>1, Zenon DEF Promise!Next
  <2>4. CASE Phase(a) = "released"
    <3>1. [b \in Apps |-> Phase(b)]' = [b \in Apps |-> Phase(b)]
      BY <1>0, <2>1, <2>4, Zenon
    <3> QED BY <2>2, <3>1, Zenon DEF Promise!vars
  <2> QED BY <2>1, <2>3, <2>4, Zenon
<1> QED BY <1>6, <1>7, <1>8, <1>9, <1>10, Zenon DEF Changes

\* Every step is a step of the promise, or none.
LEMMA StepRefines ==
  ASSUME OwnInv, IsolationOutlivesProcess, PidInv, ReapInv, OneChange
  PROVE  [Promise!Next]_(Promise!vars)
<1>1. CASE \A a \in Apps : Same(a)
  <2>1. \A a \in Apps : Phase(a)' = Phase(a) /\ (Registered(a)' <=> Registered(a))
    BY <1>1, SamePhase, Zenon
  <2>2. [b \in Apps |-> Phase(b)]' = [b \in Apps |-> Phase(b)]
    BY <2>1, Zenon
  <2>3. {b \in Apps : Registered(b)}' = {b \in Apps : Registered(b)}
    BY <2>1, Zenon
  <2> QED BY <2>2, <2>3, Zenon DEF Promise!vars
<1> QED BY <1>1, ChangeRefines, Zenon DEF OneChange

\* The supervisor keeps its promise: what its goroutines and calls do, taken
\* together, starts an App once, starts it again only while it is registered,
\* and releases its isolation only when it is unregistered and down, after
\* which it never runs again.
THEOREM PromiseKept == Orderly /\ ResetsApart => (Spec => PromiseSpec)
<1> SUFFICES ASSUME Orderly, ResetsApart PROVE Spec => Promise!Spec
  BY Zenon DEF PromiseSpec
<1>1. Init => Promise!Init
  <2> SUFFICES ASSUME Init PROVE Promise!Init
    BY Zenon
  <2>1. \A a \in Apps : Phase(a) = "new"
    BY Zenon DEF Init, Phase
  <2>2. \A a \in Apps : ~Registered(a)
    BY SupervisorAssumption, Zenon DEF Init, Registered
  <2> QED BY <2>1, <2>2, Zenon DEF Promise!Init
<1>2. /\ TypeInv /\ ReapInv /\ CloseInv /\ LiveInv /\ RegistryInv /\ LifeInv
      /\ [Next]_vars
      => [Promise!Next]_(Promise!vars)
  <2> SUFFICES ASSUME TypeInv, ReapInv, CloseInv, LiveInv, RegistryInv, LifeInv, [Next]_vars
               PROVE  [Promise!Next]_(Promise!vars)
    BY Zenon
  <2>1. EndInv /\ PidInv /\ OwnInv /\ IsolationOutlivesProcess
    BY IsolationHeld, Zenon DEF LifeInv
  <2>2. OneChange
    BY <2>1, NextChanges, Zenon
  <2> QED BY <2>1, <2>2, StepRefines, Zenon
<1>3. Spec => [](TypeInv /\ ReapInv /\ CloseInv /\ LiveInv /\ RegistryInv /\ LifeInv)
  BY TypeInvariance, ReapInvariance, CloseInvariance, LiveInvariance, RegistryInvariance,
     LifeInvariance, PTL
<1> QED BY <1>1, <1>2, <1>3, PTL DEF Spec, Promise!Spec

-----------------------------------------------------------------------------
(* A registered App is looked after *)

\* The start in a Reset does not fail: if it does, the App stays registered with
\* a new channel and no goroutine, and is neither restarted nor suspended.
ResetsSucceed == "Reset" \in Ops => ~StartMayFail

\* Looked after, or shown as suspended.
Supervised(a) == Watching(a) \/ status[a] = "CrashLooping"

\* Without a health checker no probe runs; a probe may overwrite the status of a
\* suspended App.
ProbesOff == \A a \in Apps, e \in Epochs : probe[a][e].pc = "off"

SupInv == ProbesOff /\ \A a \in Apps : Registered(a) => Supervised(a)

\* A probe that was not started takes no step.
LEMMA NoProbeSteps == ProbesOff => \A a \in Apps, e \in Epochs : ~ProbeStep(a, e)
BY ZenonT(60) DEF ProbesOff, ProbeStep, ProbeExit, ProbeTick, ProbePass, ProbeRecover, ProbeFail

\* No probe is ever started.
LEMMA ProbesStayOff ==
  ASSUME ~HealthEnabled, ProbesOff, [Next]_vars
  PROVE  UNCHANGED probe
<1>1. ASSUME NEW a \in Apps, NEW e \in Epochs PROVE ~ProbeStep(a, e)
  BY NoProbeSteps, Zenon
<1>2. ASSUME NEW a \in Apps, NEW e \in Epochs, WatchStep(a, e) PROVE UNCHANGED probe
  BY <1>2, Zenon DEF WatchStep, WatchReap, WatchCrashed, WatchRecord, WatchRestart, WatchStopped,
     WatchClose, WatchRelease
<1>3. ASSUME NEW a, NEW e, goWatchAndProbe(a, e) PROVE UNCHANGED probe
  BY <1>3, Zenon DEF goWatchAndProbe
<1>4. ASSUME NEW k, NEW a, spawnUnchecked(k, a) PROVE UNCHANGED probe
  BY <1>3, <1>4, Zenon DEF spawnUnchecked
<1>5. ASSUME NEW c \in Callers, CallerStep(c) PROVE UNCHANGED probe
  <2>1. CASE ResetResume(c)
    BY <1>3, <2>1, Zenon DEF ResetResume
  <2>2. CASE \E a \in Apps : DeploySpawn(c, a)
    BY <1>4, <2>2, Zenon DEF DeploySpawn
  <2> QED BY <1>5, <2>1, <2>2, ZenonT(60) DEF CallerStep, RestartReturn, StopTerm, StopDone, StopKill,
             StopDenied, StopCleanup, StopFailed, DeployRefused, DeployHealth, DeploySwap,
             DeployAbort, DeployRoute, DeployRollback
<1>6. CASE \E c \in Callers, i \in Ids : RestartSignal(c, i) \/ ResetBegin(c, i) \/ DeployBegin(c, i)
  BY <1>6, Zenon DEF RestartSignal, ResetBegin, DeployBegin
<1>7. CASE \E c \in Callers, k \in Keys : StopBegin(c, k)
  BY <1>7, Zenon DEF StopBegin
<1>8. CASE \E a \in Apps : Exit(a)
  BY <1>8, Zenon DEF Exit
<1>9. CASE UNCHANGED vars
  BY <1>9, Zenon DEF vars
<1> QED BY <1>1, <1>2, <1>4, <1>5, <1>6, <1>7, <1>8, <1>9, Zenon DEF Next, Spawn

\* A registered App is registered under its id: watch sees that it is tracked.
LEMMA RegisteredIsTracked ==
  ASSUME TypeInv, RegistryInv, NEW a \in Apps, Registered(a)
  PROVE  isTracked(a) /\ \A k \in Keys : apps[k] = a => k = id[a]
<1>1. PICK k \in Keys : apps[k] = a
  BY Zenon DEF Registered
<1>2. \A j \in Keys : apps[j] = a => id[a] = j
  BY SupervisorAssumption, Zenon DEF RegistryInv, KeysOwn
<1> QED BY <1>1, <1>2, SupervisorAssumption, Zenon DEF isTracked

\* Of a registered App, watch goes on looking after it, or suspends it.
LEMMA WatchSupervises ==
  ASSUME TypeInv, ReapInv, RegistryInv, NEW a \in Apps, NEW e \in Epochs, WatchStep(a, e),
         Registered(a), Registered(a)', Supervised(a)
  PROVE  Supervised(a)'
<1>0. watch \in [Apps -> [Epochs -> WatchPc]] /\ status \in [Apps -> Status]
  BY Zenon DEF TypeInv, TypeOK, WatchType, ProcessType
<1>1. isTracked(a) /\ \A k \in Keys : apps[k] = a => k = id[a]
  BY RegisteredIsTracked, Zenon
<1>2. ASSUME NEW pc \in Looping, WatchGoto(a, e, pc) PROVE Supervised(a)'
  <2>1. watch'[a][e] = pc
    BY <1>0, <1>2, Zenon DEF WatchGoto
  <2> QED BY <2>1, <1>2, Zenon DEF Supervised, Watching
<1>3. CASE WatchReap(a, e) \/ WatchCrashed(a, e)
  <2>1. "exited" \in Looping /\ "crashed" \in Looping
    BY Zenon DEF Looping
  <2> QED BY <1>1, <1>2, <1>3, <2>1, Zenon DEF WatchReap, WatchCrashed
<1>4. CASE WatchRecord(a, e)
  <2>1. CASE WatchGoto(a, e, "backoff")
    BY <1>2, <2>1, Zenon DEF Looping
  <2>2. CASE Suspend(a, e)
    <3>1. status'[a] = "CrashLooping"
      BY <1>0, <2>2, Zenon DEF Suspend, setStatus
    <3> QED BY <3>1, Zenon DEF Supervised
  <2> QED BY <1>4, <2>1, <2>2, Zenon DEF WatchRecord
<1>5. CASE WatchRestart(a, e)
  <2>1. CASE WatchGoto(a, e, "wait")
    BY <1>2, <2>1, Zenon DEF Looping
  <2>2. CASE apps' = [apps EXCEPT ![id[a]] = NULL]
    <3>1. \A k \in Keys : apps'[k] # a
      BY <1>1, <2>2, SupervisorAssumption, Zenon DEF TypeInv, TypeOK, RegistryType
    <3> QED BY <3>1, Zenon DEF Registered
  <2> QED BY <1>1, <1>5, <2>1, <2>2, Zenon DEF WatchRestart, StillTracked
<1>6. CASE WatchStopped(a, e)
  <2>1. watch[a][e] = "untracked"
    BY <1>6, Zenon DEF WatchStopped
  <2>2. "untracked" \in InLoop /\ "untracked" \notin Looping /\ Looping \subseteq InLoop
    BY Zenon DEF InLoop, Looping
  <2>3. ReapOK(a)
    BY Zenon DEF ReapInv
  <2>4. status[a] # "CrashLooping"
    BY <2>1, <2>2, <2>3, Zenon DEF ReapOK
  <2>5. PICK f \in Epochs : watch[a][f] \in Looping
    BY <2>4, Zenon DEF Supervised, Watching
  <2>6. f = e
    BY <2>1, <2>2, <2>3, <2>5, Zenon DEF ReapOK
  <2> QED BY <2>1, <2>2, <2>5, <2>6, Zenon
<1>7. CASE WatchClose(a, e) \/ WatchRelease(a, e)
  <2>1. watch[a][e] \in {"closing", "closed"} /\ UNCHANGED status
    BY <1>7, Zenon DEF WatchClose, WatchRelease, procVars
  <2>2. watch[a][e] \notin Looping
    BY <2>1, Zenon DEF Looping
  <2>3. \A f \in Epochs : f # e => watch'[a][f] = watch[a][f]
    BY WatchLives, Zenon DEF WatchMoved
  <2> QED BY <2>1, <2>2, <2>3, Zenon DEF Supervised, Watching
<1> QED BY <1>3, <1>4, <1>5, <1>6, <1>7, Zenon DEF WatchStep

\* An App that a step does not touch is as well supervised as before.
LEMMA SameSupervised ==
  ASSUME NEW a \in Apps, Supervised(a), status'[a] = status[a],
         \A f \in Epochs : watch'[a][f] = watch[a][f]
  PROVE  Supervised(a)'
BY Zenon DEF Supervised, Watching

\* A start is supervised, and no other App is touched.
LEMMA StartSupervises ==
  ASSUME TypeInv, NEW a \in Apps, NEW b \in Apps, NEW e \in Epochs, Started(b, e), startLocked(b),
         Supervised(a)
  PROVE  Supervised(a)'
<1>1. CASE a = b
  <2>1. watch'[a][e] \in Looping
    BY <1>1, Zenon DEF Started, Looping
  <2> QED BY <2>1, Zenon DEF Supervised, Watching
<1>2. CASE a # b
  <2>1. status'[a] = status[a]
    BY <1>2, Zenon DEF startLocked, TypeInv, TypeOK, ProcessType
  <2> QED BY <1>2, <2>1, SameSupervised, Zenon DEF Started
<1> QED BY <1>1, <1>2, Zenon

\* A Reset that succeeds.
LEMMA ResetSupervises ==
  ASSUME ResetsSucceed, TypeInv, ReapInv, NEW a \in Apps, NEW c \in Callers, ResetResume(c),
         caller[c].pc = "resetWait" => "Reset" \in Ops, Supervised(a)
  PROVE  Supervised(a)'
<1>1. CASE Resumes(c)
  <2>1. PICK b \in Apps : b = caller[c].app
    BY <1>1, Zenon DEF Resumes
  <2>2. PICK e \in Epochs : e = done[b] + 1
    BY <1>1, <2>1, Zenon DEF Resumes
  <2>3. startLocked(b) /\ goWatchAndProbe(b, e)
    BY <1>1, <2>1, <2>2, Zenon DEF Resumes
  <2>4. Started(b, e)
    BY <2>3, StartLives, Zenon
  <2> QED BY <2>3, <2>4, StartSupervises, Zenon
<1>2. CASE ~StillSuspended(c)
  <2>1. UNCHANGED <<watch, status>>
    BY <1>2, Zenon DEF ResetResume, procVars
  <2> QED BY <2>1, SameSupervised, Zenon
<1>3. CASE StillSuspended(c) /\ ~Resumes(c)
  <2>1. ~startFails(caller[c].app)
    BY Zenon DEF ResetResume, ResetsSucceed, startFails
  <2>2. startLocked(caller[c].app)
    BY <1>3, <2>1, Zenon DEF ResetResume
  <2>3. UNCHANGED <<proc, pid>>
    BY <1>3, ResetLives, Zenon
  <2>4. caller[c].app \in Apps
    BY CallHasApp, Zenon DEF ResetResume
  <2>5. pid \in [Apps -> Nat]
    BY Zenon DEF TypeInv, TypeOK, ProcessType
  <2>6. PICK b \in Apps : b = caller[c].app
    BY <2>4, Zenon
  <2>7. pid'[b] = pid[b] + 1 /\ pid[b] \in Nat
    BY <2>2, <2>5, <2>6, Zenon DEF startLocked
  <2> QED BY <2>3, <2>7
<1> QED BY <1>1, <1>2, <1>3, Zenon

\* Every step keeps registered Apps supervised.
LEMMA NextSup ==
  ASSUME Orderly, ResetsSucceed, ~HealthEnabled
  PROVE  /\ TypeInv /\ ReapInv /\ CloseInv /\ LiveInv /\ RegistryInv /\ LifeInv /\ SupInv
         /\ LiveInv' /\ [Next]_vars
         => SupInv'
<1> SUFFICES ASSUME TypeInv, ReapInv, CloseInv, LiveInv, RegistryInv, LifeInv, SupInv, LiveInv',
                    [Next]_vars
             PROVE  SupInv'
  BY Zenon
<1>1. ProbesOff /\ EndInv /\ PidInv
  BY Zenon DEF SupInv, LifeInv
<1>2. UNCHANGED probe
  BY <1>1, ProbesStayOff, Zenon
<1>3. ProbesOff'
  BY <1>1, <1>2, Zenon DEF ProbesOff
<1>4. OneChange
  BY <1>1, NextChanges, Zenon
<1> SUFFICES ASSUME NEW a \in Apps, Registered(a)' PROVE Supervised(a)'
  BY <1>3, Zenon DEF SupInv
<1>5. CASE ~Registered(a)
  <2>1. Spawned(a)
    BY <1>4, <1>5, Zenon DEF OneChange, Changes, Same, Restarted, Died, Dropped, Released
  <2>2. PICK e \in Epochs : watch'[a][e] = "wait"
    BY <2>1, Zenon DEF Spawned, LiveInv
  <2>3. "wait" \in Looping
    BY Zenon DEF Looping
  <2> QED BY <2>2, <2>3, Zenon DEF Supervised, Watching
<1>6. CASE Registered(a)
  <2>0. Supervised(a)
    BY <1>6, Zenon DEF SupInv
  <2>1. ASSUME NEW b \in Apps, NEW k, spawnUnchecked(k, b) PROVE Supervised(a)'
    <3>1. 0 \in Epochs
      BY SupervisorAssumption DEF Epochs
    <3>2. startLocked(b) /\ goWatchAndProbe(b, 0)
      BY <2>1, Zenon DEF spawnUnchecked
    <3>3. Started(b, 0)
      BY <3>1, <3>2, StartLives, Zenon
    <3> QED BY <2>0, <3>1, <3>2, <3>3, StartSupervises, Zenon
  <2>2. ASSUME NEW b \in Apps, NEW e \in Epochs, WatchStep(b, e) PROVE Supervised(a)'
    <3>1. CASE b = a
      BY <1>6, <2>0, <2>2, <3>1, WatchSupervises, Zenon
    <3>2. CASE b # a
      <4>1. \A f \in Epochs : watch'[a][f] = watch[a][f]
        BY <2>2, <3>2, WatchLives, Zenon DEF WatchMoved
      <4>2. status'[a] = status[a]
        BY <2>2, <3>2, ZenonT(60) DEF WatchStep, WatchReap, WatchCrashed, WatchRecord, Suspend,
           WatchRestart, startLocked, startFails, WatchStopped, WatchClose, WatchRelease, setStatus,
           procVars, TypeInv, TypeOK, ProcessType
      <4> QED BY <2>0, <4>1, <4>2, SameSupervised, Zenon
    <3> QED BY <3>1, <3>2, Zenon
  <2>3. ASSUME NEW c \in Callers, CallerStep(c) PROVE Supervised(a)'
    <3>1. CASE ResetResume(c)
      <4>1. caller[c].pc = "resetWait" => "Reset" \in Ops
        BY <1>1, Zenon DEF EndInv, EndCall
      <4> QED BY <2>0, <3>1, <4>1, ResetSupervises, Zenon
    <3>2. CASE \E b \in Apps : DeploySpawn(c, b)
      BY <2>1, <3>2, Zenon DEF DeploySpawn
    <3>3. CASE UNCHANGED <<watch, status>>
      BY <2>0, <3>3, SameSupervised, Zenon
    <3> QED BY <2>3, <3>1, <3>2, <3>3, ZenonT(60) DEF CallerStep, RestartReturn, StopTerm, StopDone,
               StopKill, StopDenied, StopCleanup, StopFailed, DeployRefused, DeployHealth,
               DeploySwap, DeployAbort, DeployRoute, DeployRollback, procVars
  <2>4. ASSUME \/ \E b \in Apps : Exit(b)
               \/ \E c \in Callers, i \in Ids :
                    RestartSignal(c, i) \/ ResetBegin(c, i) \/ DeployBegin(c, i)
               \/ \E c \in Callers, k \in Keys : StopBegin(c, k)
               \/ UNCHANGED vars
        PROVE  Supervised(a)'
    <3>1. UNCHANGED <<watch, status>>
      BY <2>4, Zenon DEF Exit, RestartSignal, ResetBegin, DeployBegin, StopBegin, vars, procVars
    <3> QED BY <2>0, <3>1, SameSupervised, Zenon
  <2>5. \A b \in Apps, e \in Epochs : ~ProbeStep(b, e)
    BY <1>1, NoProbeSteps, Zenon
  <2> QED BY <2>1, <2>2, <2>3, <2>4, <2>5, Zenon DEF Next, Spawn
<1> QED BY <1>5, <1>6, Zenon

\* No app is listed and routed while nothing will ever restart it: every
\* registered App has a watch goroutine in its loop or is shown as suspended.
\* This takes a supervisor without a health checker and without failed starts in
\* Reset, the two ways in which the code loses an App.
THEOREM AlwaysSupervised ==
  Orderly /\ ResetsApart /\ ResetsSucceed /\ ~HealthEnabled => (Spec => []RegisteredIsSupervised)
<1> SUFFICES ASSUME Orderly, ResetsApart, ResetsSucceed, ~HealthEnabled
             PROVE  Spec => []RegisteredIsSupervised
  OBVIOUS
<1>1. Init => SupInv
  <2> SUFFICES ASSUME Init PROVE SupInv
    BY Zenon
  <2>1. ProbesOff
    BY Zenon DEF Init, NoProbe, ProbesOff
  <2>2. \A a \in Apps : ~Registered(a)
    BY SupervisorAssumption, Zenon DEF Init, Registered
  <2> QED BY <2>1, <2>2, Zenon DEF SupInv
<1>2. TypeInv /\ SupInv => RegisteredIsSupervised
  BY Zenon DEF TypeInv, TypeOK, RegistryType, SupInv, Registered, Supervised, RegisteredIsSupervised
<1>3. /\ TypeInv /\ ReapInv /\ CloseInv /\ LiveInv /\ RegistryInv /\ LifeInv /\ SupInv
      /\ LiveInv' /\ [Next]_vars
      => SupInv'
  BY NextSup
<1>4. Spec => [](TypeInv /\ ReapInv /\ CloseInv /\ LiveInv /\ RegistryInv /\ LifeInv)
  BY TypeInvariance, ReapInvariance, CloseInvariance, LiveInvariance, RegistryInvariance,
     LifeInvariance, PTL
<1> QED BY <1>1, <1>2, <1>3, <1>4, PTL DEF Spec

-----------------------------------------------------------------------------
(* A stop waits for a goroutine that exists *)

\* The current channel of the App was given to a watch goroutine.
Watched(a) == watch[a][done[a]] # "off"

\* A call works on the App: as its own, or as the v2 of a deploy.
WorksOn(c, a) ==
  \/ caller[c].pc # "idle" /\ caller[c].app = a
  \/ caller[c].pc \in DeployPc \ {"deploySpawn"} /\ caller[c].v2 = a

\* The registry, or a call, can lead somebody to the App.
Known(a) == Registered(a) \/ \E c \in Callers : WorksOn(c, a)
Knows(x) == x \in Apps => Known(x)

\* The channel a stop waits for was given to a watch goroutine; whoever resets
\* is allowed to.
WaitOK(c) ==
  /\ caller[c].pc \in {"stopWait", "killWait", "deniedWait"} =>
       caller[c].seen \in Epochs /\ watch[caller[c].app][caller[c].seen] # "off"
  /\ caller[c].pc = "resetWait" => "Reset" \in Ops

WaitInv == (\A a \in Apps : Known(a) => Watched(a)) /\ (\A c \in Callers : WaitOK(c))

\* A goroutine that was started stays so, and so does an App that is watched.
StaysWatched ==
  /\ \A a \in Apps, e \in Epochs : watch[a][e] # "off" => watch'[a][e] # "off"
  /\ \A a \in Apps : Watched(a) => Watched(a)'

\* A start of a new goroutine for the App's current channel.
LEMMA StartWatches ==
  ASSUME NEW a \in Apps, NEW e \in Epochs, Started(a, e), done'[a] = e,
         \A b \in Apps : b # a => done'[b] = done[b], done \in [Apps -> Epochs]
  PROVE  StaysWatched /\ Watched(a)'
<1>1. \A b \in Apps, f \in Epochs : watch[b][f] # "off" => watch'[b][f] # "off"
  BY Zenon DEF Started
<1>2. Watched(a)'
  BY Zenon DEF Watched, Started
<1>3. ASSUME NEW b \in Apps, b # a, Watched(b) PROVE Watched(b)'
  <2>1. done'[b] = done[b] /\ done[b] \in Epochs
    BY <1>3, Zenon
  <2> QED BY <1>1, <1>3, <2>1, Zenon DEF Watched
<1> QED BY <1>1, <1>2, <1>3, Zenon DEF StaysWatched

\* What does not change stays watched.
LEMMA SameWatched ==
  ASSUME UNCHANGED <<watch, done>>
  PROVE  StaysWatched
BY Zenon DEF StaysWatched, Watched

\* A spawn starts the goroutine of its App's first channel.
LEMMA SpawnWatches ==
  ASSUME TypeInv, ReapInv, NEW a \in Apps, NEW k, spawnUnchecked(k, a)
  PROVE  StaysWatched /\ Watched(a)'
<1>1. 0 \in Epochs
  BY SupervisorAssumption DEF Epochs
<1>2. Started(a, 0)
  BY <1>1, StartLives, Zenon DEF spawnUnchecked
<1>3. done[a] = 0 /\ UNCHANGED done
  BY Zenon DEF spawnUnchecked, doneVars, ReapInv, ReapOK
<1> QED BY <1>1, <1>2, <1>3, StartWatches, Zenon DEF TypeInv, TypeOK, ChannelType

\* A Reset replaces the channel only together with its goroutine.
LEMMA ResetWatches ==
  ASSUME ResetsSucceed, TypeInv, ReapInv, NEW c \in Callers, WaitOK(c), ResetResume(c)
  PROVE  StaysWatched
<1>0. done \in [Apps -> Epochs]
  BY Zenon DEF TypeInv, TypeOK, ChannelType
<1>1. CASE ~StillSuspended(c)
  BY <1>1, SameWatched, Zenon DEF ResetResume
<1>2. CASE StillSuspended(c)
  <2>1. PICK a \in Apps : a = caller[c].app
    BY CallHasApp, Zenon DEF ResetResume
  <2>2. ~startFails(a)
    BY Zenon DEF WaitOK, ResetResume, ResetsSucceed, startFails
  <2>3. /\ done[a] < MaxResets /\ done' = [done EXCEPT ![a] = done[a] + 1]
        /\ startLocked(a) /\ goWatchAndProbe(a, done[a] + 1)
    BY <1>2, <2>1, <2>2, Zenon DEF ResetResume
  <2>4. done[a] + 1 \in Epochs
    BY <1>0, <2>3, SupervisorAssumption DEF Epochs
  <2>5. Started(a, done[a] + 1)
    BY <2>3, <2>4, StartLives, Zenon
  <2>6. done'[a] = done[a] + 1 /\ \A b \in Apps : b # a => done'[b] = done[b]
    BY <1>0, <2>3, Zenon
  <2> QED BY <1>0, <2>4, <2>5, <2>6, StartWatches, Zenon
<1> QED BY <1>1, <1>2, Zenon

\* Goroutines end, but never without a trace.
LEMMA WatchWatches ==
  ASSUME TypeInv, NEW a \in Apps, NEW e \in Epochs, WatchStep(a, e)
  PROVE  StaysWatched
<1>0. watch \in [Apps -> [Epochs -> WatchPc]] /\ done \in [Apps -> Epochs] /\ UNCHANGED done
  BY Zenon DEF TypeInv, TypeOK, ChannelType, WatchType, WatchStep, WatchReap, WatchCrashed,
     WatchRecord, WatchRestart, WatchStopped, WatchClose, WatchRelease, doneVars
<1>1. PICK pc \in WatchPc \ {"off"} : WatchGoto(a, e, pc)
  BY Zenon DEF WatchStep, WatchReap, WatchCrashed, WatchRecord, Suspend, WatchRestart,
     WatchStopped, WatchClose, WatchRelease, WatchPc
<1>2. watch'[a][e] = pc
  BY <1>0, <1>1, Zenon DEF WatchGoto
<1>3. \A b \in Apps, f \in Epochs : b # a \/ f # e => watch'[b][f] = watch[b][f]
  BY WatchLives, Zenon DEF WatchMoved
<1>4. \A b \in Apps, f \in Epochs : watch[b][f] # "off" => watch'[b][f] # "off"
  BY <1>1, <1>2, <1>3, Zenon
<1>5. \A b \in Apps : Watched(b) => Watched(b)'
  BY <1>0, <1>4, Zenon DEF Watched
<1> QED BY <1>4, <1>5, Zenon DEF StaysWatched

\* Every step leaves watched what was watched.
LEMMA NextWatched ==
  ASSUME ResetsSucceed, TypeInv, ReapInv, WaitInv, [Next]_vars
  PROVE  StaysWatched
<1>1. CASE Quiet
  BY <1>1, SameWatched, Zenon DEF Quiet
<1>2. ASSUME NEW a \in Apps, NEW e \in Epochs, WatchStep(a, e) PROVE StaysWatched
  BY <1>2, WatchWatches, Zenon
<1>3. ASSUME NEW a \in Apps, NEW k, spawnUnchecked(k, a) PROVE StaysWatched
  BY <1>3, SpawnWatches, Zenon
<1>4. ASSUME NEW c \in Callers, ResetResume(c) PROVE StaysWatched
  BY <1>4, ResetWatches, Zenon DEF WaitInv
<1> QED
  BY <1>1, <1>2, <1>3, <1>4, QuietSteps, ZenonT(60) DEF Next, CallerStep, Spawn, DeploySpawn

\* The calls that do not move lead to nobody new.
LEMMA KnownFrom ==
  ASSUME NEW c \in Callers, Only(c), \A k \in Keys : Knows(apps'[k]),
         caller'[c].pc # "idle" => Knows(caller'[c].app),
         caller'[c].pc \in DeployPc \ {"deploySpawn"} => Knows(caller'[c].v2)
  PROVE  \A a \in Apps : Known(a)' => Known(a)
<1> SUFFICES ASSUME NEW a \in Apps, Known(a)' PROVE Known(a)
  OBVIOUS
<1>1. CASE Registered(a)'
  BY <1>1, Zenon DEF Registered, Knows
<1>2. ASSUME NEW d \in Callers, WorksOn(d, a)' PROVE Known(a)
  <2>1. CASE d = c
    BY <1>2, <2>1, Zenon DEF WorksOn, Knows
  <2>2. CASE d # c
    BY <1>2, <2>2, Zenon DEF WorksOn, Only, Known
  <2> QED BY <2>1, <2>2, Zenon
<1> QED BY <1>1, <1>2, Zenon DEF Known

\* What the registry and the calls lead to.
LEMMA KnownNow ==
  /\ Knows(NULL)
  /\ \A k \in Keys : Knows(apps[k])
  /\ \A c \in Callers : caller[c].pc # "idle" => Knows(caller[c].app)
  /\ \A c \in Callers : caller[c].pc \in DeployPc \ {"deploySpawn"} => Knows(caller[c].v2)
BY SupervisorAssumption, Zenon DEF Knows, Known, Registered, WorksOn

\* Writing somebody known into the registry.
LEMMA KnownWrite ==
  ASSUME TypeInv, NEW k, NEW x, Knows(x), apps' = [apps EXCEPT ![k] = x]
  PROVE  \A j \in Keys : Knows(apps'[j])
<1>1. \A j \in Keys : apps'[j] = x \/ apps'[j] = apps[j]
  BY Zenon DEF TypeInv, TypeOK, RegistryType
<1> QED BY <1>1, KnownNow, Zenon

\* The steps of a call that was started.
LEMMA CallKnows ==
  ASSUME TypeInv, NEW c \in Callers,
         \/ RestartReturn(c) \/ ResetResume(c)
         \/ StopTerm(c) \/ StopDone(c) \/ StopKill(c) \/ StopDenied(c)
         \/ StopCleanup(c) \/ StopFailed(c) \/ DeployRefused(c) \/ DeployHealth(c)
         \/ DeploySwap(c) \/ DeployAbort(c) \/ DeployRoute(c) \/ DeployRollback(c)
  PROVE  \A a \in Apps : Known(a)' => Known(a)
<1>0. CallerType
  BY Zenon DEF TypeInv, TypeOK
<1>a. \A k \in Keys : Knows(apps[k])
  BY KnownNow, Zenon
<1>1. ASSUME Return(c), \A k \in Keys : Knows(apps'[k])
      PROVE  \A a \in Apps : Known(a)' => Known(a)
  <2>1. caller'[c].pc = "idle" /\ Only(c)
    BY <1>0, <1>1, CallReturns, Zenon
  <2>2. "idle" \notin DeployPc
    BY Zenon DEF DeployPc
  <2> QED BY <1>1, <2>1, <2>2, KnownFrom, Zenon
<1>2. ASSUME NEW pc, Goto(c, pc), \A k \in Keys : Knows(apps'[k]), caller[c].pc # "idle",
             pc \in DeployPc \ {"deploySpawn"} => caller[c].pc \in DeployPc \ {"deploySpawn"}
      PROVE  \A a \in Apps : Known(a)' => Known(a)
  <2>1. caller'[c].pc = pc /\ caller'[c].app = caller[c].app /\ caller'[c].v2 = caller[c].v2 /\ Only(c)
    BY <1>0, <1>2, CallGoes, Zenon DEF SameLocals
  <2>2. Knows(caller[c].app)
    BY <1>2, KnownNow, Zenon
  <2>3. pc \in DeployPc \ {"deploySpawn"} => Knows(caller[c].v2)
    BY <1>2, KnownNow, Zenon
  <2> QED BY <1>2, <2>1, <2>2, <2>3, KnownFrom, Zenon
<1>3. ASSUME NEW a, stopApp(c, a), Knows(a), \A k \in Keys : Knows(apps'[k])
      PROVE  \A b \in Apps : Known(b)' => Known(b)
  <2>1. caller'[c].pc = "stopTerm" /\ caller'[c].app = a /\ Only(c)
    BY <1>0, <1>3, StopsApp, Zenon
  <2>2. "stopTerm" \notin DeployPc
    BY Zenon DEF DeployPc
  <2> QED BY <1>3, <2>1, <2>2, KnownFrom, Zenon
<1>4. CASE RestartReturn(c) \/ ResetResume(c) \/ StopCleanup(c) \/ DeployRefused(c)
  <2>1. Return(c) /\ UNCHANGED apps
    BY <1>4, Zenon DEF RestartReturn, ResetResume, StopCleanup, DeployRefused, appVars
  <2> QED BY <1>a, <1>1, <2>1, Zenon
<1>5. CASE StopTerm(c)
  <2>1. /\ caller'[c].pc = "stopWait" /\ caller'[c].app = caller[c].app /\ Only(c)
        /\ caller[c].pc # "idle" /\ UNCHANGED apps
    BY <1>0, <1>5, Zenon DEF StopTerm, CallerType, Only, appVars
  <2>2. "stopWait" \notin DeployPc
    BY Zenon DEF DeployPc
  <2>3. Knows(caller[c].app)
    BY <2>1, KnownNow, Zenon
  <2> QED BY <1>a, <2>1, <2>2, <2>3, KnownFrom, ZenonT(60)
<1>6. CASE StopDone(c) \/ StopKill(c) \/ StopDenied(c)
  <2>1. UNCHANGED apps /\ caller[c].pc # "idle"
    BY <1>6, Zenon DEF StopDone, StopKill, StopDenied, appVars
  <2>2. PICK pc : Goto(c, pc) /\ pc \in {"cleanup", "killWait", "deniedWait", "stopFailed"}
    BY <1>6, Zenon DEF StopDone, StopKill, StopDenied, AfterKill
  <2>3. pc \notin DeployPc
    BY <2>2, Zenon DEF DeployPc
  <2> QED BY <1>a, <1>2, <2>1, <2>2, <2>3, ZenonT(60)
<1>7. CASE StopFailed(c)
  <2>1. Return(c) /\ Knows(caller[c].app)
    BY <1>7, KnownNow, Zenon DEF StopFailed
  <2>2. UNCHANGED apps \/ apps' = [apps EXCEPT ![caller[c].key] = caller[c].app]
    BY <1>7, Zenon DEF StopFailed, PutBack
  <2>3. \A k \in Keys : Knows(apps'[k])
    BY <1>a, <2>1, <2>2, KnownWrite, ZenonT(60)
  <2> QED BY <1>1, <2>1, <2>3, Zenon
<1>8. CASE DeployHealth(c)
  <2>1. PICK pc : Goto(c, pc)
    BY <1>8, Zenon DEF DeployHealth
  <2>2. UNCHANGED apps /\ caller[c].pc # "idle" /\ caller[c].pc \in DeployPc \ {"deploySpawn"}
    BY <1>8, Zenon DEF DeployHealth, appVars, DeployPc
  <2> QED BY <1>a, <1>2, <2>1, <2>2, Zenon
<1>9. CASE DeploySwap(c)
  <2>1. PICK pc : Goto(c, pc)
    BY <1>9, Zenon DEF DeploySwap
  <2>2. caller[c].pc # "idle" /\ caller[c].pc \in DeployPc \ {"deploySpawn"}
    BY <1>9, Zenon DEF DeploySwap, DeployPc
  <2>3. Knows(caller[c].v2)
    BY <2>2, KnownNow, Zenon
  <2>4. \A k \in Keys : apps'[k] = apps[k] \/ apps'[k] = NULL \/ apps'[k] = caller[c].v2
    <3>1. CASE UNCHANGED apps
      BY <3>1, Zenon
    <3>2. CASE apps' = [apps EXCEPT ![tempID(c)] = NULL, ![caller[c].key] = caller[c].v2]
      BY <3>2, Zenon DEF TypeInv, TypeOK, RegistryType
    <3> QED BY <1>9, <3>1, <3>2, Zenon DEF DeploySwap
  <2>5. \A k \in Keys : Knows(apps'[k])
    BY <1>a, <2>3, <2>4, KnownNow, ZenonT(60)
  <2> QED BY <1>2, <2>1, <2>2, <2>5, ZenonT(60)
<1>10. CASE DeployAbort(c)
  <2>1. CASE Return(c) /\ UNCHANGED apps
    BY <1>a, <1>1, <2>1, Zenon
  <2>2. CASE apps[tempID(c)] # NULL
    <3> DEFINE x == [Idle EXCEPT !.pc = "stopTerm", !.app = apps[tempID(c)], !.key = tempID(c)]
    <3>1. x.pc = "stopTerm" /\ x.app = apps[tempID(c)]
      BY DEF Idle
    <3>2. caller' = [caller EXCEPT ![c] = x] /\ apps' = [apps EXCEPT ![tempID(c)] = NULL]
      BY <1>10, <2>2, Zenon DEF DeployAbort
    <3> HIDE DEF x
    <3>3. caller'[c] = x /\ Only(c)
      BY <1>0, <3>2, CallMoves, Zenon
    <3>4. tempID(c) \in Keys
      BY <1>10, TempIsKey, Zenon DEF DeployAbort, DeployPc
    <3>5. Knows(apps[tempID(c)]) /\ \A k \in Keys : Knows(apps'[k])
      BY <1>a, <3>2, <3>4, KnownNow, KnownWrite, ZenonT(60)
    <3>6. "stopTerm" \notin DeployPc
      BY Zenon DEF DeployPc
    <3> QED BY <3>1, <3>3, <3>5, <3>6, KnownFrom, ZenonT(60)
  <2> QED BY <1>10, <2>1, <2>2, Zenon DEF DeployAbort
<1>11. CASE DeployRoute(c)
  <2>1. UNCHANGED apps /\ caller[c].pc # "idle" /\ caller[c].pc \in DeployPc \ {"deploySpawn"}
    BY <1>11, Zenon DEF DeployRoute, DeployPc
  <2>2. Knows(caller[c].app)
    BY <2>1, KnownNow, Zenon
  <2> QED BY <1>a, <1>2, <1>3, <1>11, <2>1, <2>2, ZenonT(60) DEF DeployRoute
<1>12. CASE DeployRollback(c)
  <2>1. caller[c].pc # "idle" /\ caller[c].pc \in DeployPc \ {"deploySpawn"}
    BY <1>12, Zenon DEF DeployRollback, DeployPc
  <2>2. Knows(caller[c].app) /\ Knows(caller[c].v2)
    BY <2>1, KnownNow, Zenon
  <2>3. apps' = [apps EXCEPT ![caller[c].key] = caller[c].app] /\ stopApp(c, caller[c].v2)
    BY <1>12, Zenon DEF DeployRollback
  <2>4. \A k \in Keys : Knows(apps'[k])
    BY <2>2, <2>3, KnownWrite, Zenon
  <2> QED BY <1>3, <2>2, <2>3, <2>4, Zenon
<1> QED BY <1>4, <1>5, <1>6, <1>7, <1>8, <1>9, <1>10, <1>11, <1>12, ZenonT(60)

\* The other steps: a spawned App is watched, a new call and watch lead to
\* nobody new.
LEMMA NextKnows ==
  ASSUME TypeInv, ReapInv, [Next]_vars
  PROVE  \A a \in Apps : Known(a)' => Known(a) \/ Watched(a)'
<1>0. CallerType /\ \A k \in Keys : Knows(apps[k])
  BY KnownNow, Zenon DEF TypeInv, TypeOK
<1>1. ASSUME UNCHANGED caller, \A k \in Keys : Knows(apps'[k])
      PROVE  \A a \in Apps : Known(a)' => Known(a)
  BY <1>1, Zenon DEF Known, Knows, WorksOn, Registered
<1>2. ASSUME NEW a \in Apps, NEW e \in Epochs, WatchStep(a, e)
      PROVE  \A b \in Apps : Known(b)' => Known(b)
  <2>1. UNCHANGED apps \/ apps' = [apps EXCEPT ![id[a]] = NULL]
    BY <1>2, Zenon DEF WatchStep, WatchReap, WatchCrashed, WatchRecord, WatchRestart, WatchStopped,
       WatchClose, WatchRelease, appVars
  <2>2. UNCHANGED caller
    BY <1>2, Zenon DEF WatchStep, WatchReap, WatchCrashed, WatchRecord, WatchRestart, WatchStopped,
       WatchClose, WatchRelease
  <2>3. \A k \in Keys : Knows(apps'[k])
    BY <1>0, <2>1, KnownNow, KnownWrite, Zenon
  <2> QED BY <1>1, <2>2, <2>3, Zenon
<1>3. ASSUME \/ \E a \in Apps : Exit(a)
             \/ \E a \in Apps, e \in Epochs : ProbeStep(a, e)
             \/ UNCHANGED vars
      PROVE  \A a \in Apps : Known(a)' => Known(a)
  <2>1. UNCHANGED <<apps, caller>>
    BY <1>3, ZenonT(60) DEF Exit, ProbeStep, ProbeExit, ProbeTick, ProbePass, ProbeRecover, ProbeFail,
       vars, appVars
  <2> QED BY <1>0, <1>1, <2>1, Zenon
<1>4. ASSUME NEW c \in Callers, NEW i \in Ids,
             RestartSignal(c, i) \/ ResetBegin(c, i) \/ DeployBegin(c, i)
      PROVE  \A a \in Apps : Known(a)' => Known(a)
  <2>1. Begun(c, i)
    BY <1>4, CallBegun, Zenon
  <2>2. Key(i) \in Keys
    BY DEF Key, Keys
  <2>3. caller'[c].pc \notin DeployPc \ {"deploySpawn"}
    BY <2>1, Zenon DEF Begun, DeployPc
  <2> QED BY <1>0, <2>1, <2>2, <2>3, KnownFrom, Zenon DEF Begun
<1>5. ASSUME NEW c \in Callers, NEW k \in Keys, StopBegin(c, k)
      PROVE  \A a \in Apps : Known(a)' => Known(a)
  <2>1. Takes(c, k)
    BY <1>5, StopBegins, Zenon
  <2>2. \A j \in Keys : Knows(apps'[j])
    BY <2>1, KnownNow, KnownWrite, Zenon DEF Takes
  <2>3. caller'[c].pc \notin DeployPc \ {"deploySpawn"}
    BY <2>1, Zenon DEF Takes, DeployPc
  <2> QED BY <1>0, <2>1, <2>2, <2>3, KnownFrom, ZenonT(60) DEF Takes
<1>6. ASSUME NEW k, NEW a \in Apps, spawnUnchecked(k, a),
             \A b \in Apps : b # a => ((\E c \in Callers : WorksOn(c, b)') => Known(b))
      PROVE  \A b \in Apps : Known(b)' => Known(b) \/ Watched(b)'
  <2>1. Watched(a)'
    BY <1>6, SpawnWatches, Zenon
  <2>2. \A j \in Keys : apps'[j] = a \/ apps'[j] = apps[j]
    BY <1>6, Zenon DEF spawnUnchecked, TypeInv, TypeOK, RegistryType
  <2>3. \A b \in Apps : b # a /\ Registered(b)' => Known(b)
    BY <2>2, Zenon DEF Registered, Known
  <2> QED BY <1>6, <2>1, <2>3, Zenon DEF Known
<1>7. ASSUME NEW i \in Ids, NEW a \in Apps, Spawn(i, a)
      PROVE  \A b \in Apps : Known(b)' => Known(b) \/ Watched(b)'
  <2>1. \A b \in Apps : (\E c \in Callers : WorksOn(c, b)') => Known(b)
    BY <1>7, Zenon DEF Spawn, WorksOn, Known
  <2> QED BY <1>6, <1>7, <2>1, Zenon DEF Spawn
<1>8. ASSUME NEW c \in Callers, NEW a \in Apps, DeploySpawn(c, a)
      PROVE  \A b \in Apps : Known(b)' => Known(b) \/ Watched(b)'
  <2>1. /\ caller'[c].v2 = a /\ caller'[c].app = caller[c].app /\ Only(c)
        /\ caller[c].pc # "idle"
    BY <1>0, <1>8, Zenon DEF DeploySpawn, CallerType, Only
  <2>2. ASSUME NEW b \in Apps, b # a, NEW d \in Callers, WorksOn(d, b)' PROVE Known(b)
    <3>1. CASE d = c
      BY <2>1, <2>2, <3>1, Zenon DEF WorksOn, Known
    <3>2. CASE d # c
      BY <2>1, <2>2, <3>2, Zenon DEF WorksOn, Known, Only
    <3> QED BY <3>1, <3>2, Zenon
  <2>3. \A b \in Apps : b # a => ((\E d \in Callers : WorksOn(d, b)') => Known(b))
    BY <2>2, Zenon
  <2> QED BY <1>6, <1>8, <2>3, Zenon DEF DeploySpawn
<1>9. ASSUME NEW c \in Callers, CallerStep(c)
      PROVE  \A a \in Apps : Known(a)' => Known(a) \/ Watched(a)'
  BY <1>8, <1>9, CallKnows, Zenon DEF CallerStep
<1> QED BY <1>2, <1>3, <1>4, <1>5, <1>7, <1>9, ZenonT(60) DEF Next

\* A call that did not move still waits for a goroutine.
LEMMA WaitKept ==
  ASSUME TypeInv, StaysWatched, NEW c \in Callers, WaitOK(c), caller'[c] = caller[c]
  PROVE  WaitOK(c)'
<1>1. caller[c].pc \in {"stopWait", "killWait", "deniedWait"} => caller[c].app \in Apps
  BY CallHasApp, Zenon
<1> QED BY <1>1, Zenon DEF WaitOK, StaysWatched

\* Nor does a call that waits for nothing wait for the wrong thing.
LEMMA WaitNone ==
  ASSUME NEW c \in Callers, caller'[c].pc \notin {"stopWait", "killWait", "deniedWait"},
         caller'[c].pc = "resetWait" => "Reset" \in Ops
  PROVE  WaitOK(c)'
BY Zenon DEF WaitOK

\* One call moves.
LEMMA WaitMoves ==
  ASSUME TypeInv, WaitInv, StaysWatched, NEW c \in Callers, Only(c), WaitOK(c)'
  PROVE  \A d \in Callers : WaitOK(d)'
<1> SUFFICES ASSUME NEW d \in Callers, d # c PROVE WaitOK(d)'
  BY Zenon
<1> QED BY WaitKept, Zenon DEF WaitInv, Only

\* The wait of a stop begins with the current channel of a watched App.
LEMMA StopWaits ==
  ASSUME TypeInv, WaitInv, StaysWatched, NEW c \in Callers,
         StopTerm(c) \/ StopDone(c) \/ StopKill(c) \/ StopDenied(c)
  PROVE  \A d \in Callers : WaitOK(d)'
<1>0. CallerType /\ WaitOK(c)
  BY Zenon DEF TypeInv, TypeOK, WaitInv
<1>1. CASE StopTerm(c)
  <2>1. /\ caller[c].pc # "idle" /\ caller'[c].pc = "stopWait" /\ caller'[c].app = caller[c].app
        /\ caller'[c].seen = done[caller[c].app] /\ Only(c)
    BY <1>0, <1>1, Zenon DEF StopTerm, CallerType, Only
  <2>2. PICK a \in Apps : a = caller[c].app
    BY <2>1, CallHasApp, Zenon
  <2>3. Known(a)
    BY <2>1, <2>2, Zenon DEF Known, WorksOn
  <2>4. done[a] \in Epochs /\ watch[a][done[a]] # "off"
    BY <2>3, Zenon DEF WaitInv, Watched, TypeInv, TypeOK, ChannelType
  <2>5. watch'[a][done[a]] # "off"
    BY <2>4, Zenon DEF StaysWatched
  <2>6. WaitOK(c)'
    BY <2>1, <2>2, <2>4, <2>5, Zenon DEF WaitOK
  <2> QED BY <2>1, <2>6, WaitMoves, Zenon
<1>2. CASE StopDone(c) \/ StopDenied(c)
  <2>1. PICK pc \in {"cleanup", "stopFailed"} : Goto(c, pc)
    BY <1>2, Zenon DEF StopDone, StopDenied
  <2>2. caller'[c].pc = pc /\ Only(c)
    BY <1>0, <2>1, CallGoes, Zenon
  <2>3. WaitOK(c)'
    BY <2>1, <2>2, WaitNone, Zenon
  <2> QED BY <2>2, <2>3, WaitMoves, Zenon
<1>3. CASE StopKill(c)
  <2>1. PICK pc \in {"killWait", "deniedWait"} : Goto(c, pc)
    BY <1>3, Zenon DEF StopKill, AfterKill
  <2>2. /\ caller'[c].pc = pc /\ caller'[c].app = caller[c].app /\ caller'[c].seen = caller[c].seen
        /\ Only(c) /\ caller[c].pc = "stopWait"
    BY <1>0, <1>3, <2>1, CallGoes, Zenon DEF SameLocals, StopKill
  <2>3. caller[c].app \in Apps
    BY <2>2, CallHasApp, Zenon
  <2>4. caller[c].seen \in Epochs /\ watch[caller[c].app][caller[c].seen] # "off"
    BY <1>0, <2>2, Zenon DEF WaitOK
  <2>5. watch'[caller[c].app][caller[c].seen] # "off"
    BY <2>3, <2>4, Zenon DEF StaysWatched
  <2>6. WaitOK(c)'
    BY <2>1, <2>2, <2>4, <2>5, Zenon DEF WaitOK
  <2> QED BY <2>2, <2>6, WaitMoves, Zenon
<1> QED BY <1>1, <1>2, <1>3, Zenon

\* Every step keeps all of it.
LEMMA NextWait ==
  ASSUME ResetsSucceed
  PROVE  TypeInv /\ ReapInv /\ WaitInv /\ [Next]_vars => WaitInv'
<1> SUFFICES ASSUME TypeInv, ReapInv, WaitInv, [Next]_vars PROVE WaitInv'
  BY Zenon
<1>1. StaysWatched
  BY NextWatched, Zenon
<1>2. \A a \in Apps : Known(a)' => Watched(a)'
  BY <1>1, NextKnows, Zenon DEF WaitInv, StaysWatched
<1>3. CASE UNCHANGED caller
  <2>1. \A c \in Callers : WaitOK(c)'
    BY <1>1, <1>3, WaitKept, Zenon DEF WaitInv
  <2> QED BY <1>2, <2>1, Zenon DEF WaitInv
<1>4. ASSUME NEW c \in Callers, Only(c), WaitOK(c)' PROVE WaitInv'
  BY <1>1, <1>2, <1>4, WaitMoves, ZenonT(60) DEF WaitInv
<1>5. ASSUME NEW c \in Callers, NEW i \in Ids,
             RestartSignal(c, i) \/ ResetBegin(c, i) \/ DeployBegin(c, i)
      PROVE  WaitInv'
  <2>1. Begun(c, i)
    BY <1>5, CallBegun, Zenon
  <2>2. WaitOK(c)'
    BY <2>1, Zenon DEF Begun, WaitOK
  <2> QED BY <1>4, <2>1, <2>2, Zenon DEF Begun
<1>6. ASSUME NEW c \in Callers, NEW k \in Keys, StopBegin(c, k) PROVE WaitInv'
  <2>1. Takes(c, k)
    BY <1>6, StopBegins, Zenon
  <2>2. WaitOK(c)'
    BY <2>1, Zenon DEF Takes, WaitOK
  <2> QED BY <1>4, <2>1, <2>2, Zenon DEF Takes
<1>7. ASSUME NEW c \in Callers, CallerStep(c) PROVE WaitInv'
  <2>1. CASE StopTerm(c) \/ StopDone(c) \/ StopKill(c) \/ StopDenied(c)
    BY <1>1, <1>2, <2>1, StopWaits, Zenon DEF WaitInv
  <2>2. CASE ~(StopTerm(c) \/ StopDone(c) \/ StopKill(c) \/ StopDenied(c))
    <3>1. Only(c) /\ caller'[c].pc \in DeployPc \cup {"idle", "stopTerm"}
      BY <1>7, <2>2, CallOthers, Zenon DEF CallerStep
    <3>2. WaitOK(c)'
      BY <3>1, WaitNone, Zenon DEF DeployPc
    <3> QED BY <1>4, <3>1, <3>2, Zenon
  <2> QED BY <2>1, <2>2, Zenon
<1>8. ASSUME NEW a \in Apps, NEW e \in Epochs, WatchStep(a, e) PROVE UNCHANGED caller
  BY <1>8, Zenon DEF WatchStep, WatchReap, WatchCrashed, WatchRecord, WatchRestart, WatchStopped,
     WatchClose, WatchRelease
<1>9. ASSUME NEW a \in Apps, NEW e \in Epochs, ProbeStep(a, e) PROVE UNCHANGED caller
  BY <1>9, Zenon DEF ProbeStep, ProbeExit, ProbeTick, ProbePass, ProbeRecover, ProbeFail
<1>10. ASSUME (\E a \in Apps : Exit(a)) \/ (\E i \in Ids, a \in Apps : Spawn(i, a)) \/ UNCHANGED vars
       PROVE  UNCHANGED caller
  BY <1>10, Zenon DEF Exit, Spawn, vars
<1> QED BY <1>3, <1>5, <1>6, <1>7, <1>8, <1>9, <1>10, ZenonT(60) DEF Next

\* Initially nobody is known and nobody waits.
LEMMA InitWait == Init => WaitInv
<1> SUFFICES ASSUME Init PROVE WaitInv
  BY Zenon
<1>1. \A c \in Callers : caller[c].pc = "idle"
  BY Zenon DEF Init, Idle
<1>2. \A a \in Apps : ~Registered(a)
  BY SupervisorAssumption, Zenon DEF Init, Registered
<1>3. "idle" \notin DeployPc
  BY Zenon DEF DeployPc
<1> QED BY <1>1, <1>2, <1>3, Zenon DEF WaitInv, WaitOK, Known, WorksOn

\* No stop waits for a goroutine that does not exist: once no watch goroutine of
\* the App is left, the channel the stop waits for is closed.  This holds
\* whatever signals, routers and restarts do; only a Reset whose start fails
\* leaves a channel that nobody will close.
THEOREM StopsAreAnswered ==
  ResetsApart /\ ResetsSucceed => (Spec => []StopWaitsForSomeone)
<1> SUFFICES ASSUME ResetsApart, ResetsSucceed PROVE Spec => []StopWaitsForSomeone
  OBVIOUS
<1>1. TypeInv /\ CloseInv /\ WaitInv => StopWaitsForSomeone
  <2> SUFFICES ASSUME TypeInv, CloseInv, WaitInv, NEW c \in Callers,
                      caller[c].pc \in {"stopWait", "killWait"},
                      \A e \in Epochs : watch[caller[c].app][e] \in {"off", "closed", "gone"}
               PROVE  caller[c].seen \in closed[caller[c].app]
    BY Zenon DEF StopWaitsForSomeone
  <2>1. PICK a \in Apps : a = caller[c].app
    BY CallHasApp, Zenon
  <2>2. PICK e \in Epochs : e = caller[c].seen /\ watch[a][e] # "off"
    BY <2>1, Zenon DEF WaitInv, WaitOK
  <2>3. watch[a][e] \in {"closed", "gone"}
    BY <2>1, <2>2, Zenon
  <2>4. ChannelOK(a)
    BY Zenon DEF CloseInv
  <2>5. e \in closed[a]
    BY <2>3, <2>4, Zenon DEF ChannelOK
  <2> QED BY <2>1, <2>2, <2>5, Zenon
<1>2. TypeInv /\ ReapInv /\ WaitInv /\ [Next]_vars => WaitInv'
  BY NextWait
<1> QED
  BY <1>1, <1>2, InitWait, TypeInvariance, ReapInvariance, CloseInvariance, PTL DEF Spec
=============================================================================
