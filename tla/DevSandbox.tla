----------------------------- MODULE DevSandbox -----------------------------
(***************************************************************************)
(* creekd sandbox: brings up the development VM that creek.toml asks for,  *)
(* and provisions its primitives, each once per VM, marked by a file in    *)
(* the VM.  Invocations are separate processes that share the VM, and the  *)
(* file the VM is created from; one may be killed between any two of its   *)
(* commands, or stop or destroy the VM under another.                      *)
(***************************************************************************)
EXTENDS Integers, Sequences, Functions

CONSTANTS
  Invocations,   \* processes
  Databases,     \* database.driver in creek.toml; "" leaves it out
  Caches,        \* cache.driver
  VmFaults       \* bound on the commands that fail and the processes that are killed

ASSUME SandboxAssumption == VmFaults \in Nat

VARIABLES
  vm,        \* the VM: there, running, its port forwards, what is installed and marked; doubtful
             \* are markers set for a script that ran in a VM that is gone
  vmFile,    \* creek-sandbox.yaml in the temporary directory: its ports, or NoVmFile
  inv,       \* the invocations
  vmFaults

sandboxVars == <<vm, vmFile, inv, vmFaults>>

NoVM == [there |-> FALSE, running |-> FALSE, ports |-> {}, installed |-> {}, marked |-> {},
         doubtful |-> {}]
NoVmFile == {"none"}

NotRun == [pc |-> "idle", toml |-> [database |-> "", cache |-> ""], todo |-> <<>>,
           wrote |-> FALSE, disturbed |-> FALSE, moved |-> FALSE]

Active(i) == inv[i].pc \notin {"idle", "ok", "failed"}

Primitives == {"runtime-bun", "sqlite", "postgres", "mysql", "redis"}

SandboxTypeOK ==
  /\ vm \in [there : BOOLEAN, running : BOOLEAN, ports : SUBSET Primitives,
             installed : SUBSET Primitives, marked : SUBSET Primitives,
             doubtful : SUBSET Primitives]
  /\ vmFile = NoVmFile \/ vmFile \subseteq Primitives
  /\ \A i \in Invocations : Range(inv[i].todo) \subseteq Primitives

(***************************************************************************)
(* creek.toml.  The runtime, the storage and the e-mail keep their         *)
(* defaults: each adds a primitive in the way the cache does.              *)
(***************************************************************************)
applyDefaults(toml) ==
  [database |-> IF toml.database = "" THEN "sqlite" ELSE toml.database,
   cache |-> IF toml.cache = "" THEN "sqlite" ELSE toml.cache]

Validate(toml) ==
  toml.database \in {"sqlite", "postgres", "mysql"} /\ toml.cache \in {"sqlite", "redis"}

RequiredPrimitives(toml) ==
  <<"runtime-bun", toml.database>> \o (IF toml.cache = "redis" THEN <<"redis">> ELSE <<>>)

\* The primitives whose port AddPrimitive forwards to the host, in the file of a new VM.
AddPrimitive(prims) == Range(prims) \cap {"postgres", "mysql", "redis"}

(***************************************************************************)
(* An invocation, command by command.  The next one is chosen on what the  *)
(* last one showed.                                                        *)
(***************************************************************************)
VmFault == vmFaults < VmFaults /\ vmFaults' = vmFaults + 1

AtStep(i, pc) == inv[i].pc = pc
GoTo(i, pc) == inv' = [inv EXCEPT ![i].pc = pc] /\ UNCHANGED vmFile

\* It returns: whoever wrote the file removes it, whoever's it is by now.
Ends(i, pc) ==
  /\ inv' = [inv EXCEPT ![i].pc = pc]
  /\ vmFile' = IF inv[i].wrote THEN NoVmFile ELSE vmFile

\* A command returns an error.
CommandFails(i) == VmFault /\ Ends(i, "failed") /\ UNCHANGED vm

Provisioning(i) ==
  /\ inv' = [inv EXCEPT ![i].pc = "provision", ![i].todo = RequiredPrimitives(inv[i].toml)]
  /\ UNCHANGED vmFile

\* --stop and --destroy act at once; otherwise creek.toml is read and checked.
runSandbox(i) ==
  /\ AtStep(i, "idle")
  /\ \/ GoTo(i, "stop")
     \/ GoTo(i, "destroy")
     \/ \E d \in Databases, c \in Caches :
          LET toml == applyDefaults([database |-> d, cache |-> c])
          IN  /\ inv' = [inv EXCEPT ![i].toml = toml,
                                    ![i].pc = IF Validate(toml) THEN "exists" ELSE "failed"]
              /\ UNCHANGED vmFile
  /\ UNCHANGED <<vm, vmFaults>>

ExistsVM(i) ==
  /\ AtStep(i, "exists")
  /\ \/ GoTo(i, IF vm.there THEN "running" ELSE "write") /\ UNCHANGED <<vm, vmFaults>>
     \/ CommandFails(i)

WriteTo(i) ==
  /\ AtStep(i, "write")
  /\ \/ /\ vmFile' = AddPrimitive(RequiredPrimitives(inv[i].toml))
        /\ inv' = [inv EXCEPT ![i].pc = "create", ![i].wrote = TRUE]
        /\ UNCHANGED <<vm, vmFaults>>
     \/ CommandFails(i)

\* limactl refuses a name that is taken and a file that is gone; the VM is made from the
\* file as it is by now.
CreateVM(i) ==
  /\ AtStep(i, "create")
  /\ IF vm.there \/ vmFile = NoVmFile
     THEN Ends(i, "failed") /\ UNCHANGED <<vm, vmFaults>>
     ELSE \/ /\ vm' = [NoVM EXCEPT !.there = TRUE, !.running = TRUE, !.ports = vmFile]
             /\ Provisioning(i)
             /\ UNCHANGED vmFaults
          \/ /\ VmFault
             /\ Ends(i, "failed")
             /\ vm' \in {vm, [NoVM EXCEPT !.there = TRUE, !.ports = vmFile]}

RunningVM(i) ==
  /\ AtStep(i, "running")
  /\ \/ /\ IF vm.running THEN Provisioning(i) ELSE GoTo(i, "start")
        /\ UNCHANGED <<vm, vmFaults>>
     \/ CommandFails(i)

StartVM(i) ==
  /\ AtStep(i, "start")
  /\ IF ~vm.there
     THEN Ends(i, "failed") /\ UNCHANGED <<vm, vmFaults>>
     ELSE \/ vm' = [vm EXCEPT !.running = TRUE] /\ Provisioning(i) /\ UNCHANGED vmFaults
          \/ CommandFails(i)

\* Provision, primitive by primitive: a marker that can be read skips the script.
IsProvisioned(p) == vm.running /\ p \in vm.marked

Provision(i) ==
  /\ AtStep(i, "provision")
  /\ IF inv[i].todo = <<>>
     THEN Ends(i, "ok")
     ELSE IF IsProvisioned(Head(inv[i].todo))
     THEN inv' = [inv EXCEPT ![i].todo = Tail(@)] /\ UNCHANGED vmFile
     ELSE GoTo(i, "script")
  /\ UNCHANGED <<vm, vmFaults>>

\* A command in a VM that does not run fails, and any may.
ShellFails(i) ==
  IF vm.running THEN CommandFails(i) ELSE Ends(i, "failed") /\ UNCHANGED <<vm, vmFaults>>

\* faulty: the marker is set before the script has run
ProvisionScript_MarksFirst(i) ==
  /\ AtStep(i, "script")
  /\ \/ /\ vm.running
        /\ vm' = [vm EXCEPT !.marked = @ \cup {Head(inv[i].todo)},
                            !.installed = @ \cup {Head(inv[i].todo)}]
        /\ GoTo(i, "mark")
        /\ UNCHANGED vmFaults
     \/ /\ vm.running
        /\ vm' = [vm EXCEPT !.marked = @ \cup {Head(inv[i].todo)}]
        /\ Ends(i, "failed")
        /\ VmFault

\* A script that fails leaves the primitive half installed and unmarked.
ProvisionScript(i) ==
  /\ AtStep(i, "script")
  /\ \/ /\ vm.running
        /\ vm' = [vm EXCEPT !.installed = @ \cup {Head(inv[i].todo)}]
        /\ GoTo(i, "mark")
        /\ UNCHANGED vmFaults
     \/ ShellFails(i)

MarkProvisioned(i) ==
  /\ AtStep(i, "mark")
  /\ \/ /\ vm.running
        /\ vm' = [vm EXCEPT !.marked = @ \cup {Head(inv[i].todo)},
                            !.doubtful = @ \cup (IF inv[i].moved THEN {Head(inv[i].todo)} ELSE {})]
        /\ inv' = [inv EXCEPT ![i].pc = "provision", ![i].todo = Tail(@), ![i].moved = FALSE]
        /\ UNCHANGED <<vmFile, vmFaults>>
     \/ ShellFails(i)

\* Whoever has begun when the VM goes away is disturbed.
Disturb(i) ==
  /\ inv' = [j \in Invocations |->
               [inv[j] EXCEPT !.disturbed = ~AtStep(j, "idle"), !.pc = IF j = i THEN "ok" ELSE @,
                              !.moved = @ \/ (~vm'.there /\ AtStep(j, "mark"))]]
  /\ UNCHANGED vmFile

StopVM(i) ==
  /\ AtStep(i, "stop")
  /\ IF vm.running THEN vm' = [vm EXCEPT !.running = FALSE] /\ Disturb(i)
     ELSE Ends(i, "failed") /\ UNCHANGED vm
  /\ UNCHANGED vmFaults

DestroyVM(i) ==
  /\ AtStep(i, "destroy")
  /\ IF vm.there THEN vm' = NoVM /\ Disturb(i)
     ELSE Ends(i, "failed") /\ UNCHANGED vm
  /\ UNCHANGED vmFaults

\* The process is killed between two commands; the VM and the file stay as they are.
Killed(i) ==
  /\ Active(i)
  /\ VmFault
  /\ GoTo(i, "failed")
  /\ UNCHANGED vm

SandboxInit ==
  /\ vm = NoVM
  /\ vmFile = NoVmFile
  /\ inv = [i \in Invocations |-> NotRun]
  /\ vmFaults = 0

SandboxStep(i) ==
  \/ runSandbox(i) \/ ExistsVM(i) \/ WriteTo(i) \/ CreateVM(i) \/ RunningVM(i) \/ StartVM(i)
  \/ Provision(i) \/ ProvisionScript(i) \/ MarkProvisioned(i)
  \/ StopVM(i) \/ DestroyVM(i) \/ Killed(i)

SandboxNext == \E i \in Invocations : SandboxStep(i)

SandboxSpec == SandboxInit /\ [][SandboxNext]_sandboxVars

(***************************************************************************)
(* "Sandbox ready." is true: when an invocation ends well and nobody       *)
(* stopped or destroyed the VM since it began, the VM runs and every       *)
(* primitive of its creek.toml was installed in it by a script that ran to *)
(* its end, whichever invocations failed, were killed or ran beside it.    *)
(* Only a marker meant for a VM that was destroyed and made anew between   *)
(* script and marker stands for a script that did not run here.            *)
(***************************************************************************)
SandboxReady ==
  /\ vm.marked \subseteq vm.installed \cup vm.doubtful
  /\ \A i \in Invocations :
       AtStep(i, "ok") /\ ~inv[i].disturbed =>
         /\ vm.running
         /\ Range(RequiredPrimitives(inv[i].toml)) \subseteq vm.installed \cup vm.doubtful
=============================================================================
