----------------------------- MODULE HostCgroups -----------------------------
(***************************************************************************)
(* The resource limits of an app: the defaults of the daemon, the cgroup   *)
(* tree they need, and the files they are written to.  The tree hangs off  *)
(* the host's root, or off the cgroup systemd delegates to the daemon,     *)
(* which the daemon has to leave before it can hand controllers down.  A   *)
(* tree under the host's root outlives the daemon.                         *)
(***************************************************************************)
EXTENDS Integers, Sequences

CONSTANTS
  CgApps,     \* app IDs
  CgAsked,    \* the values a config gives a limit; 0 leaves it out
  CgDefault,  \* the value of a daemon-wide default
  CgFaults,   \* bound on the writes and removals that fail
  CgBoots,    \* bound on the starts of the daemon
  NoCgroup    \* no directory, no limits, no app

ASSUME CgroupAssumption ==
  /\ CgAsked \subseteq Nat /\ CgDefault \in Nat \ {0}
  /\ NoCgroup \notin [high : Nat, max : Nat, pids : Nat, cpu : Nat]
  /\ CgFaults \in Nat /\ CgBoots \in Nat

VARIABLES
  cgMode,     \* CgroupParent and CgroupDelegated: "off", "host" or "delegated"
  cgDefaults, \* DefaultMemoryHigh and DefaultMemoryMax
  offered,    \* the controllers the root of the tree has
  daemonAt,   \* where the daemon runs: "down", the tree's "root", or elsewhere
  delegated,  \* delegatedMgr is set
  handed,     \* cgroup.subtree_control of the root and of the parent slice
  cgDirs,     \* the files of each app's cgroup
  cgRuns,     \* each running app: the limits its config asked for, and App.cg
  inherited,     \* apps whose directory was there before they were spawned
  cgFaults,
  cgBoots

cgroupVars == <<cgMode, cgDefaults, offered, daemonAt, delegated, handed, cgDirs, cgRuns, inherited,
                cgFaults, cgBoots>>

Tokens == <<"cpu", "memory", "pids">>
Controllers == {"cpu", "memory", "pids"}

\* cgroup.Limits: a config gives each limit or leaves it out, or has none.
Limits == [high : CgAsked, max : CgAsked, pids : CgAsked, cpu : CgAsked]

\* The files of a cgroup, 0 for "max"; swapOff is memory.swap.max at 0.
CgroupFiles == [high : Nat, max : Nat, pids : Nat, cpu : Nat, swapOff : BOOLEAN]
Fresh == [high |-> 0, max |-> 0, pids |-> 0, cpu |-> 0, swapOff |-> FALSE]

CgroupsTypeOK ==
  /\ cgMode \in {"off", "host", "delegated"}
  /\ cgDefaults \in [high : {0, CgDefault}, max : {0, CgDefault}]
  /\ offered \subseteq Controllers
  /\ daemonAt \in {"down", "root", "leaf", "elsewhere"}
  /\ delegated \in BOOLEAN
  /\ handed.root \subseteq offered /\ handed.parent \subseteq handed.root
  /\ \A a \in CgApps : cgDirs[a] = NoCgroup \/ cgDirs[a] \in CgroupFiles
  /\ \A a \in CgApps : cgRuns[a] = NoCgroup
                         \/ cgRuns[a] \in [asked : Limits \cup {NoCgroup}, cg : BOOLEAN]
  /\ inherited \subseteq CgApps

CgFault == cgFaults < CgFaults /\ cgFaults' = cgFaults + 1

(***************************************************************************)
(* The tree.  A controller that the cgroup above does not hand down cannot *)
(* be handed on.  One that is busy is passed over, in the delegated root   *)
(* every one while the daemon is still in it.                              *)
(***************************************************************************)
enableControllers(on, available, busy) ==
  LET written == {k \in DOMAIN Tokens : \A j \in 1 .. k : Tokens[j] \in available}
  IN  [on |-> on \cup ({Tokens[k] : k \in written} \ busy), ok |-> written = DOMAIN Tokens]

\* leaveRoot: moves the daemon out of the delegated root, once.
leaveRoot(at) == IF at = "root" THEN "leaf" ELSE at

EnsureParent(at, busy) ==
  LET out == leaveRoot(at)
      root == enableControllers(handed.root, offered,
                                busy[1] \cup (IF out = "root" THEN Controllers ELSE {}))
      parent == enableControllers(handed.parent, root.on, busy[2])
  IN  [at |-> out, ok |-> root.ok /\ parent.ok,
       handed |-> [root |-> root.on, parent |-> IF root.ok THEN parent.on ELSE handed.parent]]

\* What is busy in the root and in the parent slice: cpu may be, while there
\* are realtime tasks.
BusyControllers == {{}, {"cpu"}} \X {{}, {"cpu"}}

(***************************************************************************)
(* The daemon starts: a delegated tree is prepared before anything is      *)
(* spawned, and a failure ends the start.  systemd gives the daemon a new  *)
(* cgroup each time; a tree under the host's root is as it was left.       *)
(***************************************************************************)
CgroupBoot ==
  /\ daemonAt = "down"
  /\ cgBoots < CgBoots
  /\ cgBoots' = cgBoots + 1
  /\ daemonAt' = IF cgMode = "delegated" THEN "root" ELSE "elsewhere"
  /\ UNCHANGED <<cgMode, cgDefaults, offered, delegated, handed, cgDirs, cgRuns, inherited, cgFaults>>

InitCgroups ==
  /\ daemonAt = "root"
  /\ ~delegated
  /\ \E busy \in BusyControllers : LET e == EnsureParent("root", busy) IN
       /\ handed' = e.handed
       /\ IF e.ok THEN daemonAt' = e.at /\ delegated' = TRUE
          ELSE daemonAt' = "down" /\ UNCHANGED delegated
  /\ UNCHANGED <<cgMode, cgDefaults, offered, cgDirs, cgRuns, inherited, cgFaults, cgBoots>>

\* NewDelegatedManager refuses, or the daemon cannot be moved.
InitCgroupsFails ==
  /\ daemonAt = "root"
  /\ ~delegated
  /\ CgFault
  /\ daemonAt' = "down"
  /\ UNCHANGED <<cgMode, cgDefaults, offered, delegated, handed, cgDirs, cgRuns, inherited, cgBoots>>

cgroupManager == cgMode = "host" \/ (cgMode = "delegated" /\ delegated)

(***************************************************************************)
(* A spawn.                                                                *)
(***************************************************************************)
Or(v, default) == IF v = 0 THEN default ELSE v

applyCgroupDefaults(asked) ==
  IF cgMode = "off" \/ cgDefaults = [high |-> 0, max |-> 0] THEN asked
  ELSE IF asked = NoCgroup
  THEN [high |-> cgDefaults.high, max |-> cgDefaults.max, pids |-> 0, cpu |-> 0]
  ELSE [asked EXCEPT !.high = Or(@, cgDefaults.high), !.max = Or(@, cgDefaults.max)]

\* faulty: a file that is not there is passed over
Writable_Lenient(lim, on) == TRUE

\* applyLimits writes memory.high, memory.max and pids.max always, cpu.max
\* only for a quota: it fails where the controller was not handed down.
Writable(lim, on) == {"memory", "pids"} \subseteq on /\ (lim.cpu # 0 => "cpu" \in on)

\* What applyLimits leaves in the files of a directory.
applyLimits(files, lim, on) ==
  [high |-> IF "memory" \in on THEN lim.high ELSE 0,
   max |-> IF "memory" \in on THEN lim.max ELSE 0,
   pids |-> IF "pids" \in on THEN lim.pids ELSE 0,
   cpu |-> IF "cpu" \in on THEN Or(lim.cpu, files.cpu) ELSE 0,
   swapOff |-> files.swapOff \/ (lim.max # 0 /\ "memory" \in on)]

\* Manager.Create, then the spawn gate joins the cgroup before the app's code
\* runs.  An error of either removes the directory.
CreateAndJoin(a, asked, lim) ==
  \E busy \in BusyControllers :
    LET e == EnsureParent(daemonAt, busy)
        had == cgDirs[a] # NoCgroup
        files == applyLimits(IF had THEN cgDirs[a] ELSE Fresh, lim, e.handed.parent)
    IN  /\ handed' = e.handed
        /\ daemonAt' = e.at
        /\ \/ /\ e.ok /\ Writable(lim, e.handed.parent)
              /\ cgDirs' = [cgDirs EXCEPT ![a] = files]
              /\ cgRuns' = [cgRuns EXCEPT ![a] = [asked |-> asked, cg |-> TRUE]]
              /\ inherited' = IF had THEN inherited \cup {a} ELSE inherited \ {a}
              /\ UNCHANGED cgFaults
           \/ /\ IF e.ok /\ Writable(lim, e.handed.parent) THEN CgFault ELSE UNCHANGED cgFaults
              /\ cgDirs' = IF e.ok THEN [cgDirs EXCEPT ![a] = NoCgroup] ELSE cgDirs
              /\ UNCHANGED <<cgRuns, inherited>>

SpawnLimited(a, asked) ==
  /\ daemonAt \in {"leaf", "elsewhere"}
  /\ cgRuns[a] = NoCgroup
  /\ LET lim == applyCgroupDefaults(asked)
     IN  \/ /\ lim = NoCgroup
            /\ cgRuns' = [cgRuns EXCEPT ![a] = [asked |-> asked, cg |-> FALSE]]
            /\ UNCHANGED <<daemonAt, handed, cgDirs, inherited, cgFaults>>
         \/ lim # NoCgroup /\ cgroupManager /\ CreateAndJoin(a, asked, lim)
  /\ UNCHANGED <<cgMode, cgDefaults, offered, delegated, cgBoots>>

(***************************************************************************)
(* stopApp removes the directory, which fails while something lingers in   *)
(* it; watch gives up on an app and removes nothing.                       *)
(***************************************************************************)
StopLimited(a) ==
  /\ cgRuns[a] # NoCgroup
  /\ cgRuns' = [cgRuns EXCEPT ![a] = NoCgroup]
  /\ \/ cgRuns[a].cg /\ cgDirs' = [cgDirs EXCEPT ![a] = NoCgroup] /\ UNCHANGED cgFaults
     \/ cgRuns[a].cg /\ CgFault /\ UNCHANGED cgDirs
     \/ ~cgRuns[a].cg /\ UNCHANGED <<cgDirs, cgFaults>>
  /\ UNCHANGED <<cgMode, cgDefaults, offered, daemonAt, delegated, handed, inherited, cgBoots>>

CgroupCrash ==
  /\ daemonAt # "down"
  /\ cgBoots < CgBoots
  /\ daemonAt' = "down"
  /\ delegated' = FALSE
  /\ cgRuns' = [a \in CgApps |-> NoCgroup]
  /\ IF cgMode = "host" THEN UNCHANGED <<handed, cgDirs>>
     ELSE handed' = [root |-> {}, parent |-> {}] /\ cgDirs' = [a \in CgApps |-> NoCgroup]
  /\ UNCHANGED <<cgMode, cgDefaults, offered, inherited, cgFaults, cgBoots>>

CgroupsInit ==
  /\ cgMode \in {"off", "host", "delegated"}
  /\ cgDefaults \in [high : {0, CgDefault}, max : {0, CgDefault}]
  /\ offered \in SUBSET Controllers
  /\ daemonAt = "down"
  /\ delegated = FALSE
  /\ handed = [root |-> {}, parent |-> {}]
  /\ cgDirs = [a \in CgApps |-> NoCgroup]
  /\ cgRuns = [a \in CgApps |-> NoCgroup]
  /\ inherited = {}
  /\ cgFaults = 0
  /\ cgBoots = 0

CgroupsNext ==
  \/ CgroupBoot \/ InitCgroups \/ InitCgroupsFails \/ CgroupCrash
  \/ \E a \in CgApps : StopLimited(a)
  \/ \E a \in CgApps, asked \in Limits \cup {NoCgroup} : SpawnLimited(a, asked)

CgroupsSpec == CgroupsInit /\ [][CgroupsNext]_cgroupVars

(***************************************************************************)
(* An app that runs is held to the limits of its config, and where the     *)
(* config is silent to the daemon's defaults, whichever controllers the    *)
(* host hands down and whichever were busy: it is refused before it runs   *)
(* without them.  A capped app does not swap.  In a directory that an      *)
(* earlier app left behind, a quota the config does not give may be that   *)
(* app's.  A daemon that came up in a delegated cgroup has handed memory   *)
(* and pids down to its apps.                                              *)
(***************************************************************************)
LimitsInForce ==
  /\ delegated => {"memory", "pids"} \subseteq handed.parent
  /\ \A a \in CgApps : cgRuns[a] # NoCgroup =>
       LET given == cgRuns[a].asked
           asked == IF given = NoCgroup THEN [high |-> 0, max |-> 0, pids |-> 0, cpu |-> 0]
                    ELSE given
           default(v) == IF cgMode = "off" THEN 0 ELSE v
           files == IF cgRuns[a].cg THEN cgDirs[a] ELSE Fresh
       IN  /\ given # NoCgroup => cgRuns[a].cg
           /\ files.high = Or(asked.high, default(cgDefaults.high))
           /\ files.max = Or(asked.max, default(cgDefaults.max))
           /\ files.max # 0 => files.swapOff
           /\ files.pids = asked.pids
           /\ files.cpu = asked.cpu \/ (asked.cpu = 0 /\ a \in inherited)
=============================================================================
