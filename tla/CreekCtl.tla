------------------------------ MODULE CreekCtl ------------------------------
(***************************************************************************)
(* The command line client: what each mutating command of creekctl sends   *)
(* to the admin API and does on its own machine, and what it reports.      *)
(* Several people run commands for one app at the same time; a request or  *)
(* its answer may be lost, or cut off by the client's timeout.             *)
(***************************************************************************)
EXTENDS Integers, Sequences

CONSTANTS
  CtlUsers,   \* shells, one command each
  CtlConfigs, \* what can be run: positive numbers
  CtlLosses   \* bound on the requests and local commands that fail

ASSUME CtlAssumption ==
  /\ CtlConfigs # {} /\ CtlConfigs \subseteq Nat \ {0}
  /\ CtlLosses \in Nat

VARIABLES
  live,      \* the app in the supervisor: its config and a serial number, 0 when there is none
  serial,    \* the last serial number given to a process
  ctl,       \* the command of each shell
  database,  \* the app's database is there
  ctlLosses

ctlVars == <<live, serial, ctl, database, ctlLosses>>

Down == [cfg |-> 0, made |-> 0]

Verbs == {"up", "ensure", "rm", "restart", "reset", "deploy", "exec", "db-reset"}

\* want is the config of the request; made is the serial number of the process the
\* request made; env that of the process whose environment a local command was given.
NoCommand == [pc |-> "idle", verb |-> "none", want |-> 0, dry |-> FALSE, release |-> FALSE,
              before |-> 0, made |-> 0, seen |-> 0, env |-> 0, dropped |-> FALSE]

CtlTypeOK ==
  /\ live \in [cfg : CtlConfigs \cup {0}, made : 0 .. serial]
  /\ serial \in Nat
  /\ \A u \in CtlUsers :
       /\ ctl[u].pc \in {"idle", "ok", "failed", "get", "release", "run", "create"} \cup Verbs
       /\ {ctl[u].before, ctl[u].made, ctl[u].seen, ctl[u].env} \subseteq 0 .. serial
  /\ database \in BOOLEAN

To(u, pc) == ctl' = [ctl EXCEPT ![u].pc = pc]

(***************************************************************************)
(* The request.  --json-input is taken as it is; otherwise the manifest    *)
(* fills in what the flags leave out.                                      *)
(***************************************************************************)
applyManifestTo(flags, manifest) == IF flags # 0 THEN flags ELSE manifest

applyManifestToDeploy(flags, manifest) == IF flags # 0 THEN flags ELSE manifest

Inputs == CtlConfigs \cup {0}

\* A command starts; --dry-run ends it before anything is sent, where it is looked at.
DryRuns == {"up", "ensure", "rm", "deploy", "db-reset"}

StartCommand(u, c) ==
  /\ ctl[u].pc = "idle"
  /\ ctl' = [ctl EXCEPT ![u] = [c EXCEPT !.before = live.made,
                                         !.pc = IF c.dry /\ c.verb \in DryRuns THEN "ok" ELSE c.verb]]
  /\ UNCHANGED <<live, serial, database, ctlLosses>>

runCommand(u) ==
  \E verb \in Verbs, dry \in BOOLEAN :
    LET c == [NoCommand EXCEPT !.verb = verb, !.dry = dry] IN
    \/ /\ verb \in {"up", "ensure"}
       /\ \E flags, manifest \in Inputs : StartCommand(u, [c EXCEPT !.want = applyManifestTo(flags, manifest)])
    \/ /\ verb = "deploy"
       /\ \E flags, manifest \in Inputs, release \in BOOLEAN :
            StartCommand(u, [c EXCEPT !.want = applyManifestToDeploy(flags, manifest), !.release = release])
    \/ verb \in Verbs \ {"up", "ensure", "deploy"} /\ StartCommand(u, c)

(***************************************************************************)
(* What the server does with a request (AdminApi has it step by step):     *)
(* its answer, the app and the serial number of the process it made.       *)
(***************************************************************************)
ServeSpawn(cfg) ==
  IF cfg = 0 THEN {[answer |-> "bad_request", app |-> live]}
  ELSE IF live # Down THEN {[answer |-> "already_running", app |-> live]}
  ELSE {[answer |-> "ok", app |-> [cfg |-> cfg, made |-> serial + 1]]}

ServeStop == {IF live = Down THEN [answer |-> "not_found", app |-> live] ELSE [answer |-> "ok", app |-> Down]}

ServeDeploy(cfg) ==
  IF live = Down THEN {[answer |-> "not_found", app |-> live]}
  ELSE {[answer |-> "deploy_unhealthy", app |-> live]}
       \cup (IF cfg \in {0, live.cfg} THEN {} ELSE {[answer |-> "ok", app |-> [cfg |-> cfg, made |-> serial + 1]]})

ServeRestart == {IF live = Down THEN [answer |-> "not_found", app |-> live]
               ELSE [answer |-> "ok", app |-> [live EXCEPT !.made = serial + 1]]}

ServeGet == {[answer |-> IF live = Down THEN "not_found" ELSE "ok", app |-> live]}

Lose == ctlLosses < CtlLosses /\ ctlLosses' = ctlLosses + 1

\* Client.do: the answer, or an error when the request or the answer is lost.  then: how the
\* command goes on after each answer that is no error to it.
do(u, served, then) ==
  \/ \E s \in served :
       /\ live' = s.app
       /\ serial' = IF s.app.made > serial THEN s.app.made ELSE serial
       /\ LET c == [ctl[u] EXCEPT !.made = IF s.app.made > serial THEN s.app.made ELSE @,
                                  !.seen = IF s.answer = "ok" THEN s.app.made ELSE @]
              next == IF s.answer \in DOMAIN then THEN then[s.answer] ELSE "failed"
          IN  \/ ctl' = [ctl EXCEPT ![u] = [c EXCEPT !.pc = next]] /\ UNCHANGED ctlLosses
              \/ ctl' = [ctl EXCEPT ![u] = [c EXCEPT !.pc = "failed", !.seen = ctl[u].seen]] /\ Lose
  \/ /\ To(u, "failed") /\ Lose
     /\ UNCHANGED <<live, serial>>

Report == [ok |-> "ok"]

Send(u, verb, served, then) ==
  /\ ctl[u].pc = verb
  /\ do(u, served, then)
  /\ UNCHANGED database

runUp(u) == Send(u, "up", ServeSpawn(ctl[u].want), Report)
runRM(u) == Send(u, "rm", ServeStop, Report)
runRestart(u) == Send(u, "restart", ServeRestart, Report)

\* Reset revives an app only when it crash-loops.
runReset(u) ==
  Send(u, "reset", ServeRestart \cup {[answer |-> "not_crash_looping", app |-> live]}, Report)

\* faulty: a refused spawn is taken for success without looking at the app
IsAlreadyRunning_Trusted == [ok |-> "ok", already_running |-> "ok"]

\* ensure goes on to read the app, whether it made it or found it.
IsAlreadyRunning == [ok |-> "get", already_running |-> "get"]

runEnsure(u) == Send(u, "ensure", ServeSpawn(ctl[u].want), IsAlreadyRunning)
EnsureGet(u) == Send(u, "get", ServeGet, Report)

\* The release command runs once the deploy is answered: v2 has the traffic by then.
runDeploy(u) ==
  Send(u, "deploy", ServeDeploy(ctl[u].want), [ok |-> IF ctl[u].release THEN "release" ELSE "ok"])

\* A command of the user runs here with the environment of the app as it is now.
Inherit(u) ==
  /\ ctl' = [ctl EXCEPT ![u].pc = "run", ![u].env = live.made]
  /\ UNCHANGED <<live, serial, database, ctlLosses>>

runRelease(u) ==
  /\ ctl[u].pc = "release"
  /\ \/ live # Down /\ Inherit(u)
     \/ /\ live = Down \/ ctlLosses < CtlLosses    \* the deploy is reported all the same
        /\ ctlLosses' = IF live = Down THEN ctlLosses ELSE ctlLosses + 1
        /\ To(u, "ok")
        /\ UNCHANGED <<live, serial, database>>

runExec(u) ==
  /\ ctl[u].pc = "exec"
  /\ \/ live # Down /\ Inherit(u)
     \/ /\ live = Down \/ ctlLosses < CtlLosses
        /\ ctlLosses' = IF live = Down THEN ctlLosses ELSE ctlLosses + 1
        /\ To(u, "failed")
        /\ UNCHANGED <<live, serial, database>>

\* It ends, well or not; a release that fails is printed, and the command still succeeds.
LocalCommandEnds(u) ==
  /\ ctl[u].pc = "run"
  /\ \/ To(u, "ok") /\ UNCHANGED ctlLosses
     \/ To(u, IF ctl[u].verb = "deploy" THEN "ok" ELSE "failed") /\ Lose
  /\ UNCHANGED <<live, serial, database>>

(***************************************************************************)
(* db-reset: two statements, each on its own.                              *)
(***************************************************************************)
runDBReset(u) ==
  /\ ctl[u].pc = "db-reset"
  /\ \/ /\ database' = FALSE
        /\ ctl' = [ctl EXCEPT ![u].pc = "create", ![u].dropped = TRUE]
        /\ UNCHANGED ctlLosses
     \/ To(u, "failed") /\ Lose /\ UNCHANGED database
  /\ UNCHANGED <<live, serial>>

DBCreate(u) ==
  /\ ctl[u].pc = "create"
  /\ \/ ~database /\ database' = TRUE /\ To(u, "ok") /\ UNCHANGED ctlLosses
     \/ database /\ To(u, "failed") /\ UNCHANGED <<database, ctlLosses>>
     \/ ~database /\ To(u, "failed") /\ Lose /\ UNCHANGED database
  /\ UNCHANGED <<live, serial>>

CtlInit ==
  /\ serial \in {0, 1}
  /\ live = IF serial = 0 THEN Down ELSE [cfg |-> CHOOSE c \in CtlConfigs : TRUE, made |-> 1]
  /\ ctl = [u \in CtlUsers |-> NoCommand]
  /\ database = TRUE
  /\ ctlLosses = 0

CtlStep(u) ==
  \/ runCommand(u)
  \/ runUp(u) \/ runRM(u) \/ runRestart(u) \/ runReset(u)
  \/ runEnsure(u) \/ EnsureGet(u)
  \/ runDeploy(u) \/ runRelease(u) \/ runExec(u) \/ LocalCommandEnds(u)
  \/ runDBReset(u) \/ DBCreate(u)

CtlNext == \E u \in CtlUsers : CtlStep(u)

CtlSpec == CtlInit /\ [][CtlNext]_ctlVars

(***************************************************************************)
(* A command that reports success did what it says, whatever other people  *)
(* did meanwhile and whichever answers were lost: up, deploy and restart   *)
(* made a process; ensure saw one that is as new as the app it found when  *)
(* it began, and made at most one; a dry run made, stopped and dropped     *)
(* nothing; a release got the environment of its own deploy or of a later  *)
(* one, never of the version it replaced.  A database that is missing was  *)
(* dropped by a db-reset that has not reported success.                    *)
(***************************************************************************)
CommandsTellTruth ==
  /\ \A u \in CtlUsers : LET c == ctl[u] IN
       /\ c.pc = "ok" /\ (c.dry => c.verb \notin DryRuns) =>
            /\ c.verb \in {"up", "deploy", "restart", "reset"} => c.made > c.before /\ c.seen >= c.made
            /\ c.verb = "ensure" => c.seen > 0 /\ c.seen >= c.before /\ c.seen >= c.made
            /\ c.verb = "db-reset" => c.dropped
       /\ c.dry /\ c.verb \in DryRuns => c.made = 0 /\ ~c.dropped
       /\ c.verb = "deploy" /\ c.env # 0 => c.release /\ c.made > 0 /\ c.env >= c.made
  /\ ~database => \E u \in CtlUsers : ctl[u].dropped /\ ctl[u].pc # "ok"
=============================================================================
