---------------------------- MODULE ClientProofs ----------------------------
(***************************************************************************)
(* Proofs about the command line, for every number of commands at a time:  *)
(* what creekctl reports of an app (CreekCtl), and what creekctl dev       *)
(* reports of its sandbox (DevSandbox).                                    *)
(*                                                                         *)
(* In both, the invariant says of each command in progress what it has     *)
(* seen and done so far, and the lemmas say that what others do meanwhile  *)
(* leaves that so.                                                         *)
(***************************************************************************)
EXTENDS CreekCtl, DevSandbox, TLAPS

-----------------------------------------------------------------------------
(* CreekCtl *)

\* The steps of a command, the apps of the daemon, and a command.
Pcs == {"idle", "ok", "failed", "get", "release", "run", "create"} \cup Verbs
Apps == [cfg : CtlConfigs \cup {0}, made : Nat]
Command == [pc : Pcs, verb : Verbs \cup {"none"}, want : CtlConfigs \cup {0}, dry : BOOLEAN, release : BOOLEAN,
            before : Nat, made : Nat, seen : Nat, env : Nat, dropped : BOOLEAN]

\* What a command that reported success did.
Kept(c) ==
  /\ c.verb \in {"up", "deploy", "restart", "reset"} => c.made > c.before /\ c.seen >= c.made
  /\ c.verb = "ensure" => c.seen > 0 /\ c.seen >= c.before /\ c.seen >= c.made
  /\ c.verb = "db-reset" => c.dropped

\* A dry run never goes on.
Dry(c) == c.dry /\ c.verb \in DryRuns

\* A command, where it has got to, when s serial numbers have been given.
CommandOK(c, s) ==
  /\ c.before <= s /\ c.made <= s /\ c.seen <= s /\ c.env <= s
  /\ Dry(c) => c.pc = "ok" /\ c.made = 0 /\ ~c.dropped
  /\ c.pc = "idle" => c = NoCommand
  /\ c.pc \in Verbs => c.verb = c.pc /\ c.made = 0 /\ c.env = 0
  /\ c.pc = "get" => c.verb = "ensure" /\ c.env = 0
  /\ c.pc \in {"release", "run"} => c.verb \in {"deploy", "exec"}
  /\ c.pc \in {"release", "run"} /\ c.verb = "deploy" => c.release /\ c.made > 0 /\ Kept(c)
  /\ c.pc = "create" => c.verb = "db-reset" /\ c.dropped
  /\ c.dropped => c.pc \in {"create", "ok", "failed"}
  /\ c.pc = "ok" /\ ~Dry(c) => Kept(c)
  /\ c.verb = "deploy" /\ c.env # 0 => c.release /\ c.made > 0 /\ c.env >= c.made /\ c.pc \in {"run", "ok"}

\* The inductive invariant of CreekCtl.
CtlInv ==
  /\ serial \in Nat
  /\ live \in Apps
  /\ live = Down \/ (live.made = serial /\ live.made > 0)
  /\ ctl \in [CtlUsers -> Command]
  /\ \A u \in CtlUsers : CommandOK(ctl[u], serial)
  /\ database \in BOOLEAN
  /\ ~database => \E u \in CtlUsers : ctl[u].dropped /\ ctl[u].pc # "ok"

\* The invariant gives the types, and that the commands tell the truth.
LEMMA CtlInvProperty == CtlInv => CtlTypeOK /\ CommandsTellTruth
<1> SUFFICES ASSUME CtlInv
             PROVE  CtlTypeOK /\ CommandsTellTruth
  OBVIOUS
<1>1. CtlTypeOK
  <2>1. live \in [cfg : CtlConfigs \cup {0}, made : 0 .. serial]
    BY DEF CtlInv, Apps, Down
  <2>2. ASSUME NEW u \in CtlUsers
        PROVE  ctl[u].pc \in Pcs /\ {ctl[u].before, ctl[u].made, ctl[u].seen, ctl[u].env} \subseteq 0 .. serial
    <3>1. ctl[u] \in Command /\ CommandOK(ctl[u], serial) /\ serial \in Nat
      BY Zenon DEF CtlInv
    <3>2. ctl[u].pc \in Pcs /\ ctl[u].before \in Nat /\ ctl[u].made \in Nat /\ ctl[u].seen \in Nat /\ ctl[u].env \in Nat
      BY <3>1, Zenon DEF Command
    <3> QED BY <3>1, <3>2 DEF CommandOK
  <2> QED BY <2>1, <2>2, Zenon DEF CtlInv, CtlTypeOK, Pcs
<1>2. ASSUME NEW u \in CtlUsers
      PROVE  LET c == ctl[u] IN
       /\ c.pc = "ok" /\ (c.dry => c.verb \notin DryRuns) => Kept(c)
       /\ c.dry /\ c.verb \in DryRuns => c.made = 0 /\ ~c.dropped
       /\ c.verb = "deploy" /\ c.env # 0 => c.release /\ c.made > 0 /\ c.env >= c.made
  BY Zenon DEF CtlInv, CommandOK, Dry
<1> QED BY <1>1, <1>2, Zenon DEF CtlInv, CommandsTellTruth, Kept

\* The invariant holds before the first command.
LEMMA CtlInvInit == CtlInit => CtlInv
<1> SUFFICES ASSUME CtlInit
             PROVE  CtlInv
  OBVIOUS
<1> USE DEF CtlInit
<1>1. NoCommand \in Command /\ NoCommand.pc = "idle" /\ NoCommand.verb = "none" /\ NoCommand.dropped = FALSE
      /\ NoCommand.before = 0 /\ NoCommand.made = 0 /\ NoCommand.seen = 0 /\ NoCommand.env = 0
  BY DEF NoCommand, Command, Pcs
<1>2. serial \in Nat /\ live \in Apps /\ (live = Down \/ (live.made = serial /\ live.made > 0))
  <2>1. (CHOOSE c \in CtlConfigs : TRUE) \in CtlConfigs
    BY CtlAssumption
  <2>2. CASE serial = 0
    BY <2>2 DEF Apps, Down
  <2>3. CASE serial = 1
    BY <2>1, <2>3 DEF Apps, Down
  <2> QED BY <2>2, <2>3
<1>3. CommandOK(NoCommand, serial)
  BY <1>1, <1>2 DEF CommandOK, Dry, Verbs, DryRuns, Kept
<1> QED BY <1>1, <1>2, <1>3, Zenon DEF CtlInv

\* The others' commands are as good when more serial numbers have been given.
LEMMA CommandLater ==
  ASSUME NEW c \in Command, NEW s \in Nat, NEW t \in Nat, s <= t, CommandOK(c, s)
  PROVE  CommandOK(c, t)
<1>1. c.before \in Nat /\ c.made \in Nat /\ c.seen \in Nat /\ c.env \in Nat
  BY Zenon DEF Command
<1>2. c.before <= t /\ c.made <= t /\ c.seen <= t /\ c.env <= t
  BY <1>1 DEF CommandOK
<1> QED BY <1>2, Zenon DEF CommandOK

\* A step of one shell, by what becomes of its command, of the app and of the database.
LEMMA CommandStep ==
  ASSUME CtlInv, NEW u \in CtlUsers, NEW d \in Command, ctl' = [ctl EXCEPT ![u] = d],
         serial' \in Nat, serial <= serial', live' \in Apps, live' = Down \/ (live'.made = serial' /\ live'.made > 0),
         CommandOK(d, serial'), database' \in BOOLEAN,
         ~database' => (d.dropped /\ d.pc # "ok") \/ (~database /\ ~ctl[u].dropped)
  PROVE  CtlInv'
<1> USE DEF CtlInv
<1>1. ctl' \in [CtlUsers -> Command]
  BY Zenon
<1>2. ctl'[u] = d /\ \A v \in CtlUsers : v # u => ctl'[v] = ctl[v]
  BY Zenon
<1>3. \A v \in CtlUsers : CommandOK(ctl[v], serial')
  <2> SUFFICES ASSUME NEW v \in CtlUsers
               PROVE  CommandOK(ctl[v], serial')
    OBVIOUS
  <2>1. ctl[v] \in Command /\ CommandOK(ctl[v], serial) /\ serial \in Nat
    BY Zenon
  <2> QED BY <2>1, CommandLater, Zenon
<1>4. \A v \in CtlUsers : CommandOK(ctl'[v], serial')
  BY <1>2, <1>3, Zenon
<1>5. ~database' => \E v \in CtlUsers : ctl'[v].dropped /\ ctl'[v].pc # "ok"
  <2>1. CASE d.dropped /\ d.pc # "ok"
    BY <1>2, <2>1, Zenon
  <2>2. CASE ~database /\ ~ctl[u].dropped
    <3>1. PICK v \in CtlUsers : ctl[v].dropped /\ ctl[v].pc # "ok"
      BY <2>2, Zenon
    <3> QED BY <1>2, <2>2, <3>1, Zenon
  <2> QED BY <2>1, <2>2, Zenon
<1> QED BY <1>1, <1>4, <1>5, Zenon

\* Only pc changes.
Same(c, d) ==
  /\ d.verb = c.verb /\ d.want = c.want /\ d.dry = c.dry /\ d.release = c.release /\ d.before = c.before
  /\ d.dropped = c.dropped

\* What a move of one command to another step does to the commands.
LEMMA ToStep ==
  ASSUME CtlInv, NEW u \in CtlUsers, NEW pc \in Pcs, To(u, pc)
  PROVE  \E d \in Command : /\ ctl' = [ctl EXCEPT ![u] = d] /\ Same(ctl[u], d) /\ d.pc = pc
                            /\ d.made = ctl[u].made /\ d.seen = ctl[u].seen /\ d.env = ctl[u].env
<1> DEFINE d == [ctl[u] EXCEPT !.pc = pc]
<1>1. ctl[u] \in Command
  BY Zenon DEF CtlInv
<1>2. d \in Command /\ Same(ctl[u], d) /\ d.pc = pc /\ d.made = ctl[u].made /\ d.seen = ctl[u].seen /\ d.env = ctl[u].env
  BY <1>1 DEF Command, Same
<1>3. ctl' = [ctl EXCEPT ![u] = d]
  BY DEF To
<1> QED BY <1>2, <1>3, Zenon

\* What the lookup of the environment does to the commands.
LEMMA InheritStep ==
  ASSUME CtlInv, NEW u \in CtlUsers, Inherit(u)
  PROVE  \E d \in Command : /\ ctl' = [ctl EXCEPT ![u] = d] /\ Same(ctl[u], d) /\ d.pc = "run"
                            /\ d.made = ctl[u].made /\ d.seen = ctl[u].seen /\ d.env = live.made
<1> DEFINE d == [ctl[u] EXCEPT !.pc = "run", !.env = live.made]
<1>1. ctl[u] \in Command /\ live.made \in Nat
  BY DEF CtlInv, Apps
<1>2. d \in Command /\ Same(ctl[u], d) /\ d.pc = "run" /\ d.made = ctl[u].made /\ d.seen = ctl[u].seen /\ d.env = live.made
  BY <1>1, Zenon DEF Command, Same, Pcs
<1>3. ctl' = [ctl EXCEPT ![u] = d]
  BY Zenon DEF Inherit
<1> QED BY <1>2, <1>3, Zenon

\* What an answer makes of a command.
Outcome(c, d, s, then) ==
  LET next == IF s.answer \in DOMAIN then THEN then[s.answer] ELSE "failed"
      new == s.app.made > serial
  IN  /\ Same(c, d) /\ d.env = c.env
      /\ d.made = IF new THEN s.app.made ELSE c.made
      /\ \/ d.pc = next /\ d.seen = IF s.answer = "ok" THEN s.app.made ELSE c.seen
         \/ d.pc = "failed" /\ d.seen = c.seen
      /\ live' = s.app
      /\ serial' = IF new THEN s.app.made ELSE serial

\* The app as it is, gone, or a new process.
Served(s) ==
  /\ s.app \in Apps
  /\ s.app = live \/ s.app = Down \/ (s.app.made = serial + 1)

\* What a request to the daemon, and its answer, do to the commands.
LEMMA SendStep ==
  ASSUME CtlInv, NEW u \in CtlUsers, NEW verb, NEW served, NEW then, Send(u, verb, served, then),
         \A s \in served : Served(s), \A a \in DOMAIN then : then[a] \in Pcs, "lost" \notin DOMAIN then
  PROVE  \E d \in Command : \E s \in served \cup {[answer |-> "lost", app |-> live]} :
           ctl' = [ctl EXCEPT ![u] = d] /\ Outcome(ctl[u], d, s, then)
<1> DEFINE c == ctl[u]
<1>1. c \in Command /\ live \in Apps /\ serial \in Nat /\ ~(live.made > serial)
  BY DEF CtlInv, Apps, Down
<1>2. do(u, served, then)
  BY DEF Send
<1>3. CASE To(u, "failed") /\ Lose /\ UNCHANGED <<live, serial>>
  <2> DEFINE s == [answer |-> "lost", app |-> live]
  <2>1. PICK d \in Command : /\ ctl' = [ctl EXCEPT ![u] = d] /\ Same(ctl[u], d) /\ d.pc = "failed"
                             /\ d.made = ctl[u].made /\ d.seen = ctl[u].seen /\ d.env = ctl[u].env
    BY <1>3, ToStep DEF Pcs
  <2>2. s.app = live /\ s.answer = "lost" /\ s \in served \cup {[answer |-> "lost", app |-> live]}
    OBVIOUS
  <2> HIDE DEF s
  <2>3. Outcome(ctl[u], d, s, then)
    BY <1>1, <1>3, <2>1, <2>2, Zenon DEF Outcome
  <2> QED BY <2>1, <2>2, <2>3, Zenon
<1>4. ASSUME NEW s \in served, live' = s.app, serial' = IF s.app.made > serial THEN s.app.made ELSE serial,
             LET b == [ctl[u] EXCEPT !.made = IF s.app.made > serial THEN s.app.made ELSE @,
                                     !.seen = IF s.answer = "ok" THEN s.app.made ELSE @]
                 next == IF s.answer \in DOMAIN then THEN then[s.answer] ELSE "failed"
             IN  \/ ctl' = [ctl EXCEPT ![u] = [b EXCEPT !.pc = next]] /\ UNCHANGED ctlLosses
                 \/ ctl' = [ctl EXCEPT ![u] = [b EXCEPT !.pc = "failed", !.seen = ctl[u].seen]] /\ Lose
      PROVE  \E d \in Command : ctl' = [ctl EXCEPT ![u] = d] /\ Outcome(ctl[u], d, s, then)
  <2> DEFINE made == IF s.app.made > serial THEN s.app.made ELSE c.made
             seen == IF s.answer = "ok" THEN s.app.made ELSE c.seen
             next == IF s.answer \in DOMAIN then THEN then[s.answer] ELSE "failed"
             b == [c EXCEPT !.made = made, !.seen = seen]
  <2>1. made \in Nat /\ seen \in Nat /\ next \in Pcs
    <3>1. s.app.made \in Nat
      BY DEF Served, Apps
    <3>2. c.made \in Nat /\ c.seen \in Nat /\ "failed" \in Pcs
      BY <1>1 DEF Command, Pcs
    <3> QED BY <3>1, <3>2
  <2>2. b = [ctl[u] EXCEPT !.made = IF s.app.made > serial THEN s.app.made ELSE @,
                           !.seen = IF s.answer = "ok" THEN s.app.made ELSE @]
    OBVIOUS
  <2> HIDE DEF made, seen, next, c
  <2>3. b \in Command /\ Same(c, b) /\ b.env = c.env /\ b.made = made /\ b.seen = seen
    BY <1>1, <2>1, Zenon DEF Command, Same
  <2>4. ctl' = [ctl EXCEPT ![u] = [b EXCEPT !.pc = next]] \/ ctl' = [ctl EXCEPT ![u] = [b EXCEPT !.pc = "failed", !.seen = c.seen]]
    BY <1>4, <2>2, Zenon DEF next, c
  <2> HIDE DEF b
  <2>5. CASE ctl' = [ctl EXCEPT ![u] = [b EXCEPT !.pc = next]]
    <3> DEFINE d == [b EXCEPT !.pc = next]
    <3>1. d \in Command /\ Same(b, d) /\ d.env = b.env /\ d.made = b.made /\ d.seen = b.seen /\ d.pc = next
      BY <2>1, <2>3 DEF Command, Same
    <3> HIDE DEF d
    <3>2. Outcome(c, d, s, then)
      BY <1>4, <2>3, <3>1, Zenon DEF Outcome, Same, made, seen, next
    <3> QED BY <2>5, <3>1, <3>2, Zenon DEF c, d
  <2>6. CASE ctl' = [ctl EXCEPT ![u] = [b EXCEPT !.pc = "failed", !.seen = c.seen]]
    <3> DEFINE d == [b EXCEPT !.pc = "failed", !.seen = c.seen]
    <3>1. d \in Command /\ Same(b, d) /\ d.env = b.env /\ d.made = b.made /\ d.seen = c.seen /\ d.pc = "failed"
      BY <1>1, <2>1, <2>3, Zenon DEF Command, Same, Pcs
    <3> HIDE DEF d
    <3>2. Outcome(c, d, s, then)
      BY <1>4, <2>3, <3>1, Zenon DEF Outcome, Same, made
    <3> QED BY <2>6, <3>1, <3>2, Zenon DEF c, d
  <2> QED BY <2>4, <2>5, <2>6, Zenon
<1> QED BY <1>2, <1>3, <1>4, Zenon DEF do

\* What the daemon answers to each request.
LEMMA ServedKinds ==
  ASSUME CtlInv
  PROVE  /\ \A cfg \in CtlConfigs \cup {0} : \A s \in ServeSpawn(cfg) \cup ServeDeploy(cfg) : 
              Served(s) /\ (s.answer = "ok" => s.app.made = serial + 1) /\ (s.answer # "ok" => s.app = live)
         /\ \A s \in ServeRestart :
              Served(s) /\ (s.answer = "ok" => s.app.made = serial + 1) /\ (s.answer # "ok" => s.app = live)
         /\ \A s \in ServeStop : Served(s) /\ (s.app = live \/ s.app = Down)
         /\ \A s \in ServeGet : Served(s) /\ s.app = live /\ (s.answer = "ok" => live # Down)
<1>1. live \in Apps /\ serial \in Nat /\ Down \in Apps
  BY DEF CtlInv, Apps, Down
<1>2. ASSUME NEW cfg \in CtlConfigs \cup {0}, NEW s \in ServeSpawn(cfg)
      PROVE  Served(s) /\ (s.answer = "ok" => s.app.made = serial + 1) /\ (s.answer # "ok" => s.app = live)
  <2>1. \/ s = [answer |-> "bad_request", app |-> live]
        \/ s = [answer |-> "already_running", app |-> live]
        \/ s = [answer |-> "ok", app |-> [cfg |-> cfg, made |-> serial + 1]]
    BY <1>2 DEF ServeSpawn
  <2> QED BY <1>1, <2>1 DEF Served, Apps
<1>3. ASSUME NEW cfg \in CtlConfigs \cup {0}, NEW s \in ServeDeploy(cfg)
      PROVE  Served(s) /\ (s.answer = "ok" => s.app.made = serial + 1) /\ (s.answer # "ok" => s.app = live)
  <2>1. \/ s = [answer |-> "not_found", app |-> live]
        \/ s = [answer |-> "deploy_unhealthy", app |-> live]
        \/ s = [answer |-> "ok", app |-> [cfg |-> cfg, made |-> serial + 1]]
    BY <1>3 DEF ServeDeploy
  <2> QED BY <1>1, <2>1 DEF Served, Apps
<1>4. ASSUME NEW s \in ServeRestart
      PROVE  Served(s) /\ (s.answer = "ok" => s.app.made = serial + 1) /\ (s.answer # "ok" => s.app = live)
  <2>1. [live EXCEPT !.made = serial + 1] \in Apps /\ [live EXCEPT !.made = serial + 1].made = serial + 1
    BY <1>1 DEF Apps
  <2>2. \/ s = [answer |-> "not_found", app |-> live]
        \/ s = [answer |-> "ok", app |-> [live EXCEPT !.made = serial + 1]]
    BY <1>4 DEF ServeRestart
  <2>3. CASE s = [answer |-> "not_found", app |-> live]
    BY <1>1, <2>3 DEF Served
  <2>4. CASE s = [answer |-> "ok", app |-> [live EXCEPT !.made = serial + 1]]
    <3>1. s.answer = "ok" /\ s.app = [live EXCEPT !.made = serial + 1]
      BY <2>4
    <3> QED BY <2>1, <3>1, Zenon DEF Served
  <2> QED BY <2>2, <2>3, <2>4
<1>5. ASSUME NEW s \in ServeStop
      PROVE  Served(s) /\ (s.app = live \/ s.app = Down)
  BY <1>1, <1>5 DEF Served, ServeStop
<1>6. ASSUME NEW s \in ServeGet
      PROVE  Served(s) /\ s.app = live /\ (s.answer = "ok" => live # Down)
  BY <1>1, <1>6 DEF Served, ServeGet
<1> QED BY <1>2, <1>3, <1>4, <1>5, <1>6, Zenon

\* The request of a command that has made nothing yet: when what it becomes is right, so is all.
LEMMA OutcomeKeeps ==
  ASSUME CtlInv, NEW u \in CtlUsers, NEW d \in Command, NEW s, NEW then,
         Served(s), ctl' = [ctl EXCEPT ![u] = d], Outcome(ctl[u], d, s, then), database' = database,
         ~ctl[u].dropped, CommandOK(d, serial')
  PROVE  CtlInv'
<1>1. serial \in Nat /\ s.app \in Apps /\ s.app.made \in Nat /\ live \in Apps /\ live.made \in Nat
  BY DEF CtlInv, Served, Apps
<1>2. serial' = (IF s.app.made > serial THEN s.app.made ELSE serial) /\ live' = s.app
  BY Zenon DEF Outcome
<1>3. serial' \in Nat /\ serial <= serial'
  BY <1>1, <1>2
<1>4. live = Down \/ (live.made = serial /\ live.made > 0)
  BY Zenon DEF CtlInv
<1>5. live' = Down \/ (live'.made = serial' /\ live'.made > 0)
  BY <1>1, <1>2, <1>4 DEF Served, Down
<1>6. database' \in BOOLEAN /\ (~database' => ~database /\ ~ctl[u].dropped)
  BY Zenon DEF CtlInv
<1> QED BY <1>1, <1>2, <1>3, <1>5, <1>6, CommandStep, Zenon

\* A request that failed or was lost leaves the command's promises as they were.
LEMMA FailedOK ==
  ASSUME NEW c \in Command, NEW d \in Command, NEW s \in Nat, NEW t \in Nat, CommandOK(c, s), s <= t, Same(c, d),
         d.pc = "failed", d.made <= t, d.seen <= t, d.env = 0, ~Dry(c)
  PROVE  CommandOK(d, t)
<1>1. c.before \in Nat /\ d.before = c.before /\ d.verb = c.verb /\ d.dry = c.dry
  BY Zenon DEF Command, Same
<1>2. d.before <= t /\ d.env <= t /\ ~Dry(d)
  BY <1>1 DEF CommandOK, Dry
<1> QED BY <1>2 DEF CommandOK, Verbs

\* up, restart, reset and deploy: a success made a process, and any other answer is an error.
LEMMA MakingKeeps ==
  ASSUME CtlInv, NEW u \in CtlUsers, NEW verb \in {"up", "restart", "reset", "deploy"}, NEW served, NEW next,
         Send(u, verb, served, [ok |-> next]),
         next \in {"ok", "release"}, next = "release" => verb = "deploy" /\ ctl[u].release,
         \A s \in served : Served(s) /\ (s.answer = "ok" => s.app.made = serial + 1) /\ (s.answer # "ok" => s.app = live)
  PROVE  CtlInv'
<1> DEFINE then == [ok |-> next]
           c == ctl[u]
<1>1. DOMAIN then = {"ok"} /\ then["ok"] = next
  OBVIOUS
<1> HIDE DEF then
<1>2. PICK d \in Command : \E s \in served \cup {[answer |-> "lost", app |-> live]} :
        ctl' = [ctl EXCEPT ![u] = d] /\ Outcome(ctl[u], d, s, then)
  <2>1. Send(u, verb, served, then) /\ \A s \in served : Served(s)
    BY Zenon DEF then
  <2>2. \A a \in DOMAIN then : then[a] \in Pcs
    BY <1>1 DEF Pcs
  <2>3. "lost" \notin DOMAIN then
    BY <1>1
  <2> QED BY <2>1, <2>2, <2>3, SendStep, Zenon
<1>3. PICK s \in served \cup {[answer |-> "lost", app |-> live]} : ctl' = [ctl EXCEPT ![u] = d] /\ Outcome(ctl[u], d, s, then)
  BY <1>2, Zenon
<1>4. Served(s) /\ (s.answer = "ok" => s.app.made = serial + 1) /\ (s.answer # "ok" => s.app = live)
  BY DEF CtlInv, Served
<1>5. /\ c \in Command /\ CommandOK(c, serial) /\ serial \in Nat /\ c.pc = verb
  BY Zenon DEF CtlInv, Send
<1>6. /\ c.verb = verb /\ c.made = 0 /\ ~Dry(c) /\ ~c.dropped /\ c.env = 0 /\ c.seen <= serial /\ c.before <= serial
      /\ c.seen \in Nat /\ c.before \in Nat
  BY <1>5, Zenon DEF CommandOK, Verbs, Command
<1>7. /\ Same(c, d) /\ d.env = c.env /\ live' = s.app
      /\ d.made = IF s.app.made > serial THEN s.app.made ELSE c.made
      /\ serial' = IF s.app.made > serial THEN s.app.made ELSE serial
      /\ \/ d.pc = (IF s.answer = "ok" THEN next ELSE "failed") /\ d.seen = IF s.answer = "ok" THEN s.app.made ELSE c.seen
         \/ d.pc = "failed" /\ d.seen = c.seen
  BY <1>1, <1>3, Zenon DEF Outcome
<1>8. ~(live.made > serial) /\ live.made \in Nat
  BY DEF CtlInv, Apps, Down
<1>9. CommandOK(d, serial')
  <2>1. CASE d.pc = "failed" /\ d.seen = c.seen
    <3>1. serial' \in Nat /\ serial <= serial' /\ d.made <= serial' /\ d.seen <= serial'
      BY <1>4, <1>5, <1>6, <1>7, <1>8, <2>1
    <3> QED BY <1>5, <1>6, <1>7, <2>1, <3>1, FailedOK, ZenonT(60)
  <2>2. CASE s.answer = "ok" /\ d.pc = next /\ d.seen = s.app.made
    <3>1. serial' = serial + 1 /\ d.made = serial + 1 /\ d.seen = serial + 1
      BY <1>4, <1>5, <1>7, <2>2
    <3>2. d.verb = verb /\ d.before = c.before /\ d.release = c.release /\ ~d.dropped /\ ~Dry(d) /\ d.env = 0
      BY <1>6, <1>7, Zenon DEF Same, Dry
    <3>3. d.before <= serial' /\ d.made > d.before /\ d.seen >= d.made /\ d.made > 0 /\ d.env <= serial' /\ d.made <= serial' /\ d.seen <= serial'
      BY <1>5, <1>6, <3>1, <3>2
    <3>4. Kept(d)
      BY <3>2, <3>3, Zenon DEF Kept
    <3> QED BY <2>2, <3>2, <3>3, <3>4, Zenon DEF CommandOK, Verbs
  <2> QED BY <1>7, <2>1, <2>2, Zenon
<1>10. database' = database
  BY Zenon DEF Send
<1> QED BY <1>3, <1>4, <1>6, <1>9, <1>10, OutcomeKeeps, Zenon

\* What holds of a command when it sends a request.
LEMMA Sending ==
  ASSUME CtlInv, NEW u \in CtlUsers, ctl[u].pc \in Verbs \cup {"get"}
  PROVE  LET c == ctl[u] IN
         /\ c \in Command /\ CommandOK(c, serial) /\ serial \in Nat /\ live \in Apps /\ live.made \in Nat
         /\ ~(live.made > serial) /\ ~Dry(c) /\ ~c.dropped /\ c.env = 0
         /\ c.seen <= serial /\ c.before <= serial /\ c.made <= serial
         /\ c.seen \in Nat /\ c.before \in Nat /\ c.made \in Nat
         /\ c.pc \in Verbs => c.verb = c.pc
         /\ c.pc = "get" => c.verb = "ensure"
<1> DEFINE c == ctl[u]
<1>1. c \in Command /\ CommandOK(c, serial) /\ serial \in Nat /\ live \in Apps /\ (live = Down \/ live.made = serial)
  BY Zenon DEF CtlInv
<1>2. live.made \in Nat /\ ~(live.made > serial)
  BY <1>1 DEF Apps, Down
<1>3. c.seen \in Nat /\ c.before \in Nat /\ c.made \in Nat
  BY <1>1, Zenon DEF Command
<1> HIDE DEF c
<1>4. c.pc \in Verbs \cup {"get"}
  BY Zenon DEF c
<1>5. ~Dry(c) /\ ~c.dropped /\ c.env = 0
  BY <1>1, <1>4, Zenon DEF CommandOK, Verbs
<1>6. /\ c.seen <= serial /\ c.before <= serial /\ c.made <= serial
      /\ c.pc \in Verbs => c.verb = c.pc
      /\ c.pc = "get" => c.verb = "ensure"
  BY <1>1 DEF CommandOK
<1> QED BY <1>1, <1>2, <1>3, <1>5, <1>6, Zenon DEF c

\* creekctl rm keeps the invariant.
LEMMA RunRMKeeps == ASSUME CtlInv, NEW u \in CtlUsers, runRM(u) PROVE CtlInv'
<1> DEFINE c == ctl[u]
<1>1. Send(u, "rm", ServeStop, Report) /\ c.pc = "rm" /\ database' = database
  BY DEF runRM, Send
<1>2. DOMAIN Report = {"ok"} /\ Report["ok"] = "ok"
  BY Zenon DEF Report
<1>3. /\ \A s \in ServeStop : Served(s) /\ (s.app = live \/ s.app = Down)
      /\ \A a \in DOMAIN Report : Report[a] \in Pcs
      /\ "lost" \notin DOMAIN Report
  BY <1>2, ServedKinds DEF Pcs
<1>4. PICK d \in Command : \E s \in ServeStop \cup {[answer |-> "lost", app |-> live]} :
        ctl' = [ctl EXCEPT ![u] = d] /\ Outcome(ctl[u], d, s, Report)
  BY <1>1, <1>3, SendStep, ZenonT(60)
<1>5. PICK s \in ServeStop \cup {[answer |-> "lost", app |-> live]} :
        ctl' = [ctl EXCEPT ![u] = d] /\ Outcome(ctl[u], d, s, Report)
  BY <1>4, Zenon
<1>6. /\ c \in Command /\ CommandOK(c, serial) /\ serial \in Nat /\ live \in Apps /\ live.made \in Nat
      /\ ~(live.made > serial) /\ ~Dry(c) /\ ~c.dropped /\ c.env = 0
      /\ c.seen <= serial /\ c.before <= serial /\ c.made <= serial
      /\ c.seen \in Nat /\ c.before \in Nat /\ c.made \in Nat /\ c.verb = "rm"
  BY <1>1, Sending DEF Verbs
<1>7. Served(s) /\ (s.app = live \/ s.app = Down)
  BY <1>3, <1>6 DEF Served
<1>8. ~(s.app.made > serial) /\ s.app.made <= serial
  BY <1>6, <1>7 DEF Down
<1>9. /\ Same(c, d) /\ d.env = c.env /\ d.made = c.made /\ serial' = serial /\ d.pc \in {"ok", "failed"}
      /\ d.seen = c.seen \/ d.seen = s.app.made
  BY <1>2, <1>5, <1>8, Zenon DEF Outcome
<1>10. d.verb = "rm" /\ ~Dry(d) /\ ~d.dropped /\ d.before = c.before
  BY <1>6, <1>9, Zenon DEF Same, Dry
<1>11. d.before <= serial' /\ d.made <= serial' /\ d.seen <= serial' /\ d.env <= serial'
  BY <1>6, <1>8, <1>9, <1>10
<1>12. CommandOK(d, serial')
  BY <1>9, <1>10, <1>11, Zenon DEF CommandOK, Kept, Verbs
<1> QED BY <1>1, <1>5, <1>6, <1>7, <1>12, OutcomeKeeps, Zenon

\* creekctl ensure keeps the invariant.
LEMMA RunEnsureKeeps == ASSUME CtlInv, NEW u \in CtlUsers, runEnsure(u) PROVE CtlInv'
<1> DEFINE c == ctl[u]
           served == ServeSpawn(c.want)
<1>1. Send(u, "ensure", served, IsAlreadyRunning) /\ c.pc = "ensure" /\ database' = database
  BY Zenon DEF runEnsure, Send
<1>2. DOMAIN IsAlreadyRunning = {"ok", "already_running"} /\ \A a \in DOMAIN IsAlreadyRunning : IsAlreadyRunning[a] = "get"
  BY DEF IsAlreadyRunning
<1>6. /\ c \in Command /\ CommandOK(c, serial) /\ serial \in Nat /\ live \in Apps /\ live.made \in Nat
      /\ ~(live.made > serial) /\ ~Dry(c) /\ ~c.dropped /\ c.env = 0
      /\ c.seen <= serial /\ c.before <= serial /\ c.made <= serial
      /\ c.seen \in Nat /\ c.before \in Nat /\ c.made \in Nat /\ c.verb = "ensure"
  BY <1>1, Sending, Zenon DEF Verbs
<1>3. /\ \A s \in served : Served(s)
      /\ \A a \in DOMAIN IsAlreadyRunning : IsAlreadyRunning[a] \in Pcs
      /\ "lost" \notin DOMAIN IsAlreadyRunning
  BY <1>2, <1>6, ServedKinds DEF Pcs, Command
<1> HIDE DEF served
<1>4. PICK d \in Command : \E s \in served \cup {[answer |-> "lost", app |-> live]} :
        ctl' = [ctl EXCEPT ![u] = d] /\ Outcome(ctl[u], d, s, IsAlreadyRunning)
  BY <1>1, <1>3, SendStep, Zenon
<1>5. PICK s \in served \cup {[answer |-> "lost", app |-> live]} :
        ctl' = [ctl EXCEPT ![u] = d] /\ Outcome(ctl[u], d, s, IsAlreadyRunning)
  BY <1>4, Zenon
<1>7. Served(s)
  BY <1>3, <1>6 DEF Served
<1>8. s.app.made \in Nat
  BY <1>7, Zenon DEF Served, Apps
<1>9. /\ Same(c, d) /\ d.env = c.env /\ d.pc \in {"get", "failed"}
      /\ d.seen = c.seen \/ d.seen = s.app.made
      /\ d.made = IF s.app.made > serial THEN s.app.made ELSE c.made
      /\ serial' = IF s.app.made > serial THEN s.app.made ELSE serial
  BY <1>2, <1>5, Zenon DEF Outcome
<1>10. d.verb = "ensure" /\ ~Dry(d) /\ ~d.dropped /\ d.before = c.before
  BY <1>6, <1>9, Zenon DEF Same, Dry
<1>11. d.before <= serial' /\ d.made <= serial' /\ d.seen <= serial' /\ d.env <= serial'
  BY <1>6, <1>8, <1>9, <1>10
<1>12. CommandOK(d, serial')
  BY <1>6, <1>9, <1>10, <1>11, Zenon DEF CommandOK, Verbs
<1> QED BY <1>1, <1>5, <1>6, <1>7, <1>12, OutcomeKeeps, Zenon

\* The GET by which ensure looks at an app that runs keeps the invariant.
LEMMA EnsureGetKeeps == ASSUME CtlInv, NEW u \in CtlUsers, EnsureGet(u) PROVE CtlInv'
<1> DEFINE c == ctl[u]
<1>1. Send(u, "get", ServeGet, Report) /\ c.pc = "get" /\ database' = database
  BY Zenon DEF EnsureGet, Send
<1>2. DOMAIN Report = {"ok"} /\ Report["ok"] = "ok"
  BY DEF Report
<1>3. /\ \A s \in ServeGet : Served(s) /\ s.app = live /\ (s.answer = "ok" => live # Down)
      /\ \A a \in DOMAIN Report : Report[a] \in Pcs
      /\ "lost" \notin DOMAIN Report
  BY <1>2, ServedKinds DEF Pcs
<1>4. PICK d \in Command : \E s \in ServeGet \cup {[answer |-> "lost", app |-> live]} :
        ctl' = [ctl EXCEPT ![u] = d] /\ Outcome(ctl[u], d, s, Report)
  BY <1>1, <1>3, SendStep, ZenonT(60)
<1>5. PICK s \in ServeGet \cup {[answer |-> "lost", app |-> live]} :
        ctl' = [ctl EXCEPT ![u] = d] /\ Outcome(ctl[u], d, s, Report)
  BY <1>4, Zenon
<1>6. /\ c \in Command /\ CommandOK(c, serial) /\ serial \in Nat /\ live \in Apps /\ live.made \in Nat
      /\ ~(live.made > serial) /\ ~Dry(c) /\ ~c.dropped /\ c.env = 0
      /\ c.seen <= serial /\ c.before <= serial /\ c.made <= serial
      /\ c.seen \in Nat /\ c.before \in Nat /\ c.made \in Nat /\ c.verb = "ensure"
  BY <1>1, Sending DEF Verbs
<1>7. Served(s) /\ s.app = live /\ (s.answer = "ok" => live # Down)
  BY <1>3, <1>6 DEF Served
<1>9. /\ Same(c, d) /\ d.env = c.env /\ d.made = c.made /\ serial' = serial
      /\ \/ d.pc = "failed" /\ (d.seen = c.seen \/ d.seen = live.made)
         \/ d.pc = "ok" /\ d.seen = live.made /\ live # Down
  BY <1>2, <1>5, <1>6, <1>7, Zenon DEF Outcome
<1>10. d.verb = "ensure" /\ ~Dry(d) /\ ~d.dropped /\ d.before = c.before
  BY <1>6, <1>9, Zenon DEF Same, Dry
<1>11. d.before <= serial' /\ d.made <= serial' /\ d.seen <= serial' /\ d.env <= serial'
  BY <1>6, <1>9, <1>10
<1>12. d.pc = "ok" => Kept(d)
  <2>1. live # Down => live.made = serial /\ live.made > 0
    BY Zenon DEF CtlInv
  <2>2. d.pc = "ok" => d.seen = serial /\ serial > 0
    BY <1>9, <2>1, Zenon
  <2> QED BY <1>6, <1>9, <1>10, <2>2, Zenon DEF Kept
<1>13. CommandOK(d, serial')
  BY <1>6, <1>9, <1>10, <1>11, <1>12, Zenon DEF CommandOK, Verbs
<1> QED BY <1>1, <1>5, <1>6, <1>7, <1>13, OutcomeKeeps, Zenon

\* A step that only moves one command on, and takes no serial number.
LEMMA MoveKeeps ==
  ASSUME CtlInv, NEW u \in CtlUsers, NEW d \in Command, ctl' = [ctl EXCEPT ![u] = d],
         UNCHANGED <<live, serial>>, database' \in BOOLEAN, CommandOK(d, serial),
         ~database' => (d.dropped /\ d.pc # "ok") \/ (~database /\ ~ctl[u].dropped)
  PROVE  CtlInv'
<1>1. serial' \in Nat /\ serial <= serial' /\ serial' = serial
  BY DEF CtlInv
<1>2. live' \in Apps /\ (live' = Down \/ (live'.made = serial' /\ live'.made > 0))
  BY DEF CtlInv
<1> QED BY <1>1, <1>2, CommandStep, Zenon

\* creekctl release keeps the invariant.
LEMMA RunReleaseKeeps == ASSUME CtlInv, NEW u \in CtlUsers, runRelease(u) PROVE CtlInv'
<1> DEFINE c == ctl[u]
<1>1. /\ c \in Command /\ CommandOK(c, serial) /\ serial \in Nat /\ c.pc = "release" /\ database \in BOOLEAN
      /\ UNCHANGED <<live, serial, database>>
  BY Zenon DEF CtlInv, runRelease, Inherit
<1>2. c.before \in Nat /\ c.made \in Nat /\ c.seen \in Nat /\ c.env \in Nat
  BY <1>1, ZenonT(60) DEF Command
<1>3. ~Dry(c) /\ ~c.dropped /\ c.verb \in {"deploy", "exec"} /\ (c.verb = "deploy" => c.release /\ c.made > 0 /\ Kept(c) /\ c.env = 0)
  BY <1>1 DEF CommandOK
<1>4. CASE live # Down /\ Inherit(u)
  <2>1. PICK d \in Command : /\ ctl' = [ctl EXCEPT ![u] = d] /\ Same(ctl[u], d) /\ d.pc = "run"
                             /\ d.made = ctl[u].made /\ d.seen = ctl[u].seen /\ d.env = live.made
    BY <1>4, InheritStep, Zenon
  <2>2. live.made = serial
    BY <1>4, Zenon DEF CtlInv
  <2>3. d.verb = c.verb /\ d.release = c.release /\ d.before = c.before /\ ~d.dropped /\ ~Dry(d)
    BY <1>3, <2>1, ZenonT(60) DEF Same, Dry
  <2>4. d.before <= serial /\ d.made <= serial /\ d.seen <= serial /\ d.env <= serial /\ d.env >= d.made
    BY <1>1, <1>2, <2>1, <2>2, <2>3, SMTT(60) DEF CommandOK
  <2>5. d.verb = "deploy" => Kept(d)
    BY <1>3, <2>1, <2>3, Zenon DEF Kept
  <2>6. CommandOK(d, serial)
    BY <1>3, <2>1, <2>3, <2>4, <2>5, Zenon DEF CommandOK, Verbs
  <2> QED BY <1>1, <1>3, <2>1, <2>6, MoveKeeps, Zenon
<1>5. CASE To(u, "ok")
  <2>1. PICK d \in Command : /\ ctl' = [ctl EXCEPT ![u] = d] /\ Same(ctl[u], d) /\ d.pc = "ok"
                             /\ d.made = ctl[u].made /\ d.seen = ctl[u].seen /\ d.env = ctl[u].env
    BY <1>5, ToStep DEF Pcs
  <2>3. d.verb = c.verb /\ d.release = c.release /\ d.before = c.before /\ ~d.dropped /\ ~Dry(d)
    BY <1>3, <2>1, Zenon DEF Same, Dry
  <2>4. d.before <= serial /\ d.made <= serial /\ d.seen <= serial /\ d.env <= serial
    BY <1>1, <2>1, <2>3, Zenon DEF CommandOK
  <2>5. Kept(d)
    BY <1>3, <2>1, <2>3, Zenon DEF Kept
  <2>6. CommandOK(d, serial)
    BY <1>3, <2>1, <2>3, <2>4, <2>5, ZenonT(60) DEF CommandOK, Verbs
  <2> QED BY <1>1, <1>3, <2>1, <2>6, MoveKeeps, Zenon
<1> QED BY <1>4, <1>5 DEF runRelease

\* creekctl exec keeps the invariant.
LEMMA RunExecKeeps == ASSUME CtlInv, NEW u \in CtlUsers, runExec(u) PROVE CtlInv'
<1> DEFINE c == ctl[u]
<1>1. /\ c \in Command /\ CommandOK(c, serial) /\ serial \in Nat /\ c.pc = "exec" /\ database \in BOOLEAN
      /\ UNCHANGED <<live, serial, database>>
  BY Zenon DEF CtlInv, runExec, Inherit
<1>3. c.verb = "exec" /\ ~Dry(c) /\ ~c.dropped
  BY <1>1 DEF CommandOK, Verbs
<1>4. CASE live # Down /\ Inherit(u)
  <2>1. PICK d \in Command : /\ ctl' = [ctl EXCEPT ![u] = d] /\ Same(ctl[u], d) /\ d.pc = "run"
                             /\ d.made = ctl[u].made /\ d.seen = ctl[u].seen /\ d.env = live.made
    BY <1>4, InheritStep
  <2>2. live.made = serial
    BY <1>4 DEF CtlInv
  <2>3. d.verb = "exec" /\ d.before = c.before /\ ~d.dropped /\ ~Dry(d)
    BY <1>3, <2>1, ZenonT(60) DEF Same, Dry
  <2>4. d.before <= serial /\ d.made <= serial /\ d.seen <= serial /\ d.env <= serial
    BY <1>1, <2>1, <2>2, <2>3 DEF CommandOK
  <2>6. CommandOK(d, serial)
    BY <2>1, <2>3, <2>4, Zenon DEF CommandOK, Verbs
  <2> QED BY <1>1, <1>3, <2>1, <2>6, MoveKeeps, Zenon
<1>5. CASE To(u, "failed")
  <2>1. PICK d \in Command : /\ ctl' = [ctl EXCEPT ![u] = d] /\ Same(ctl[u], d) /\ d.pc = "failed"
                             /\ d.made = ctl[u].made /\ d.seen = ctl[u].seen /\ d.env = ctl[u].env
    BY <1>5, ToStep DEF Pcs
  <2>3. d.verb = "exec" /\ d.before = c.before /\ ~d.dropped /\ ~Dry(d)
    BY <1>3, <2>1, Zenon DEF Same, Dry
  <2>4. d.before <= serial /\ d.made <= serial /\ d.seen <= serial /\ d.env <= serial
    BY <1>1, <2>1, <2>3, Zenon DEF CommandOK
  <2>6. CommandOK(d, serial)
    BY <2>1, <2>3, <2>4, Zenon DEF CommandOK, Verbs
  <2> QED BY <1>1, <1>3, <2>1, <2>6, MoveKeeps, Zenon
<1> QED BY <1>4, <1>5 DEF runExec

\* The end of the local command keeps the invariant.
LEMMA LocalCommandEndsKeeps == ASSUME CtlInv, NEW u \in CtlUsers, LocalCommandEnds(u) PROVE CtlInv'
<1> DEFINE c == ctl[u]
<1>1. /\ c \in Command /\ CommandOK(c, serial) /\ serial \in Nat /\ c.pc = "run" /\ database \in BOOLEAN
      /\ UNCHANGED <<live, serial, database>>
  BY Zenon DEF CtlInv, LocalCommandEnds
<1>3. /\ ~Dry(c) /\ ~c.dropped /\ c.verb \in {"deploy", "exec"}
      /\ c.verb = "deploy" => c.release /\ c.made > 0 /\ Kept(c) /\ (c.env # 0 => c.env >= c.made)
  BY <1>1, Zenon DEF CommandOK
<1>4. PICK pc \in {"ok", "failed"} : To(u, pc) /\ (c.verb = "deploy" => pc = "ok")
  BY <1>3, Zenon DEF LocalCommandEnds
<1>5. PICK d \in Command : /\ ctl' = [ctl EXCEPT ![u] = d] /\ Same(ctl[u], d) /\ d.pc = pc
                           /\ d.made = ctl[u].made /\ d.seen = ctl[u].seen /\ d.env = ctl[u].env
  BY <1>4, ToStep DEF Pcs
<1>6. d.verb = c.verb /\ d.release = c.release /\ d.before = c.before /\ ~d.dropped /\ ~Dry(d)
  BY <1>3, <1>5, Zenon DEF Same, Dry
<1>7. d.before <= serial /\ d.made <= serial /\ d.seen <= serial /\ d.env <= serial
  BY <1>1, <1>5, <1>6, Zenon DEF CommandOK
<1>8. Kept(d)
  BY <1>3, <1>5, <1>6, Zenon DEF Kept
<1>9. CommandOK(d, serial)
  BY <1>3, <1>4, <1>5, <1>6, <1>7, <1>8, Zenon DEF CommandOK, Verbs
<1> QED BY <1>1, <1>3, <1>5, <1>9, MoveKeeps, Zenon

\* creekctl db reset keeps the invariant.
LEMMA RunDBResetKeeps == ASSUME CtlInv, NEW u \in CtlUsers, runDBReset(u) PROVE CtlInv'
<1> DEFINE c == ctl[u]
<1>1. /\ c \in Command /\ CommandOK(c, serial) /\ serial \in Nat /\ c.pc = "db-reset" /\ database \in BOOLEAN
      /\ UNCHANGED <<live, serial>>
  BY Zenon DEF CtlInv, runDBReset
<1>3. c.verb = "db-reset" /\ ~Dry(c) /\ ~c.dropped /\ c.made = 0 /\ c.env = 0
  BY <1>1 DEF CommandOK, Verbs
<1>4. CASE database' = FALSE /\ ctl' = [ctl EXCEPT ![u].pc = "create", ![u].dropped = TRUE]
  <2> DEFINE d == [c EXCEPT !.pc = "create", !.dropped = TRUE]
  <2>1. d \in Command /\ d.pc = "create" /\ d.dropped = TRUE /\ d.made = c.made /\ d.env = c.env /\ d.seen = c.seen
        /\ d.verb = c.verb /\ d.before = c.before /\ d.dry = c.dry
    BY <1>1, Zenon DEF Command, Pcs
  <2>2. ctl' = [ctl EXCEPT ![u] = d]
    BY <1>4, Zenon
  <2> HIDE DEF d
  <2>3. d.before <= serial /\ d.made <= serial /\ d.seen <= serial /\ d.env <= serial /\ ~Dry(d)
    BY <1>1, <1>3, <2>1, Zenon DEF CommandOK, Dry
  <2>4. CommandOK(d, serial)
    BY <1>3, <2>1, <2>3 DEF CommandOK, Verbs
  <2> QED BY <1>1, <1>4, <2>1, <2>2, <2>4, MoveKeeps, Zenon
<1>5. CASE To(u, "failed") /\ database' = database
  <2>1. PICK d \in Command : /\ ctl' = [ctl EXCEPT ![u] = d] /\ Same(ctl[u], d) /\ d.pc = "failed"
                             /\ d.made = ctl[u].made /\ d.seen = ctl[u].seen /\ d.env = ctl[u].env
    BY <1>5, ToStep DEF Pcs
  <2>3. d.verb = c.verb /\ d.before = c.before /\ ~d.dropped /\ ~Dry(d)
    BY <1>3, <2>1, Zenon DEF Same, Dry
  <2>4. d.before <= serial /\ d.made <= serial /\ d.seen <= serial /\ d.env <= serial
    BY <1>1, <2>1, <2>3, Zenon DEF CommandOK
  <2>6. CommandOK(d, serial)
    BY <1>3, <2>1, <2>3, <2>4, Zenon DEF CommandOK, Verbs
  <2> QED BY <1>1, <1>3, <1>5, <2>1, <2>6, MoveKeeps, Zenon
<1> QED BY <1>4, <1>5, Zenon DEF runDBReset

\* The CREATE after the DROP of db reset keeps the invariant.
LEMMA DBCreateKeeps == ASSUME CtlInv, NEW u \in CtlUsers, DBCreate(u) PROVE CtlInv'
<1> DEFINE c == ctl[u]
<1>1. /\ c \in Command /\ CommandOK(c, serial) /\ serial \in Nat /\ c.pc = "create" /\ database \in BOOLEAN
      /\ UNCHANGED <<live, serial>>
  BY Zenon DEF CtlInv, DBCreate
<1>3. c.verb = "db-reset" /\ ~Dry(c) /\ c.dropped
  BY <1>1 DEF CommandOK
<1>4. PICK pc \in {"ok", "failed"} : To(u, pc) /\ database' \in BOOLEAN /\ (~database' => pc = "failed")
  BY <1>1, Zenon DEF DBCreate
<1>5. PICK d \in Command : /\ ctl' = [ctl EXCEPT ![u] = d] /\ Same(ctl[u], d) /\ d.pc = pc
                           /\ d.made = ctl[u].made /\ d.seen = ctl[u].seen /\ d.env = ctl[u].env
  BY <1>4, ToStep DEF Pcs
<1>6. d.verb = c.verb /\ d.before = c.before /\ d.dropped /\ ~Dry(d)
  BY <1>3, <1>5, Zenon DEF Same, Dry
<1>7. d.before <= serial /\ d.made <= serial /\ d.seen <= serial /\ d.env <= serial
  BY <1>1, <1>5, <1>6, Zenon DEF CommandOK
<1>8. CommandOK(d, serial)
  BY <1>3, <1>4, <1>5, <1>6, <1>7, Zenon DEF CommandOK, Verbs, Kept
<1> QED BY <1>1, <1>4, <1>5, <1>6, <1>8, MoveKeeps, Zenon

\* The commands a shell can start.
Fresh(c) ==
  /\ c \in Command /\ c.verb \in Verbs
  /\ c.made = 0 /\ c.seen = 0 /\ c.env = 0 /\ ~c.dropped

\* A command that is entered keeps the invariant.
LEMMA StartKeeps == ASSUME CtlInv, NEW u \in CtlUsers, NEW c, Fresh(c), StartCommand(u, c) PROVE CtlInv'
<1> DEFINE pc == IF c.dry /\ c.verb \in DryRuns THEN "ok" ELSE c.verb
           d == [c EXCEPT !.before = live.made, !.pc = pc]
<1>1. serial \in Nat /\ live.made \in Nat /\ live.made <= serial /\ ctl[u] \in Command /\ CommandOK(ctl[u], serial) /\ database \in BOOLEAN
  BY DEF CtlInv, Apps, Down
<1>2. /\ ctl' = [ctl EXCEPT ![u] = d] /\ UNCHANGED <<live, serial, database>>
      /\ ctl[u].pc = "idle"
  BY Zenon DEF StartCommand
<1>3. pc \in Pcs /\ pc \in {"ok"} \cup Verbs /\ (c.dry /\ c.verb \in DryRuns <=> pc = "ok") /\ (pc # "ok" => pc = c.verb)
  BY DEF Fresh, Pcs, Verbs
<1> HIDE DEF pc
<1>4. /\ d \in Command /\ d.pc = pc /\ d.before = live.made /\ d.made = 0 /\ d.seen = 0 /\ d.env = 0 /\ ~d.dropped
      /\ d.verb = c.verb /\ d.dry = c.dry
  BY <1>1, <1>3, Zenon DEF Fresh, Command
<1> HIDE DEF d
<1>5. (Dry(d) <=> d.pc = "ok") /\ (d.pc # "ok" => d.pc \in Verbs /\ d.pc = d.verb) /\ d.verb \in Verbs
  BY <1>3, <1>4, Zenon DEF Dry, Fresh
<1>6. d.before <= serial /\ d.made <= serial /\ d.seen <= serial /\ d.env <= serial
  BY <1>1, <1>4
<1>7. d.pc \notin {"idle", "get", "release", "run", "create"}
  BY <1>3, <1>4 DEF Verbs
<1>8. CommandOK(d, serial)
  <2>1. d.pc = "ok" => d.pc \notin Verbs
    BY Zenon DEF Verbs
  <2> QED BY <1>4, <1>5, <1>6, <1>7, <2>1, Zenon DEF CommandOK
<1>9. ~ctl[u].dropped
  BY <1>1, <1>2 DEF CommandOK
<1> QED BY <1>1, <1>2, <1>4, <1>8, <1>9, MoveKeeps, Zenon

\* runCommand keeps the invariant.
LEMMA RunCommandKeeps == ASSUME CtlInv, NEW u \in CtlUsers, runCommand(u) PROVE CtlInv'
<1>1. PICK verb \in Verbs, dry \in BOOLEAN :
    LET c == [NoCommand EXCEPT !.verb = verb, !.dry = dry] IN
    \/ /\ verb \in {"up", "ensure"}
       /\ \E flags, manifest \in Inputs : StartCommand(u, [c EXCEPT !.want = applyManifestTo(flags, manifest)])
    \/ /\ verb = "deploy"
       /\ \E flags, manifest \in Inputs, release \in BOOLEAN :
            StartCommand(u, [c EXCEPT !.want = applyManifestToDeploy(flags, manifest), !.release = release])
    \/ verb \in Verbs \ {"up", "ensure", "deploy"} /\ StartCommand(u, c)
  BY Zenon DEF runCommand
<1> DEFINE c == [NoCommand EXCEPT !.verb = verb, !.dry = dry]
<1>2. Fresh(c)
  BY Zenon DEF Fresh, NoCommand, Command, Pcs
<1>3. \A flags, manifest \in Inputs : applyManifestTo(flags, manifest) \in CtlConfigs \cup {0} /\ applyManifestToDeploy(flags, manifest) \in CtlConfigs \cup {0}
  BY DEF Inputs, applyManifestTo, applyManifestToDeploy
<1> HIDE DEF c
<1>4. \A w \in CtlConfigs \cup {0} : Fresh([c EXCEPT !.want = w])
  BY <1>2 DEF Fresh, Command
<1>5. \A w \in CtlConfigs \cup {0}, r \in BOOLEAN : Fresh([c EXCEPT !.want = w, !.release = r])
  BY <1>2, ZenonT(60) DEF Fresh, Command
<1>6. \/ \E w \in CtlConfigs \cup {0} : StartCommand(u, [c EXCEPT !.want = w])
      \/ \E w \in CtlConfigs \cup {0}, r \in BOOLEAN : StartCommand(u, [c EXCEPT !.want = w, !.release = r])
      \/ StartCommand(u, c)
  BY <1>1, <1>3, Zenon DEF c
<1> QED BY <1>2, <1>4, <1>5, <1>6, StartKeeps, Zenon

\* Every step of a command keeps the invariant.
LEMMA CtlStepKeeps == ASSUME CtlInv, NEW u \in CtlUsers, CtlStep(u) PROVE CtlInv'
<1>1. ctl[u].want \in CtlConfigs \cup {0}
  BY Zenon DEF CtlInv, Command
<1>2. ASSUME runUp(u)
      PROVE  CtlInv'
  <2>1. \A s \in ServeSpawn(ctl[u].want) :
          Served(s) /\ (s.answer = "ok" => s.app.made = serial + 1) /\ (s.answer # "ok" => s.app = live)
    BY <1>1, ServedKinds, Zenon
  <2> QED BY <1>2, <2>1, MakingKeeps, Zenon DEF runUp, Report
<1>3. ASSUME runDeploy(u)
      PROVE  CtlInv'
  <2>1. \A s \in ServeDeploy(ctl[u].want) :
          Served(s) /\ (s.answer = "ok" => s.app.made = serial + 1) /\ (s.answer # "ok" => s.app = live)
    BY <1>1, ServedKinds, Zenon
  <2> DEFINE next == IF ctl[u].release THEN "release" ELSE "ok"
  <2>2. next \in {"ok", "release"} /\ (next = "release" => ctl[u].release)
    OBVIOUS
  <2>3. Send(u, "deploy", ServeDeploy(ctl[u].want), [ok |-> next])
    BY <1>3, Zenon DEF runDeploy
  <2> HIDE DEF next
  <2> QED BY <2>1, <2>2, <2>3, MakingKeeps, Zenon
<1>4. ASSUME runRestart(u)
      PROVE  CtlInv'
  <2>1. \A s \in ServeRestart :
          Served(s) /\ (s.answer = "ok" => s.app.made = serial + 1) /\ (s.answer # "ok" => s.app = live)
    BY ServedKinds, Zenon
  <2> QED BY <1>4, <2>1, MakingKeeps, Zenon DEF runRestart, Report
<1>5. ASSUME runReset(u)
      PROVE  CtlInv'
  <2> DEFINE served == ServeRestart \cup {[answer |-> "not_crash_looping", app |-> live]}
  <2>1. \A s \in served :
          Served(s) /\ (s.answer = "ok" => s.app.made = serial + 1) /\ (s.answer # "ok" => s.app = live)
    BY ServedKinds DEF CtlInv, Served
  <2>2. Send(u, "reset", served, [ok |-> "ok"])
    BY <1>5 DEF runReset, Report
  <2> HIDE DEF served
  <2> QED BY <2>1, <2>2, MakingKeeps, ZenonT(60)
<1> QED BY <1>2, <1>3, <1>4, <1>5, RunCommandKeeps, RunRMKeeps, RunEnsureKeeps, EnsureGetKeeps, RunReleaseKeeps, RunExecKeeps,
           LocalCommandEndsKeeps, RunDBResetKeeps, DBCreateKeeps, Zenon DEF CtlStep

\* Every step of CreekCtl keeps the invariant.
LEMMA CtlInvStep == CtlInv /\ [CtlNext]_ctlVars => CtlInv'
<1> SUFFICES ASSUME CtlInv, [CtlNext]_ctlVars
             PROVE  CtlInv'
  OBVIOUS
<1>1. CASE CtlNext
  BY <1>1, CtlStepKeeps, Zenon DEF CtlNext
<1>2. CASE UNCHANGED ctlVars
  BY <1>2, Zenon DEF ctlVars, CtlInv
<1> QED BY <1>1, <1>2, Zenon

(***************************************************************************)
(* Whoever else runs commands for the app, and whichever requests and      *)
(* answers are lost: a command of creekctl that reports success did what   *)
(* it says.                                                                *)
(***************************************************************************)
THEOREM CommandsAreTruthful == CtlSpec => [](CtlTypeOK /\ CommandsTellTruth)
<1>1. CtlSpec => []CtlInv
  BY CtlInvInit, CtlInvStep, PTL DEF CtlSpec
<1> QED
  BY <1>1, CtlInvProperty, PTL

-----------------------------------------------------------------------------
(* DevSandbox *)

\* The steps of creekctl dev, the VM, what creek.toml may ask for, and an
\* invocation.
Phases == {"exists", "write", "create", "running", "start", "provision", "script", "mark"}
VMs == [there : BOOLEAN, running : BOOLEAN, ports : SUBSET Primitives,
        installed : SUBSET Primitives, marked : SUBSET Primitives, doubtful : SUBSET Primitives]
Tomls == [database : Databases \cup {"", "sqlite"}, cache : Caches \cup {"", "sqlite"}]
Runs == [pc : Phases \cup {"idle", "ok", "failed", "stop", "destroy"}, toml : Tomls, todo : Seq(Primitives),
         wrote : BOOLEAN, disturbed : BOOLEAN, moved : BOOLEAN]

\* Of what creek.toml requires, the rest is marked.
Rest(d, v) == Range(RequiredPrimitives(d.toml)) \subseteq Range(d.todo) \cup v.marked

\* An invocation, where it has got to, with the VM as it is.
RunOK(d, v) ==
  /\ d.pc \in Phases => Validate(d.toml)
  /\ d.pc \in {"script", "mark"} => d.todo # <<>>
  /\ d.pc \in {"provision", "script", "mark"} /\ ~d.disturbed => v.running /\ Rest(d, v)
  /\ d.pc = "mark" /\ ~d.moved => v.there /\ Head(d.todo) \in v.installed
  /\ d.pc = "ok" /\ ~d.disturbed => v.running /\ Range(RequiredPrimitives(d.toml)) \subseteq v.marked

\* What a VM is at any time.
VMOK(v) ==
  /\ v \in VMs
  /\ v.running => v.there
  /\ v.marked \subseteq v.installed \cup v.doubtful

\* The inductive invariant of DevSandbox.
SandboxInv ==
  /\ VMOK(vm)
  /\ vmFile = NoVmFile \/ vmFile \subseteq Primitives
  /\ inv \in [Invocations -> Runs]
  /\ \A i \in Invocations : RunOK(inv[i], vm)

\* The invariant gives the types, and that a sandbox reported ready is.
LEMMA SandboxInvProperty == SandboxInv => SandboxTypeOK /\ SandboxReady
<1> SUFFICES ASSUME SandboxInv
             PROVE  SandboxTypeOK /\ SandboxReady
  OBVIOUS
<1>1. ASSUME NEW i \in Invocations
      PROVE  Range(inv[i].todo) \subseteq Primitives
  <2>1. inv[i].todo \in Seq(Primitives)
    BY DEF SandboxInv, Runs
  <2> QED BY <2>1 DEF Range
<1>2. SandboxTypeOK
  BY <1>1, Zenon DEF SandboxInv, SandboxTypeOK, VMOK, VMs
<1>3. vm.marked \subseteq vm.installed \cup vm.doubtful
  BY Zenon DEF SandboxInv, VMOK
<1>4. ASSUME NEW i \in Invocations, AtStep(i, "ok"), ~inv[i].disturbed
      PROVE  vm.running /\ Range(RequiredPrimitives(inv[i].toml)) \subseteq vm.marked
  BY <1>4, Zenon DEF SandboxInv, RunOK, AtStep
<1> QED BY <1>2, <1>3, <1>4 DEF SandboxReady

\* The invariant holds before the first invocation.
LEMMA SandboxInvInit == SandboxInit => SandboxInv
<1> SUFFICES ASSUME SandboxInit
             PROVE  SandboxInv
  OBVIOUS
<1> USE DEF SandboxInit
<1>1. VMOK(vm)
  BY DEF VMOK, VMs, NoVM
<1>2. NotRun \in Runs /\ NotRun.pc = "idle"
  <2>1. <<>> \in Seq(Primitives)
    OBVIOUS
  <2> QED BY <2>1 DEF NotRun, Runs, Tomls
<1>3. RunOK(NotRun, vm)
  BY <1>2 DEF RunOK, Phases
<1> QED BY <1>1, <1>2, <1>3, Zenon DEF SandboxInv

\* The VM is made, or keeps what it has.
Grows(v, w) ==
  ~v.there \/ /\ w.there /\ (v.running => w.running)
              /\ v.installed \subseteq w.installed /\ v.marked \subseteq w.marked

\* What an invocation has done stays done while the VM only grows.
LEMMA RunLater ==
  ASSUME NEW d, NEW v, NEW w, VMOK(v), Grows(v, w), RunOK(d, v)
  PROVE  RunOK(d, w)
<1>1. CASE ~v.there
  <2>1. ~v.running
    BY <1>1, Zenon DEF VMOK
  <2> QED BY <1>1, <2>1, Zenon DEF RunOK
<1>2. CASE w.there /\ (v.running => w.running) /\ v.installed \subseteq w.installed /\ v.marked \subseteq w.marked
  <2>1. d.pc \in {"provision", "script", "mark"} /\ ~d.disturbed => w.running /\ Rest(d, w)
    BY <1>2 DEF RunOK, Rest
  <2>2. d.pc = "mark" /\ ~d.moved => w.there /\ Head(d.todo) \in w.installed
    BY <1>2, SMTT(60) DEF RunOK
  <2>3. d.pc = "ok" /\ ~d.disturbed => w.running /\ Range(RequiredPrimitives(d.toml)) \subseteq w.marked
    BY <1>2 DEF RunOK
  <2> QED BY <2>1, <2>2, <2>3, ZenonT(60) DEF RunOK
<1> QED BY <1>1, <1>2, Zenon DEF Grows

\* A step of one invocation.
LEMMA RunStep ==
  ASSUME SandboxInv, NEW i \in Invocations, NEW d \in Runs, inv' = [inv EXCEPT ![i] = d],
         VMOK(vm'), Grows(vm, vm'), RunOK(d, vm'), vmFile' = NoVmFile \/ vmFile' \subseteq Primitives
  PROVE  SandboxInv'
<1>1. inv' \in [Invocations -> Runs]
  BY Zenon DEF SandboxInv
<1>2. inv'[i] = d /\ \A j \in Invocations : j # i => inv'[j] = inv[j]
  BY Zenon DEF SandboxInv
<1>3. \A j \in Invocations : RunOK(inv[j], vm')
  BY RunLater, Zenon DEF SandboxInv
<1>4. \A j \in Invocations : RunOK(inv'[j], vm')
  BY <1>2, <1>3, Zenon
<1> QED BY <1>1, <1>4, Zenon DEF SandboxInv

\* The tail of a sequence has no new elements.
LEMMA RangeTail ==
  ASSUME NEW S, NEW s \in Seq(S), s # <<>>
  PROVE  Head(s) \in S /\ Tail(s) \in Seq(S) /\ Range(s) = {Head(s)} \cup Range(Tail(s))
<1>1. /\ Len(s) \in Nat \ {0} /\ DOMAIN s = 1 .. Len(s) /\ Head(s) = s[1] /\ Head(s) \in S /\ Tail(s) \in Seq(S)
      /\ DOMAIN Tail(s) = 1 .. (Len(s) - 1) /\ \A k \in 1 .. (Len(s) - 1) : Tail(s)[k] = s[k + 1]
  OBVIOUS
<1>2. ASSUME NEW x \in Range(s)
      PROVE  x \in {Head(s)} \cup Range(Tail(s))
  <2>1. PICK k \in 1 .. Len(s) : x = s[k]
    BY <1>1 DEF Range
  <2>2. CASE k = 1
    BY <1>1, <2>1, <2>2
  <2>3. CASE k # 1
    <3>1. k - 1 \in 1 .. (Len(s) - 1) /\ (k - 1) + 1 = k
      BY <1>1, <2>3
    <3>2. Tail(s)[k - 1] = x
      BY <1>1, <2>1, <3>1
    <3> QED BY <1>1, <3>1, <3>2, Zenon DEF Range
  <2> QED BY <2>2, <2>3
<1>3. ASSUME NEW x \in Range(Tail(s))
      PROVE  x \in Range(s)
  <2>1. PICK k \in 1 .. (Len(s) - 1) : x = Tail(s)[k]
    BY <1>1 DEF Range
  <2>2. k + 1 \in 1 .. Len(s) /\ x = s[k + 1]
    BY <1>1, <2>1
  <2> QED BY <1>1, <2>2 DEF Range
<1>4. Head(s) \in Range(s)
  BY <1>1 DEF Range
<1> QED BY <1>1, <1>2, <1>3, <1>4

\* Only pc changes.
RunMoved(c, d, pc) ==
  /\ d \in Runs /\ d.pc = pc /\ d.toml = c.toml /\ d.todo = c.todo /\ d.disturbed = c.disturbed /\ d.moved = c.moved

\* What a move of one invocation to another step does to the invocations.
LEMMA PcStep ==
  ASSUME SandboxInv, NEW i \in Invocations, NEW pc \in Phases \cup {"idle", "ok", "failed", "stop", "destroy"},
         inv' = [inv EXCEPT ![i].pc = pc]
  PROVE  \E d \in Runs : inv' = [inv EXCEPT ![i] = d] /\ RunMoved(inv[i], d, pc)
<1> DEFINE d == [inv[i] EXCEPT !.pc = pc]
<1>1. inv[i] \in Runs
  BY Zenon DEF SandboxInv
<1>2. RunMoved(inv[i], d, pc)
  BY <1>1, Zenon DEF Runs, RunMoved
<1>3. inv' = [inv EXCEPT ![i] = d]
  OBVIOUS
<1> QED BY <1>2, <1>3, Zenon DEF RunMoved

\* The VM stays as it is.
LEMMA VMSame == ASSUME SandboxInv, vm' = vm PROVE VMOK(vm') /\ Grows(vm, vm')
BY DEF SandboxInv, Grows

\* An invocation that fails says nothing.
LEMMA FailsKeeps ==
  ASSUME SandboxInv, NEW i \in Invocations, Ends(i, "failed") \/ GoTo(i, "failed"), VMOK(vm'), Grows(vm, vm')
  PROVE  SandboxInv'
<1>1. inv' = [inv EXCEPT ![i].pc = "failed"] /\ (vmFile' = NoVmFile \/ vmFile' = vmFile)
  BY Zenon DEF Ends, GoTo
<1>2. PICK d \in Runs : inv' = [inv EXCEPT ![i] = d] /\ RunMoved(inv[i], d, "failed")
  BY <1>1, PcStep, ZenonT(60)
<1>3. RunOK(d, vm')
  BY <1>2 DEF RunMoved, RunOK, Phases
<1>4. vmFile' = NoVmFile \/ vmFile' \subseteq Primitives
  BY <1>1 DEF SandboxInv
<1> QED BY <1>2, <1>3, <1>4, RunStep, Zenon

\* A limactl call that fails ends the invocation, and keeps the invariant.
LEMMA CommandFailsKeeps == ASSUME SandboxInv, NEW i \in Invocations, CommandFails(i) PROVE SandboxInv'
BY VMSame, FailsKeeps DEF CommandFails

\* A provision script that fails ends the invocation, and keeps the invariant.
LEMMA ShellFailsKeeps == ASSUME SandboxInv, NEW i \in Invocations, ShellFails(i) PROVE SandboxInv'
BY VMSame, FailsKeeps, CommandFailsKeeps DEF ShellFails

\* The VM runs: provisioning begins with everything creek.toml requires.
LEMMA ProvisioningKeeps ==
  ASSUME SandboxInv, NEW i \in Invocations, Provisioning(i), VMOK(vm'), Grows(vm, vm'), vm'.running, inv[i].pc \in Phases
  PROVE  SandboxInv'
<1> DEFINE todo == RequiredPrimitives(inv[i].toml)
           d == [inv[i] EXCEPT !.pc = "provision", !.todo = todo]
<1>1. inv[i] \in Runs /\ Validate(inv[i].toml)
  BY Zenon DEF SandboxInv, RunOK
<1>2. todo \in Seq(Primitives)
  <2>1. "runtime-bun" \in Primitives /\ inv[i].toml.database \in Primitives /\ "redis" \in Primitives
    BY <1>1 DEF Validate, Primitives
  <2>2. <<"runtime-bun", inv[i].toml.database>> \in Seq(Primitives) /\ <<"redis">> \in Seq(Primitives) /\ <<>> \in Seq(Primitives)
    BY <2>1
  <2> QED BY <2>2 DEF RequiredPrimitives
<1>3. inv' = [inv EXCEPT ![i] = d] /\ vmFile' = vmFile
  BY Zenon DEF Provisioning
<1> HIDE DEF todo
<1>4. d \in Runs /\ d.pc = "provision" /\ d.todo = todo /\ d.toml = inv[i].toml
  BY <1>1, <1>2, Zenon DEF Runs, Phases
<1> HIDE DEF d
<1>5. Rest(d, vm')
  BY <1>4, SMTT(60) DEF Rest, todo
<1>6. RunOK(d, vm')
  BY <1>1, <1>4, <1>5 DEF RunOK
<1> QED BY <1>3, <1>4, <1>6, RunStep, Zenon DEF SandboxInv

\* runSandbox starts an invocation, and keeps the invariant.
LEMMA RunSandboxKeeps == ASSUME SandboxInv, NEW i \in Invocations, runSandbox(i) PROVE SandboxInv'
<1>1. VMOK(vm') /\ Grows(vm, vm') /\ vmFile' = vmFile
  BY VMSame, Zenon DEF runSandbox, GoTo
<1>2. ASSUME NEW pc \in {"stop", "destroy"}, GoTo(i, pc)
      PROVE  SandboxInv'
  <2>1. PICK d \in Runs : inv' = [inv EXCEPT ![i] = d] /\ RunMoved(inv[i], d, pc)
    BY <1>2, PcStep, ZenonT(60) DEF GoTo
  <2>2. RunOK(d, vm')
    BY <2>1 DEF RunMoved, RunOK, Phases
  <2> QED BY <1>1, <2>1, <2>2, RunStep, Zenon DEF SandboxInv
<1>3. ASSUME NEW b \in Databases, NEW c \in Caches,
             LET toml == applyDefaults([database |-> b, cache |-> c])
             IN  inv' = [inv EXCEPT ![i].toml = toml, ![i].pc = IF Validate(toml) THEN "exists" ELSE "failed"]
      PROVE  SandboxInv'
  <2> DEFINE toml == applyDefaults([database |-> b, cache |-> c])
             pc == IF Validate(toml) THEN "exists" ELSE "failed"
             d == [inv[i] EXCEPT !.toml = toml, !.pc = pc]
  <2>1. toml \in Tomls
    BY DEF applyDefaults, Tomls
  <2>2. inv' = [inv EXCEPT ![i] = d]
    BY <1>3, Zenon
  <2>3. pc \in {"exists", "failed"} /\ (pc = "exists" => Validate(toml))
    OBVIOUS
  <2> HIDE DEF toml, pc
  <2>4. inv[i] \in Runs
    BY Zenon DEF SandboxInv
  <2>5. d \in Runs /\ d.pc = pc /\ d.toml = toml
    BY <2>1, <2>3, <2>4, Zenon DEF Runs, Phases
  <2> HIDE DEF d
  <2>6. RunOK(d, vm')
    BY <2>3, <2>5 DEF RunOK, Phases
  <2> QED BY <1>1, <2>2, <2>5, <2>6, RunStep, Zenon DEF SandboxInv
<1> QED BY <1>2, <1>3, Zenon DEF runSandbox

\* An invocation goes on to a step that asks nothing of the VM.
LEMMA GoToKeeps ==
  ASSUME SandboxInv, NEW i \in Invocations, NEW pc \in {"running", "write", "start"}, GoTo(i, pc), vm' = vm, inv[i].pc \in Phases
  PROVE  SandboxInv'
<1>1. PICK d \in Runs : inv' = [inv EXCEPT ![i] = d] /\ RunMoved(inv[i], d, pc)
  BY PcStep, Zenon DEF GoTo, Phases
<1>2. Validate(inv[i].toml)
  BY Zenon DEF SandboxInv, RunOK
<1>3. RunOK(d, vm')
  BY <1>1, <1>2 DEF RunMoved, RunOK
<1>4. vmFile' = NoVmFile \/ vmFile' \subseteq Primitives
  BY DEF GoTo, SandboxInv
<1> QED BY <1>1, <1>3, <1>4, VMSame, RunStep, Zenon

\* The question whether the VM exists keeps the invariant.
LEMMA ExistsVMKeeps == ASSUME SandboxInv, NEW i \in Invocations, ExistsVM(i) PROVE SandboxInv'
<1>1. inv[i].pc \in Phases
  BY DEF ExistsVM, AtStep, Phases
<1>2. CASE \E pc \in {"running", "write"} : GoTo(i, pc) /\ vm' = vm
  BY <1>1, <1>2, GoToKeeps
<1> QED BY <1>2, CommandFailsKeeps DEF ExistsVM

\* Writing the Lima config keeps the invariant.
LEMMA WriteToKeeps == ASSUME SandboxInv, NEW i \in Invocations, WriteTo(i) PROVE SandboxInv'
<1>1. CASE vmFile' = AddPrimitive(RequiredPrimitives(inv[i].toml)) /\ inv' = [inv EXCEPT ![i].pc = "create", ![i].wrote = TRUE] /\ vm' = vm
  <2> DEFINE d == [inv[i] EXCEPT !.pc = "create", !.wrote = TRUE]
  <2>1. inv[i] \in Runs /\ inv[i].pc = "write"
    BY Zenon DEF SandboxInv, WriteTo, AtStep
  <2>2. Validate(inv[i].toml)
    <3>1. RunOK(inv[i], vm)
      BY Zenon DEF SandboxInv
    <3> QED BY <2>1, <3>1 DEF RunOK, Phases
  <2>3. inv' = [inv EXCEPT ![i] = d]
    BY <1>1, Zenon
  <2>4. d \in Runs /\ d.pc = "create" /\ d.toml = inv[i].toml
    BY <2>1, Zenon DEF Runs, Phases
  <2>5. vmFile' \subseteq Primitives
    BY <1>1, ZenonT(60) DEF AddPrimitive, Primitives
  <2> HIDE DEF d
  <2>6. RunOK(d, vm')
    BY <2>2, <2>4 DEF RunOK
  <2> QED BY <1>1, <2>3, <2>4, <2>5, <2>6, VMSame, RunStep, Zenon
<1> QED BY <1>1, CommandFailsKeeps DEF WriteTo

\* limactl create keeps the invariant.
LEMMA CreateVMKeeps == ASSUME SandboxInv, NEW i \in Invocations, CreateVM(i) PROVE SandboxInv'
<1>1. inv[i].pc \in Phases
  BY SMTT(60) DEF CreateVM, AtStep, Phases
<1>2. CASE vm.there \/ vmFile = NoVmFile
  BY <1>2, VMSame, FailsKeeps DEF CreateVM
<1>3. CASE ~(vm.there \/ vmFile = NoVmFile)
  <2>1. vmFile \subseteq Primitives
    BY <1>3 DEF SandboxInv
  <2>2. ASSUME vm' = [NoVM EXCEPT !.there = TRUE, !.running = TRUE, !.ports = vmFile]
        PROVE  VMOK(vm') /\ Grows(vm, vm') /\ vm'.running
    <3>1. VMOK(vm') /\ vm'.running
      BY <2>1, <2>2, Zenon DEF VMOK, VMs, NoVM
    <3> QED BY <1>3, <3>1 DEF Grows
  <2>3. ASSUME vm' = [NoVM EXCEPT !.there = TRUE, !.ports = vmFile]
        PROVE  VMOK(vm') /\ Grows(vm, vm')
    <3>1. VMOK(vm')
      BY <2>1, <2>3, Zenon DEF VMOK, VMs, NoVM
    <3> QED BY <1>3, <3>1 DEF Grows
  <2>4. CASE vm' = [NoVM EXCEPT !.there = TRUE, !.running = TRUE, !.ports = vmFile] /\ Provisioning(i)
    BY <1>1, <2>2, <2>4, ProvisioningKeeps, SMTT(60)
  <2>5. CASE Ends(i, "failed") /\ vm' \in {vm, [NoVM EXCEPT !.there = TRUE, !.ports = vmFile]}
    BY <2>2, <2>3, <2>5, VMSame, FailsKeeps, SMTT(60)
  <2> QED BY <1>3, <2>4, <2>5, ZenonT(60) DEF CreateVM
<1> QED BY <1>2, <1>3

\* The question whether the VM runs keeps the invariant.
LEMMA RunningVMKeeps == ASSUME SandboxInv, NEW i \in Invocations, RunningVM(i) PROVE SandboxInv'
<1>1. inv[i].pc \in Phases
  BY SMTT(60) DEF RunningVM, AtStep, Phases
<1>2. CASE vm.running /\ Provisioning(i) /\ vm' = vm
  BY <1>1, <1>2, VMSame, ProvisioningKeeps, SMTT(60)
<1>3. CASE GoTo(i, "start") /\ vm' = vm
  BY <1>1, <1>3, GoToKeeps
<1> QED BY <1>2, <1>3, CommandFailsKeeps, SMTT(60) DEF RunningVM

\* limactl start keeps the invariant.
LEMMA StartVMKeeps == ASSUME SandboxInv, NEW i \in Invocations, StartVM(i) PROVE SandboxInv'
<1>1. inv[i].pc \in Phases
  BY DEF StartVM, AtStep, Phases
<1>2. CASE vm.there /\ vm' = [vm EXCEPT !.running = TRUE] /\ Provisioning(i)
  <2>1. vm \in VMs /\ VMOK(vm)
    BY DEF SandboxInv, VMOK
  <2>2. /\ vm' \in VMs /\ vm'.running /\ vm'.there = vm.there /\ vm'.installed = vm.installed /\ vm'.marked = vm.marked
        /\ vm'.doubtful = vm.doubtful
    BY <1>2, <2>1, Zenon DEF VMs
  <2>3. VMOK(vm') /\ Grows(vm, vm')
    BY <1>2, <2>1, <2>2 DEF VMOK, Grows
  <2> QED BY <1>1, <1>2, <2>2, <2>3, ProvisioningKeeps, Zenon
<1>3. CASE Ends(i, "failed") /\ vm' = vm
  BY <1>3, VMSame, FailsKeeps, Zenon
<1> QED BY <1>2, <1>3, CommandFailsKeeps DEF StartVM

\* Provision reads what the VM has, and keeps the invariant.
LEMMA ProvisionKeeps == ASSUME SandboxInv, NEW i \in Invocations, Provision(i) PROVE SandboxInv'
<1> DEFINE c == inv[i]
<1>1. c \in Runs /\ RunOK(c, vm) /\ c.pc = "provision" /\ vm' = vm /\ c.todo \in Seq(Primitives)
  BY ZenonT(60) DEF SandboxInv, Provision, AtStep, Runs
<1>2. Validate(c.toml) /\ (~c.disturbed => vm.running /\ Rest(c, vm))
  BY <1>1 DEF RunOK, Phases
<1>3. CASE c.todo = <<>> /\ Ends(i, "ok")
  <2>1. PICK d \in Runs : inv' = [inv EXCEPT ![i] = d] /\ RunMoved(inv[i], d, "ok")
    BY <1>3, PcStep, Zenon DEF Ends
  <2>2. Range(<<>>) = {}
    BY DEF Range
  <2>3. ~d.disturbed => vm'.running /\ Range(RequiredPrimitives(d.toml)) \subseteq vm'.marked
    BY <1>1, <1>2, <1>3, <2>1, <2>2, ZenonT(60) DEF RunMoved, Rest
  <2>4. RunOK(d, vm')
    BY <2>1, <2>3 DEF RunMoved, RunOK, Phases
  <2>5. vmFile' = NoVmFile \/ vmFile' \subseteq Primitives
    BY <1>3 DEF Ends, SandboxInv
  <2> QED BY <1>1, <2>1, <2>4, <2>5, VMSame, RunStep, Zenon
<1>4. CASE c.todo # <<>> /\ IsProvisioned(Head(c.todo)) /\ inv' = [inv EXCEPT ![i].todo = Tail(@)] /\ vmFile' = vmFile
  <2> DEFINE d == [c EXCEPT !.todo = Tail(c.todo)]
  <2>1. Tail(c.todo) \in Seq(Primitives) /\ Range(c.todo) = {Head(c.todo)} \cup Range(Tail(c.todo))
    BY <1>1, <1>4, RangeTail, Zenon
  <2>2. d \in Runs /\ d.pc = "provision" /\ d.toml = c.toml /\ d.todo = Tail(c.todo) /\ d.disturbed = c.disturbed
    BY <1>1, <2>1, Zenon DEF Runs
  <2>3. inv' = [inv EXCEPT ![i] = d]
    BY <1>4
  <2> HIDE DEF d
  <2>4. Head(c.todo) \in vm.marked
    BY <1>4 DEF IsProvisioned
  <2>5. ~d.disturbed => vm.running /\ Rest(d, vm)
    BY <1>2, <2>1, <2>2, <2>4, ZenonT(60) DEF Rest
  <2>6. RunOK(d, vm')
    BY <1>1, <1>2, <2>2, <2>5 DEF RunOK
  <2> QED BY <1>1, <1>4, <2>2, <2>3, <2>6, VMSame, RunStep, Zenon DEF SandboxInv
<1>5. CASE c.todo # <<>> /\ GoTo(i, "script")
  <2>1. PICK d \in Runs : inv' = [inv EXCEPT ![i] = d] /\ RunMoved(inv[i], d, "script")
    BY <1>5, PcStep, Zenon DEF GoTo, Phases
  <2>2. ~d.disturbed => vm.running /\ Rest(d, vm)
    BY <1>2, <2>1, ZenonT(60) DEF RunMoved, Rest
  <2>3. RunOK(d, vm')
    BY <1>1, <1>2, <1>5, <2>1, <2>2, Zenon DEF RunMoved, RunOK
  <2> QED BY <1>1, <1>5, <2>1, <2>3, VMSame, RunStep, Zenon DEF GoTo, SandboxInv
<1> QED BY <1>3, <1>4, <1>5 DEF Provision

\* The VM with more installed or marked.
LEMMA VMMore ==
  ASSUME SandboxInv, vm.running, vm' \in VMs, vm'.there = vm.there, vm'.running = vm.running,
         vm.installed \subseteq vm'.installed, vm.marked \subseteq vm'.marked,
         vm'.marked \subseteq vm'.installed \cup vm'.doubtful
  PROVE  VMOK(vm') /\ Grows(vm, vm') /\ vm'.running /\ vm'.there
BY Zenon DEF SandboxInv, VMOK, Grows

\* A provision script that succeeds keeps the invariant.
LEMMA ProvisionScriptKeeps == ASSUME SandboxInv, NEW i \in Invocations, ProvisionScript(i) PROVE SandboxInv'
<1> DEFINE c == inv[i]
           h == Head(c.todo)
<1>1. c \in Runs /\ RunOK(c, vm) /\ c.pc = "script" /\ vm \in VMs /\ c.todo \in Seq(Primitives)
  BY ZenonT(60) DEF SandboxInv, VMOK, ProvisionScript, AtStep, Runs
<1>2. Validate(c.toml) /\ c.todo # <<>> /\ (~c.disturbed => vm.running /\ Rest(c, vm))
  BY <1>1 DEF RunOK, Phases
<1>3. h \in Primitives
  BY <1>1, <1>2, RangeTail
<1>4. CASE vm.running /\ vm' = [vm EXCEPT !.installed = @ \cup {h}] /\ GoTo(i, "mark")
  <2>1. /\ vm' \in VMs /\ vm'.there = vm.there /\ vm'.running = vm.running /\ vm'.installed = vm.installed \cup {h}
        /\ vm'.marked = vm.marked /\ vm'.doubtful = vm.doubtful
    BY <1>1, <1>3, <1>4, Zenon DEF VMs
  <2>2. VMOK(vm') /\ Grows(vm, vm') /\ vm'.running /\ vm'.there
    <3>1. vm.installed \subseteq vm'.installed /\ vm.marked \subseteq vm'.marked /\ vm'.marked \subseteq vm'.installed \cup vm'.doubtful
      BY <2>1 DEF SandboxInv, VMOK
    <3> QED BY <1>4, <2>1, <3>1, VMMore, ZenonT(60)
  <2>3. PICK d \in Runs : inv' = [inv EXCEPT ![i] = d] /\ RunMoved(inv[i], d, "mark")
    BY <1>4, PcStep, Zenon DEF GoTo, Phases
  <2>4. ~d.disturbed => Rest(d, vm')
    BY <1>2, <2>1, <2>3, Zenon DEF RunMoved, Rest
  <2>5. Head(d.todo) \in vm'.installed /\ d.todo # <<>> /\ Validate(d.toml)
    BY <1>2, <2>1, <2>3, Zenon DEF RunMoved
  <2>6. RunOK(d, vm')
    BY <2>2, <2>3, <2>4, <2>5, Zenon DEF RunMoved, RunOK
  <2> QED BY <1>4, <2>2, <2>3, <2>6, RunStep, Zenon DEF GoTo, SandboxInv
<1> QED BY <1>4, ShellFailsKeeps DEF ProvisionScript

\* The marker file of a primitive keeps the invariant.
LEMMA MarkProvisionedKeeps == ASSUME SandboxInv, NEW i \in Invocations, MarkProvisioned(i) PROVE SandboxInv'
<1> DEFINE c == inv[i]
           h == Head(c.todo)
           r == IF c.moved THEN {h} ELSE {}
<1>1. c \in Runs /\ RunOK(c, vm) /\ c.pc = "mark" /\ vm \in VMs /\ c.todo \in Seq(Primitives)
  BY Zenon DEF SandboxInv, VMOK, MarkProvisioned, AtStep, Runs
<1>2. /\ Validate(c.toml) /\ c.todo # <<>> /\ (~c.disturbed => vm.running /\ Rest(c, vm))
      /\ ~c.moved => h \in vm.installed
  BY <1>1, ZenonT(60) DEF RunOK, Phases
<1>3. h \in Primitives /\ Tail(c.todo) \in Seq(Primitives) /\ Range(c.todo) = {h} \cup Range(Tail(c.todo))
  BY <1>1, <1>2, RangeTail
<1>4. CASE /\ vm.running /\ vm' = [vm EXCEPT !.marked = @ \cup {h}, !.doubtful = @ \cup r]
           /\ inv' = [inv EXCEPT ![i].pc = "provision", ![i].todo = Tail(@), ![i].moved = FALSE] /\ vmFile' = vmFile
  <2>0. r \subseteq Primitives /\ {h} \subseteq vm.installed \cup r
    BY <1>2, <1>3
  <2> HIDE DEF r
  <2>1. /\ vm' \in VMs /\ vm'.there = vm.there /\ vm'.running = vm.running /\ vm'.installed = vm.installed
        /\ vm'.marked = vm.marked \cup {h} /\ vm'.doubtful = vm.doubtful \cup r
    BY <1>1, <1>3, <1>4, <2>0, Zenon DEF VMs
  <2>2. VMOK(vm') /\ Grows(vm, vm') /\ vm'.running /\ vm'.there
    <3>1. vm.installed \subseteq vm'.installed /\ vm.marked \subseteq vm'.marked /\ vm'.marked \subseteq vm'.installed \cup vm'.doubtful
      BY <2>0, <2>1 DEF SandboxInv, VMOK
    <3> QED BY <1>4, <2>1, <3>1, VMMore, Zenon
  <2> DEFINE d == [c EXCEPT !.pc = "provision", !.todo = Tail(c.todo), !.moved = FALSE]
  <2>3. d \in Runs /\ d.pc = "provision" /\ d.toml = c.toml /\ d.todo = Tail(c.todo) /\ d.disturbed = c.disturbed
    BY <1>1, <1>3, Zenon DEF Runs, Phases
  <2>4. inv' = [inv EXCEPT ![i] = d]
    BY <1>4, Zenon
  <2> HIDE DEF d
  <2>5. ~d.disturbed => Rest(d, vm')
    BY <1>2, <1>3, <2>1, <2>3, Zenon DEF Rest
  <2>6. RunOK(d, vm')
    BY <1>2, <2>2, <2>3, <2>5, Zenon DEF RunOK
  <2> QED BY <1>4, <2>2, <2>3, <2>4, <2>6, RunStep, ZenonT(60) DEF SandboxInv
<1> QED BY <1>4, ShellFailsKeeps DEF MarkProvisioned

\* The VM goes away: whoever has begun is disturbed, and a marker still to be set is known to be late.
LEMMA DisturbKeeps ==
  ASSUME SandboxInv, NEW i \in Invocations, Disturb(i), VMOK(vm'), inv[i].pc \in {"stop", "destroy"},
         vm'.there => vm'.installed = vm.installed
  PROVE  SandboxInv'
<1> DEFINE e(j) == [inv[j] EXCEPT !.disturbed = ~AtStep(j, "idle"), !.pc = IF j = i THEN "ok" ELSE @,
                                  !.moved = @ \/ (~vm'.there /\ AtStep(j, "mark"))]
<1>1. inv' = [j \in Invocations |-> e(j)] /\ vmFile' = vmFile
  BY Zenon DEF Disturb
<1>2. ASSUME NEW j \in Invocations
      PROVE  /\ e(j) \in Runs /\ e(j).pc = (IF j = i THEN "ok" ELSE inv[j].pc) /\ e(j).toml = inv[j].toml
             /\ e(j).todo = inv[j].todo /\ (inv[j].pc # "idle" => e(j).disturbed)
             /\ ~e(j).moved => ~inv[j].moved /\ (inv[j].pc = "mark" => vm'.there)
  <2>1. inv[j] \in Runs
    BY Zenon DEF SandboxInv
  <2>2. (inv[j].moved \/ (~vm'.there /\ AtStep(j, "mark"))) \in BOOLEAN /\ (~AtStep(j, "idle")) \in BOOLEAN
    BY Zenon
  <2>3. (IF j = i THEN "ok" ELSE inv[j].pc) \in Phases \cup {"idle", "ok", "failed", "stop", "destroy"}
    BY <2>1 DEF Runs
  <2> DEFINE m == inv[j].moved \/ (~vm'.there /\ AtStep(j, "mark"))
             b == ~AtStep(j, "idle")
             p == IF j = i THEN "ok" ELSE inv[j].pc
             f == [inv[j] EXCEPT !.disturbed = b, !.pc = p, !.moved = m]
  <2>4. e(j) = f
    OBVIOUS
  <2>5. (~m => ~inv[j].moved /\ (inv[j].pc = "mark" => vm'.there)) /\ (inv[j].pc # "idle" => b)
    BY DEF AtStep
  <2> HIDE DEF e, m, b, p
  <2>6. f \in Runs /\ f.pc = p /\ f.toml = inv[j].toml /\ f.todo = inv[j].todo /\ f.disturbed = b /\ f.moved = m
    BY <2>1, <2>2, <2>3, ZenonT(60) DEF Runs, m, b, p
  <2> HIDE DEF f
  <2> QED BY <2>4, <2>5, <2>6 DEF p
<1> HIDE DEF e
<1>3. inv' \in [Invocations -> Runs] /\ \A j \in Invocations : inv'[j] = e(j)
  BY <1>1, <1>2, Zenon
<1>4. ASSUME NEW j \in Invocations
      PROVE  RunOK(e(j), vm')
  <2>1. RunOK(inv[j], vm)
    BY Zenon DEF SandboxInv
  <2>2. CASE j = i
    BY <1>2, <2>2, Zenon DEF RunOK, Phases
  <2>3. CASE j # i
    <3>1. /\ e(j).pc = inv[j].pc /\ e(j).toml = inv[j].toml /\ e(j).todo = inv[j].todo
          /\ inv[j].pc # "idle" => e(j).disturbed
          /\ ~e(j).moved => ~inv[j].moved /\ (inv[j].pc = "mark" => vm'.there)
      BY <1>2, <2>3, Zenon
    <3> QED BY <2>1, <3>1 DEF RunOK
  <2> QED BY <2>2, <2>3
<1> QED BY <1>1, <1>3, <1>4, Zenon DEF SandboxInv

\* limactl stop keeps the invariant.
LEMMA StopVMKeeps == ASSUME SandboxInv, NEW i \in Invocations, StopVM(i) PROVE SandboxInv'
<1>1. inv[i].pc = "stop" /\ vm \in VMs /\ VMOK(vm)
  BY DEF StopVM, AtStep, SandboxInv, VMOK
<1>2. CASE vm' = [vm EXCEPT !.running = FALSE] /\ Disturb(i)
  <2>1. /\ vm' \in VMs /\ vm'.running = FALSE /\ vm'.there = vm.there /\ vm'.installed = vm.installed
        /\ vm'.marked = vm.marked /\ vm'.doubtful = vm.doubtful
    BY <1>1, <1>2, Zenon DEF VMs
  <2>2. VMOK(vm')
    BY <1>1, <2>1, Zenon DEF VMOK
  <2> QED BY <1>1, <1>2, <2>1, <2>2, DisturbKeeps, Zenon
<1>3. CASE Ends(i, "failed") /\ vm' = vm
  BY <1>3, VMSame, FailsKeeps
<1> QED BY <1>2, <1>3 DEF StopVM

\* limactl delete keeps the invariant.
LEMMA DestroyVMKeeps == ASSUME SandboxInv, NEW i \in Invocations, DestroyVM(i) PROVE SandboxInv'
<1>1. inv[i].pc = "destroy"
  BY DEF DestroyVM, AtStep
<1>2. CASE vm' = NoVM /\ Disturb(i)
  <2>1. VMOK(vm') /\ ~vm'.there
    BY <1>2, Zenon DEF VMOK, VMs, NoVM
  <2> QED BY <1>1, <1>2, <2>1, DisturbKeeps, Zenon
<1>3. CASE Ends(i, "failed") /\ vm' = vm
  BY <1>3, VMSame, FailsKeeps
<1> QED BY <1>2, <1>3, Zenon DEF DestroyVM

\* Every step of DevSandbox keeps the invariant.
LEMMA SandboxInvStep == SandboxInv /\ [SandboxNext]_sandboxVars => SandboxInv'
<1> SUFFICES ASSUME SandboxInv, [SandboxNext]_sandboxVars
             PROVE  SandboxInv'
  OBVIOUS
<1>1. ASSUME NEW i \in Invocations, SandboxStep(i)
      PROVE  SandboxInv'
  <2>1. ASSUME Killed(i)
        PROVE  SandboxInv'
    BY <2>1, VMSame, FailsKeeps DEF Killed
  <2> QED BY <1>1, <2>1, RunSandboxKeeps, ExistsVMKeeps, WriteToKeeps, CreateVMKeeps, RunningVMKeeps, StartVMKeeps, ProvisionKeeps,
             ProvisionScriptKeeps, MarkProvisionedKeeps, StopVMKeeps, DestroyVMKeeps, Zenon DEF SandboxStep
<1>2. CASE UNCHANGED sandboxVars
  BY <1>2, Zenon DEF sandboxVars, SandboxInv
<1> QED BY <1>1, <1>2, Zenon DEF SandboxNext

(***************************************************************************)
(* However many invocations share the VM, and whichever fail, are killed,  *)
(* stop it or destroy it: "Sandbox ready." is true when it is printed and  *)
(* the VM was left alone.                                                  *)
(***************************************************************************)
THEOREM SandboxIsReady == SandboxSpec => [](SandboxTypeOK /\ SandboxReady)
<1>1. SandboxSpec => []SandboxInv
  BY SandboxInvInit, SandboxInvStep, PTL DEF SandboxSpec
<1> QED
  BY <1>1, SandboxInvProperty, PTL
=============================================================================
