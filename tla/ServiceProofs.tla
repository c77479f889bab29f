--------------------------- MODULE ServiceProofs ----------------------------
(***************************************************************************)
(* Proofs about two services of the daemon: its upgrade of itself          *)
(* (SelfUpgrade), for every set of releases, and the event stream of an    *)
(* app (EventStream), for every number of publishers and watchers.         *)
(*                                                                         *)
(* UpgradeInv says what an upgrade in progress has verified so far.        *)
(* EventsInv says of every open stream that what it has written, what      *)
(* waits in its channel and what is still to be sent to it are, in this    *)
(* order, all the events since it opened, less the ones its full channel   *)
(* dropped.                                                                *)
(***************************************************************************)
EXTENDS SelfUpgrade, EventStream, TLAPS

-----------------------------------------------------------------------------
(* SelfUpgrade *)

\* What may be installed: never bytes that no release has.
Installable == Releases \cup {0}

\* The steps of an upgrade in progress.
UpgradeSteps == {"download", "verify", "checksum", "extract", "stash", "swapDaemon", "swapCtl", "rollback"}

\* An upgrade in progress, or none.
UpgradeRecord ==
  [pc : UpgradeSteps \cup {"none"}, to : Installable, tar : Binaries, sums : Binaries,
   d : Installable, ctl : Installable]

\* What a run has established by the time it gets to each step.
UpgradeInv ==
  /\ creekdBin \in Installable /\ creekctlBin \in Installable /\ stash \in Installable
  /\ upgrade \in UpgradeRecord
  /\ verdict \in {"none", "upgraded", "failed", "rollbackFailed", "killed"}
  /\ upgrade.pc = "none" => upgrade = NoRun
  /\ upgrade.pc # "none" => creekctlBin = upgrade.ctl
  /\ upgrade.pc \notin {"none", "swapCtl", "rollback"} => creekdBin = upgrade.d
  /\ upgrade.pc \in UpgradeSteps \ {"download", "verify"} => upgrade.sums = upgrade.to
  /\ upgrade.pc = "verify" => upgrade.sums \in {upgrade.to, Forged}
  /\ upgrade.pc \in UpgradeSteps \ {"download", "verify", "checksum"} => upgrade.tar = upgrade.to
  /\ upgrade.pc \in {"swapCtl", "rollback"} => creekdBin = upgrade.to
  /\ upgrade.pc \in {"swapDaemon", "swapCtl", "rollback"} => stash = upgrade.d

\* Bytes that no release has are not installable.
LEMMA ForgedIsNoRelease == Forged \notin Installable /\ 0 \in Installable /\ Installable \subseteq Binaries
<1>1. Forged \notin Nat /\ 0 \in Nat
  BY DEF Forged
<1> QED
  BY <1>1, UpgradeAssumption, Zenon DEF Installable, Binaries

\* No upgrade is an upgrade record.
LEMMA NoRunRecord == NoRun \in UpgradeRecord /\ NoRun.pc = "none"
BY ForgedIsNoRelease DEF NoRun, UpgradeRecord

\* The invariant holds when no upgrade has run.
LEMMA UpgradeInit_Inv == UpgradeInit => UpgradeInv
<1> SUFFICES ASSUME UpgradeInit
             PROVE  UpgradeInv
  OBVIOUS
<1>1. upgrade = NoRun /\ upgrade.pc = "none" /\ upgrade \in UpgradeRecord
  BY NoRunRecord DEF UpgradeInit
<1> QED
  BY <1>1, ForgedIsNoRelease DEF UpgradeInit, UpgradeInv, UpgradeSteps

\* A run that ends, however, leaves nothing of itself.
LEMMA UpgradeEnds_Inv ==
  ASSUME UpgradeInv, upgrade' = NoRun, stash' \in Installable,
         verdict' \in {"upgraded", "failed", "rollbackFailed", "killed"},
         creekdBin' \in Installable, creekctlBin' \in Installable
  PROVE  UpgradeInv'
<1>1. upgrade' = NoRun /\ upgrade'.pc = "none" /\ upgrade' \in UpgradeRecord
  BY NoRunRecord
<1> QED
  BY <1>1 DEF UpgradeInv, UpgradeSteps

\* What may not happen when a run ends.
EndsWell ==
  upgrade # NoRun /\ upgrade' = NoRun =>
    /\ verdict' = "upgraded" => {creekdBin', creekctlBin'} = {upgrade.to}
    /\ verdict' = "failed" => creekdBin' = upgrade.d /\ creekctlBin' = upgrade.ctl
    /\ Forged \notin {creekdBin', creekctlBin'}

\* A step that leaves an upgrade in progress ends none.
LEMMA UpgradeMoves ==
  ASSUME UpgradeInv, upgrade' # NoRun, UpgradeInv'
  PROVE  UpgradeInv' /\ EndsWell
BY DEF EndsWell

\* A run that fails before the swaps, or is killed.
LEMMA UpgradeFails_Inv ==
  ASSUME UpgradeInv, UNCHANGED <<creekdBin, creekctlBin>>,
         \/ upgrade' = NoRun /\ verdict' = "failed" /\ stash' = 0
            /\ upgrade.pc \notin {"none", "swapCtl", "rollback"}
         \/ upgrade' = NoRun /\ verdict' \in {"rollbackFailed", "killed"} /\ stash' \in {0, stash}
  PROVE  UpgradeInv' /\ EndsWell
<1>1. UpgradeInv'
  <2>1. stash' \in Installable /\ creekdBin' \in Installable /\ creekctlBin' \in Installable
    BY ForgedIsNoRelease DEF UpgradeInv
  <2> QED BY <2>1, UpgradeEnds_Inv
<1>2. Forged \notin {creekdBin', creekctlBin'}
  BY ForgedIsNoRelease DEF UpgradeInv
<1>3. verdict' = "failed" => creekdBin' = upgrade.d /\ creekctlBin' = upgrade.ctl
  BY Zenon DEF UpgradeInv
<1> QED
  BY <1>1, <1>2, <1>3 DEF EndsWell

\* Every action of the upgrade keeps the invariant and ends it well.
LEMMA UpgradeNext_Inv ==
  ASSUME UpgradeInv, UpgradeNext
  PROVE  UpgradeInv' /\ EndsWell
<1>0. upgrade \in UpgradeRecord /\ NoRun.pc = "none"
  BY NoRunRecord DEF UpgradeInv
<1>1. ASSUME NEW r \in Releases, SelfUpgrade(r)
      PROVE  UpgradeInv' /\ EndsWell
  <2> DEFINE x == [pc |-> "download", to |-> r, tar |-> 0, sums |-> 0, d |-> creekdBin, ctl |-> creekctlBin]
  <2>1. x \in UpgradeRecord /\ x.pc = "download" /\ x.d = creekdBin /\ x.ctl = creekctlBin
    BY ForgedIsNoRelease DEF UpgradeInv, UpgradeRecord, UpgradeSteps, Installable
  <2>2. upgrade' = x /\ upgrade = NoRun /\ UNCHANGED <<creekdBin, creekctlBin, stash, verdict>>
    BY <1>1, Zenon DEF SelfUpgrade
  <2> HIDE DEF x
  <2>3. upgrade' # NoRun
    BY <1>0, <2>1, <2>2, Zenon
  <2>4. UpgradeInv'
    BY <2>1, <2>2 DEF UpgradeInv, UpgradeSteps
  <2> QED BY <2>3, <2>4, UpgradeMoves
<1>2. ASSUME NEW s \in UpgradeSteps, NEW t \in UpgradeSteps, upgrade.pc = s, upgrade' = [upgrade EXCEPT !.pc = t]
      PROVE  /\ upgrade' \in UpgradeRecord /\ upgrade'.pc = t /\ upgrade' # NoRun
             /\ upgrade'.to = upgrade.to /\ upgrade'.tar = upgrade.tar /\ upgrade'.sums = upgrade.sums
             /\ upgrade'.d = upgrade.d /\ upgrade'.ctl = upgrade.ctl
  <2>1. /\ upgrade' \in UpgradeRecord /\ upgrade'.pc = t
        /\ upgrade'.to = upgrade.to /\ upgrade'.tar = upgrade.tar /\ upgrade'.sums = upgrade.sums
        /\ upgrade'.d = upgrade.d /\ upgrade'.ctl = upgrade.ctl
    BY <1>0, <1>2 DEF UpgradeRecord
  <2>2. t # "none"
    BY DEF UpgradeSteps
  <2> QED BY <1>0, <2>1, <2>2
<1>3. CASE downloadFile
  <2>1. ASSUME NEW tar \in {upgrade.to, Forged}, NEW sums \in {upgrade.to, Forged},
               upgrade' = [upgrade EXCEPT !.pc = "verify", !.tar = tar, !.sums = sums],
               UNCHANGED <<creekdBin, creekctlBin, stash, verdict>>
        PROVE  UpgradeInv' /\ EndsWell
    <3>1. tar \in Binaries /\ sums \in Binaries /\ "verify" \in UpgradeSteps
      BY <1>0, ForgedIsNoRelease DEF UpgradeRecord, Binaries, UpgradeSteps
    <3>2. /\ upgrade' \in UpgradeRecord /\ upgrade'.pc = "verify" /\ upgrade'.sums \in {upgrade'.to, Forged}
          /\ upgrade'.to = upgrade.to /\ upgrade'.d = upgrade.d /\ upgrade'.ctl = upgrade.ctl
      BY <1>0, <2>1, <3>1, Zenon DEF UpgradeRecord
    <3>3. upgrade' # NoRun
      BY <1>0, <3>2
    <3>4. UpgradeInv'
      BY <1>3, <2>1, <3>2 DEF UpgradeInv, UpgradeSteps, downloadFile
    <3> QED BY <3>3, <3>4, UpgradeMoves
  <2>2. CASE UpgradeEnds("failed") /\ UNCHANGED <<creekdBin, creekctlBin>>
    <3>1. upgrade.pc \notin {"none", "swapCtl", "rollback"}
      BY <1>3 DEF downloadFile
    <3> QED BY <2>2, <3>1, UpgradeFails_Inv DEF UpgradeEnds
  <2> QED BY <1>3, <2>1, <2>2 DEF downloadFile
<1>4. CASE verifyCosign \/ verifyChecksum \/ extractTarGz
  <2>1. CASE UpgradeEnds("failed") /\ UNCHANGED <<creekdBin, creekctlBin>>
    <3>1. upgrade.pc \notin {"none", "swapCtl", "rollback"}
      BY <1>4 DEF verifyCosign, verifyChecksum, extractTarGz
    <3> QED BY <2>1, <3>1, UpgradeFails_Inv DEF UpgradeEnds
  <2>2. ASSUME NEW t \in {"checksum", "extract", "stash"}, upgrade' = [upgrade EXCEPT !.pc = t],
               UNCHANGED <<creekdBin, creekctlBin, stash, verdict>>,
               \/ upgrade.pc = "verify" /\ t = "checksum" /\ upgrade.sums # Forged
               \/ upgrade.pc = "checksum" /\ t = "extract" /\ upgrade.tar = upgrade.sums
               \/ upgrade.pc = "extract" /\ t = "stash"
        PROVE  UpgradeInv' /\ EndsWell
    <3>1. upgrade.pc \in UpgradeSteps /\ t \in UpgradeSteps
      BY <2>2 DEF UpgradeSteps
    <3>2. /\ upgrade' \in UpgradeRecord /\ upgrade'.pc = t /\ upgrade' # NoRun
          /\ upgrade'.to = upgrade.to /\ upgrade'.tar = upgrade.tar /\ upgrade'.sums = upgrade.sums
          /\ upgrade'.d = upgrade.d /\ upgrade'.ctl = upgrade.ctl
      BY <1>2, <2>2, <3>1
    <3>3. UpgradeInv'
      BY <2>2, <3>2 DEF UpgradeInv, UpgradeSteps
    <3> QED BY <3>2, <3>3, UpgradeMoves
  <2> QED BY <1>4, <2>1, <2>2 DEF verifyCosign, verifyChecksum, extractTarGz
<1>5. CASE CopyFile
  <2>1. CASE UpgradeEnds("failed") /\ UNCHANGED <<creekdBin, creekctlBin>>
    <3>1. upgrade.pc \notin {"none", "swapCtl", "rollback"}
      BY <1>5 DEF CopyFile
    <3> QED BY <2>1, <3>1, UpgradeFails_Inv DEF UpgradeEnds
  <2>2. CASE stash' = creekdBin /\ upgrade' = [upgrade EXCEPT !.pc = "swapDaemon"]
             /\ UNCHANGED <<creekdBin, creekctlBin, verdict>>
    <3>0. upgrade.pc = "stash" /\ "stash" \in UpgradeSteps /\ "swapDaemon" \in UpgradeSteps
      BY <1>5 DEF CopyFile, UpgradeSteps
    <3>1. /\ upgrade' \in UpgradeRecord /\ upgrade'.pc = "swapDaemon" /\ upgrade' # NoRun
          /\ upgrade'.to = upgrade.to /\ upgrade'.tar = upgrade.tar /\ upgrade'.sums = upgrade.sums
          /\ upgrade'.d = upgrade.d /\ upgrade'.ctl = upgrade.ctl
      BY <1>2, <2>2, <3>0
    <3>2. UpgradeInv'
      BY <2>2, <3>0, <3>1 DEF UpgradeInv, UpgradeSteps
    <3> QED BY <3>1, <3>2, UpgradeMoves
  <2> QED BY <1>5, <2>1, <2>2 DEF CopyFile
<1>6. CASE SwapDaemon
  <2>1. CASE UpgradeEnds("failed") /\ UNCHANGED <<creekdBin, creekctlBin>>
    <3>1. upgrade.pc \notin {"none", "swapCtl", "rollback"}
      BY <1>6 DEF SwapDaemon
    <3> QED BY <2>1, <3>1, UpgradeFails_Inv DEF UpgradeEnds
  <2>2. CASE creekdBin' = upgrade.tar /\ upgrade' = [upgrade EXCEPT !.pc = "swapCtl"]
             /\ UNCHANGED <<creekctlBin, stash, verdict>>
    <3>0. upgrade.pc = "swapDaemon" /\ "swapDaemon" \in UpgradeSteps /\ "swapCtl" \in UpgradeSteps
      BY <1>6 DEF SwapDaemon, UpgradeSteps
    <3>1. /\ upgrade' \in UpgradeRecord /\ upgrade'.pc = "swapCtl" /\ upgrade' # NoRun
          /\ upgrade'.to = upgrade.to /\ upgrade'.tar = upgrade.tar /\ upgrade'.sums = upgrade.sums
          /\ upgrade'.d = upgrade.d /\ upgrade'.ctl = upgrade.ctl
      BY <1>2, <2>2, <3>0, Zenon
    <3>2. upgrade.tar = upgrade.to /\ upgrade.to \in Installable
      BY <1>0, <3>0 DEF UpgradeInv, UpgradeRecord
    <3>3. UpgradeInv'
      BY <2>2, <3>0, <3>1, <3>2 DEF UpgradeInv, UpgradeSteps
    <3> QED BY <3>1, <3>3, UpgradeMoves
  <2> QED BY <1>6, <2>1, <2>2 DEF SwapDaemon
<1>7. CASE SwapCtl
  <2>0. upgrade.pc = "swapCtl" /\ "swapCtl" \in UpgradeSteps /\ "rollback" \in UpgradeSteps
    BY <1>7 DEF SwapCtl, UpgradeSteps
  <2>1. CASE creekctlBin' = upgrade.tar /\ UpgradeEnds("upgraded") /\ UNCHANGED creekdBin
    <3>1. creekdBin' = upgrade.to /\ creekctlBin' = upgrade.to /\ upgrade.to \in Installable
      BY <1>0, <2>0, <2>1 DEF UpgradeInv, UpgradeRecord
    <3>2. UpgradeInv'
      BY <2>1, <3>1, UpgradeEnds_Inv, ForgedIsNoRelease DEF UpgradeEnds
    <3> QED BY <2>1, <3>1, <3>2, ForgedIsNoRelease, Zenon DEF EndsWell, UpgradeEnds
  <2>2. CASE upgrade' = [upgrade EXCEPT !.pc = "rollback"] /\ UNCHANGED <<creekdBin, creekctlBin, stash, verdict>>
    <3>1. /\ upgrade' \in UpgradeRecord /\ upgrade'.pc = "rollback" /\ upgrade' # NoRun
          /\ upgrade'.to = upgrade.to /\ upgrade'.tar = upgrade.tar /\ upgrade'.sums = upgrade.sums
          /\ upgrade'.d = upgrade.d /\ upgrade'.ctl = upgrade.ctl
      BY <1>2, <2>0, <2>2
    <3>2. UpgradeInv'
      BY <2>0, <2>2, <3>1 DEF UpgradeInv, UpgradeSteps
    <3> QED BY <3>1, <3>2, UpgradeMoves
  <2> QED BY <1>7, <2>1, <2>2 DEF SwapCtl
<1>8. CASE RollbackDaemon
  <2>0. upgrade.pc = "rollback"
    BY <1>8 DEF RollbackDaemon
  <2>1. CASE creekdBin' = stash /\ UpgradeEnds("failed") /\ UNCHANGED creekctlBin
    <3>1. /\ creekdBin' = upgrade.d /\ creekctlBin' = upgrade.ctl
          /\ creekdBin' \in Installable /\ creekctlBin' \in Installable
      BY <2>0, <2>1 DEF UpgradeInv
    <3>2. UpgradeInv'
      BY <2>1, <3>1, UpgradeEnds_Inv, ForgedIsNoRelease DEF UpgradeEnds
    <3> QED BY <2>1, <3>1, <3>2, ForgedIsNoRelease DEF EndsWell, UpgradeEnds
  <2>2. CASE UpgradeEnds("rollbackFailed") /\ UNCHANGED <<creekdBin, creekctlBin>>
    BY <2>2, UpgradeFails_Inv DEF UpgradeEnds
  <2> QED BY <1>8, <2>1, <2>2 DEF RollbackDaemon
<1>9. CASE UpgradeKilled
  BY <1>9, UpgradeFails_Inv DEF UpgradeKilled
<1> QED
  BY <1>1, <1>3, <1>4, <1>5, <1>6, <1>7, <1>8, <1>9 DEF UpgradeNext

\* The same of every step.
LEMMA UpgradeStep_Inv == UpgradeInv /\ [UpgradeNext]_upgradeVars => UpgradeInv' /\ [EndsWell]_upgradeVars
<1> SUFFICES ASSUME UpgradeInv, [UpgradeNext]_upgradeVars
             PROVE  UpgradeInv' /\ [EndsWell]_upgradeVars
  BY Zenon
<1>1. CASE UNCHANGED upgradeVars
  BY <1>1 DEF UpgradeInv, upgradeVars
<1> QED
  BY <1>1, UpgradeNext_Inv

\* self-upgrade is all or nothing: a run that reports success has installed both
\* binaries of its release, one that reports failure leaves the pair it found, and
\* bytes that are not the release's are never installed.
THEOREM UpgradesAreWhole == UpgradeSpec => UpgradeAllOrNothing /\ []UpgradeTypeOK
<1>1. UpgradeInv => UpgradeTypeOK
  BY ForgedIsNoRelease DEF UpgradeInv, UpgradeTypeOK, UpgradeRecord, UpgradeSteps
<1> QED
  BY <1>1, UpgradeInit_Inv, UpgradeStep_Inv, PTL DEF UpgradeSpec, UpgradeAllOrNothing, EndsWell

-----------------------------------------------------------------------------
(* EventStream *)

\* The numbers of p's events in a sequence, and that they come in order.
Nums(q, p) == {q[k].n : k \in {i \in DOMAIN q : q[i].by = p}}
\* Publisher p's events are in q in the order of their numbers.
Rising(q, p) == \A j, k \in DOMAIN q : j < k /\ q[j].by = p /\ q[k].by = p => q[j].n < q[k].n

\* What it is to be among the numbers of a publisher.
LEMMA NumsElement == ASSUME NEW q, NEW p, NEW x
                     PROVE  x \in Nums(q, p) <=> \E k \in DOMAIN q : q[k].by = p /\ q[k].n = x
BY DEF Nums

\* An event appended adds its number, and the order stays.
LEMMA NumsAppend ==
  ASSUME NEW q \in Seq(Events), NEW e \in Events, NEW p
  PROVE  /\ Append(q, e) \in Seq(Events) /\ Len(Append(q, e)) = Len(q) + 1
         /\ Nums(Append(q, e), p) = Nums(q, p) \cup (IF e.by = p THEN {e.n} ELSE {})
         /\ Rising(q, p) /\ (e.by = p => \A n \in Nums(q, p) : n < e.n) => Rising(Append(q, e), p)
<1> DEFINE r == Append(q, e)
           l == Len(q)
<1>1. /\ l \in Nat /\ DOMAIN q = 1 .. l /\ DOMAIN r = 1 .. (l + 1) /\ Len(r) = l + 1 /\ r \in Seq(Events)
      /\ r[l + 1] = e /\ \A k \in 1 .. l : r[k] = q[k]
  OBVIOUS
<1> HIDE DEF r, l
<1>2. \A k \in 1 .. (l + 1) : k \in 1 .. l \/ k = l + 1
  BY <1>1
<1>3. \A k \in 1 .. l : k \in 1 .. (l + 1)
  BY <1>1
<1>4. l + 1 \in 1 .. (l + 1)
  BY <1>1
<1>5. ASSUME NEW x
      PROVE  x \in Nums(r, p) <=> x \in Nums(q, p) \/ (e.by = p /\ x = e.n)
  BY <1>1, <1>2, <1>3, <1>4, NumsElement
<1>6. Nums(r, p) = Nums(q, p) \cup (IF e.by = p THEN {e.n} ELSE {})
  BY <1>5
<1>7. ASSUME Rising(q, p), e.by = p => \A n \in Nums(q, p) : n < e.n
      PROVE  Rising(r, p)
  <2> SUFFICES ASSUME NEW j \in 1 .. (l + 1), NEW k \in 1 .. (l + 1), j < k, r[j].by = p, r[k].by = p
               PROVE  r[j].n < r[k].n
    BY <1>1 DEF Rising
  <2>1. j \in 1 .. l
    BY <1>1
  <2>2. CASE k \in 1 .. l
    BY <1>1, <1>7, <2>1, <2>2, Zenon DEF Rising
  <2>3. CASE k = l + 1
    <3>1. q[j].n \in Nums(q, p)
      BY <1>1, <2>1, NumsElement
    <3> QED BY <1>1, <1>7, <2>1, <2>3, <3>1
  <2> QED BY <1>2, <2>2, <2>3
<1> QED
  BY <1>1, <1>6, <1>7 DEF r, l

\* An event taken from the front takes its number away, and the order stays.
LEMMA NumsTail ==
  ASSUME NEW q \in Seq(Events), q # <<>>, NEW p
  PROVE  /\ Tail(q) \in Seq(Events) /\ Len(Tail(q)) = Len(q) - 1 /\ Head(q) \in Events
         /\ Nums(q, p) = Nums(Tail(q), p) \cup (IF Head(q).by = p THEN {Head(q).n} ELSE {})
         /\ Rising(q, p) => Rising(Tail(q), p)
         /\ Rising(q, p) /\ Head(q).by = p => \A n \in Nums(Tail(q), p) : Head(q).n < n
<1> DEFINE r == Tail(q)
           l == Len(q)
<1>1. /\ l \in Nat \ {0} /\ DOMAIN q = 1 .. l /\ DOMAIN r = 1 .. (l - 1) /\ Len(r) = l - 1 /\ r \in Seq(Events)
      /\ Head(q) = q[1] /\ Head(q) \in Events /\ \A k \in 1 .. (l - 1) : r[k] = q[k + 1]
  OBVIOUS
<1> HIDE DEF r, l
<1>2. \A k \in 1 .. l : k = 1 \/ (k - 1 \in 1 .. (l - 1) /\ r[k - 1] = q[k])
  BY <1>1
<1>3. \A k \in 1 .. (l - 1) : k + 1 \in 1 .. l /\ k + 1 > 1
  BY <1>1
<1>4. 1 \in 1 .. l
  BY <1>1
<1>5. ASSUME NEW x
      PROVE  x \in Nums(q, p) <=> x \in Nums(r, p) \/ (Head(q).by = p /\ x = Head(q).n)
  <2>1. x \in Nums(r, p) => x \in Nums(q, p)
    BY <1>1, <1>3, NumsElement
  <2>2. Head(q).by = p /\ x = Head(q).n => x \in Nums(q, p)
    BY <1>1, <1>4, NumsElement
  <2>3. ASSUME x \in Nums(q, p)
        PROVE  x \in Nums(r, p) \/ (Head(q).by = p /\ x = Head(q).n)
    <3>1. PICK k \in 1 .. l : q[k].by = p /\ q[k].n = x
      BY <1>1, <2>3, NumsElement
    <3>2. CASE k = 1
      BY <1>1, <3>1, <3>2
    <3>3. CASE k - 1 \in 1 .. (l - 1) /\ r[k - 1] = q[k]
      <4>1. \E i \in DOMAIN r : r[i].by = p /\ r[i].n = x
        BY <1>1, <3>1, <3>3, Zenon
      <4> QED BY <4>1, NumsElement
    <3> QED BY <1>2, <3>2, <3>3
  <2> QED BY <2>1, <2>2, <2>3
<1>6. Nums(q, p) = Nums(r, p) \cup (IF Head(q).by = p THEN {Head(q).n} ELSE {})
  BY <1>5
<1>7. ASSUME Rising(q, p)
      PROVE  Rising(r, p)
  <2> SUFFICES ASSUME NEW j \in 1 .. (l - 1), NEW k \in 1 .. (l - 1), j < k, r[j].by = p, r[k].by = p
               PROVE  r[j].n < r[k].n
    BY <1>1 DEF Rising
  <2>1. j + 1 \in 1 .. l /\ k + 1 \in 1 .. l /\ j + 1 < k + 1 /\ r[j] = q[j + 1] /\ r[k] = q[k + 1]
    BY <1>1
  <2> QED BY <1>1, <1>7, <2>1, Zenon DEF Rising
<1>8. ASSUME Rising(q, p), Head(q).by = p, NEW n \in Nums(r, p)
      PROVE  Head(q).n < n
  <2>1. PICK k \in 1 .. (l - 1) : r[k].by = p /\ r[k].n = n
    BY <1>1, NumsElement
  <2>2. k + 1 \in 1 .. l /\ 1 < k + 1 /\ r[k] = q[k + 1]
    BY <1>1
  <2> QED BY <1>1, <1>4, <1>8, <2>1, <2>2, Zenon DEF Rising
<1> QED
  BY <1>1, <1>6, <1>7, <1>8 DEF r, l

\* The numbers of two queues one after the other.
LEMMA NumsConcat ==
  ASSUME NEW q \in Seq(Events), NEW r \in Seq(Events), NEW p
  PROVE  /\ Nums(q \o r, p) = Nums(q, p) \cup Nums(r, p)
         /\ Rising(q, p) /\ Rising(r, p) /\ (\A m \in Nums(q, p), n \in Nums(r, p) : m < n) => Rising(q \o r, p)
<1> DEFINE s == q \o r
           l == Len(q)
           m == Len(r)
<1>1. /\ l \in Nat /\ m \in Nat /\ DOMAIN q = 1 .. l /\ DOMAIN r = 1 .. m /\ DOMAIN s = 1 .. (l + m)
      /\ \A k \in 1 .. l : s[k] = q[k]
      /\ \A k \in 1 .. m : s[l + k] = r[k]
  OBVIOUS
<1> HIDE DEF s, l, m
<1>2. \A k \in 1 .. (l + m) : k \in 1 .. l \/ (k - l \in 1 .. m /\ s[k] = r[k - l])
  <2> SUFFICES ASSUME NEW k \in 1 .. (l + m), k \notin 1 .. l
               PROVE  k - l \in 1 .. m /\ s[k] = r[k - l]
    OBVIOUS
  <2>1. k - l \in 1 .. m /\ l + (k - l) = k
    BY <1>1
  <2> QED BY <1>1, <2>1
<1>3. /\ \A k \in 1 .. l : k \in 1 .. (l + m)
      /\ \A k \in 1 .. m : l + k \in 1 .. (l + m)
  BY <1>1
<1>4. ASSUME NEW x
      PROVE  x \in Nums(s, p) <=> x \in Nums(q, p) \/ x \in Nums(r, p)
  <2>1. x \in Nums(q, p) => x \in Nums(s, p)
    BY <1>1, <1>3, NumsElement
  <2>2. x \in Nums(r, p) => x \in Nums(s, p)
    BY <1>1, <1>3, NumsElement
  <2>3. ASSUME x \in Nums(s, p)
        PROVE  x \in Nums(q, p) \/ x \in Nums(r, p)
    <3>1. PICK k \in 1 .. (l + m) : s[k].by = p /\ s[k].n = x
      BY <1>1, <2>3, NumsElement, SMTT(60)
    <3>2. CASE k \in 1 .. l
      <4>1. \E i \in DOMAIN q : q[i].by = p /\ q[i].n = x
        BY <1>1, <3>1, <3>2
      <4> QED BY <4>1, NumsElement
    <3>3. CASE k - l \in 1 .. m /\ s[k] = r[k - l]
      <4>1. \E i \in DOMAIN r : r[i].by = p /\ r[i].n = x
        BY <1>1, <3>1, <3>3, Zenon
      <4> QED BY <4>1, NumsElement
    <3> QED BY <1>2, <3>2, <3>3
  <2> QED BY <2>1, <2>2, <2>3
<1>5. ASSUME Rising(q, p), Rising(r, p), \A a \in Nums(q, p), b \in Nums(r, p) : a < b
      PROVE  Rising(s, p)
  <2> SUFFICES ASSUME NEW j \in 1 .. (l + m), NEW k \in 1 .. (l + m), j < k, s[j].by = p, s[k].by = p
               PROVE  s[j].n < s[k].n
    BY <1>1 DEF Rising
  <2>1. CASE k \in 1 .. l
    <3>1. j \in 1 .. l
      BY <1>1, <2>1
    <3> QED BY <1>1, <1>5, <2>1, <3>1, Zenon DEF Rising
  <2>2. CASE k \notin 1 .. l /\ j \in 1 .. l
    <3>1. s[j].n \in Nums(q, p)
      BY <1>1, <2>2, NumsElement
    <3>2. s[k].n \in Nums(r, p)
      BY <1>1, <1>2, <2>2, NumsElement
    <3> QED BY <1>5, <3>1, <3>2
  <2>3. CASE k \notin 1 .. l /\ j \notin 1 .. l
    <3>1. k - l \in 1 .. m /\ j - l \in 1 .. m /\ s[k] = r[k - l] /\ s[j] = r[j - l] /\ j - l < k - l
      BY <1>1, <1>2, <2>3
    <3>2. k - l \in DOMAIN r /\ j - l \in DOMAIN r /\ r[k - l].by = p /\ r[j - l].by = p
      BY <1>1, <3>1
    <3>3. r[j - l].n < r[k - l].n
      BY <1>5, <3>1, <3>2 DEF Rising
    <3> QED BY <3>1, <3>3
  <2> QED BY <2>1, <2>2, <2>3
<1> QED
  BY <1>4, <1>5 DEF s

\* What a stream has still to be sent by p, and what it missed of p.
Due(w, p) == IF w \in sending[p] THEN {sent[p]} ELSE {}
\* The events of publisher p that the full channel of watcher w dropped.
Lost(w, p) == {n \in 1 .. sent[p] : <<w, [by |-> p, n |-> n]>> \in missed}

\* What stream w has of p is what p began since w subscribed, but for what is due and what is lost.
StreamWhole(w, p) ==
  /\ joined[w][p] <= sent[p]
  /\ Due(w, p) \subseteq (joined[w][p] + 1) .. sent[p]
  /\ Rising(got[w], p)
  /\ Rising(channel[w], p)
  /\ \A m \in Nums(got[w], p), n \in Nums(channel[w], p) : m < n
  /\ Nums(got[w], p) \cup Nums(channel[w], p) = ((joined[w][p] + 1) .. sent[p]) \ (Due(w, p) \cup Lost(w, p))

\* The state has its types, and only a stream that subscribed has anything.
BusTyped ==
  /\ busReaders \subseteq Publishers
  /\ sent \in [Publishers -> 0 .. EventMax]
  /\ sending \in [Publishers -> SUBSET Watchers]
  /\ open \subseteq Watchers
  /\ watcher \in [Watchers -> {"new", "reading", "leaving", "gone"}]
  /\ channel \in [Watchers -> Seq(Events)]
  /\ got \in [Watchers -> Seq(Events)]
  /\ DOMAIN joined = Watchers
  /\ \A w \in Watchers : Len(channel[w]) <= EventBuffer

\* A publisher sends under the lock and to subscribers, and what it has still to send was not missed.
BusLocked ==
  /\ \A p \in Publishers : sending[p] \subseteq open
  /\ \A p \in Publishers : p \notin busReaders => sending[p] = {}
  /\ \A p \in busReaders : sent[p] > 0
  /\ \A w \in Watchers : watcher[w] = "reading" => w \in open
  /\ \A w \in Watchers : watcher[w] = "new" => channel[w] = <<>> /\ got[w] = <<>> /\ w \notin open
  /\ \A p \in Publishers : \A w \in sending[p] : <<w, [by |-> p, n |-> sent[p]]>> \notin missed
  /\ \A w \in Watchers, p \in Publishers, n \in Nat : <<w, [by |-> p, n |-> n]>> \in missed => n <= sent[p]

\* Every open stream is whole, for every publisher of its app.
StreamsWhole ==
  \A w \in Watchers, p \in OfTheApp : watcher[w] = "reading" =>
    joined[w] \in [Publishers -> Nat] /\ StreamWhole(w, p)

\* The inductive invariant of EventStream.
EventsInv == BusTyped /\ BusLocked /\ StreamsWhole

\* The invariant gives the types, and that events reach the open streams.
LEMMA EventsInvProperty == EventsInv => EventsTypeOK /\ EventsReachOpenStreams
<1> SUFFICES ASSUME EventsInv
             PROVE  EventsTypeOK /\ EventsReachOpenStreams
  OBVIOUS
<1>1. EventsTypeOK
  <2>1. \A w \in Watchers : \A k \in DOMAIN channel[w] : channel[w][k] \in Events
    BY DEF EventsInv, BusTyped
  <2> QED BY <2>1 DEF EventsInv, BusTyped, EventsTypeOK
<1>2. \A p \in Publishers : sending[p] \subseteq open
  BY DEF EventsInv, BusLocked
<1>3. ASSUME NEW w \in Watchers, NEW p \in OfTheApp, watcher[w] = "reading"
      PROVE  LET seen == got[w] \o channel[w]
                 its == {k \in DOMAIN seen : seen[k].by = p}
             IN  /\ \A j, k \in its : j < k => seen[j].n < seen[k].n
                 /\ {seen[k].n : k \in its} = ((joined[w][p] + 1) .. sent[p]) \ (Due(w, p) \cup Lost(w, p))
  <2>1. StreamWhole(w, p) /\ got[w] \in Seq(Events) /\ channel[w] \in Seq(Events)
    BY <1>3, SMTT(60) DEF EventsInv, StreamsWhole, BusTyped
  <2> DEFINE seen == got[w] \o channel[w]
  <2>2. Rising(seen, p) /\ Nums(seen, p) = Nums(got[w], p) \cup Nums(channel[w], p)
    BY <2>1, NumsConcat DEF StreamWhole
  <2>3. Nums(seen, p) = ((joined[w][p] + 1) .. sent[p]) \ (Due(w, p) \cup Lost(w, p))
    BY <2>1, <2>2 DEF StreamWhole
  <2> HIDE DEF seen
  <2>4. \A j, k \in {i \in DOMAIN seen : seen[i].by = p} : j < k => seen[j].n < seen[k].n
    BY <2>2 DEF Rising
  <2>5. {seen[k].n : k \in {i \in DOMAIN seen : seen[i].by = p}} = ((joined[w][p] + 1) .. sent[p]) \ (Due(w, p) \cup Lost(w, p))
    BY <2>3 DEF Nums
  <2> QED BY <2>4, <2>5, Zenon DEF seen
<1> QED BY <1>1, <1>2, <1>3, Zenon DEF EventsReachOpenStreams, Due, Lost

\* The invariant holds when nothing is published and nobody watches.
LEMMA EventsInvInit == EventsInit => EventsInv
<1> SUFFICES ASSUME EventsInit
             PROVE  EventsInv
  OBVIOUS
<1> USE EventAssumption DEF EventsInit
<1>1. BusTyped
  BY DEF BusTyped
<1>2. BusLocked
  BY DEF BusLocked
<1>3. StreamsWhole
  BY DEF StreamsWhole
<1> QED BY <1>1, <1>2, <1>3 DEF EventsInv

\* Where nothing of a stream changes, it stays whole.
LEMMA StreamWholeKept ==
  ASSUME NEW w \in Watchers, NEW p \in Publishers, StreamWhole(w, p),
         got'[w] = got[w], channel'[w] = channel[w], joined'[w] = joined[w], sent'[p] = sent[p],
         Due(w, p)' = Due(w, p), Lost(w, p)' = Lost(w, p)
  PROVE  StreamWhole(w, p)'
BY Zenon DEF StreamWhole

\* emit numbers the event and keeps the invariant.
LEMMA EmitKeeps == ASSUME EventsInv, NEW p \in Publishers, emit(p) PROVE EventsInv'
<1> USE EventAssumption DEF EventsInv, BusTyped
<1>1. BusTyped'
  <2>1. sent[p] + 1 \in 0 .. EventMax
    BY DEF emit
  <2> QED BY <2>1, Zenon DEF emit
<1>2. sending' = [sending EXCEPT ![p] = open] /\ sent' = [sent EXCEPT ![p] = sent[p] + 1] /\ sent[p] \in Nat
  BY DEF emit
<1>3. \A w \in Watchers : <<w, [by |-> p, n |-> sent[p] + 1]>> \notin missed
  BY <1>2 DEF BusLocked
<1>4. BusLocked'
  <2>1. \A q \in Publishers : sending'[q] \subseteq open'
    BY <1>2, ZenonT(60) DEF BusLocked, emit
  <2>2. \A q \in Publishers : q \notin busReaders' => sending'[q] = {}
    BY <1>2, ZenonT(60) DEF BusLocked, emit
  <2>3. \A q \in busReaders' : sent'[q] > 0
    BY <1>2 DEF BusLocked, emit
  <2>4. \A w \in Watchers : watcher'[w] = "reading" => w \in open'
    BY Zenon DEF BusLocked, emit
  <2>5. \A w \in Watchers : watcher'[w] = "new" => channel'[w] = <<>> /\ got'[w] = <<>> /\ w \notin open'
    BY Zenon DEF BusLocked, emit
  <2>6. \A q \in Publishers : \A w \in sending'[q] : <<w, [by |-> q, n |-> sent'[q]]>> \notin missed'
    <3> SUFFICES ASSUME NEW q \in Publishers, NEW w \in sending'[q]
                 PROVE  <<w, [by |-> q, n |-> sent'[q]]>> \notin missed
      BY Zenon DEF emit
    <3>1. CASE q = p
      <4>1. w \in Watchers /\ sent'[q] = sent[p] + 1
        BY <1>2, <3>1, ZenonT(60)
      <4> QED BY <1>3, <3>1, <4>1, Zenon
    <3>2. CASE q # p
      <4>1. sending'[q] = sending[q] /\ sent'[q] = sent[q]
        BY <1>2, <3>2
      <4> QED BY <4>1 DEF BusLocked
    <3> QED BY <3>1, <3>2
  <2>7. \A w \in Watchers, q \in Publishers, n \in Nat : <<w, [by |-> q, n |-> n]>> \in missed' => n <= sent'[q]
    <3> SUFFICES ASSUME NEW w \in Watchers, NEW q \in Publishers, NEW n \in Nat, <<w, [by |-> q, n |-> n]>> \in missed
                 PROVE  n <= sent'[q]
      BY DEF emit
    <3>1. n <= sent[q] /\ sent[q] \in Nat
      BY DEF BusLocked
    <3>2. sent'[q] = sent[q] \/ sent'[q] = sent[q] + 1
      BY <1>2, Zenon
    <3> QED BY <3>1, <3>2
  <2> QED BY <2>1, <2>2, <2>3, <2>4, <2>5, <2>6, <2>7, Zenon DEF BusLocked
<1>5. StreamsWhole'
  <2> SUFFICES ASSUME NEW w \in Watchers, NEW q \in OfTheApp, watcher'[w] = "reading"
               PROVE  joined'[w] \in [Publishers -> Nat] /\ StreamWhole(w, q)'
    BY Zenon DEF StreamsWhole
  <2>1. /\ joined[w] \in [Publishers -> Nat] /\ StreamWhole(w, q) /\ w \in open /\ q \in Publishers
        /\ channel' = channel /\ got' = got /\ joined' = joined /\ missed' = missed
    BY Zenon DEF StreamsWhole, BusLocked, emit
  <2>2. CASE q # p
    <3>1. sending'[q] = sending[q] /\ sent'[q] = sent[q]
      BY <1>2, <2>1, <2>2, Zenon
    <3>2. Due(w, q)' = Due(w, q) /\ Lost(w, q)' = Lost(w, q)
      BY <2>1, <3>1, ZenonT(60) DEF Due, Lost
    <3> QED BY <2>1, <3>1, <3>2, StreamWholeKept, Zenon
  <2>3. CASE q = p
    <3>1. w \in sending'[q] /\ sent'[q] = sent[q] + 1 /\ sent[q] \in Nat /\ joined[w][q] \in Nat
      BY <1>2, <2>1, <2>3, Zenon
    <3>2. sending[q] = {}
      BY <2>3, Zenon DEF BusLocked, emit
    <3>3. Due(w, q)' = {sent[q] + 1} /\ Due(w, q) = {}
      BY <3>1, <3>2, ZenonT(60) DEF Due
    <3>4. \A n \in 1 .. sent[q] : n \in Lost(w, q) <=> n \in Lost(w, q)'
      BY <2>1, <3>1, SMTT(60) DEF Lost
    <3>5. ((joined[w][q] + 1) .. sent'[q]) \ (Due(w, q)' \cup Lost(w, q)') = ((joined[w][q] + 1) .. sent[q]) \ (Due(w, q) \cup Lost(w, q))
      <4>1. ASSUME NEW n
            PROVE  n \in ((joined[w][q] + 1) .. sent'[q]) \ (Due(w, q)' \cup Lost(w, q)') <=> n \in ((joined[w][q] + 1) .. sent[q]) \ (Due(w, q) \cup Lost(w, q))
        <5>1. n \in (joined[w][q] + 1) .. sent'[q] /\ n \notin Due(w, q)' <=> n \in (joined[w][q] + 1) .. sent[q]
          BY <3>1, <3>3, SMTT(60)
        <5>2. n \in (joined[w][q] + 1) .. sent[q] => n \in 1 .. sent[q]
          BY <3>1, SMTT(60)
        <5> QED BY <5>1, <5>2, <3>3, <3>4, Zenon
      <4> QED BY <4>1, Zenon
    <3>6. joined[w][q] <= sent'[q] /\ Due(w, q)' \subseteq (joined[w][q] + 1) .. sent'[q]
      <4>1. joined[w][q] <= sent[q]
        BY <2>1, Zenon DEF StreamWhole
      <4> QED BY <3>1, <3>3, <4>1, SMTT(60)
    <3>7. StreamWhole(w, q)'
      BY <2>1, <3>5, <3>6, ZenonT(60) DEF StreamWhole
    <3> QED BY <2>1, <3>7
  <2> QED BY <2>2, <2>3, Zenon
<1> QED BY <1>1, <1>4, <1>5

\* The same streams, senders and numbers: nothing to show.
LEMMA PublishEndsKeeps == ASSUME EventsInv, NEW p \in Publishers, PublishEnds(p) PROVE EventsInv'
<1> USE DEF EventsInv, BusTyped, PublishEnds
<1>1. BusTyped'
  BY Zenon
<1>2. BusLocked'
  BY Zenon DEF BusLocked
<1>3. StreamsWhole'
  <2> SUFFICES ASSUME NEW w \in Watchers, NEW q \in OfTheApp, watcher'[w] = "reading"
               PROVE  joined'[w] \in [Publishers -> Nat] /\ StreamWhole(w, q)'
    BY Zenon DEF StreamsWhole
  <2>1. joined[w] \in [Publishers -> Nat] /\ StreamWhole(w, q) /\ q \in Publishers
    BY EventAssumption, Zenon DEF StreamsWhole
  <2>2. Due(w, q)' = Due(w, q) /\ Lost(w, q)' = Lost(w, q)
    BY Zenon DEF Due, Lost
  <2> QED BY <2>1, <2>2, StreamWholeKept, Zenon
<1> QED BY <1>1, <1>2, <1>3

\* The end of a stream keeps the invariant.
LEMMA StreamDoneKeeps == ASSUME EventsInv, NEW v \in Watchers, StreamDone(v) PROVE EventsInv'
<1> USE DEF EventsInv, BusTyped, StreamDone
<1>1. BusTyped'
  BY Zenon
<1>2. \A w \in Watchers : watcher'[w] = watcher[w] \/ (w = v /\ watcher'[w] = "leaving")
  BY Zenon
<1>3. BusLocked'
  BY <1>2, Zenon DEF BusLocked
<1>4. StreamsWhole'
  <2> SUFFICES ASSUME NEW w \in Watchers, NEW q \in OfTheApp, watcher'[w] = "reading"
               PROVE  joined'[w] \in [Publishers -> Nat] /\ StreamWhole(w, q)'
    BY Zenon DEF StreamsWhole
  <2>1. joined[w] \in [Publishers -> Nat] /\ StreamWhole(w, q) /\ q \in Publishers
    BY <1>2, EventAssumption, Zenon DEF StreamsWhole
  <2>2. Due(w, q)' = Due(w, q) /\ Lost(w, q)' = Lost(w, q)
    BY Zenon DEF Due, Lost
  <2> QED BY <2>1, <2>2, StreamWholeKept, Zenon
<1> QED BY <1>1, <1>3, <1>4

\* Unsubscribe closes the channel under the lock, and keeps the invariant.
LEMMA UnsubscribeKeeps == ASSUME EventsInv, NEW v \in Watchers, Unsubscribe(v) PROVE EventsInv'
<1> USE DEF EventsInv, BusTyped, Unsubscribe
<1>1. BusTyped'
  BY Zenon
<1>2. \A w \in Watchers : watcher'[w] = watcher[w] \/ (w = v /\ watcher'[w] = "gone")
  BY Zenon
<1>3. \A p \in Publishers : sending[p] = {}
  BY Zenon DEF BusLocked
<1>4. BusLocked'
  <2>1. \A w \in Watchers : watcher'[w] = "reading" => w \in open'
    BY <1>2, Zenon DEF BusLocked
  <2>2. \A w \in Watchers : watcher'[w] = "new" => channel'[w] = <<>> /\ got'[w] = <<>> /\ w \notin open'
    BY <1>2, Zenon DEF BusLocked
  <2> QED BY <1>3, <2>1, <2>2, Zenon DEF BusLocked
<1>5. StreamsWhole'
  <2> SUFFICES ASSUME NEW w \in Watchers, NEW q \in OfTheApp, watcher'[w] = "reading"
               PROVE  joined'[w] \in [Publishers -> Nat] /\ StreamWhole(w, q)'
    BY Zenon DEF StreamsWhole
  <2>1. joined[w] \in [Publishers -> Nat] /\ StreamWhole(w, q) /\ q \in Publishers
    BY <1>2, EventAssumption, Zenon DEF StreamsWhole
  <2>2. Due(w, q)' = Due(w, q) /\ Lost(w, q)' = Lost(w, q)
    BY Zenon DEF Due, Lost
  <2> QED BY <2>1, <2>2, StreamWholeKept, Zenon
<1> QED BY <1>1, <1>4, <1>5

\* Subscribe opens an empty channel under the lock, and keeps the invariant.
LEMMA SubscribeKeeps == ASSUME EventsInv, NEW v \in Watchers, Subscribe(v) PROVE EventsInv'
<1> USE DEF EventsInv, BusTyped, Subscribe
<1>1. BusTyped'
  BY Zenon
<1>2. \A w \in Watchers : (w # v /\ watcher'[w] = watcher[w] /\ joined'[w] = joined[w]) \/ (w = v /\ watcher'[w] = "reading" /\ joined'[w] = sent)
  BY Zenon
<1>3. \A p \in Publishers : sending[p] = {}
  BY Zenon DEF BusLocked
<1>4. BusLocked'
  <2>1. \A w \in Watchers : watcher'[w] = "reading" => w \in open'
    BY <1>2, Zenon DEF BusLocked
  <2>2. \A w \in Watchers : watcher'[w] = "new" => channel'[w] = <<>> /\ got'[w] = <<>> /\ w \notin open'
    BY <1>2, Zenon DEF BusLocked
  <2> QED BY <1>3, <2>1, <2>2, Zenon DEF BusLocked
<1>5. StreamsWhole'
  <2> SUFFICES ASSUME NEW w \in Watchers, NEW q \in OfTheApp, watcher'[w] = "reading"
               PROVE  joined'[w] \in [Publishers -> Nat] /\ StreamWhole(w, q)'
    BY Zenon DEF StreamsWhole
  <2>0. q \in Publishers
    BY EventAssumption, Zenon
  <2>1. CASE w # v
    <3>1. joined[w] \in [Publishers -> Nat] /\ StreamWhole(w, q) /\ joined'[w] = joined[w]
      BY <1>2, <2>1, Zenon DEF StreamsWhole
    <3>2. Due(w, q)' = Due(w, q) /\ Lost(w, q)' = Lost(w, q)
      BY Zenon DEF Due, Lost
    <3> QED BY <2>0, <3>1, <3>2, StreamWholeKept, Zenon
  <2>2. CASE w = v
    <3>1. joined'[w] = sent /\ got'[w] = <<>> /\ channel'[w] = <<>> /\ sent'[q] = sent[q] /\ sent[q] \in Nat
      BY <1>2, <2>0, <2>2, EventAssumption DEF BusLocked
    <3>2. joined'[w] \in [Publishers -> Nat]
      BY <3>1, EventAssumption
    <3>3. Nums(<<>>, q) = {} /\ Rising(<<>>, q)
      BY DEF Nums, Rising
    <3>4. (joined'[w][q] + 1) .. sent'[q] = {}
      BY <3>1
    <3>5. Due(w, q)' = {} /\ joined'[w][q] <= sent'[q]
      BY <1>3, <2>0, <3>1 DEF Due
    <3>6. StreamWhole(w, q)'
      BY <3>1, <3>3, <3>4, <3>5, ZenonT(60) DEF StreamWhole
    <3> QED BY <3>2, <3>6, ZenonT(60)
  <2> QED BY <2>1, <2>2, Zenon
<1> QED BY <1>1, <1>4, <1>5

\* getAppEvents writes one event of its channel, and keeps the invariant.
LEMMA GetAppEventsKeeps == ASSUME EventsInv, NEW v \in Watchers, GetAppEvents(v) PROVE EventsInv'
<1> USE DEF EventsInv, BusTyped
<1> DEFINE h == Head(channel[v])
           t == Tail(channel[v])
<1>1. /\ t \in Seq(Events) /\ h \in Events /\ Len(t) = Len(channel[v]) - 1 /\ Len(channel[v]) \in Nat
      /\ \A p : /\ Nums(channel[v], p) = Nums(t, p) \cup (IF h.by = p THEN {h.n} ELSE {})
                /\ Rising(channel[v], p) => Rising(t, p)
                /\ Rising(channel[v], p) /\ h.by = p => \A n \in Nums(t, p) : h.n < n
  <2>1. channel[v] \in Seq(Events) /\ channel[v] # <<>>
    BY Zenon DEF GetAppEvents
  <2>2. ASSUME NEW p
        PROVE  /\ Nums(channel[v], p) = Nums(t, p) \cup (IF h.by = p THEN {h.n} ELSE {})
               /\ Rising(channel[v], p) => Rising(t, p)
               /\ Rising(channel[v], p) /\ h.by = p => \A n \in Nums(t, p) : h.n < n
    BY <2>1, NumsTail, Zenon
  <2>3. t \in Seq(Events) /\ h \in Events /\ Len(t) = Len(channel[v]) - 1 /\ Len(channel[v]) \in Nat
    BY <2>1
  <2> QED BY <2>2, <2>3, Zenon
<1>2. /\ channel' = [channel EXCEPT ![v] = t]
      /\ got' = got \/ (h.by \in OfTheApp /\ got' = [got EXCEPT ![v] = Append(got[v], h)])
      /\ watcher' = watcher \/ watcher' = [watcher EXCEPT ![v] = "leaving"]
      /\ UNCHANGED <<busReaders, open, sending, sent, missed, joined>>
      /\ watcher[v] = "reading"
  BY Zenon DEF GetAppEvents
<1>3. \/ h.by \notin OfTheApp /\ got' = got
      \/ h.by \in OfTheApp /\ got' = [got EXCEPT ![v] = Append(got[v], h)]
      \/ watcher' = [watcher EXCEPT ![v] = "leaving"]
  BY ZenonT(60) DEF GetAppEvents
<1>4. Append(got[v], h) \in Seq(Events)
  BY <1>1
<1> HIDE DEF h, t
<1>5. BusTyped'
  <2>1. channel' \in [Watchers -> Seq(Events)]
    BY <1>1, <1>2, Zenon
  <2>2. got' \in [Watchers -> Seq(Events)]
    BY <1>2, <1>4, ZenonT(60)
  <2>3. \A w \in Watchers : Len(channel'[w]) <= EventBuffer
    BY <1>1, <1>2, EventAssumption
  <2>4. watcher' \in [Watchers -> {"new", "reading", "leaving", "gone"}]
    BY <1>2, Zenon
  <2> QED BY <1>2, <2>1, <2>2, <2>3, <2>4, Zenon
<1>6. \A w \in Watchers : w # v => watcher'[w] = watcher[w] /\ channel'[w] = channel[w] /\ got'[w] = got[w]
  BY <1>2, Zenon
<1>7. watcher'[v] = "reading" \/ watcher'[v] = "leaving"
  BY <1>2, Zenon
<1>8. BusLocked'
  <2>1. \A w \in Watchers : watcher'[w] = "reading" => w \in open'
    BY <1>2, <1>6, Zenon DEF BusLocked
  <2>2. \A w \in Watchers : watcher'[w] = "new" => channel'[w] = <<>> /\ got'[w] = <<>> /\ w \notin open'
    BY <1>2, <1>6, <1>7, Zenon DEF BusLocked
  <2> QED BY <1>2, <2>1, <2>2, Zenon DEF BusLocked
<1>9. StreamsWhole'
  <2> SUFFICES ASSUME NEW w \in Watchers, NEW q \in OfTheApp, watcher'[w] = "reading"
               PROVE  joined'[w] \in [Publishers -> Nat] /\ StreamWhole(w, q)'
    BY Zenon DEF StreamsWhole
  <2>0. q \in Publishers
    BY EventAssumption, Zenon
  <2>1. Due(w, q)' = Due(w, q) /\ Lost(w, q)' = Lost(w, q) /\ joined' = joined /\ sent' = sent
    BY <1>2, Zenon DEF Due, Lost
  <2>2. CASE w # v
    <3>1. joined[w] \in [Publishers -> Nat] /\ StreamWhole(w, q)
      BY <1>6, <2>2, Zenon DEF StreamsWhole
    <3> QED BY <1>6, <2>0, <2>1, <2>2, <3>1, StreamWholeKept, Zenon
  <2>3. CASE w = v
    <3>1. joined[v] \in [Publishers -> Nat] /\ StreamWhole(v, q) /\ channel'[v] = t
      BY <1>1, <1>2, Zenon DEF StreamsWhole
    <3>2. (got'[v] = got[v] /\ h.by # q) \/ got'[v] = Append(got[v], h)
      BY <1>2, <1>3, <2>3, ZenonT(60)
    <3>3. CASE got'[v] = got[v] /\ h.by # q
      <4>1. Nums(channel'[v], q) = Nums(channel[v], q) /\ Rising(channel'[v], q)
        BY <1>1, <3>1, <3>3, ZenonT(60) DEF StreamWhole
      <4>2. StreamWhole(v, q)'
        BY <2>1, <2>3, <3>1, <3>3, <4>1, Zenon DEF StreamWhole
      <4> QED BY <2>1, <2>3, <3>1, <4>2, Zenon
    <3>4. CASE got'[v] = Append(got[v], h)
      <4>1. /\ Nums(got'[v], q) = Nums(got[v], q) \cup (IF h.by = q THEN {h.n} ELSE {})
            /\ Rising(got[v], q) /\ (h.by = q => \A n \in Nums(got[v], q) : n < h.n) => Rising(got'[v], q)
        BY <1>1, <3>4, NumsAppend, SMTT(60)
      <4>2. h.by = q => h.n \in Nums(channel[v], q)
        BY <1>1, Zenon
      <4>3. Rising(got'[v], q) /\ Rising(channel'[v], q)
        BY <1>1, <3>1, <4>1, <4>2, Zenon DEF StreamWhole
      <4>4. Nums(got'[v], q) \cup Nums(channel'[v], q) = Nums(got[v], q) \cup Nums(channel[v], q)
        <5>1. Nums(channel[v], q) = Nums(t, q) \cup (IF h.by = q THEN {h.n} ELSE {})
          BY <1>1, Zenon
        <5> QED BY <3>1, <4>1, <5>1, Zenon
      <4>5. \A m \in Nums(got'[v], q), n \in Nums(channel'[v], q) : m < n
        <5> SUFFICES ASSUME NEW m \in Nums(got'[v], q), NEW n \in Nums(t, q)
                     PROVE  m < n
          BY <3>1, Zenon
        <5>1. n \in Nums(channel[v], q)
          BY <1>1, Zenon
        <5>2. CASE m \in Nums(got[v], q)
          BY <3>1, <5>1, <5>2, Zenon DEF StreamWhole
        <5>3. CASE h.by = q /\ m = h.n
          BY <1>1, <3>1, <5>3, Zenon DEF StreamWhole
        <5> QED BY <4>1, <5>2, <5>3, Zenon
      <4>6. StreamWhole(v, q)'
        BY <2>1, <2>3, <3>1, <4>3, <4>4, <4>5, Zenon DEF StreamWhole
      <4> QED BY <2>1, <2>3, <3>1, <4>6
    <3> QED BY <3>2, <3>3, <3>4, Zenon
  <2> QED BY <2>2, <2>3, Zenon
<1> QED BY <1>5, <1>8, <1>9

\* Publish sends to one subscriber, or drops the event when its channel is full,
\* and keeps the invariant.
LEMMA PublishKeeps == ASSUME EventsInv, NEW p \in Publishers, NEW v \in Watchers, Publish(p, v) PROVE EventsInv'
<1> USE DEF EventsInv, BusTyped
<1> DEFINE e == [by |-> p, n |-> sent[p]]
           room == Len(channel[v]) < EventBuffer
<1>1. /\ v \in sending[p] /\ v \in open /\ p \in busReaders
      /\ sending' = [sending EXCEPT ![p] = sending[p] \ {v}]
      /\ room => channel' = [channel EXCEPT ![v] = Append(channel[v], e)] /\ missed' = missed
      /\ ~room => channel' = channel /\ missed' = missed \cup {<<v, e>>}
      /\ UNCHANGED <<busReaders, open, sent, watcher, got, joined>>
  <2>1. v \in sending[p] /\ v \in open /\ p \in busReaders
    BY Zenon DEF Publish, BusLocked
  <2>2. sending' = [sending EXCEPT ![p] = sending[p] \ {v}] /\ UNCHANGED <<busReaders, open, sent, watcher, got, joined>>
    BY DEF Publish
  <2>3. CASE room
    BY <2>1, <2>2, <2>3, Zenon DEF Publish, offer
  <2>4. CASE ~room
    <3>1. channel' = [channel EXCEPT ![v] = channel[v]] /\ missed' = missed \cup {<<v, e>>}
      BY <2>4, Zenon DEF Publish, offer
    <3>2. channel' = channel
      BY <3>1, Zenon
    <3> QED BY <2>1, <2>2, <2>4, <3>1, <3>2, Zenon
  <2> QED BY <2>3, <2>4, Zenon
<1>12. \A x : x \in missed' => x \in missed \/ (~room /\ x = <<v, e>>)
  BY <1>1, Zenon
<1>13. \A x : x \in missed => x \in missed'
  BY <1>1, Zenon
<1>2. sent[p] \in 1 .. EventMax /\ e \in Events
  <2>1. sent[p] > 0 /\ sent[p] \in 0 .. EventMax
    BY <1>1, Zenon DEF BusLocked
  <2> QED BY <2>1, EventAssumption DEF Events
<1>3. /\ Append(channel[v], e) \in Seq(Events) /\ Len(Append(channel[v], e)) = Len(channel[v]) + 1
  BY <1>2
<1>4. e.by = p /\ e.n = sent[p]
  BY Zenon
<1>5. \A w, q, n : <<w, [by |-> q, n |-> n]>> = <<v, e>> => w = v /\ q = p /\ n = sent[p]
  OBVIOUS
<1> HIDE DEF e
<1>6. BusTyped'
  <2>1. channel' \in [Watchers -> Seq(Events)]
    BY <1>1, <1>3, Zenon
  <2>2. \A w \in Watchers : Len(channel'[w]) <= EventBuffer
    <3> SUFFICES ASSUME NEW w \in Watchers
                 PROVE  Len(channel'[w]) <= EventBuffer
      OBVIOUS
    <3>1. channel'[w] = channel[w] \/ (room /\ w = v /\ channel'[w] = Append(channel[v], e))
      BY <1>1, Zenon
    <3>2. Len(channel[w]) <= EventBuffer
      BY Zenon
    <3>3. Len(channel[v]) \in Nat
      OBVIOUS
    <3> QED BY <1>3, <3>1, <3>2, <3>3, EventAssumption
  <2>3. sending' \in [Publishers -> SUBSET Watchers]
    BY <1>1, Zenon
  <2> QED BY <1>1, <2>1, <2>2, <2>3, Zenon
<1>7. \A q \in Publishers, w \in Watchers : w \in sending'[q] <=> w \in sending[q] /\ ~(q = p /\ w = v)
  BY <1>1, Zenon
<1>8. \A q \in Publishers : sending'[q] \subseteq sending[q]
  BY <1>1, Zenon
<1>9. BusLocked'
  <2>1. \A q \in Publishers : sending'[q] \subseteq open'
    BY <1>1, <1>8, Zenon DEF BusLocked
  <2>2. \A q \in Publishers : q \notin busReaders' => sending'[q] = {}
    BY <1>1, <1>8, ZenonT(60) DEF BusLocked
  <2>3. \A w \in Watchers : watcher'[w] = "new" => channel'[w] = <<>> /\ got'[w] = <<>> /\ w \notin open'
    <3> SUFFICES ASSUME NEW w \in Watchers, watcher[w] = "new"
                 PROVE  channel'[w] = <<>> /\ got'[w] = <<>> /\ w \notin open'
      BY <1>1
    <3>1. w # v /\ channel[w] = <<>> /\ got[w] = <<>> /\ w \notin open
      BY <1>1, Zenon DEF BusLocked
    <3> QED BY <1>1, <3>1, Zenon
  <2>4. \A q \in Publishers : \A w \in sending'[q] : <<w, [by |-> q, n |-> sent'[q]]>> \notin missed'
    <3> SUFFICES ASSUME NEW q \in Publishers, NEW w \in sending'[q], <<w, [by |-> q, n |-> sent[q]]>> \in missed'
                 PROVE  FALSE
      BY <1>1
    <3>1. w \in Watchers /\ w \in sending[q] /\ ~(q = p /\ w = v)
      BY <1>6, <1>7, Zenon
    <3>2. <<w, [by |-> q, n |-> sent[q]]>> \notin missed
      BY <3>1, Zenon DEF BusLocked
    <3>3. <<w, [by |-> q, n |-> sent[q]]>> = <<v, e>>
      BY <1>12, <3>2, Zenon
    <3> QED BY <1>5, <3>1, <3>3, Zenon
  <2>5. \A w \in Watchers, q \in Publishers, n \in Nat : <<w, [by |-> q, n |-> n]>> \in missed' => n <= sent'[q]
    <3> SUFFICES ASSUME NEW w \in Watchers, NEW q \in Publishers, NEW n \in Nat, <<w, [by |-> q, n |-> n]>> \in missed'
                 PROVE  n <= sent[q]
      BY <1>1
    <3>1. CASE <<w, [by |-> q, n |-> n]>> \in missed
      BY <3>1, Zenon DEF BusLocked
    <3>2. CASE <<w, [by |-> q, n |-> n]>> = <<v, e>>
      <4>1. q = p /\ n = sent[p]
        BY <1>5, <3>2, Zenon
      <4> QED BY <1>2, <4>1
    <3> QED BY <1>1, <3>1, <3>2, Zenon
  <2> QED BY <1>1, <2>1, <2>2, <2>3, <2>4, <2>5, Zenon DEF BusLocked
<1>10. ASSUME NEW w \in Watchers, NEW q \in Publishers, ~(w = v /\ q = p)
       PROVE  Due(w, q)' = Due(w, q) /\ Lost(w, q)' = Lost(w, q)
  <2>1. w \in sending'[q] <=> w \in sending[q]
    BY <1>7, <1>10, Zenon
  <2>2. Due(w, q)' = Due(w, q)
    BY <1>1, <2>1, Zenon DEF Due
  <2>3. \A n : <<w, [by |-> q, n |-> n]>> \in missed' <=> <<w, [by |-> q, n |-> n]>> \in missed
    <3> SUFFICES ASSUME NEW n
                 PROVE  <<w, [by |-> q, n |-> n]>> \in missed' <=> <<w, [by |-> q, n |-> n]>> \in missed
      OBVIOUS
    <3>1. <<w, [by |-> q, n |-> n]>> # <<v, e>>
      BY <1>5, <1>10, Zenon
    <3> QED BY <1>12, <1>13, <3>1, Zenon
  <2>4. Lost(w, q)' = Lost(w, q)
    BY <1>1, <2>3, Zenon DEF Lost
  <2> QED BY <2>2, <2>4
<1>11. StreamsWhole'
  <2> SUFFICES ASSUME NEW w \in Watchers, NEW q \in OfTheApp, watcher'[w] = "reading"
               PROVE  joined'[w] \in [Publishers -> Nat] /\ StreamWhole(w, q)'
    BY Zenon DEF StreamsWhole
  <2>0. q \in Publishers
    BY EventAssumption, Zenon
  <2>1. joined[w] \in [Publishers -> Nat] /\ StreamWhole(w, q) /\ joined' = joined /\ sent' = sent /\ got' = got
    BY <1>1, Zenon DEF StreamsWhole
  <2>2. CASE w # v
    <3>1. channel'[w] = channel[w]
      BY <1>1, <2>2, Zenon
    <3>2. Due(w, q)' = Due(w, q) /\ Lost(w, q)' = Lost(w, q)
      BY <1>10, <2>0, <2>2, Zenon
    <3> QED BY <2>0, <2>1, <3>1, <3>2, StreamWholeKept, Zenon
  <2>3. CASE w = v /\ q # p
    <3>1. Due(v, q)' = Due(v, q) /\ Lost(v, q)' = Lost(v, q)
      BY <1>10, <2>0, <2>3, Zenon
    <3>2. CASE ~room
      BY <1>1, <2>0, <2>1, <2>3, <3>1, <3>2, StreamWholeKept, ZenonT(60)
    <3>3. CASE room
      <4>1. channel'[v] = Append(channel[v], e)
        BY <1>1, <3>3, Zenon
      <4>2. Nums(channel'[v], q) = Nums(channel[v], q) /\ (Rising(channel[v], q) => Rising(channel'[v], q))
        <5>1. channel[v] \in Seq(Events) /\ e.by # q
          BY <1>4, <2>3, ZenonT(60)
        <5>2. /\ Nums(Append(channel[v], e), q) = Nums(channel[v], q) \cup (IF e.by = q THEN {e.n} ELSE {})
              /\ Rising(channel[v], q) /\ (e.by = q => \A n \in Nums(channel[v], q) : n < e.n) => Rising(Append(channel[v], e), q)
          BY <1>2, <5>1, NumsAppend, SMTT(60)
        <5> QED BY <4>1, <5>1, <5>2, Zenon
      <4>3. StreamWhole(v, q)'
        BY <2>1, <2>3, <3>1, <4>2, Zenon DEF StreamWhole
      <4> QED BY <2>1, <2>3, <4>3
    <3> QED BY <3>2, <3>3, Zenon
  <2>4. CASE w = v /\ q = p
    <3> DEFINE range == (joined[v][p] + 1) .. sent[p]
               seen == Nums(got[v], p) \cup Nums(channel[v], p)
    <3>1. StreamWhole(v, p) /\ joined[v][p] \in Nat /\ sent[p] \in Nat /\ Due(v, p) = {sent[p]} /\ Due(v, p)' = {}
      BY <1>1, <1>2, <1>7, <2>1, <2>4 DEF Due
    <3>2. \A n \in seen : n \in Nat /\ n < sent[p]
      BY <3>1, SMTT(60) DEF StreamWhole
    <3>3. \A n \in 1 .. sent[p] : n # sent[p] => (n \in Lost(v, p)' <=> n \in Lost(v, p))
      <4> SUFFICES ASSUME NEW n \in 1 .. sent[p], n # sent[p]
                   PROVE  <<v, [by |-> p, n |-> n]>> \in missed' <=> <<v, [by |-> p, n |-> n]>> \in missed
        BY <2>1, Zenon DEF Lost
      <4>1. <<v, [by |-> p, n |-> n]>> # <<v, e>>
        BY <1>5, Zenon
      <4> QED BY <1>1, <4>1, Zenon
    <3>4. sent[p] \in Lost(v, p)' <=> ~room
      <4>1. sent[p] \in Lost(v, p)' <=> <<v, e>> \in missed'
        BY <1>2, <2>1 DEF Lost, e
      <4>2. <<v, e>> \notin missed
        BY <1>1, Zenon DEF BusLocked, e
      <4> QED BY <1>1, <4>1, <4>2, Zenon
    <3>5. sent[p] \in range /\ joined[v][p] <= sent[p]
      BY <3>1, Zenon DEF StreamWhole
    <3>6. \A n : n \in seen <=> n \in range /\ n # sent[p] /\ n \notin Lost(v, p)
      BY <3>1, ZenonT(60) DEF StreamWhole
    <3>7. \A n \in range : n \in 1 .. sent[p]
      BY <3>1, SMTT(60)
    <3> HIDE DEF range
    <3>8. CASE ~room
      <4>1. channel'[v] = channel[v]
        BY <1>1, <3>8, Zenon
      <4>2. seen = range \ (Due(v, p)' \cup Lost(v, p)')
        BY <3>1, <3>3, <3>4, <3>6, <3>7, <3>8, ZenonT(60)
      <4>3. StreamWhole(v, p)'
        BY <2>1, <3>1, <3>5, <4>1, <4>2, Zenon DEF StreamWhole, range
      <4> QED BY <2>1, <2>4, <4>3, Zenon
    <3>9. CASE room
      <4>1. channel'[v] = Append(channel[v], e) /\ channel[v] \in Seq(Events)
        BY <1>1, <3>9, Zenon
      <4>2. \A n \in Nums(channel[v], p) : n < e.n
        BY <1>4, <3>2, ZenonT(60)
      <4>3. Nums(channel'[v], p) = Nums(channel[v], p) \cup {sent[p]} /\ (Rising(channel[v], p) => Rising(channel'[v], p))
        BY <1>2, <1>4, <4>1, <4>2, NumsAppend, SMTT(60)
      <4>4. Rising(channel'[v], p) /\ Rising(got[v], p)
        BY <3>1, <4>3, Zenon DEF StreamWhole
      <4>5. \A m \in Nums(got[v], p), n \in Nums(channel'[v], p) : m < n
        <5>1. \A m \in Nums(got[v], p), n \in Nums(channel[v], p) : m < n
          BY <3>1, Zenon DEF StreamWhole
        <5> QED BY <3>2, <4>3, <5>1, Zenon
      <4>6. Nums(got[v], p) \cup Nums(channel'[v], p) = range \ (Due(v, p)' \cup Lost(v, p)')
        <5>1. Nums(got[v], p) \cup Nums(channel'[v], p) = seen \cup {sent[p]}
          BY <4>3, Zenon
        <5> HIDE DEF seen
        <5>2. \A n : n \in seen \cup {sent[p]} <=> n \in range /\ n \notin Lost(v, p)'
          BY <3>3, <3>4, <3>5, <3>6, <3>7, <3>9, ZenonT(60)
        <5> QED BY <3>1, <5>1, <5>2, Zenon
      <4>7. StreamWhole(v, p)'
        BY <2>1, <3>1, <3>5, <4>4, <4>5, <4>6, Zenon DEF StreamWhole, range
      <4> QED BY <2>1, <2>4, <4>7, SMTT(60)
    <3> QED BY <3>8, <3>9, Zenon
  <2> QED BY <2>2, <2>3, <2>4, Zenon
<1> QED BY <1>6, <1>9, <1>11, Zenon

\* Every step of EventStream keeps the invariant.
LEMMA EventsInvStep == EventsInv /\ [EventsNext]_eventVars => EventsInv'
<1> SUFFICES ASSUME EventsInv, [EventsNext]_eventVars
             PROVE  EventsInv'
  OBVIOUS
<1>1. CASE EventsNext
  BY <1>1, EmitKeeps, PublishKeeps, PublishEndsKeeps, SubscribeKeeps, GetAppEventsKeeps, StreamDoneKeeps,
     UnsubscribeKeeps, Zenon DEF EventsNext
<1>2. CASE UNCHANGED eventVars
  <2> USE <1>2 DEF eventVars, EventsInv
  <2>1. BusTyped'
    BY Zenon DEF BusTyped
  <2>2. BusLocked'
    BY Zenon DEF BusLocked
  <2>3. StreamsWhole'
    <3>1. \A w \in Watchers, p \in Publishers : Due(w, p)' = Due(w, p) /\ Lost(w, p)' = Lost(w, p)
      BY Zenon DEF Due, Lost
    <3>2. OfTheApp \subseteq Publishers
      BY EventAssumption
    <3> QED BY <3>1, <3>2, StreamWholeKept, Zenon DEF StreamsWhole
  <2> QED BY <2>1, <2>2, <2>3
<1> QED BY <1>1, <1>2

(***************************************************************************)
(* Whatever the order in which goroutines publish and streams come and go, *)
(* and whatever the size of the buffers: nothing is sent on a closed       *)
(* channel, and a stream has every event of its app once and in order, but *)
(* for those a full buffer dropped.                                        *)
(***************************************************************************)
THEOREM StreamsGetTheirEvents == EventsSpec => [](EventsTypeOK /\ EventsReachOpenStreams)
<1>1. EventsSpec => []EventsInv
  BY EventsInvInit, EventsInvStep, PTL DEF EventsSpec
<1> QED
  BY <1>1, EventsInvProperty, PTL
=============================================================================
