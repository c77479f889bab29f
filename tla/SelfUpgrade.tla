----------------------------- MODULE SelfUpgrade -----------------------------
(***************************************************************************)
(* creekctl self-upgrade (cmd/creekctl/commands.go, internal/upgrade): the *)
(* download, the two-layer verification, and the replacement of the two    *)
(* binaries one after the other, with the old creekd stashed so that it    *)
(* can be put back.                                                        *)
(*                                                                         *)
(* A binary is the number of the release it comes from, or Forged.  A      *)
(* download delivers the release, or bytes that are not the release's.     *)
(***************************************************************************)
EXTENDS Integers

CONSTANTS
  Releases,        \* release numbers; 0 is what is installed first
  UpgradeRuns,     \* bound: runs of the command
  UpgradeFaults    \* bound: failing system calls and kills

ASSUME UpgradeAssumption == Releases \subseteq Nat

VARIABLES
  creekdBin,   \* the installed creekd
  creekctlBin, \* the installed creekctl
  stash,       \* <creekd>.pre-upgrade-*
  upgrade,     \* the run under way
  verdict,     \* how the last run ended
  upgradeRuns,
  upgradeFaults

upgradeVars == <<creekdBin, creekctlBin, stash, upgrade, verdict, upgradeRuns, upgradeFaults>>

Forged == -1
NoRun == [pc |-> "none", to |-> 0, tar |-> 0, sums |-> 0, d |-> 0, ctl |-> 0]
Binaries == Releases \cup {0, Forged}

\* The installed binaries and the run under way have their types.
UpgradeTypeOK ==
  /\ {creekdBin, creekctlBin, stash} \subseteq Binaries
  /\ upgrade.pc \in {"none", "download", "verify", "checksum", "extract", "stash", "swapDaemon", "swapCtl", "rollback"}
  /\ verdict \in {"none", "upgraded", "failed", "rollbackFailed", "killed"}

UpgradeFault == upgradeFaults < UpgradeFaults /\ upgradeFaults' = upgradeFaults + 1

\* The run ends; the deferred removals take the stash and the temp directory.
UpgradeEnds(v) == upgrade' = NoRun /\ verdict' = v /\ stash' = 0

\* The run records what it found, for the property.
SelfUpgrade(r) ==
  /\ upgrade = NoRun
  /\ upgradeRuns < UpgradeRuns
  /\ upgradeRuns' = upgradeRuns + 1
  /\ upgrade' = [pc |-> "download", to |-> r, tar |-> 0, sums |-> 0,
                 d |-> creekdBin, ctl |-> creekctlBin]
  /\ UNCHANGED <<creekdBin, creekctlBin, stash, verdict, upgradeFaults>>

\* The tarball and the checksums arrive, as released or not, or the run ends.
downloadFile ==
  /\ upgrade.pc = "download"
  /\ \/ /\ \E tar, sums \in {upgrade.to, Forged} :
             upgrade' = [upgrade EXCEPT !.pc = "verify", !.tar = tar, !.sums = sums]
        /\ UNCHANGED <<stash, verdict, upgradeFaults>>
     \/ UpgradeFault /\ UpgradeEnds("failed")
  /\ UNCHANGED <<creekdBin, creekctlBin, upgradeRuns>>

\* cosign accepts only checksums.txt of the release pipeline; it rejects, or
\* it is not available or times out.
verifyCosign ==
  /\ upgrade.pc = "verify"
  /\ \/ /\ upgrade.sums # Forged
        /\ upgrade' = [upgrade EXCEPT !.pc = "checksum"]
        /\ UNCHANGED <<stash, verdict, upgradeFaults>>
     \/ upgrade.sums = Forged /\ UpgradeEnds("failed") /\ UNCHANGED upgradeFaults
     \/ UpgradeFault /\ UpgradeEnds("failed")
  /\ UNCHANGED <<creekdBin, creekctlBin, upgradeRuns>>

\* The tarball is the one checksums.txt lists.
verifyChecksum ==
  /\ upgrade.pc = "checksum"
  /\ \/ /\ upgrade.tar = upgrade.sums
        /\ upgrade' = [upgrade EXCEPT !.pc = "extract"]
        /\ UNCHANGED <<stash, verdict, upgradeFaults>>
     \/ upgrade.tar # upgrade.sums /\ UpgradeEnds("failed") /\ UNCHANGED upgradeFaults
     \/ UpgradeFault /\ UpgradeEnds("failed")
  /\ UNCHANGED <<creekdBin, creekctlBin, upgradeRuns>>

\* The new binaries land in the temp directory.
extractTarGz ==
  /\ upgrade.pc = "extract"
  /\ \/ /\ upgrade' = [upgrade EXCEPT !.pc = "stash"]
        /\ UNCHANGED <<stash, verdict, upgradeFaults>>
     \/ UpgradeFault /\ UpgradeEnds("failed")
  /\ UNCHANGED <<creekdBin, creekctlBin, upgradeRuns>>

\* The installed creekd is linked, or copied, to a name of its own.
CopyFile ==
  /\ upgrade.pc = "stash"
  /\ \/ /\ stash' = creekdBin
        /\ upgrade' = [upgrade EXCEPT !.pc = "swapDaemon"]
        /\ UNCHANGED <<verdict, upgradeFaults>>
     \/ UpgradeFault /\ UpgradeEnds("failed")
  /\ UNCHANGED <<creekdBin, creekctlBin, upgradeRuns>>

\* SwapBinary replaces its target by one rename, or leaves it alone.
SwapDaemon ==
  /\ upgrade.pc = "swapDaemon"
  /\ \/ /\ creekdBin' = upgrade.tar
        /\ upgrade' = [upgrade EXCEPT !.pc = "swapCtl"]
        /\ UNCHANGED <<stash, verdict, upgradeFaults>>
     \/ UpgradeFault /\ UpgradeEnds("failed") /\ UNCHANGED creekdBin
  /\ UNCHANGED <<creekctlBin, upgradeRuns>>

\* faulty: a failure of the second swap ends the run
SwapCtl_NoRollback ==
  /\ upgrade.pc = "swapCtl"
  /\ \/ /\ creekctlBin' = upgrade.tar
        /\ UpgradeEnds("upgraded")
        /\ UNCHANGED upgradeFaults
     \/ /\ UpgradeFault
        /\ UpgradeEnds("failed")
        /\ UNCHANGED creekctlBin
  /\ UNCHANGED <<creekdBin, upgradeRuns>>

SwapCtl ==
  /\ upgrade.pc = "swapCtl"
  /\ \/ /\ creekctlBin' = upgrade.tar
        /\ UpgradeEnds("upgraded")
        /\ UNCHANGED upgradeFaults
     \/ /\ UpgradeFault
        /\ upgrade' = [upgrade EXCEPT !.pc = "rollback"]
        /\ UNCHANGED <<creekctlBin, stash, verdict>>
  /\ UNCHANGED <<creekdBin, upgradeRuns>>

\* The stash goes back; an error is a warning, and the stash is removed.
RollbackDaemon ==
  /\ upgrade.pc = "rollback"
  /\ \/ creekdBin' = stash /\ UpgradeEnds("failed") /\ UNCHANGED upgradeFaults
     \/ UpgradeFault /\ UpgradeEnds("rollbackFailed") /\ UNCHANGED creekdBin
  /\ UNCHANGED <<creekctlBin, upgradeRuns>>

\* The command is killed: its deferred removals do not run.
UpgradeKilled ==
  /\ upgrade # NoRun
  /\ UpgradeFault
  /\ upgrade' = NoRun
  /\ verdict' = "killed"
  /\ UNCHANGED <<creekdBin, creekctlBin, stash, upgradeRuns>>

UpgradeInit ==
  /\ creekdBin = 0 /\ creekctlBin = 0 /\ stash = 0
  /\ upgrade = NoRun
  /\ verdict = "none"
  /\ upgradeRuns = 0
  /\ upgradeFaults = 0

UpgradeNext ==
  \/ \E r \in Releases : SelfUpgrade(r)
  \/ downloadFile
  \/ verifyCosign \/ verifyChecksum \/ extractTarGz \/ CopyFile
  \/ SwapDaemon \/ SwapCtl \/ RollbackDaemon
  \/ UpgradeKilled

UpgradeSpec == UpgradeInit /\ [][UpgradeNext]_upgradeVars

(***************************************************************************)
(* "The new binaries are only moved into place AFTER both checks pass; any *)
(* failure leaves the existing binaries untouched": a run that reports     *)
(* success has installed both binaries of the release it was asked for, a  *)
(* run that reports a failure leaves the pair it found, whatever earlier   *)
(* runs left.  (A run that is killed between the swaps, or whose rollback  *)
(* fails too, leaves one new binary and one old.)                          *)
(***************************************************************************)
UpgradeAllOrNothing ==
  [][upgrade # NoRun /\ upgrade' = NoRun =>
       /\ verdict' = "upgraded" => {creekdBin', creekctlBin'} = {upgrade.to}
       /\ verdict' = "failed" => creekdBin' = upgrade.d /\ creekctlBin' = upgrade.ctl
       /\ Forged \notin {creekdBin', creekctlBin'}]_upgradeVars
=============================================================================
