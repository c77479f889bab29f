----------------------------- MODULE MCPlatform -----------------------------
(***************************************************************************)
(* Small instances of the host services for TLC, in one run.  The services *)
(* do not share state, so nothing is gained by interleaving them: a        *)
(* behaviour exercises one of them, and the others stay as they start.     *)
(***************************************************************************)
EXTENDS HostIdentity, HostNetwork, Volumes, AuditLog, AppLogs, Backup, SelfUpgrade,
        AppConditions, EventStream, AdminRequests, HostCgroups, CreekCtl, DevSandbox

VARIABLE part

platformVars == <<part, identityVars, networkVars, volumeVars, auditVars, logVars, tierVars,
                  upgradeVars, conditionVars, eventVars, requestVars, cgroupVars, ctlVars,
                  sandboxVars>>

PlatformInit ==
  /\ part \in {"identity", "network", "volumes", "audit", "logs", "backup", "upgrade",
              "conditions", "events", "requests", "cgroups", "commands", "sandbox"}
  /\ IdentityInit
  /\ NetworkInit
  /\ VolumesInit
  /\ AuditInit
  /\ LogsInit
  /\ TierInit
  /\ UpgradeInit
  /\ ConditionsInit
  /\ EventsInit
  /\ RequestsInit
  /\ CgroupsInit
  /\ CtlInit
  /\ SandboxInit
  /\ part # "identity" => recorded = [i \in UidApps |-> NoUser]
  /\ part # "volumes" => atomicMount
  /\ part # "cgroups" => cgMode = "off" /\ cgDefaults.high = 0 /\ cgDefaults.max = 0 /\ offered = {}
  /\ part # "commands" => serial = 0

PlatformNext ==
  /\ UNCHANGED part
  /\ IF part = "identity" THEN IdentityNext ELSE UNCHANGED identityVars
  /\ IF part = "network" THEN NetworkNext ELSE UNCHANGED networkVars
  /\ IF part = "volumes" THEN VolumesNext ELSE UNCHANGED volumeVars
  /\ IF part = "audit" THEN AuditNext ELSE UNCHANGED auditVars
  /\ IF part = "logs" THEN LogsNext ELSE UNCHANGED logVars
  /\ IF part = "backup" THEN TierNext ELSE UNCHANGED tierVars
  /\ IF part = "upgrade" THEN UpgradeNext ELSE UNCHANGED upgradeVars
  /\ IF part = "conditions" THEN ConditionsNext ELSE UNCHANGED conditionVars
  /\ IF part = "events" THEN EventsNext ELSE UNCHANGED eventVars
  /\ IF part = "requests" THEN RequestsNext ELSE UNCHANGED requestVars
  /\ IF part = "cgroups" THEN CgroupsNext ELSE UNCHANGED cgroupVars
  /\ IF part = "commands" THEN CtlNext ELSE UNCHANGED ctlVars
  /\ IF part = "sandbox" THEN SandboxNext ELSE UNCHANGED sandboxVars

PlatformSpec == PlatformInit /\ [][PlatformNext]_platformVars

\* The variables of every service have their types; in particular an
\* address in use is never the network's, and never its broadcast address.
PlatformTypeOK ==
  CASE part = "identity" -> IdentityTypeOK
    [] part = "network" -> NetworkTypeOK
    [] part = "volumes" -> VolumesTypeOK
    [] part = "audit" -> AuditTypeOK
    [] part = "logs" -> LogsTypeOK
    [] part = "backup" -> BackupTypeOK
    [] part = "upgrade" -> UpgradeTypeOK
    [] part = "conditions" -> ConditionsTypeOK
    [] part = "events" -> EventsTypeOK
    [] part = "requests" -> RequestsTypeOK
    [] part = "cgroups" -> CgroupsTypeOK
    [] part = "commands" -> CtlTypeOK
    [] part = "sandbox" -> SandboxTypeOK
=============================================================================
