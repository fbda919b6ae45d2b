----------------------------- MODULE MCOperations -----------------------------
(***************************************************************************)
(* The tools around the server: a behaviour picks one of them and follows  *)
(* its specification.  What the rest of the server does meanwhile is part  *)
(* of each of these specifications.                                        *)
(***************************************************************************)
EXTENDS Retention, DatabaseBackup, FirstStart, IdentityResolver, ServerUpgrade, EvidenceLedger,
        DoraCollector, AgentIdentity, PrivateMirror

CONSTANTS c1, c2, m1, m2

TwoClients == {c1, c2}
TwoMaintainers == {m1, m2}
TwoContainers == {c1, c2}

VARIABLE tool

maintenanceVars == <<retentionVars, backupVars>>
installationVars == <<startVars, upgradeVars, identityVars>>
reportVars == <<resolverVars, ledgerVars, doraVars, mirrorVars>>
vars == <<tool, maintenanceVars, installationVars, reportVars>>

Tools == {"retention", "backup", "first start", "upgrade", "identity",
          "resolver", "ledger", "dora", "mirror"}

Init ==
  /\ tool \in Tools
  /\ RetentionInit /\ BackupInit
  /\ StartInit /\ UpgradeInit /\ IdentityInit
  /\ ResolverInit /\ LedgerInit /\ DoraInit /\ MirrorInit

MaintenanceStep ==
  \/ tool = "retention" /\ RetentionNext /\ UNCHANGED backupVars
  \/ tool = "backup" /\ BackupNext /\ UNCHANGED retentionVars

InstallationStep ==
  \/ tool = "first start" /\ StartNext /\ UNCHANGED <<upgradeVars, identityVars>>
  \/ tool = "upgrade" /\ UpgradeNext /\ UNCHANGED <<startVars, identityVars>>
  \/ tool = "identity" /\ IdentityNext /\ UNCHANGED <<startVars, upgradeVars>>

ReportStep ==
  \/ tool = "resolver" /\ ResolverNext /\ UNCHANGED <<ledgerVars, doraVars, mirrorVars>>
  \/ tool = "ledger" /\ LedgerNext /\ UNCHANGED <<resolverVars, doraVars, mirrorVars>>
  \/ tool = "dora" /\ DoraNext /\ UNCHANGED <<resolverVars, ledgerVars, mirrorVars>>
  \/ tool = "mirror" /\ MirrorNext /\ UNCHANGED <<resolverVars, ledgerVars, doraVars>>

Next ==
  /\ UNCHANGED tool
  /\ \/ MaintenanceStep /\ UNCHANGED <<installationVars, reportVars>>
     \/ InstallationStep /\ UNCHANGED <<maintenanceVars, reportVars>>
     \/ ReportStep /\ UNCHANGED <<maintenanceVars, installationVars>>

\* A container is started only where containers are followed.
Fairness ==
  /\ RetentionFairness
  /\ \A c \in Containers : WF_startVars(tool = "first start" /\ Advance(c))

FairSpec == Init /\ [][Next]_vars /\ Fairness
=============================================================================
