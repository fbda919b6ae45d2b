SPECIFICATION FairSpec
CONSTANTS
  c1 = c1  c2 = c2  m1 = m1  m2 = m2
  MaxSamples = 3
  Clients <- TwoClients
  Maintainers <- TwoMaintainers
  BatchSize = 2
  RetentionDays = 1
  MaxDay = 2
  MaxMerges = 1
  MaxAborts = 1
  Operators = {m1}
  MaxVersion = 2
  MaxSecond = 1
  MaxKills = 2
  Containers <- TwoContainers
  Organizations = {1, 2}
  MigrationCount = 2
  MaxDeaths = 2
  MaxReleases = 3
  MaxCuts = 2
  MaxWrites = 2
  Recorders = {m1, m2}
  RequiredSteps = {1}
  MaxResults = 2
  MaxInterrupts = 1
  MaxRows = 4
  Hostnames = {1, 2}
  PermanentIds = {1}
  Tokens = {1, 2}
  DeploymentIds = {1}
  IncidentIds = {1}
  Environments = {"production", "staging"}
  Second = 3
  WindowSize = 3
  LastInstant = 5
  Processes = {m1, m2}
  MaxUses = 2
  MaxFailedReads = 1
  MaxKilled = 2
  Runs = {m1, m2}
  LastCommit = 2
  MaxChanges = 2
INVARIANTS LostOnlyByOverlap RollupCoversTable VerifiedIsCommitted AuditCountsClients RollbackRestores WritesKept LedgerKeepsSettled RecoveryKept FailuresCounted OneIdentity PrivateWhenUsed BootstrapOnce
PROPERTIES RunsEnd SavedBeforeReplaced RestoreInstalls HealsOnceBootstrapped
