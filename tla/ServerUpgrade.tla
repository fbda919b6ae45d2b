---------------------------- MODULE ServerUpgrade ----------------------------
(***************************************************************************)
(* Installing one release of the server after the other on one machine     *)
(* (server/ubuntu/install-commercial-server.sh): the script stops the      *)
(* service, keeps copies, installs settings, backs up and migrates the     *)
(* database, switches the pointer to the new release and starts it.  Its   *)
(* ERR trap puts everything back when a command fails; nothing does when   *)
(* the script is killed or the machine restarts.                           *)
(*                                                                         *)
(* Release n needs the first n migrations.  What a backup and a restore do *)
(* step by step is in DatabaseBackup, a bootstrap in FirstStart.           *)
(***************************************************************************)
EXTENDS Naturals

CONSTANTS
  MaxReleases,  \* bound on runs of the script: the n-th run installs release n
  MaxCuts,      \* bound on killed scripts and restarts of the machine
  MaxWrites     \* bound on what clients commit

ASSUME UpgradeAssumption == MaxReleases \in Nat /\ MaxCuts \in Nat /\ MaxWrites \in Nat

VARIABLES
  pointer,   \* the release that INSTALL_ROOT/current points to, 0 if it is absent
  installed, \* releases whose directory is there
  settings,  \* the release whose certificate, key and server.json are in place
  data,      \* the database
  running,   \* the release that serves, 0 if the service is down
  script,    \* the run of the script
  before,    \* history: what the script found once the service was stopped
  accepted,  \* history: commits that clients were told of
  undone,    \* history: a release that had served was rolled back
  cuts

onDisk == <<pointer, installed, settings>>
upgradeHistory == <<before, accepted, undone, cuts>>
upgradeVars == <<onDisk, data, running, script, upgradeHistory>>

Releases == 1..MaxReleases
NoSettings == [certificate |-> 0, key |-> 0, json |-> 0]
NoData == [there |-> FALSE, schema |-> 0, admin |-> FALSE, writes |-> 0]

\* copy and backup: {} or what CONFIG_ROLLBACK_ROOT and PRE_UPGRADE_BACKUP hold.
Idling(n) == [pc |-> "idle", release |-> n, old |-> 0, existed |-> FALSE,
              copy |-> {}, backup |-> {}, ok |-> TRUE]
Found == [pointer |-> pointer, settings |-> settings, data |-> data]

UpgradeInit ==
  /\ pointer = 0 /\ installed = {} /\ settings = NoSettings /\ data = NoData
  /\ running = 0 /\ script = Idling(0) /\ before = Found
  /\ accepted = 0 /\ undone = FALSE /\ cuts = 0

-----------------------------------------------------------------------------
(* The service.                                                            *)

AllSet == \A f \in DOMAIN settings : settings[f] # 0

\* The launcher finds the release, ServerConfig.validate the files.
Launched == pointer \in installed /\ AllSet

\* serve then needs an administrator and a key that fits the certificate.
Startable == Launched /\ data.admin /\ settings.certificate = settings.key

\* _prepare_database applies the release's migrations; later ones do not disturb it.
Migrated(release) == [data EXCEPT !.schema = IF release > @ THEN release ELSE @]

\* The database is opened, or created, and migrated before anything else can fail.
BringUp ==
  /\ running' = IF Startable THEN pointer ELSE 0
  /\ data' = IF Launched THEN [Migrated(pointer) EXCEPT !.there = TRUE] ELSE data

Write ==
  /\ running # 0 /\ accepted < MaxWrites
  /\ data' = [data EXCEPT !.writes = @ + 1]
  /\ accepted' = accepted + 1
  /\ UNCHANGED <<onDisk, running, script, before, undone, cuts>>

-----------------------------------------------------------------------------
(* The script.                                                             *)

In(pc) == script.pc = pc
Then(pc) == script' = [script EXCEPT !.pc = pc]

BeginInstall ==
  /\ In("idle") /\ script.release < MaxReleases
  /\ script' = [Idling(script.release + 1) EXCEPT
                  !.pc = "stop", !.old = pointer, !.existed = data.there]
  /\ UNCHANGED <<onDisk, data, running, upgradeHistory>>

StopServer ==
  /\ In("stop") /\ Then("prepare")
  /\ running' = 0 /\ before' = Found
  /\ UNCHANGED <<onDisk, data, accepted, undone, cuts>>

\* The release's directory, then the copy of the settings.
Prepare ==
  /\ In("prepare")
  /\ installed' = installed \cup {script.release}
  /\ script' = [script EXCEPT !.pc = "certificate",
                  !.copy = IF settings = NoSettings THEN {} ELSE {settings}]
  /\ UNCHANGED <<pointer, settings, data, running, upgradeHistory>>

InstallSetting(setting, following) ==
  /\ In(setting) /\ Then(following)
  /\ settings' = [settings EXCEPT ![setting] = script.release]
  /\ UNCHANGED <<pointer, installed, data, running, upgradeHistory>>

InstallSettings ==
  \/ InstallSetting("certificate", "key")
  \/ InstallSetting("key", "json")
  \/ InstallSetting("json", IF script.existed THEN "backup" ELSE "create")

BackUp ==
  /\ In("backup")
  /\ script' = [script EXCEPT !.pc = "migrate", !.backup = {data}]
  /\ UNCHANGED <<onDisk, data, running, upgradeHistory>>

\* A command that only changes the database.
DataStep(pc, following, result) ==
  /\ In(pc) /\ Then(following)
  /\ data' = result
  /\ UNCHANGED <<onDisk, running, upgradeHistory>>

\* migrate; or bootstrap: the migrations, then the administrator.
FillDatabase ==
  \/ DataStep("migrate", "health", Migrated(script.release))
  \/ DataStep("create", "bootstrap", [Migrated(script.release) EXCEPT !.there = TRUE])
  \/ DataStep("bootstrap", "health", [data EXCEPT !.admin = TRUE])

SwitchPointer ==
  /\ In("health") /\ Then("start")
  /\ data.admin /\ data.schema >= script.release
  /\ pointer' = script.release
  /\ UNCHANGED <<installed, settings, data, running, upgradeHistory>>

StartServer(pc, following) ==
  /\ In(pc) /\ Then(following)
  /\ BringUp
  /\ UNCHANGED <<onDisk, upgradeHistory>>

\* systemctl is-active, the remote health check, trap - ERR.
Succeed ==
  /\ In("watch") /\ running = script.release
  /\ script' = Idling(script.release)
  /\ UNCHANGED <<onDisk, data, running, upgradeHistory>>

-----------------------------------------------------------------------------
(* rollback, the ERR trap.                                                 *)

Trapped == {"prepare", "certificate", "key", "json", "backup", "migrate",
            "create", "bootstrap", "health", "start", "watch"}

\* A command failed, a backup perhaps after its file was written; rollback begins by
\* stopping the service.
Fail ==
  /\ script.pc \in Trapped
  /\ \E backup \in {script.backup} \cup (IF In("backup") THEN {{data}} ELSE {}) :
       script' = [script EXCEPT !.pc = "restore", !.backup = backup]
  /\ running' = 0
  /\ undone' = (undone \/ running # 0)
  /\ UNCHANGED <<onDisk, data, before, accepted, cuts>>

\* The restore itself may fail, which is noted.
RestoreData ==
  \/ DataStep("restore", "json back", IF script.backup = {} THEN data
                                      ELSE CHOOSE d \in script.backup : TRUE)
  \/ /\ In("restore") /\ script.backup # {}
     /\ script' = [script EXCEPT !.pc = "json back", !.ok = FALSE]
     /\ UNCHANGED <<onDisk, data, running, upgradeHistory>>

\* Mutated form: the new setting stays.
PutBack_Nothing(setting) == settings[setting]

\* Only what was copied is put back.
PutBack(setting) ==
  IF \E copy \in script.copy : copy[setting] # 0
  THEN (CHOOSE copy \in script.copy : TRUE)[setting]
  ELSE settings[setting]

RestoreSetting(setting, pc, following) ==
  /\ In(pc) /\ Then(following)
  /\ settings' = [settings EXCEPT ![setting] = PutBack(setting)]
  /\ UNCHANGED <<pointer, installed, data, running, upgradeHistory>>

RestoreSettings ==
  \/ RestoreSetting("json", "json back", "certificate back")
  \/ RestoreSetting("certificate", "certificate back", "key back")
  \/ RestoreSetting("key", "key back", "pointer")

\* The owner and mode of all three files are set again, which fails if one is missing.
Restored == script.ok /\ (script.copy = {} \/ AllSet)

\* Without an old release the pointer is removed.
RestorePointer ==
  /\ In("pointer")
  /\ pointer' = IF script.old \in installed THEN script.old ELSE 0
  /\ Then(IF script.old \in installed /\ Restored THEN "restart" ELSE "clean")
  /\ UNCHANGED <<installed, settings, data, running, upgradeHistory>>

\* Mutated form: the database is removed whenever there is no backup of it.
Removed_WithoutBackup == script.backup = {}

Removed == ~script.existed

CleanUp ==
  /\ In("clean")
  /\ data' = IF Removed THEN NoData ELSE data
  /\ installed' = installed \ {script.release}
  /\ script' = Idling(script.release)
  /\ UNCHANGED <<pointer, settings, running, upgradeHistory>>

-----------------------------------------------------------------------------
\* The script is killed, alone or by a restart of the machine, which brings up the
\* service that is enabled.
Cut ==
  /\ ~In("idle") /\ cuts < MaxCuts
  /\ cuts' = cuts + 1
  /\ script' = Idling(script.release)
  /\ BringUp \/ UNCHANGED <<running, data>>
  /\ UNCHANGED <<onDisk, before, accepted, undone>>

\* The releases are bounded: a history ends with the last one.
UpgradeHorizon == In("idle") /\ script.release = MaxReleases /\ UNCHANGED upgradeVars

Install ==
  \/ BeginInstall \/ StopServer \/ Prepare \/ InstallSettings \/ BackUp
  \/ FillDatabase \/ SwitchPointer \/ StartServer("start", "watch") \/ Succeed

Rollback ==
  \/ Fail \/ RestoreData \/ RestoreSettings \/ RestorePointer
  \/ StartServer("restart", "clean") \/ CleanUp

UpgradeNext == Write \/ Install \/ Rollback \/ Cut \/ UpgradeHorizon

UpgradeSpec == UpgradeInit /\ [][UpgradeNext]_upgradeVars

-----------------------------------------------------------------------------
(* Properties.                                                             *)

\* When a rollback starts the old release again, pointer and database are what the
\* script found, and so is every setting that there was, whichever command failed and
\* whatever an earlier, killed run had left.
RollbackRestores ==
  In("restart") =>
    /\ pointer = before.pointer
    /\ before.data.there => data = before.data
    /\ \A f \in DOMAIN settings : before.settings[f] \in {0, settings[f]}

\* What clients were told is stored stays in the database: no failure, kill or rerun
\* of the script loses it, except the rollback of a release that had already served.
WritesKept == undone \/ data.writes = accepted
=============================================================================
