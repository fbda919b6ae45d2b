--------------------------- MODULE DatabaseBackup ---------------------------
(***************************************************************************)
(* Online backup and offline restore of the server's database              *)
(* (server/backup.py), while the service commits, checkpoints, stops or is *)
(* killed.  The database is a main file and a write-ahead log; a backup is *)
(* a database file and a manifest with its hash; commands run one step at  *)
(* a time and may be killed between two of them.                           *)
(*                                                                         *)
(* A content is the number of the last commit it holds, or Torn: the pages *)
(* of one content under the log of another.                                *)
(***************************************************************************)
EXTENDS Integers, FiniteSets

CONSTANTS
  Operators,   \* processes that run a command
  MaxVersion,  \* bound on commits
  MaxSecond,   \* bound on the clock that names backups
  MaxKills     \* bound on killed commands and services

ASSUME BackupAssumption == MaxVersion \in Nat /\ MaxSecond \in Nat /\ MaxKills \in Nat

VARIABLES
  version,   \* number of commits so far
  main,      \* content of the main file
  log,       \* the write-ahead log: {} or {[base, content]}
  service,   \* "up" or "down"
  second,
  files,     \* path -> what database file and manifest hold
  command,   \* operator -> its command
  stale,     \* history: a log was read over a main file that is not its own
  kills

database == <<version, main, log, service>>
backupVars == <<database, second, files, command, stale, kills>>

Torn == -1
Absent == -2
Paths == {"backup", "pre-restore"} \X (0..MaxSecond)
Nothing == [pc |-> "idle", path |-> <<"backup", 0>>, copy |-> Absent, source |-> {}, wanted |-> Absent]

BackupInit ==
  /\ version = 0 /\ main = 0 /\ log = {} /\ service = "up"
  /\ second = 0
  /\ files = [p \in Paths |-> [database |-> Absent, manifest |-> Absent]]
  /\ command = [o \in Operators |-> Nothing]
  /\ stale = FALSE /\ kills = 0

Foreign == \E l \in log : l.base # main

\* What a connection reads.
Visible ==
  IF log = {} THEN main ELSE IF Foreign THEN Torn ELSE (CHOOSE l \in log : TRUE).content

-----------------------------------------------------------------------------
(* The service.                                                            *)

Commit ==
  /\ service = "up" /\ version < MaxVersion /\ Visible # Torn
  /\ version' = version + 1
  /\ log' = {[base |-> main, content |-> version + 1]}
  /\ UNCHANGED <<main, service, second, files, command, stale, kills>>

CheckpointTo(service_) ==
  /\ main' = Visible /\ log' = {} /\ service' = service_
  /\ UNCHANGED <<version, second, files, command, stale, kills>>

Checkpoint == service = "up" /\ log # {} /\ CheckpointTo("up")

\* The last connection closed checkpoints and removes the log.
StopService == service = "up" /\ CheckpointTo("down")

KillService ==
  /\ service = "up" /\ kills < MaxKills
  /\ service' = "down" /\ kills' = kills + 1
  /\ UNCHANGED <<version, main, log, second, files, command, stale>>

Restoring == \E o \in Operators : command[o].source # {}

\* Nobody starts the service during a restore; a log that is found is replayed.
StartService ==
  /\ service = "down" /\ ~Restoring
  /\ service' = "up"
  /\ IF Foreign THEN main' = Torn /\ log' = {} ELSE UNCHANGED <<main, log>>
  /\ stale' = (stale \/ Foreign)
  /\ UNCHANGED <<version, second, files, command, kills>>

-----------------------------------------------------------------------------
(* The commands.                                                           *)

Goto(o, c) == command' = [command EXCEPT ![o] = c]

\* verify_backup; PRAGMA quick_check may or may not find a torn file.
Verifies(p) == files[p].database # Absent /\ files[p].manifest = files[p].database

Begun(path, source, wanted) ==
  [pc |-> "copy", path |-> path, copy |-> Absent, source |-> source, wanted |-> wanted]

\* The default name of a backup has its time in seconds.
BeginBackup(o) ==
  /\ command[o].pc = "idle"
  /\ Goto(o, Begun(<<"backup", second>>, {}, Absent))
  /\ UNCHANGED <<database, second, files, stale, kills>>

\* restore_database with service_stopped: the backup verifies.
BeginRestore(o, p) ==
  /\ command[o].pc = "idle" /\ service = "down"
  /\ Verifies(p)
  /\ Goto(o, Begun(<<"pre-restore", second>>, {p}, files[p].database))
  /\ UNCHANGED <<database, second, files, stale, kills>>

\* Mutated forms: the main file is copied without its log; the files are copied
\* while the service writes.
Snapshot_MainOnly == main
Snapshot_Files == IF log = {} THEN main ELSE Torn

Snapshot == Visible

\* backup_database copies a consistent snapshot to a temporary file and checks it.
Copy(o) ==
  /\ command[o].pc = "copy"
  /\ stale' = (stale \/ Foreign)
  /\ \/ Goto(o, [command[o] EXCEPT !.pc = "publish", !.copy = Snapshot])
     \/ Snapshot = Torn /\ Goto(o, Nothing)
  /\ UNCHANGED <<database, second, files, kills>>

Publish(o) ==
  /\ command[o].pc = "publish"
  /\ files' = [files EXCEPT ![command[o].path].database = command[o].copy]
  /\ Goto(o, [command[o] EXCEPT !.pc = "manifest"])
  /\ UNCHANGED <<database, second, stale, kills>>

AfterManifest(o) ==
  IF command[o].source = {} THEN Nothing ELSE [command[o] EXCEPT !.pc = "fetch"]

WriteManifest(o) ==
  /\ command[o].pc = "manifest"
  /\ files' = [files EXCEPT ![command[o].path].manifest = command[o].copy]
  /\ Goto(o, AfterManifest(o))
  /\ UNCHANGED <<database, second, stale, kills>>

\* The backup is copied beside the target and must still have the hash verified.
FetchBackup(o) ==
  /\ command[o].pc = "fetch"
  /\ \E p \in command[o].source :
       Goto(o, IF files[p].database = command[o].wanted
               THEN [command[o] EXCEPT !.pc = "replace", !.copy = files[p].database]
               ELSE Nothing)
  /\ UNCHANGED <<database, second, files, stale, kills>>

ReplaceMain(o) ==
  /\ command[o].pc = "replace"
  /\ main' = command[o].copy
  /\ Goto(o, [command[o] EXCEPT !.pc = "unlink"])
  /\ UNCHANGED <<version, log, service, second, files, stale, kills>>

\* Mutated form: the old log stays.
LogAfter_Kept == log

LogAfter == {}

UnlinkLog(o) ==
  /\ command[o].pc = "unlink"
  /\ log' = LogAfter
  /\ Goto(o, Nothing)
  /\ UNCHANGED <<version, main, service, second, files, stale, kills>>

KillCommand(o) ==
  /\ command[o].pc # "idle" /\ kills < MaxKills
  /\ Goto(o, Nothing)
  /\ kills' = kills + 1
  /\ UNCHANGED <<database, second, files, stale>>

NextSecond ==
  /\ second < MaxSecond
  /\ second' = second + 1
  /\ UNCHANGED <<database, files, command, stale, kills>>

-----------------------------------------------------------------------------
Run(o) ==
  \/ Copy(o) \/ Publish(o) \/ WriteManifest(o)
  \/ FetchBackup(o) \/ ReplaceMain(o) \/ UnlinkLog(o)

BackupNext ==
  \/ Commit \/ Checkpoint \/ StopService \/ KillService \/ StartService
  \/ \E o \in Operators :
       BeginBackup(o) \/ (\E p \in Paths : BeginRestore(o, p)) \/ Run(o) \/ KillCommand(o)
  \/ NextSecond

BackupSpec == BackupInit /\ [][BackupNext]_backupVars

-----------------------------------------------------------------------------
(* Properties.                                                             *)

Contents == Nat \cup {Torn}

Command ==
  [pc : {"idle", "copy", "publish", "manifest", "fetch", "replace", "unlink"},
   path : Paths, copy : Contents \cup {Absent}, source : SUBSET Paths,
   wanted : Contents \cup {Absent}]

\* Every variable has its type.
BackupTypeOK ==
  /\ version \in Nat /\ main \in Contents /\ service \in {"up", "down"}
  /\ log \subseteq [base : Contents, content : Nat]
  /\ second \in 0..MaxSecond /\ kills \in Nat /\ stale \in BOOLEAN
  /\ files \in [Paths -> [database : Contents \cup {Absent}, manifest : Contents \cup {Absent}]]
  /\ command \in [Operators -> Command]

\* Only a kill leaves a log that is not the main file's behind.
ForeignOnlyByKill ==
  Foreign => kills > 0 \/ \E o \in Operators : command[o].pc = "unlink"

\* A backup that verifies holds the database as of one commit, however commits,
\* checkpoints and kills fall between the steps of the backup.
VerifiedIsCommitted ==
  stale \/ \A p \in Paths : Verifies(p) => files[p].database \in 0..version

Replaces(o) == command[o].pc = "replace" /\ command'[o].pc = "unlink"

\* The main file is replaced only when a backup that verifies holds what the
\* database was, commits that had only reached the log included.
SavedBeforeReplaced ==
  [][\A o \in Operators : Replaces(o) =>
       stale \/ \E p \in Paths : Verifies(p) /\ files[p].database = Visible]_backupVars

\* A restore that runs to its end leaves the database as the backup verified at its
\* start holds it, also after a service that was killed with commits in the log.
RestoreInstalls ==
  [][\A o \in Operators :
       command[o].pc = "unlink" /\ command'[o].pc = "idle" /\ kills' = kills
         => Visible' = command[o].wanted]_backupVars
=============================================================================
