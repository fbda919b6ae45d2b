# Verification of System Monitor (commercial edition)

TLA+ models of the program in `src/commercial/sagar_monitor/` and of the scripts
that install and start it, TLC runs that check them on small instances, and TLAPS
proofs for every size. `PROJECT.json` lists the components, the runs, the lines
each definition models, the hazards and the theorems. Paths below are relative to
`src/commercial/sagar_monitor/` unless they begin with `src/`.

## 1. The system

A central server keeps everything in one SQLite file and serves HTTPS from a
`ThreadingHTTPServer`: a thread per request, a connection per operation, and
mostly one `BEGIN IMMEDIATE` transaction per operation. An edge agent on each
monitored machine runs one cycle after another: register once, turn displayed
messages into receipts, send receipts, sample, send queued heartbeats, sleep. A
notifier in the user's session shows the messages that the agent staged in a
directory. Administrators use a second API of the server; operators run tools on
its database. Nothing in Python is shared between two of these parts but files,
SQLite rows and HTTP exchanges, so the hard behaviour is in the gaps between
transactions, files and messages.

| Component | State | Operations | Interacts with | Hard behaviour |
|---|---|---|---|---|
| Message delivery, `messaging/` | messages, deliveries, receipts, delivery events | queue, claim (sweeps first), acknowledge, record failure, expire, report | called by both APIs | leases, backoff and TTL race; anchors read before the lock is held |
| Edge store, `edge/state.py`, `edge/inbox.py` | pending and displayed files, message cache, receipt queue | stage, mark, complete; cache, next, complete, fail | shared by agent and notifier | crashes between files and rows |
| Agent cycle, `edge/runtime.py`, `edge/transport.py`, `api/agent_application.py` | position in the cycle | promote, flush receipts, flush heartbeats, sleep | HTTP with the server | lost, late and repeated exchanges; timeouts; pauses |
| Heartbeats and history, `edge/counters.py`, `agents/service.py`, `history/incremental.py` | daily counters, heartbeat queue, samples, rollups | sample, enqueue, trim, send, ingest, rebuild | agent to server | overtaking, counter resets, a full queue |
| Enrollment, `agents/registry.py`, credential file | enrollment token, credentials, rotation events, `credential.json` | register, authenticate, rotate, save | three kinds of local processes and the server | a token that is returned once; late saves |
| Administration, `api/application.py`, `security/foundation.py` | users, sessions, rate limits, audit log | login, logout, create user, create token, queue message | queues messages, issues enrollment tokens | effect and audit in two transactions; the chain's head |
| Retention and merge, `database/maintenance.py`, `history/incremental.py` | samples, archive, run log, rollups | archive and prune in batches, merge clients | ingestion | overlapping runs, kills, reused rowids |
| Backup and restore, `server/backup.py` | database and log file, backups, manifests | backup, verify, restore | the running service | kills between file operations; commits only in the log |
| Bootstrap and start, `server/bootstrap.py`, `server/health.py`, `src/hackathon/services/monitor/entrypoint.sh` | database file, migration log, administrators | bootstrap, migrate, health check, serve | container restarts | killed first start, two containers on one volume |
| Server upgrade, `src/commercial/server/ubuntu/install-commercial-server.sh` | version pointer, settings, database, service | the script's commands and its ERR trap | backup, migrations, systemd | failing step, kill, rerun, rollback after service |
| Agent installation id, `edge/state.py`, `edge/runtime.py` | `identity.json`, the id in the credential, in samples and at the server | ensure, register, save, sample | every process of the agent | two processes create it at once; a failed read counts as a missing file |
| Identity resolver and shadow audit, `identity/resolver.py`, `identity/shadow.py` | union-find, the report's counts | resolve, audit | reads the latest rows | independence of the order of rows; whom the counts call a client |
| Evidence ledger, `certification/` | the ledger file and its temporary file | record, finalize, verify | several people's commands | load, change, replace without a lock |
| DORA collector, `src/hackathon/services/dora_collector/app.py` | deployments, incidents | record deployment, record incident, recover, metrics | webhooks, repeated by their senders | late, repeated and corrected reports; times compared as text |
| Private staging mirror, `staging/mirror.py` | the target's visibility and branch, the commit that is expected | sync, issue a runner token | GitHub, other people's changes | everything may change between a look and the command that relies on it |
| AI scorer, dashboard, staging preflight and release, packaging, installers, qualification, infrastructure | | | | see section 7 |

What makes each of them correct is what section 4 checks.

## 2. Modules

| Module | Models | State and actions |
|---|---|---|
| `DeliveryPromise` | the abstract service an operator relies on | `status`, `tries`; `Offer`, `Acknowledge`, `Advance` |
| `MessageDelivery` | the delivery service, one action per transaction | each variable a table; every action takes its anchor time from `Anchors`, which may lag the clock |
| `EdgeStore` | the agent's files and tables about messages | operators for one file replacement or one transaction each; no actions of its own |
| `MessageSystem` | composes `MessageDelivery`, `EdgeStore`, the cycle, a notifier per user session and the network | `agent.pc` is the position in `run_cycle`; requests in `network` are `live` while somebody waits for the answer |
| `HeartbeatHistory` | from a machine's byte counter to the server's rollup | daily counters, queue and cycle on the agent; `Serve` ingests and rebuilds |
| `Enrollment` | registration and rotation with the shared credential file | each process has its own `proc`; saves and requests are separate steps |
| `Administration` | request handlers as sequences of transactions | `thread[t].pc` is the next transaction of the handler |
| `Retention`, `DatabaseBackup`, `FirstStart`, `ServerUpgrade`, `EvidenceLedger`, `IdentityResolver`, `DoraCollector`, `AgentIdentity`, `PrivateMirror` | one tool each, one action per statement, file operation or shell command | named after the code's functions |
| `MC*` | constants for TLC; `MCOperations` composes the nine tools | |
| `MessageDeliveryProofs`, `MessageSystemProofs`, `HeartbeatHistoryProofs`, `EnrollmentProofs`, `AdministrationProofs` | theorems about the module in the name | |
| `DatabaseProofs` | theorems about `Retention` and `DatabaseBackup` | |
| `InstallationProofs` | theorems about `FirstStart`, `AgentIdentity` and `ServerUpgrade` | |
| `ReportProofs` | theorems about `EvidenceLedger`, `DoraCollector`, `PrivateMirror` and `IdentityResolver` | |

A *mutated form* (a definition with a suffix, `FailReceipt_Drops`) is a plausible bug;
no specification uses it. For every checked property `PROJECT.json` names a
mutated form with which TLC finds that property violated.

The tools share nothing in a run: `MCOperations` picks one at first and follows
it. They are checked together only because each is small.

## 3. Plan

Order of work, the most important behaviour first: message delivery and its
refinement of the promise; the end-to-end message path, then with two sessions
and receipts that back off; heartbeats and history; enrollment; administration;
retention, backup, first start, resolver with its audit, upgrade and ledger; DORA
collector, installation id and private mirror. All of it is modelled, checked and
proved about: each safety property of a passing run is a theorem.

Left, in this order:

1. `AgentIdentity` composed with `Enrollment`: each is checked with the other's
   file fixed.
2. The answers 4xx that delay a heartbeat by an hour, and the fourteen days of
   counters, in `HeartbeatHistory`.

## 4. Runs

`tlc -config X.cfg M` in this directory. Every bound is a named CONSTANT.

| Run | Question | Bounds, and why they suffice |
|---|---|---|
| `delivery` | Is the lifecycle of a delivery sound, does it implement the promise, does every message complete? | Two deliveries of the four that two messages and two clients allow (`MaxDeliveries`), so both rivalry for one client's claim of one row and messages to two clients occur. A lease is 2 ticks, lifetimes 3 and 4, an anchor may lag by 1, so sweeps, lapses, retries and expiry overlap in every order; 1 or 2 attempts reach the budget |
| `system_safety` | Do agent, notifiers and server agree about a popup, whatever is lost or crashes? | One message: deliveries meet only in the order of queues, which `delivery` checks. Two sessions with a notifier each, which is what a race for a file takes. Two attempts give a redelivery; one crash of the agent and one of a notifier fall between any two steps |
| `system_liveness` | Is a message displayed in time acknowledged, also behind a receipt that the server refuses for ever? | Two messages, one that expires before its receipt arrives. A tick is half a cycle of the default interval: interval 2, lease 3 (a cycle is 60 s and its own work, so 120 s are just under four ticks; with 4 the property holds too), five attempts, a pause of 10. The delays of refused receipts are those of `_retry_delay`: 5, 10 and 20 s are over by the next cycle, then 2, 3 and 6 ticks, so the refused receipt is the first in the queue for several cycles and the one behind it is leased again meanwhile. Lifetime 21 and a clock to 22: all five leases and the delays up to 6 ticks are reached |
| `slow_agent` (violation) | One message, an interval of 3 ticks against a lease of 2 | finding 1 |
| `heartbeat_days` | Is the rollup what the agent counted? | Two local days, the first of four ticks, so a heartbeat may be sampled before midnight and arrive after; two failures, a reboot of machine or agent. `FailedReads` is off: a counter read as 0 is the reset it looks like, and no rollup can be right then |
| `heartbeat_backlog` | Is anything lost but what a full queue gives up? | A queue of 2 with seven ticks overflows in an outage; one restart |
| `late_heartbeat` (violation) | A backoff longer than the interval | finding 2 |
| `enrollment` | Who can be locked out, and can a file go back? | Two machines compete for one use; four processes per machine, three tokens, two faults |
| `administration` | Are effects, sessions and audit events consistent? | Two threads, three requests, a limit of one attempt, two rate-limit windows, one locked database or killed server. An attempt that waits past its window and a logout between check and use both occur, and both bounds are reached |
| `audit_fork` (violation) | Does the audit chain verify without any fault? | finding 3 |
| `operations` | The nine tools, one per behaviour | Retention: two runs, batches of 2, three samples, three days, a merge. Backup: two seconds (two names), three contents, two kills. Start: two containers, two migrations, two kills. Resolver: every table of up to 4 rows over 2 hostnames, 1 agent id, 2 hardware ids, enough for a chain whose ends share nothing. Upgrade: three releases (first install, upgrade, upgrade after a cut), two cuts, every command failing. Ledger: two people, two results, one kill. DORA: a second of three instants, a window of three, a clock to 5, so every instant of the window's first second occurs; one deployment and one incident in two environments, since rows of different ids never meet. Identity: two processes, an enrollment token of two uses, one failed read, two kills. Mirror: two runs, two commits, two changes by others |
| `first_start_killed` (violation) | Does a container that is restarted come to serve? | finding 4 |

What the properties say is written above each of them. The ones a reader should
know first: `ImplementsPromise` and `NoOvertaking` (delivery); `ShownOnce`,
`DisplayRemembered`, `LocalAckIsServerAck` and `FileGoneToAnother` (system);
`RollupIsLatestTotal` and `NoSampleLost` (history); `LockoutOnlyByLoss` and
`FileNeverGoesBack` (enrollment); `AuditMatchesChanges` and `ForksAreNarrow`
(administration); `LostOnlyByOverlap`, `VerifiedIsCommitted`,
`SavedBeforeReplaced`, `BootstrapOnce`, `RollbackRestores`, `OneIdentity`,
`LedgerKeepsSettled`, `AuditCountsClients`, `FailuresCounted` and `PrivateWhenUsed`
(tools).

`Horizon`, `RetentionHorizon`, `UpgradeHorizon`, `LedgerHorizon` are the
self-loops where a bound, and nothing in the code, ends a history. They let
deadlock be checked everywhere else.

### Exceptions that properties name

Several properties hold unless a history variable says that a condition
occurred. Each condition is a real limitation of the code, reachable in the run:

* `harmed` (`Enrollment`): a registration's or rotation's answer was lost, or the
  process died before it saved. The raw token is returned once, so the machine is
  locked out: every later registration of its id is refused.
* `overlapped` (`Retention`): two retention runs at once can delete a row that
  neither archived, because rows are deleted by rowids read before, and SQLite may
  reuse them.
* `missed` (`Retention`): a merge looks for affected days before its transaction; a
  day of the source that is ingested in between is moved and the target's rollup of
  that day not rebuilt, until the target's next sample of it. The property excepts
  these days only.
* `stale` (`DatabaseBackup`): a restore killed between the replacement and the
  removal of the old log; the next start reads the old log over the new pages.
* `countedTwice` (`FirstStart`): two first starts on one volume both see no user
  and bootstrap two organizations.
* `undone` (`ServerUpgrade`): the rollback of a release that has served (a failed
  remote health check) restores the backup from before and drops its commits.
* `disturbed` (`AgentIdentity`): a read of `identity.json` failed, which counts as a
  missing file, or two processes created it at once and the later replacement won.
  The machine then has a second id, and a second use of the enrollment token. How
  many ids can come in use this way is still bounded, by the processes and the failed
  reads.
* `opened` (`PrivateMirror`): others changed the target after the run's own look at
  its visibility. The look after the push notices it, when the commit is public.
* `starts[i] = 1` (`DoraCollector`): an incident that is recorded again, as a sender
  repeats it, loses its recovery.
* `OwnDay` (`HeartbeatHistory`): a heartbeat counts for the day on which the server
  receives it. One that was sampled before midnight and arrives after it counts
  yesterday's total for today; the properties speak of the other days.
* the window's first second (`FailuresCounted`): `2026-01-01T00:00:00Z` is greater as
  text than `2026-01-01T00:00:00.5Z`, so which reports of that second are in the
  window depends on how their times are written.
* `crowded` (`EvidenceLedger`): two commands at once lose each other's result or
  leave a ledger that is not JSON, since they share one temporary file. While the
  ledger can be read, what was settled in it stays even then.
* `faults` (`Administration`): a handler that is killed, or finds the database locked,
  between its change and its audit event leaves the change without one.
* `late` (`Administration`): an attempt that waits past the end of its window starts a
  count of its own. With these attempts the limit is exceeded, by fewer than there
  are handlers. `revoked` in an effect is the session that a logout overtook: no
  more effects than the other handlers have it.

Also modelled and not flagged by a property: a receipt with a token whose lease
was renewed gets a 401, which the agent takes for a rejected credential and pauses
300 seconds. `LocalInbox.complete` ignores a failed unlink, after which a message is
displayed and acknowledged again: `FileErrors` turns that on, the runs leave it off,
and `PopupSafety` and `FileSafety` assume it off while the other theorems do not.

### Findings

1. `slow_agent`: the configuration accepts a heartbeat interval up to 3600 s but a
   lease is 120 s, so with a long interval every receipt comes after its lease and
   a displayed message is never acknowledged.
2. `late_heartbeat`: a heartbeat that backs off is overtaken by newer ones; the
   smaller total is taken for a restarted counter and the day's traffic is inflated.
3. `audit_fork`: two simultaneous events chain to the same predecessor and
   `verify_audit_chain` fails from then on.
4. `first_start_killed`: a first start killed before its commit leaves a database
   file that no later start bootstraps.

## 5. Fairness

* `MessageDelivery`: time passes, and a client that heartbeats keeps claiming.
  Nothing is fair about `ExpireDue`: no product code calls
  `expire_due_deliveries`, so the sweep inside the claims must be enough.
* `MessageSystem`: the agent's loop runs under a service manager with restart, the
  server answers, time passes. The notifier is never fair: nobody can be made to
  log in.
* `HeartbeatHistory`: the same for the agent; exchanges fail finitely often
  (`MaxFailures`).
* `Retention`: a run that has begun goes on (one process, no waiting). Starting one
  is an operator's decision.
* `FirstStart`: `restart: unless-stopped` in `src/hackathon/docker-compose.yml`
  starts a container that exits.

All of it is weak fairness; no action needs to be taken infinitely often while it
is only sometimes enabled.

## 6. Proofs

`tlapm M.tla`. The theorems hold for all values of the constants that satisfy the
module's named ASSUME; TLC evaluates each of those assumptions on the run's values.
Bounds such as `MaxTime` are arbitrary naturals there.

| Theorem | Establishes | Why the invariant is stronger than the property |
|---|---|---|
| `MessageDeliveryProofs!TypeCorrect`, `DeliverySafety` | types; `LeaseConsistent`, `AcknowledgedOnce`, `WithinBudget` | `RowSafe` relates state, token, lease, attempts and receipts of one row; the sweep and the claim are shown to preserve it row by row |
| `MessageDeliveryProofs!LeaseSafety`, `ReportSafety`, `Refinement` | `LeaseExclusive`, `CompleteIsStable`, `ImplementsPromise` | follow from the same invariant, action by action: every transaction is a step of `DeliveryPromise` or changes nothing of it |
| `MessageDeliveryProofs!TrailSafety` | `AuditTrail` | the events of each row form a path that ends in its state, with one dispatch per attempt; a sweep appends to many rows at once |
| `MessageDeliveryProofs!OrderSafety` | `NoOvertaking`, if every retry delay is at least `AnchorLag` (60 s by default against SQLite's busy timeout of 5 s) | `OrderInv`: a row that waits is due no earlier than its message, and the message of a dispatched row is due already. A claim orders by `next_attempt_at` alone, so otherwise a claim with an old anchor would leave the row out for its message and hand out a later one |
| `MessageSystemProofs!AcknowledgementSafety`, `SystemSafety`, `LocalAckSafety` | `AcknowledgedWasDisplayed`; `DisplayRemembered`; `LocalAckIsServerAck` | `SystemInv`: the server's invariant; `ProcessInv`, at most one live request, which is answered once, and reports only what is in the receipt queue; `DiskInv`, what each file and row implies about the others |
| `MessageSystemProofs!ServerRefinement` | `SystemSpec => Spec` | agent, network and notifiers drive the server only by steps of `MessageDelivery`, so that module's theorems hold in the system |
| `MessageSystemProofs!PopupSafety`, `FileSafety` | `ShownOnce`; `FileGoneToAnother`, if unlinks do not fail | `PopupInv`: a message that is marked is out of every inbox for good and some session is done with it |
| `HeartbeatHistoryProofs!HeartbeatSafety`, `QueueSafety` | `IngestedOnce`; `NoSampleLost` | `Exchange`: an answer that completes a heartbeat exists only once it is stored, and no live request of another is on its way |
| `HeartbeatHistoryProofs!TrafficSafety`, `RollupSafety` | `TrafficNotInflated`; `RollupIsLatestTotal`, if a backoff ends before the next cycle (`Prompt`), the counter can be read and the queue was never full | `HistoryInv`: no total exceeds what the machine transferred (`Accounted`, `Totals`), every cycle finds the whole queue due (`AllDue`), so heartbeats are stored in the order of the queue, with totals that grow (`InOrder`). The rebuilt sum of differences then telescopes to the last total, by induction over the samples |
| `EnrollmentProofs!CredentialSafety`, `UsesSafety`, `FileOnlyAdvances` | `FileFollowsServer`, `LockoutOnlyByLoss`, `VersionChain`; `UsesAreMachines`; `FileNeverGoesBack` | what is on its way in requests and answers is behind the server, and each token is answered once |
| `AdministrationProofs!AuditSafety`, `LogoutSafety` | `AuditIsTrue`, `AuditMatchesChanges`; `LogoutIsFinal` | request numbers identify handlers; an effect's handler is still on its way to the audit. `SessionInv`: with a revoked session nobody passes the check, so its later changes and the threads past their check are fewer than all threads, since the one that logged out is neither |
| `AdministrationProofs!ForkSafety` | `ForksAreNarrow` | the entries that follow a position and the threads that wait to append after it are together no more than the threads |
| `AdministrationProofs!RateSafety` | `RateLimitHolds` | rows of the present window are never deleted before its end. `RateInv`: who deletes a past window's row is not among the threads that still wait with an anchor in it, and only those can count from one again |
| `DatabaseProofs!RetentionSafety`, `RollupSafety` | `LostOnlyByOverlap`, `OnlyOldPruned`, `CompletedMeansPruned`; `RollupCoversTable` | a batch about to be deleted is archived, and its rowids still name the rows that were read |
| `DatabaseProofs!BackupSafety` | `VerifiedIsCommitted`, `ForeignOnlyByKill` | every copy, file and log in flight is a commit's content |
| `DatabaseProofs!RestoreSaves`, `RestoreSafety` | `SavedBeforeReplaced`; `RestoreInstalls`, if no two commands are active at once (`Turns`) | `SavedInv`: while a restore runs, what it has saved is what the database holds (`Saves`), and what it read again is what it verified (`Installs`); the service is stopped and commits nothing |
| `InstallationProofs!StartSafety` | `BootstrapOnce`, `LoggedWasExecuted`, `ServesWithAdmin`, `AdminIsComing` | what each process has already done at its position |
| `InstallationProofs!IdentitySafety` | `OneIdentity` | until something disturbs, every id that a process holds or sends is the one in the file. `CountInv`: the ids in use and the processes that are about to store one are together no more than the processes and the failed reads |
| `InstallationProofs!UpgradeSafety`, `CommitSafety` | `RollbackRestores`; `WritesKept` | `UpgradeInv`: a release that the pointer names has its database (`Based`); the database is as the script found it or there is a backup that equals it (`Backed`); settings that are replaced were copied and come back one after the other (`Copied`) |
| `ReportProofs!LedgerSafety` | `LedgerKeepsSettled`, `CertifiedIsComplete` | the settled facts are also in every document being written and, while somebody writes, in the draft; without overlap there is one command whose draft is its own |
| `ReportProofs!DoraSafety`, `FailuresSafety` | `RecoveryKept`, `RecoveredAfterStart`; `FailuresCounted` | a told recovery of an incident that was recorded once is in its row; the text order of two times differs from their order only within one second |
| `ReportProofs!MirrorSafety` | `PrivateWhenUsed` | a run past its look saw a private target, and only others change it |
| `ReportProofs!ClientsSafety` | `AuditCountsClients` | `Sound`: ranks grow towards the roots, so every row has one root and path compression keeps it; `ResolvedJoins`: after the merge two rows have one root if they are linked, and only if every partition that keeps linked rows together keeps these together. A client is the least set of rows that links do not leave, hence the group |

Every proof has one lemma per action and one step per part of the invariant that
the action can disturb. Some of the proved properties are in no run (`TypeOK`,
`LeaseConsistent`, `WithinBudget`, `VersionChain`, `FileFollowsServer`,
`UsesAreMachines`, `OnlyOldPruned`, `CompletedMeansPruned`, `ForeignOnlyByKill`,
`LoggedWasExecuted`, `ServesWithAdmin`, `AdminIsComing`, `CertifiedIsComplete`,
`RecoveredAfterStart`): they are theorems.

Three of these theorems are about recursive functions: the rebuilt rollup, the
union-find and the merge. The library's induction theorems take an operator as a
parameter, so these proofs use a form of induction over sets instead
(`SetInduction`: a set that holds 0 and every successor of its elements holds every
natural), which follows from the library's well-foundedness of the naturals. That a
recursive function exists, which its definition by `CHOOSE` needs, is proved the
same way (`StepsExist`, `PathSteps`).

Three conditions are hypotheses of theorems and not assumptions of a module,
because the code does not enforce them. `Backoffs` and `Prompt` compare settings:
the defaults satisfy the first, and finding 2 is what happens without the second.
Without `Backoffs` (a retry of 1, anchors that lag by 3, deliveries queued 3 ahead)
TLC finds a claim that overtakes: the code accepts a backoff of one second.
A full queue (`trimmed`) is excluded because the rollup can then be wrong: a late
copy of a heartbeat that the queue gave up is stored after newer ones, and its
smaller total counts as a reset. `Turns`
is what `restore_database` asks for in words (`--confirm-service-stopped`). TLC
checks the properties on instances that satisfy the conditions.

Only model-checked: liveness (`EventuallyComplete`, `DisplayedIsAcknowledged`,
`EventuallyIngested`, `RunsEnd`, `HealsOnceBootstrapped`), which is out of the
prover's reach under fairness.

## 7. What is not modelled

* Text: titles, bodies, metadata, hashes, URL and JSON formats. A token is the
  number of its issue, a hash its position in the chain, a message an identifier.
* One organization; `organization_id` only filters rows.
* In the agent: answers 4xx that are not retried for an hour, corrupt queue
  entries, fourteen days of counters. In the history: averages, peaks, online
  seconds (sums over the same rows as the counters).
* In the upgrade: users, groups and modes, the copying of sources, and a `cp` that
  fails inside the rollback, which the script does not notice. `systemctl stop`
  is taken to stop the service.
* In bootstrap: a changed checksum of a migration, which only refuses to start.
* Installation id: `load_or_create_agent_install_id` (`identity/agent_id.py`), which
  only tests call.
* DORA collector: services, commits, severities, lead times, HTTP framing. A request
  holds the process lock, so requests do not interleave.
* Shadow audit: the extraction of fields from a row's JSON, operating system counts
  and the report's listings.
* Private mirror: the dry run and the checks before the fetch, which only refuse.
* AI scorer (`src/hackathon/services/ai_ops/`): a stateless function in floating
  point with three counters under a lock. Package builder, staging preflight and
  release (read-only checks, constant tables and file copies), certification plan and probes, telemetry collectors, installers and
  uninstallers, dashboard, Kubernetes, Argo and Terraform declarations: pure
  input and output or declarations without a state that two steps share.
  Qualification scenarios: scripted tests of the parts above.
