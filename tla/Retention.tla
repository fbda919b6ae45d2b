------------------------------ MODULE Retention ------------------------------
(***************************************************************************)
(* The history table over its life: samples are ingested and summarised    *)
(* (history/incremental.py), retention runs archive and prune old rows     *)
(* batch by batch (database/maintenance.py), and two clients that turn out *)
(* to be one are merged (merge_canonical_clients).  Each of them works on  *)
(* a connection of its own; only single statements and transactions are    *)
(* atomic.                                                                 *)
(*                                                                         *)
(* A row's content is its sample, client and day; a daily rollup is the    *)
(* set of the samples it was computed from.  The policy requires an        *)
(* archive, as it does by default.                                         *)
(***************************************************************************)
EXTENDS Integers, Sequences, FiniteSets, FiniteSetsExt

CONSTANTS
  MaxSamples,    \* bound on samples, numbered as they are ingested
  Clients,
  Maintainers,   \* processes that may run archive_and_prune
  BatchSize,
  RetentionDays, \* at least 1
  MaxDay,        \* bound on the calendar
  MaxMerges,     \* bound on merges
  MaxAborts      \* bound on runs that fail or are killed

ASSUME RetentionAssumption ==
  /\ MaxSamples \in Nat /\ BatchSize \in Nat \ {0} /\ RetentionDays \in Nat \ {0}
  /\ MaxDay \in Nat /\ MaxMerges \in Nat /\ MaxAborts \in Nat

VARIABLES
  day,        \* today
  rows,       \* history_samples_v1
  rollup,     \* history_daily_rollup_v1: client -> day -> samples, {} if absent
  archive,    \* archived_history_samples_v1, keyed by the hash of the content
  job,        \* maintainer -> its retention run
  completed,  \* cutoffs of the runs recorded as completed
  merge,      \* the merge in progress
  ingested,   \* history: the days of the samples ingested so far
  overlapped, \* history: two retention runs were active at once
  missed,     \* history: <<client, day>> whose rollup a merge should have rebuilt
  merges, aborts

table == <<rows, rollup>>
history == <<ingested, overlapped, missed, merges, aborts>>
retentionVars == <<day, table, archive, job, completed, merge, history>>

Days == 0..MaxDay
Samples == 1..MaxSamples
Content(r) == [sample |-> r.sample, client |-> r.client, day |-> r.day]
NoJob == [pc |-> "idle", cutoff |-> 0, batch |-> {}]
NoMerge == [source |-> {}, target |-> {}, days |-> {}]

RetentionInit ==
  /\ day = 0
  /\ rows = {} /\ archive = {} /\ completed = {}
  /\ rollup = [c \in Clients |-> [d \in Days |-> {}]]
  /\ job = [m \in Maintainers |-> NoJob]
  /\ merge = NoMerge
  /\ ingested = <<>>
  /\ overlapped = FALSE /\ missed = {}
  /\ merges = 0 /\ aborts = 0

\* rebuild_rollup_for_key: what the rows of one client and day amount to.
Summary(table_, c, d) == {r.sample : r \in {x \in table_ : x.client = c /\ x.day = d}}

\* SQLite: one more than the largest rowid in the table, so that the rowid of a
\* deleted row may be used again.
NextRowid == 1 + (IF rows = {} THEN 0 ELSE Max({r.rowid : r \in rows}))

\* Mutated form: the rollup is not rebuilt.
IngestRollup_Stale(r) == rollup

IngestRollup(r) ==
  [rollup EXCEPT ![r.client][r.day] = Summary(rows \cup {r}, r.client, r.day)]

\* ingest_event of a heartbeat received today; an event is handed over once
\* (HeartbeatHistory, IngestedOnce).
Ingest(c) ==
  /\ Len(ingested) < MaxSamples
  /\ LET r == [rowid |-> NextRowid, sample |-> Len(ingested) + 1, client |-> c, day |-> day]
     IN rows' = rows \cup {r} /\ rollup' = IngestRollup(r)
  /\ ingested' = Append(ingested, day)
  /\ missed' = missed \ {<<c, day>>}
  /\ UNCHANGED <<day, archive, job, completed, merge, overlapped, merges, aborts>>

-----------------------------------------------------------------------------
(* archive_and_prune.                                                      *)

SetJob(m, j) == job' = [job EXCEPT ![m] = j]

Old(cutoff) == {r \in rows : r.day < cutoff}

\* create_retention_plan finds rows; the run is recorded as running.
StartRetention(m) ==
  /\ job[m].pc = "idle"
  /\ Old(day - RetentionDays) # {}
  /\ SetJob(m, [pc |-> "fetch", cutoff |-> day - RetentionDays, batch |-> {}])
  /\ overlapped' = (overlapped \/ \E n \in Maintainers : job[n].pc # "idle")
  /\ UNCHANGED <<day, table, archive, completed, merge, ingested, missed, merges, aborts>>

Older(r, s) == r.day < s.day \/ (r.day = s.day /\ r.rowid < s.rowid)

\* ORDER BY the timestamp and rowid, LIMIT BatchSize.
Batch(old) == {r \in old : Cardinality({s \in old : Older(s, r)}) < BatchSize}

Fetch(m) ==
  /\ job[m].pc = "fetch"
  /\ Old(job[m].cutoff) # {}
  /\ SetJob(m, [job[m] EXCEPT !.pc = "copy", !.batch = Batch(Old(job[m].cutoff))])
  /\ UNCHANGED <<day, table, archive, completed, merge, history>>

\* Mutated form: of the batch only the first row is inserted.
Copied_First(batch) == {Content(r) : r \in {x \in batch : \A s \in batch : ~Older(s, x)}}

Copied(batch) == {Content(r) : r \in batch}

\* The batch is committed in the archive and found there by its hashes.
CopyBatch(m) ==
  /\ job[m].pc = "copy"
  /\ archive' = archive \cup Copied(job[m].batch)
  /\ SetJob(m, [job[m] EXCEPT !.pc = "delete"])
  /\ UNCHANGED <<day, table, completed, merge, history>>

\* Mutated form: nothing is committed.
Prune_RolledBack(rowids) == UNCHANGED table

\* DELETE ... WHERE rowid IN (...)
Prune(rowids) ==
  /\ rows' = {r \in rows : r.rowid \notin rowids}
  /\ UNCHANGED rollup

DeleteBatch(m) ==
  /\ job[m].pc = "delete"
  /\ Prune({r.rowid : r \in job[m].batch})
  /\ SetJob(m, [job[m] EXCEPT !.pc = "fetch", !.batch = {}])
  /\ UNCHANGED <<day, archive, completed, merge, history>>

NothingLeft(m) == Old(job[m].cutoff) = {}

Complete(m) ==
  /\ job[m].pc = "fetch"
  /\ NothingLeft(m)
  /\ completed' = completed \cup {job[m].cutoff}
  /\ SetJob(m, NoJob)
  /\ UNCHANGED <<day, table, archive, merge, history>>

\* A locked database ends the run as failed; a killed one is recorded as running
\* for ever.
Abort(m) ==
  /\ job[m].pc # "idle"
  /\ aborts < MaxAborts
  /\ aborts' = aborts + 1
  /\ SetJob(m, NoJob)
  /\ UNCHANGED <<day, table, archive, completed, merge, ingested, overlapped, missed, merges>>

-----------------------------------------------------------------------------
(* merge_canonical_clients.                                                *)

DaysOf(cs) == {r.day : r \in {x \in rows : x.client \in cs}}

\* The affected days are read before the transaction begins.
BeginMerge(source, target) ==
  /\ merge = NoMerge /\ source # target /\ merges < MaxMerges
  /\ merge' = [source |-> {source}, target |-> {target}, days |-> DaysOf({source, target})]
  /\ merges' = merges + 1
  /\ UNCHANGED <<day, table, archive, job, completed, ingested, overlapped, missed, aborts>>

\* The days of the source that were not read, for the rows that the target gets with
\* them; what the source missed is rebuilt or is the target's now.
Missed(source, target) ==
  {p \in missed : p[1] # source /\ ~(p[1] = target /\ p[2] \in merge.days)}
    \cup {target} \X (DaysOf({source}) \ merge.days)

CommitMerge ==
  /\ merge # NoMerge
  /\ \E source \in merge.source, target \in merge.target :
       /\ rows' = {[r EXCEPT !.client = IF @ = source THEN target ELSE @] : r \in rows}
       /\ rollup' = [c \in Clients |-> [d \in Days |->
            IF c = source THEN {}
            ELSE IF c = target /\ d \in merge.days THEN Summary(rows', target, d)
            ELSE rollup[c][d]]]
       /\ missed' = Missed(source, target)
  /\ merge' = NoMerge
  /\ UNCHANGED <<day, archive, job, completed, ingested, overlapped, merges, aborts>>

NextDay ==
  /\ day < MaxDay
  /\ day' = day + 1
  /\ UNCHANGED <<table, archive, job, completed, merge, history>>

\* Calendar and samples are bounded: a history ends when nothing is left to do.
RetentionHorizon ==
  /\ day = MaxDay /\ merge = NoMerge
  /\ Len(ingested) = MaxSamples
  /\ \A m \in Maintainers : job[m].pc = "idle"
  /\ UNCHANGED retentionVars

-----------------------------------------------------------------------------
Work(m) == Fetch(m) \/ CopyBatch(m) \/ DeleteBatch(m) \/ Complete(m)

RetentionNext ==
  \/ \E c \in Clients : Ingest(c)
  \/ \E m \in Maintainers : StartRetention(m) \/ Work(m) \/ Abort(m)
  \/ \E c, d \in Clients : BeginMerge(c, d)
  \/ CommitMerge \/ NextDay \/ RetentionHorizon

\* A run that was started goes on until it ends.
RetentionFairness == \A m \in Maintainers : WF_retentionVars(Work(m))

RetentionSpec == RetentionInit /\ [][RetentionNext]_retentionVars

-----------------------------------------------------------------------------
(* Properties.                                                             *)

Row == [rowid : Nat \ {0}, sample : Samples, client : Clients, day : Days]

Stored == {r.sample : r \in rows}
Archived == {a.sample : a \in archive}

\* A sample that was ingested is in the table or in the archive, whenever a run is
\* killed and whoever merges clients meanwhile; only runs that overlap can lose one.
LostOnlyByOverlap ==
  overlapped \/ \A s \in DOMAIN ingested : s \in Stored \cup Archived

\* Only samples older than the retention period leave the table.
OnlyOldPruned ==
  overlapped \/ \A s \in DOMAIN ingested :
    s \notin Stored => ingested[s] + RetentionDays < day

\* Each stored sample is counted in the rollup of its client and day, however samples,
\* merges and retention runs interleave.  A day of the source that is ingested between
\* the merge's look and its transaction is missing in the target's rollup, that day
\* alone, and no longer than until the target's next sample of it.
RollupCoversTable ==
  \A r \in rows : <<r.client, r.day>> \in missed \/ r.sample \in rollup[r.client][r.day]

\* A completed run left nothing older than its cutoff, and nothing older comes back.
CompletedMeansPruned == \A cutoff \in completed : Old(cutoff) = {}

\* Every retention run ends, however many rows it has to prune.
RunsEnd == \A m \in Maintainers : job[m].pc # "idle" ~> job[m].pc = "idle"
=============================================================================
