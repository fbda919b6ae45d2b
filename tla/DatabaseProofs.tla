---------------------------- MODULE DatabaseProofs ----------------------------
(***************************************************************************)
(* Proofs about what works on the database file beside the server: history *)
(* retention, for any number of runs, merges, samples and days, and backup *)
(* and restore, for any number of commands at once, commits and kills.     *)
(***************************************************************************)
EXTENDS Retention, DatabaseBackup, WellFoundedInduction, SequenceTheorems, TLAPS

-----------------------------------------------------------------------------
(* History retention.                                                      *)

\* A set of naturals that is bounded has a maximum: its least bound.
LEMMA MaxOfBounded ==
  ASSUME NEW S \in SUBSET Nat, NEW x \in S, NEW n \in Nat, \A y \in S : y <= n
  PROVE  Max(S) \in S /\ \A y \in S : y <= Max(S)
<1> DEFINE R == {ab \in Nat \X Nat : ab[1] < ab[2]}
<1> DEFINE U == {k \in Nat : \A y \in S : y <= k}
<1>1. \A a, b \in Nat : <<a, b>> \in R <=> a < b OBVIOUS
<1>2. IsWellFoundedOn(R, Nat) BY NatLessThanWellFounded DEF OpToRel
<1> HIDE DEF R
<1>3. U \subseteq Nat /\ n \in U OBVIOUS
<1>4. PICK k \in U : \A j \in U : ~(<<j, k>> \in R) BY <1>2, <1>3, WFMin
<1>5. \A j \in U : j >= k
  <2> HIDE DEF U
  <2> TAKE j \in U
  <2>1. j \in Nat /\ k \in Nat BY <1>3
  <2>2. ~(j < k) BY <1>1, <1>4, <2>1, Zenon
  <2> QED BY <2>1, <2>2
<1>6. k \in S
  <2> SUFFICES ASSUME k \notin S PROVE FALSE
    OBVIOUS
  <2>1. \A y \in S : y < k /\ y \in Nat OBVIOUS
  <2>2. k - 1 \in U BY <2>1
  <2> QED BY <1>5, <2>2
<1>7. \E m \in S : \A y \in S : m >= y BY <1>6
<1> QED BY <1>7 DEF Max

-----------------------------------------------------------------------------
(* The inductive invariant.                                                *)

Job == [pc : {"idle", "fetch", "copy", "delete"}, cutoff : Int, batch : SUBSET Row]

Typed ==
  /\ day \in Days /\ rows \subseteq Row
  /\ rollup \in [Clients -> [Days -> SUBSET Samples]]
  /\ job \in [Maintainers -> Job]
  /\ merge.source \subseteq Clients /\ merge.target \subseteq Clients /\ merge.days \subseteq Days
  /\ merge.source \cap merge.target = {}
  /\ ingested \in Seq(Days) /\ Len(ingested) <= MaxSamples
  /\ overlapped \in BOOLEAN

\* Each row is a sample of the past under a rowid of its own.
Past ==
  /\ \A s \in DOMAIN ingested : ingested[s] <= day
  /\ \A r \in rows : r.sample \in DOMAIN ingested /\ r.day = ingested[r.sample]
  /\ \A r \in rows : r.rowid <= Len(ingested)
  /\ \A r, s \in rows : r.rowid = s.rowid => r = s

Cutoffs ==
  /\ \A m \in Maintainers : job[m].pc # "idle" => job[m].cutoff <= day - RetentionDays
  /\ \A cutoff \in completed : cutoff \in Int /\ cutoff <= day - RetentionDays

SameRow(r, b) == r.rowid = b.rowid /\ r.sample = b.sample /\ r.day = b.day

\* One run at a time: its batch is old, is still in the table under its rowids, and
\* is in the archive before it is deleted.
BatchOk(j, table_, archived) ==
  /\ j.pc \in {"copy", "delete"} =>
       \A b \in j.batch : b.day < j.cutoff /\ \E r \in table_ : SameRow(r, b)
  /\ j.pc = "delete" => \A b \in j.batch : b.sample \in archived

Single ==
  /\ \A m, n \in Maintainers : job[m].pc # "idle" /\ job[n].pc # "idle" => m = n
  /\ \A m \in Maintainers : BatchOk(job[m], rows, Archived)
  /\ \A s \in DOMAIN ingested : s \in Stored \cup Archived
  /\ \A s \in DOMAIN ingested : s \notin Stored => ingested[s] + RetentionDays < day

RetentionInv ==
  /\ Typed /\ Past /\ Cutoffs
  /\ CompletedMeansPruned /\ RollupCoversTable
  /\ overlapped \/ Single

-----------------------------------------------------------------------------
LEMMA NextRowidIsNew ==
  ASSUME Typed, Past
  PROVE  /\ NextRowid \in Nat \ {0} /\ NextRowid <= Len(ingested) + 1
         /\ \A r \in rows : r.rowid < NextRowid
<1>1. Len(ingested) \in Nat BY DEF Typed
<1>2. CASE rows = {} BY <1>1, <1>2 DEF NextRowid
<1>3. CASE rows # {}
  <2> DEFINE S == {r.rowid : r \in rows}
  <2>1. \A r \in rows : r.rowid \in Nat /\ r.rowid <= Len(ingested) BY DEF Typed, Past, Row
  <2>2. S \in SUBSET Nat /\ \A y \in S : y <= Len(ingested) BY <2>1
  <2>3. PICK x \in S : TRUE BY <1>3
  <2>4. NextRowid = 1 + Max(S) BY <1>3 DEF NextRowid
  <2>5. \A r \in rows : r.rowid \in S OBVIOUS
  <2> HIDE DEF S
  <2>6. Max(S) \in S /\ \A y \in S : y <= Max(S) BY <1>1, <2>2, <2>3, MaxOfBounded
  <2>7. Max(S) \in Nat /\ Max(S) <= Len(ingested) BY <2>2, <2>6
  <2>8. \A r \in rows : r.rowid \in Nat /\ r.rowid <= Max(S) BY <2>2, <2>5, <2>6
  <2>9. \A r \in rows : r.rowid < NextRowid BY <2>4, <2>7, <2>8
  <2> QED BY <1>1, <2>4, <2>7, <2>9
<1> QED BY <1>2, <1>3

LEMMA SetJobChanges ==
  ASSUME Typed, NEW m \in Maintainers, NEW j \in Job, SetJob(m, j)
  PROVE  /\ job' \in [Maintainers -> Job] /\ job'[m] = j
         /\ \A n \in Maintainers : n # m => job'[n] = job[n]
  BY DEF Typed, SetJob

\* A step of a run that leaves the table as it is.
LEMMA JobStep ==
  ASSUME RetentionInv, NEW m \in Maintainers, NEW j \in Job, SetJob(m, j),
         UNCHANGED <<day, table, merge, ingested, missed>>,
         archive \subseteq archive', overlapped' \in BOOLEAN, overlapped => overlapped',
         completed' = completed \/ (completed' = completed \cup {job[m].cutoff} /\ NothingLeft(m)
                                    /\ job[m].pc # "idle"),
         j.pc # "idle" => j.cutoff <= day - RetentionDays,
         job[m].pc = "idle" => j.pc = "idle" \/ overlapped' \/ \A n \in Maintainers : job[n].pc = "idle",
         Single => BatchOk(j, rows, Archived')
  PROVE  RetentionInv'
<1>1. /\ job' \in [Maintainers -> Job] /\ job'[m] = j
      /\ \A n \in Maintainers : n # m => job'[n] = job[n]
  BY SetJobChanges DEF RetentionInv
<1>2. UNCHANGED <<rows, rollup>> BY DEF table
<1>3. Typed' BY <1>1, <1>2 DEF RetentionInv, Typed
<1>4. Past' BY <1>2 DEF RetentionInv, Past
<1>5. Cutoffs'
  <2>1. job[m].cutoff \in Int BY DEF RetentionInv, Typed, Job
  <2> QED BY <1>1, <1>2, <2>1 DEF RetentionInv, Cutoffs
<1>6. CompletedMeansPruned' BY <1>2 DEF RetentionInv, CompletedMeansPruned, NothingLeft, Old
<1>7. RollupCoversTable' BY <1>2 DEF RetentionInv, RollupCoversTable
<1>8. (overlapped \/ Single)'
  <2> SUFFICES ASSUME ~overlapped' PROVE Single'
    OBVIOUS
  <2>1. Single BY DEF RetentionInv
  <2>2. Archived \subseteq Archived' /\ Stored' = Stored BY <1>2 DEF Archived, Stored
  <2>3. \A n, k \in Maintainers : job'[n].pc # "idle" /\ job'[k].pc # "idle" => n = k
    BY <1>1, <2>1 DEF Single
  <2>4. \A n \in Maintainers : BatchOk(job'[n], rows, Archived')
    BY <1>1, <2>1, <2>2 DEF Single, BatchOk
  <2> QED BY <1>2, <2>1, <2>2, <2>3, <2>4 DEF Single
<1> QED BY <1>3, <1>4, <1>5, <1>6, <1>7, <1>8 DEF RetentionInv
LEMMA IngestStep ==
  ASSUME RetentionInv, NEW c \in Clients, Ingest(c)
  PROVE  RetentionInv'
<1> DEFINE x == [rowid |-> NextRowid, sample |-> Len(ingested) + 1, client |-> c, day |-> day]
<1>1. /\ Len(ingested) < MaxSamples /\ rows' = rows \cup {x} /\ ingested' = Append(ingested, day)
      /\ rollup' = [rollup EXCEPT ![c][day] = Summary(rows \cup {x}, c, day)]
      /\ missed' = missed \ {<<c, day>>}
      /\ UNCHANGED <<day, archive, job, completed, merge, overlapped>>
  BY DEF Ingest, IngestRollup
<1>2. /\ Len(ingested) \in Nat /\ day \in Days /\ day \in Nat
      /\ ingested \in Seq(Days)
  BY RetentionAssumption DEF RetentionInv, Typed, Days
<1>3. /\ NextRowid \in Nat \ {0} /\ NextRowid <= Len(ingested) + 1
      /\ \A r \in rows : r.rowid < NextRowid
  BY NextRowidIsNew DEF RetentionInv
<1>4. /\ x \in Row /\ x.rowid = NextRowid /\ x.sample = Len(ingested) + 1
      /\ x.client = c /\ x.day = day
  BY <1>1, <1>2, <1>3, RetentionAssumption DEF Row, Samples
<1> HIDE DEF x
<1>5. /\ Len(ingested') = Len(ingested) + 1 /\ ingested' \in Seq(Days)
      /\ DOMAIN ingested = 1..Len(ingested) /\ DOMAIN ingested' = 1..Len(ingested) + 1
      /\ ingested'[Len(ingested) + 1] = day
  BY <1>1, <1>2
<1>6. \A s \in DOMAIN ingested : s \in DOMAIN ingested' /\ ingested'[s] = ingested[s] /\ s # Len(ingested) + 1
  BY <1>1, <1>2, <1>5
<1>7. \A s \in DOMAIN ingested' : s \in DOMAIN ingested \/ s = Len(ingested) + 1 BY <1>2, <1>5
<1>8. Typed'
  <2>1. rows' \subseteq Row BY <1>1, <1>4 DEF RetentionInv, Typed
  <2>2. Len(ingested') <= MaxSamples BY <1>1, <1>2, <1>5, RetentionAssumption
  <2>3. Summary(rows \cup {x}, c, day) \in SUBSET Samples
    BY <1>4 DEF Summary, RetentionInv, Typed, Row
  <2>4. rollup' \in [Clients -> [Days -> SUBSET Samples]]
    <3> DEFINE new == [rollup[c] EXCEPT ![day] = Summary(rows \cup {x}, c, day)]
    <3>1. new \in [Days -> SUBSET Samples] BY <1>2, <2>3 DEF RetentionInv, Typed
    <3>2. rollup' = [rollup EXCEPT ![c] = new] BY <1>1
    <3> HIDE DEF new
    <3> QED BY <3>1, <3>2 DEF RetentionInv, Typed
  <2> QED BY <1>1, <1>5, <2>1, <2>2, <2>4 DEF RetentionInv, Typed
<1>9. Past'
  <2>1. \A s \in DOMAIN ingested' : ingested'[s] <= day'
    BY <1>1, <1>2, <1>5, <1>6, <1>7 DEF RetentionInv, Past
  <2>2. \A r \in rows' : r.sample \in DOMAIN ingested' /\ r.day = ingested'[r.sample]
    BY <1>1, <1>2, <1>4, <1>5, <1>6 DEF RetentionInv, Past
  <2>3. \A r \in rows' : r.rowid <= Len(ingested')
    <3>1. \A r \in rows : r.rowid \in Nat /\ r.rowid <= Len(ingested) BY DEF RetentionInv, Past, Typed, Row
    <3> QED BY <1>1, <1>2, <1>3, <1>4, <1>5, <3>1
  <2>4. \A r, s \in rows' : r.rowid = s.rowid => r = s
    <3>1. \A r \in rows : r.rowid \in Nat /\ r.rowid # NextRowid BY <1>3 DEF RetentionInv, Typed, Row
    <3> QED BY <1>1, <1>4, <3>1 DEF RetentionInv, Past
  <2> QED BY <2>1, <2>2, <2>3, <2>4 DEF Past
<1>10. Cutoffs' BY <1>1 DEF RetentionInv, Cutoffs
<1>11. CompletedMeansPruned'
  <2>1. \A cutoff \in completed : cutoff \in Int /\ cutoff < day
    BY <1>2, RetentionAssumption DEF RetentionInv, Cutoffs
  <2> QED BY <1>1, <1>2, <1>4, <2>1 DEF RetentionInv, CompletedMeansPruned, Old
<1>12. RollupCoversTable'
  <2> SUFFICES ASSUME NEW r \in rows', <<r.client, r.day>> \notin missed'
               PROVE  r.sample \in rollup'[r.client][r.day]
    BY DEF RollupCoversTable
  <2>1. r \in Row BY <1>8 DEF Typed
  <2>2. r.client \in Clients /\ r.day \in Days BY <2>1 DEF Row
  <2>3. rollup'[r.client][r.day] = IF r.client = c /\ r.day = day
                                   THEN Summary(rows \cup {x}, c, day) ELSE rollup[r.client][r.day]
    BY <1>1, <1>2, <2>2 DEF RetentionInv, Typed
  <2>4. CASE r.client = c /\ r.day = day BY <1>1, <2>3, <2>4 DEF Summary
  <2>5. CASE ~(r.client = c /\ r.day = day)
    <3>1. r \in rows BY <1>1, <1>4, <2>5
    <3>2. <<r.client, r.day>> \notin missed BY <1>1, <2>5
    <3> QED BY <2>3, <2>5, <3>1, <3>2 DEF RetentionInv, RollupCoversTable
  <2> QED BY <2>4, <2>5
<1>13. (overlapped \/ Single)'
  <2> SUFFICES ASSUME ~overlapped PROVE Single'
    BY <1>1
  <2>1. Single BY DEF RetentionInv
  <2>2. /\ Archived' = Archived /\ Stored \subseteq Stored' /\ x.sample \in Stored'
    BY <1>1 DEF Archived, Stored
  <2>3. \A m \in Maintainers : BatchOk(job'[m], rows', Archived')
    BY <1>1, <2>1, <2>2 DEF Single, BatchOk
  <2>4. \A s \in DOMAIN ingested' : s \in Stored' \cup Archived'
    BY <1>4, <1>7, <2>1, <2>2 DEF Single
  <2>5. \A s \in DOMAIN ingested' : s \notin Stored' => ingested'[s] + RetentionDays < day'
    BY <1>1, <1>4, <1>6, <1>7, <2>1, <2>2 DEF Single
  <2> QED BY <1>1, <2>1, <2>3, <2>4, <2>5 DEF Single
<1> QED BY <1>8, <1>9, <1>10, <1>11, <1>12, <1>13 DEF RetentionInv

LEMMA DeleteStep ==
  ASSUME RetentionInv, NEW m \in Maintainers, DeleteBatch(m)
  PROVE  RetentionInv'
<1> DEFINE q == [job[m] EXCEPT !.pc = "fetch"]
<1> DEFINE j == [q EXCEPT !.batch = {}]
<1> DEFINE batch == job[m].batch
<1>1. job[m] \in Job BY DEF RetentionInv, Typed
<1>2. /\ j \in Job /\ j.pc = "fetch" /\ j.cutoff = job[m].cutoff
      /\ [job[m] EXCEPT !.pc = "fetch", !.batch = {}] = j
  <2>1. [job[m] EXCEPT !.pc = "fetch", !.batch = {}] = j BY <1>1 DEF Job
  <2>2. q \in Job /\ q.pc = "fetch" /\ q.cutoff = job[m].cutoff BY <1>1 DEF Job
  <2> HIDE DEF q
  <2>3. j \in Job /\ j.pc = q.pc /\ j.cutoff = q.cutoff BY <2>2 DEF Job
  <2> HIDE DEF j
  <2> QED BY <2>1, <2>2, <2>3
<1>3. /\ job[m].pc = "delete" /\ SetJob(m, j)
      /\ rows' = {r \in rows : r.rowid \notin {b.rowid : b \in batch}}
      /\ UNCHANGED <<rollup, day, archive, completed, merge, ingested, overlapped, missed>>
  BY <1>2 DEF DeleteBatch, Prune, history
<1> HIDE DEF j, q
<1>4. /\ job' \in [Maintainers -> Job] /\ job'[m] = j
      /\ \A n \in Maintainers : n # m => job'[n] = job[n]
  BY <1>2, <1>3, SetJobChanges DEF RetentionInv
<1>5. rows' \subseteq rows BY <1>3
<1>6. Typed' BY <1>3, <1>4, <1>5 DEF RetentionInv, Typed
<1>7. Past' BY <1>3, <1>5 DEF RetentionInv, Past
<1>8. Cutoffs' BY <1>2, <1>3, <1>4 DEF RetentionInv, Cutoffs
<1>9. CompletedMeansPruned' BY <1>3, <1>5 DEF RetentionInv, CompletedMeansPruned, Old
<1>10. RollupCoversTable' BY <1>3, <1>5 DEF RetentionInv, RollupCoversTable
<1>11. (overlapped \/ Single)'
  <2> SUFFICES ASSUME ~overlapped PROVE Single'
    BY <1>3
  <2>1. Single BY DEF RetentionInv
  <2>2. \A n \in Maintainers : n # m => job[n].pc = "idle" BY <1>3, <2>1 DEF Single
  <2>3. \A n \in Maintainers : BatchOk(job'[n], rows', Archived')
    BY <1>2, <1>4, <2>2 DEF BatchOk
  <2>4. \A n, k \in Maintainers : job'[n].pc # "idle" /\ job'[k].pc # "idle" => n = k
    BY <1>4, <2>2
  \* A row that the rowids hit is the one that was fetched.
  <2>5. \A r \in rows : r \notin rows' => r.sample \in Archived /\ r.day < job[m].cutoff
    <3> SUFFICES ASSUME NEW r \in rows, r \notin rows'
                 PROVE  r.sample \in Archived /\ r.day < job[m].cutoff
      OBVIOUS
    <3>1. PICK b \in batch : r.rowid = b.rowid BY <1>3
    <3>2. b.sample \in Archived /\ b.day < job[m].cutoff /\ \E t \in rows : SameRow(t, b)
      BY <1>3, <2>1 DEF Single, BatchOk
    <3>3. PICK t \in rows : SameRow(t, b) BY <3>2
    <3>4. r = t BY <3>1, <3>3 DEF RetentionInv, Past, SameRow
    <3> QED BY <3>2, <3>3, <3>4 DEF SameRow
  <2>6. Archived' = Archived BY <1>3 DEF Archived
  <2>7. \A s \in Stored : s \in Stored' \/ \E r \in rows : r \notin rows' /\ r.sample = s
    BY DEF Stored
  <2>8. \A s \in DOMAIN ingested : s \in Stored' \cup Archived'
    BY <2>1, <2>5, <2>6, <2>7 DEF Single
  <2>9. \A s \in DOMAIN ingested : s \notin Stored' => ingested[s] + RetentionDays < day
    <3> SUFFICES ASSUME NEW s \in DOMAIN ingested, s \notin Stored', s \in Stored
                 PROVE  ingested[s] + RetentionDays < day
      BY <2>1 DEF Single
    <3>1. PICK r \in rows : r \notin rows' /\ r.sample = s BY <2>7
    <3>2. r.day = ingested[s] /\ r.day \in Int /\ r.day < job[m].cutoff
      BY <2>5, <3>1 DEF RetentionInv, Past, Typed, Row, Days
    <3>3. job[m].cutoff \in Int /\ job[m].cutoff <= day - RetentionDays /\ day \in Int
      BY <1>1, <1>3 DEF RetentionInv, Cutoffs, Job, Typed, Days
    <3> QED BY <3>2, <3>3, RetentionAssumption
  <2> QED BY <1>3, <2>3, <2>4, <2>8, <2>9 DEF Single
<1> QED BY <1>6, <1>7, <1>8, <1>9, <1>10, <1>11 DEF RetentionInv
\* The rows of the source become the target's; a day that was not read before the
\* transaction is what `missed` records.
LEMMA CommitStep ==
  ASSUME RetentionInv, CommitMerge
  PROVE  RetentionInv'
<1>1. PICK source \in merge.source, target \in merge.target :
        /\ rows' = {[r EXCEPT !.client = IF @ = source THEN target ELSE @] : r \in rows}
        /\ rollup' = [c \in Clients |-> [d \in Days |->
             IF c = source THEN {}
             ELSE IF c = target /\ d \in merge.days THEN Summary(rows', target, d)
             ELSE rollup[c][d]]]
        /\ missed' = Missed(source, target)
  BY DEF CommitMerge
<1>2. /\ merge' = NoMerge
      /\ UNCHANGED <<day, archive, job, completed, ingested, overlapped>>
  BY DEF CommitMerge
<1>3. source \in Clients /\ target \in Clients BY DEF RetentionInv, Typed
<1> DEFINE Moved(r) == [r EXCEPT !.client = IF @ = source THEN target ELSE @]
<1>4. \A r \in rows : /\ Moved(r) \in Row /\ Moved(r).rowid = r.rowid
                      /\ Moved(r).sample = r.sample /\ Moved(r).day = r.day
                      /\ Moved(r).client = IF r.client = source THEN target ELSE r.client
  BY <1>3 DEF RetentionInv, Typed, Row
<1>5. rows' = {Moved(r) : r \in rows} BY <1>1
<1> HIDE DEF Moved
<1>6. /\ \A r \in rows : Moved(r) \in rows'
      /\ \A t \in rows' : \E r \in rows : t = Moved(r)
  BY <1>5
<1>7. Typed'
  <2>1. rows' \subseteq Row BY <1>4, <1>6
  <2>2. \A d \in Days : Summary(rows', target, d) \in SUBSET Samples
    BY <2>1 DEF Summary, Row
  <2>3. rollup' \in [Clients -> [Days -> SUBSET Samples]]
    <3>1. \A c \in Clients, d \in Days : rollup[c][d] \in SUBSET Samples BY DEF RetentionInv, Typed
    <3> QED BY <1>1, <2>2, <3>1
  <2>4. merge'.source \subseteq Clients /\ merge'.target \subseteq Clients /\ merge'.days \subseteq Days
    BY <1>2 DEF NoMerge
  <2>5. merge'.source \cap merge'.target = {} BY <1>2 DEF NoMerge
  <2> QED BY <1>2, <2>1, <2>3, <2>4, <2>5 DEF RetentionInv, Typed
<1>8. Past' BY <1>2, <1>4, <1>6 DEF RetentionInv, Past
<1>9. Cutoffs' BY <1>2 DEF RetentionInv, Cutoffs
<1>10. CompletedMeansPruned'
  <2> SUFFICES ASSUME NEW cutoff \in completed, NEW t \in rows', t.day < cutoff PROVE FALSE
    BY <1>2 DEF CompletedMeansPruned, Old
  <2>1. PICK r \in rows : t = Moved(r) BY <1>6
  <2> QED BY <1>4, <2>1 DEF RetentionInv, CompletedMeansPruned, Old
<1>11. RollupCoversTable'
  <2> SUFFICES ASSUME NEW t \in rows', <<t.client, t.day>> \notin missed'
               PROVE  t.sample \in rollup'[t.client][t.day]
    BY DEF RollupCoversTable
  <2>1. PICK r \in rows : t = Moved(r) BY <1>6
  <2>2. t.client \in Clients /\ t.day \in Days BY <1>7 DEF Typed, Row
  <2>3. target # source BY DEF RetentionInv, Typed
  <2>4. rollup'[t.client][t.day] = IF t.client = source THEN {}
          ELSE IF t.client = target /\ t.day \in merge.days THEN Summary(rows', target, t.day)
          ELSE rollup[t.client][t.day]
    BY <1>1, <2>2
  <2>5. /\ t.client = (IF r.client = source THEN target ELSE r.client)
        /\ t.day = r.day /\ t.sample = r.sample
    BY <1>4, <2>1
  <2>6. CASE t.client = target /\ t.day \in merge.days
    <3>1. t.sample \in Summary(rows', target, t.day) BY <2>6 DEF Summary
    <3> QED BY <2>3, <2>4, <2>6, <3>1
  \* The target's own row of a day that was not read is in the rollup that stays.
  <2>7. CASE ~(t.client = target /\ t.day \in merge.days)
    <3>1. r.client # source
      <4> SUFFICES ASSUME r.client = source PROVE FALSE
        OBVIOUS
      <4>1. t.client = target /\ t.day \in DaysOf({source}) BY <2>5 DEF DaysOf
      <4> QED BY <1>1, <2>7, <4>1 DEF Missed
    <3>2. t.client = r.client /\ t.client # source BY <2>5, <3>1
    <3>3. <<t.client, t.day>> \notin missed BY <1>1, <2>7, <3>2 DEF Missed
    <3>4. r.sample \in rollup[r.client][r.day] BY <2>5, <3>2, <3>3 DEF RetentionInv, RollupCoversTable
    <3> QED BY <2>4, <2>5, <2>7, <3>2, <3>4
  <2> QED BY <2>6, <2>7
<1>12. (overlapped \/ Single)'
  <2> SUFFICES ASSUME ~overlapped PROVE Single'
    BY <1>2
  <2>1. Single BY DEF RetentionInv
  <2>2. Archived' = Archived BY <1>2 DEF Archived
  <2>3. Stored \subseteq Stored' BY <1>4, <1>6 DEF Stored
  <2>4. \A m \in Maintainers : BatchOk(job[m], rows', Archived)
    <3> SUFFICES ASSUME NEW m \in Maintainers, job[m].pc \in {"copy", "delete"}, NEW b \in job[m].batch
                 PROVE  \E t \in rows' : SameRow(t, b)
      BY <2>1 DEF Single, BatchOk
    <3>1. PICK r \in rows : SameRow(r, b) BY <2>1 DEF Single, BatchOk
    <3>2. SameRow(Moved(r), b) BY <1>4, <3>1 DEF SameRow
    <3> QED BY <1>6, <3>2
  <2>5. \A s \in DOMAIN ingested : s \in Stored' \cup Archived' BY <2>1, <2>2, <2>3 DEF Single
  <2>6. \A s \in DOMAIN ingested : s \notin Stored' => ingested[s] + RetentionDays < day
    BY <2>1, <2>3 DEF Single
  <2> QED BY <1>2, <2>1, <2>2, <2>4, <2>5, <2>6 DEF Single
<1> QED BY <1>7, <1>8, <1>9, <1>10, <1>11, <1>12 DEF RetentionInv

\* What neither table nor runs see.
LEMMA BeginMergeStep ==
  ASSUME RetentionInv, NEW source \in Clients, NEW target \in Clients, BeginMerge(source, target)
  PROVE  RetentionInv'
<1>1. /\ source # target
      /\ merge' = [source |-> {source}, target |-> {target}, days |-> DaysOf({source, target})]
      /\ UNCHANGED <<rows, rollup, day, archive, job, completed, ingested, overlapped, missed>>
  BY DEF BeginMerge, table
<1>2. DaysOf({source, target}) \subseteq Days BY DEF DaysOf, RetentionInv, Typed, Row
<1>3. Typed'
  <2>1. merge'.source = {source} /\ merge'.target = {target} /\ merge'.days = DaysOf({source, target})
    BY <1>1
  <2>2. merge'.source \cap merge'.target = {} BY <1>1, <2>1
  <2>3. merge'.source \subseteq Clients /\ merge'.target \subseteq Clients /\ merge'.days \subseteq Days
    BY <1>2, <2>1
  <2> QED BY <1>1, <2>2, <2>3 DEF RetentionInv, Typed
<1>4. Past' /\ Cutoffs' /\ CompletedMeansPruned' /\ RollupCoversTable'
  BY <1>1 DEF RetentionInv, Past, Cutoffs, CompletedMeansPruned, Old, RollupCoversTable
<1>5. (overlapped \/ Single)' BY <1>1 DEF RetentionInv, Single, Archived, Stored
<1> QED BY <1>3, <1>4, <1>5 DEF RetentionInv

LEMMA NextDayStep ==
  ASSUME RetentionInv, NextDay
  PROVE  RetentionInv'
<1>1. /\ day < MaxDay /\ day' = day + 1 /\ day \in Nat
      /\ UNCHANGED <<rows, rollup, archive, job, completed, merge, ingested, overlapped, missed>>
  BY RetentionAssumption DEF NextDay, table, history, RetentionInv, Typed, Days
<1>2. Typed' BY <1>1, RetentionAssumption DEF RetentionInv, Typed, Days
<1>3. \A s \in DOMAIN ingested : ingested[s] \in Nat BY <1>1, RetentionAssumption DEF RetentionInv, Typed, Days
<1>4. Past' BY <1>1, <1>3 DEF RetentionInv, Past
<1>5. \A m \in Maintainers : job[m].cutoff \in Int BY DEF RetentionInv, Typed, Job
<1>6. Cutoffs' BY <1>1, <1>5, RetentionAssumption DEF RetentionInv, Cutoffs
<1>7. CompletedMeansPruned' /\ RollupCoversTable'
  BY <1>1 DEF RetentionInv, CompletedMeansPruned, Old, RollupCoversTable
<1>8. (overlapped \/ Single)'
  <2>1. \A s \in DOMAIN ingested : ingested[s] + RetentionDays < day => ingested[s] + RetentionDays < day + 1
    BY <1>1, <1>3, RetentionAssumption
  <2> QED BY <1>1, <2>1 DEF RetentionInv, Single, Archived, Stored
<1> QED BY <1>2, <1>4, <1>6, <1>7, <1>8 DEF RetentionInv

-----------------------------------------------------------------------------
LEMMA RunPreserves ==
  ASSUME RetentionInv, NEW m \in Maintainers, StartRetention(m) \/ Work(m) \/ Abort(m)
  PROVE  RetentionInv'
<1>1. /\ job[m] \in Job /\ day \in Int /\ overlapped \in BOOLEAN
      /\ \A cutoff \in Int : Old(cutoff) \subseteq Row
  BY RetentionAssumption DEF RetentionInv, Typed, Days, Old
<1>2. NoJob \in Job /\ NoJob.pc = "idle" BY DEF NoJob, Job
<1>3. CASE StartRetention(m)
  <2> DEFINE j == [pc |-> "fetch", cutoff |-> day - RetentionDays, batch |-> {}]
  <2>1. j \in Job /\ j.pc = "fetch" /\ j.cutoff = day - RetentionDays
    BY <1>1, RetentionAssumption DEF Job
  <2>2. /\ job[m].pc = "idle" /\ SetJob(m, j)
        /\ overlapped' = (overlapped \/ \E n \in Maintainers : job[n].pc # "idle")
        /\ UNCHANGED <<day, table, archive, completed, merge, ingested, missed>>
    BY <1>3 DEF StartRetention
  <2> HIDE DEF j
  <2>3. BatchOk(j, rows, Archived') BY <2>1 DEF BatchOk
  <2>4. overlapped' \in BOOLEAN /\ (overlapped => overlapped') BY <1>1, <2>2
  <2>5. overlapped' \/ \A n \in Maintainers : job[n].pc = "idle" BY <2>2
  <2>6. j.cutoff <= day - RetentionDays BY <1>1, <2>1, RetentionAssumption
  <2> QED BY <2>1, <2>2, <2>3, <2>4, <2>5, <2>6, JobStep
<1>4. CASE Fetch(m)
  <2> DEFINE old == Old(job[m].cutoff)
  <2> DEFINE q == [job[m] EXCEPT !.pc = "copy"]
  <2> DEFINE j == [q EXCEPT !.batch = Batch(old)]
  <2>1. Batch(old) \subseteq old /\ old \subseteq rows BY DEF Batch, Old
  <2>2. Batch(old) \subseteq Row BY <2>1 DEF RetentionInv, Typed
  <2>3. q \in Job /\ q.pc = "copy" /\ q.cutoff = job[m].cutoff BY <1>1 DEF Job
  <2>4. [job[m] EXCEPT !.pc = "copy", !.batch = Batch(old)] = j BY <1>1 DEF Job
  <2> HIDE DEF q
  <2>5. j \in Job /\ j.pc = "copy" /\ j.cutoff = job[m].cutoff /\ j.batch = Batch(old)
    BY <2>2, <2>3 DEF Job
  <2>6. /\ job[m].pc = "fetch" /\ SetJob(m, j)
        /\ UNCHANGED <<day, table, archive, completed, merge, ingested, overlapped, missed>>
    BY <1>4, <2>4 DEF Fetch, history
  <2> HIDE DEF j
  <2>7. \A b \in Batch(old) : b.day < job[m].cutoff /\ b \in rows /\ SameRow(b, b)
    BY <2>1 DEF Old, SameRow
  <2>8. BatchOk(j, rows, Archived') BY <2>5, <2>7 DEF BatchOk
  <2>9. j.cutoff <= day - RetentionDays BY <2>5, <2>6 DEF RetentionInv, Cutoffs
  <2> QED BY <1>1, <2>5, <2>6, <2>8, <2>9, JobStep
<1>5. CASE CopyBatch(m)
  <2> DEFINE j == [job[m] EXCEPT !.pc = "delete"]
  <2>1. j \in Job /\ j.pc = "delete" /\ j.cutoff = job[m].cutoff /\ j.batch = job[m].batch
    BY <1>1 DEF Job
  <2>2. /\ job[m].pc = "copy" /\ SetJob(m, j)
        /\ archive' = archive \cup {Content(r) : r \in job[m].batch}
        /\ UNCHANGED <<day, table, completed, merge, ingested, overlapped, missed>>
    BY <1>5 DEF CopyBatch, Copied, history
  <2> HIDE DEF j
  <2>3. \A b \in job[m].batch : b.sample \in Archived'
    <3> SUFFICES ASSUME NEW b \in job[m].batch PROVE b.sample \in Archived'
      OBVIOUS
    <3>1. Content(b) \in archive' BY <2>2
    <3>2. Content(b).sample = b.sample BY DEF Content
    <3> QED BY <3>1, <3>2 DEF Archived
  <2>4. Single => BatchOk(j, rows, Archived') BY <2>1, <2>2, <2>3 DEF Single, BatchOk
  <2>5. j.cutoff <= day - RetentionDays BY <2>1, <2>2 DEF RetentionInv, Cutoffs
  <2> QED BY <1>1, <2>1, <2>2, <2>4, <2>5, JobStep
<1>6. CASE Complete(m)
  <2>1. /\ job[m].pc = "fetch" /\ NothingLeft(m) /\ completed' = completed \cup {job[m].cutoff}
        /\ SetJob(m, NoJob)
        /\ UNCHANGED <<day, table, archive, merge, ingested, overlapped, missed>>
    BY <1>6 DEF Complete, history
  <2>2. BatchOk(NoJob, rows, Archived') BY <1>2 DEF BatchOk
  <2> QED BY <1>1, <1>2, <2>1, <2>2, JobStep
<1>7. CASE Abort(m)
  <2>1. /\ SetJob(m, NoJob)
        /\ UNCHANGED <<day, table, archive, completed, merge, ingested, overlapped, missed>>
    BY <1>7 DEF Abort
  <2>2. BatchOk(NoJob, rows, Archived') BY <1>2 DEF BatchOk
  <2> QED BY <1>1, <1>2, <2>1, <2>2, JobStep
<1> QED BY <1>3, <1>4, <1>5, <1>6, <1>7, DeleteStep DEF Work

LEMMA RetentionInvariance == RetentionInv /\ [RetentionNext]_retentionVars => RetentionInv'
<1> SUFFICES ASSUME RetentionInv, [RetentionNext]_retentionVars PROVE RetentionInv'
  OBVIOUS
<1>1. CASE UNCHANGED retentionVars
  <2>1. UNCHANGED <<day, rows, rollup, archive, job, completed, merge, ingested, overlapped, missed>>
    BY <1>1 DEF retentionVars, table, history
  <2> QED BY <2>1 DEF RetentionInv, Typed, Past, Cutoffs, CompletedMeansPruned, Old, RollupCoversTable,
                      Single, Archived, Stored
<1>2. CASE RetentionHorizon BY <1>1, <1>2 DEF RetentionHorizon
<1> QED
  BY <1>1, <1>2, IngestStep, RunPreserves, BeginMergeStep, CommitStep, NextDayStep DEF RetentionNext

LEMMA RetentionInitially == RetentionInit => RetentionInv
<1> SUFFICES ASSUME RetentionInit PROVE RetentionInv
  OBVIOUS
<1>1. ingested = <<>> /\ Len(ingested) = 0 /\ DOMAIN ingested = {} /\ ingested \in Seq(Days)
  BY EmptySeq DEF RetentionInit
<1>2. Typed
  <2>1. NoJob \in Job BY DEF NoJob, Job
  <2>2. day \in Days /\ Len(ingested) <= MaxSamples BY <1>1, RetentionAssumption DEF RetentionInit, Days
  <2>3. merge.source = {} /\ merge.target = {} /\ merge.days = {} BY DEF RetentionInit, NoMerge
  <2> QED BY <1>1, <2>1, <2>2, <2>3 DEF RetentionInit, Typed
<1>3. Past /\ Cutoffs /\ CompletedMeansPruned /\ RollupCoversTable
  BY <1>1 DEF RetentionInit, Past, Cutoffs, CompletedMeansPruned, RollupCoversTable, NoJob
<1>4. Single BY <1>1 DEF RetentionInit, Single, BatchOk, NoJob
<1> QED BY <1>2, <1>3, <1>4 DEF RetentionInv

\* However many samples, runs, merges and days there are, and whichever runs fail or
\* are killed: archive_and_prune loses no sample and prunes no recent one unless two
\* runs overlap, and a completed run has pruned all it promised.
THEOREM RetentionSafety ==
  RetentionSpec => [](LostOnlyByOverlap /\ OnlyOldPruned /\ CompletedMeansPruned)
<1>1. RetentionInv => LostOnlyByOverlap /\ OnlyOldPruned /\ CompletedMeansPruned
  BY DEF RetentionInv, Single, LostOnlyByOverlap, OnlyOldPruned
<1> QED BY RetentionInitially, RetentionInvariance, <1>1, PTL DEF RetentionSpec

\* The daily rollup counts each stored row, after merges too, unless a merge missed a
\* day that was ingested after it had looked (merge_canonical_clients).
THEOREM RollupSafety == RetentionSpec => []RollupCoversTable
<1>1. RetentionInv => RollupCoversTable BY DEF RetentionInv
<1> QED BY RetentionInitially, RetentionInvariance, <1>1, PTL DEF RetentionSpec

-----------------------------------------------------------------------------
(* Backup and restore.                                                     *)

\* A restore keeps the service down from its verification on, and knows what it
\* verified.
Restores ==
  /\ \A o \in Operators : command[o].source # {} => service = "down" /\ command[o].wanted # Absent
  /\ \A o \in Operators : command[o].pc \in {"fetch", "replace", "unlink"} => command[o].source # {}
  /\ \A o \in Operators : command[o].pc = "replace" => command[o].copy # Absent

Commits == 0..version

\* As long as no log was read over another main file, what any of the files holds
\* was committed, and the log of a running service is the main file's.
Committed ==
  /\ main \in Commits
  /\ \A l \in log : l.content \in Commits
  /\ \A p \in Paths : files[p].database \in Commits \cup {Absent}
  /\ \A o \in Operators : command[o].copy \in Commits \cup {Absent}
  /\ service = "up" => ~Foreign

BackupInv == BackupTypeOK /\ Restores /\ (stale \/ Committed) /\ ForeignOnlyByKill

-----------------------------------------------------------------------------
LEMMA VisibleType ==
  ASSUME BackupTypeOK
  PROVE  /\ Visible \in Contents
         /\ Committed /\ ~Foreign => Visible \in Commits
<1>1. CASE log = {} BY <1>1 DEF Visible, BackupTypeOK, Committed
<1>2. CASE log # {}
  <2>1. PICK l \in log : l = CHOOSE k \in log : TRUE BY <1>2
  <2>2. l.content \in Nat BY <2>1 DEF BackupTypeOK
  <2>3. Visible = IF Foreign THEN Torn ELSE l.content BY <1>2, <2>1 DEF Visible
  <2> QED BY <2>2, <2>3 DEF Contents, Committed
<1> QED BY <1>1, <1>2

LEMMA Numbers == Torn = -1 /\ Absent = -2 BY DEF Torn, Absent

\* Goto changes one command.
LEMMA Changed ==
  ASSUME BackupTypeOK, NEW o \in Operators, NEW c \in Command, Goto(o, c)
  PROVE  /\ command' \in [Operators -> Command]
         /\ command'[o] = c
         /\ \A q \in Operators : q # o => command'[q] = command[q]
  BY DEF BackupTypeOK, Goto

\* A step that changes only a command, as far as the invariant is concerned: the new
\* one comes from the old one and from what was committed.
LEMMA CommandStep ==
  ASSUME BackupInv, NEW o \in Operators, NEW c \in Command, Goto(o, c),
         UNCHANGED <<database, second, files>>,
         kills' \in Nat, kills' >= kills, stale' \in BOOLEAN, stale => stale',
         c.source # {} => service = "down" /\ c.wanted # Absent,
         c.pc \in {"fetch", "replace", "unlink"} => c.source # {},
         c.pc = "replace" => c.copy # Absent,
         stale' \/ c.copy \in Commits \cup {Absent},
         command[o].pc = "unlink" => kills' > 0
  PROVE  BackupInv'
<1>1. /\ command' \in [Operators -> Command] /\ command'[o] = c
      /\ \A q \in Operators : q # o => command'[q] = command[q]
  BY Changed DEF BackupInv
<1>2. UNCHANGED <<version, main, log, service>> BY DEF database
<1>3. BackupTypeOK' BY <1>1, <1>2 DEF BackupInv, BackupTypeOK
<1>4. Restores' BY <1>1, <1>2 DEF BackupInv, Restores
<1>5. (stale \/ Committed)' BY <1>1, <1>2 DEF BackupInv, Committed, Commits, Foreign
<1>6. ForeignOnlyByKill'
  <2>1. kills \in Nat BY DEF BackupInv, BackupTypeOK
  <2> QED BY <1>1, <1>2, <2>1 DEF BackupInv, ForeignOnlyByKill, Foreign
<1> QED BY <1>3, <1>4, <1>5, <1>6 DEF BackupInv
\* A step of the service: commands and files stay as they are.
LEMMA ServiceStep ==
  ASSUME BackupInv, UNCHANGED <<second, files, command>>,
         version' \in Nat, version' >= version, main' \in Contents,
         service' \in {"up", "down"}, log' \subseteq [base : Contents, content : Nat],
         kills' \in Nat, kills' >= kills, stale' \in BOOLEAN, stale => stale',
         service' = "up" => service = "up" \/ ~Restoring,
         Committed => stale' \/ main' \in Commits',
         Committed => stale' \/ \A l \in log' : l.content \in Commits',
         Committed => stale' \/ ~(service' = "up" /\ Foreign'),
         Foreign' => kills' > 0 \/ Foreign
  PROVE  BackupInv'
<1>1. BackupTypeOK' BY DEF BackupInv, BackupTypeOK
<1>2. Restores'
  <2>1. \A o \in Operators : command[o].source # {} => service' = "down"
    BY DEF BackupInv, Restores, Restoring
  <2> QED BY <2>1 DEF BackupInv, Restores
<1>3. (stale \/ Committed)'
  <2>1. CASE stale' BY <2>1
  <2>2. CASE ~stale'
    <3>1. Committed BY <2>2 DEF BackupInv
    <3>2. \A x \in Commits \cup {Absent} : x \in Commits' \cup {Absent}
      BY DEF Commits, BackupInv, BackupTypeOK
    <3> QED BY <2>2, <3>1, <3>2 DEF Committed
  <2> QED BY <2>1, <2>2
<1>4. ForeignOnlyByKill' BY DEF BackupInv, ForeignOnlyByKill, BackupTypeOK
<1> QED BY <1>1, <1>2, <1>3, <1>4 DEF BackupInv

\* A command writes one part of one file and goes on.
LEMMA FileStep ==
  ASSUME BackupInv, NEW o \in Operators, NEW c \in Command, Goto(o, c),
         NEW p \in Paths, NEW f \in [database : Contents \cup {Absent}, manifest : Contents \cup {Absent}],
         files' = [files EXCEPT ![p] = f], UNCHANGED <<database, second, stale, kills>>,
         Committed => f.database \in Commits \cup {Absent},
         c.source \subseteq command[o].source, c.wanted = command[o].wanted \/ c.source = {},
         c.pc \in {"idle", "manifest", "fetch"}, c.pc = "fetch" => c.source # {},
         stale \/ c.copy \in Commits \cup {Absent},
         command[o].pc # "unlink"
  PROVE  BackupInv'
<1>1. /\ command' \in [Operators -> Command] /\ command'[o] = c
      /\ \A q \in Operators : q # o => command'[q] = command[q]
  BY Changed DEF BackupInv
<1>2. UNCHANGED <<version, main, log, service>> BY DEF database
<1>3. \A q \in Paths : files'[q] = IF q = p THEN f ELSE files[q] BY DEF BackupInv, BackupTypeOK
<1>4. BackupTypeOK' BY <1>1, <1>2 DEF BackupInv, BackupTypeOK
<1>5. Restores' BY <1>1, <1>2 DEF BackupInv, Restores
<1>6. (stale \/ Committed)' BY <1>1, <1>2, <1>3 DEF BackupInv, Committed, Commits, Foreign
<1>7. ForeignOnlyByKill' BY <1>1, <1>2 DEF BackupInv, ForeignOnlyByKill, Foreign
<1> QED BY <1>4, <1>5, <1>6, <1>7 DEF BackupInv

\* The main file is replaced under the old log.
LEMMA ReplaceStep ==
  ASSUME BackupInv, NEW o \in Operators, ReplaceMain(o)
  PROVE  BackupInv'
<1> DEFINE c == [command[o] EXCEPT !.pc = "unlink"]
<1>1. command[o] \in Command BY DEF BackupInv, BackupTypeOK
<1>2. /\ c \in Command /\ c.pc = "unlink" /\ c.source = command[o].source
      /\ c.copy = command[o].copy /\ c.wanted = command[o].wanted
  BY <1>1 DEF Command
<1>3. Goto(o, c) BY DEF ReplaceMain
<1> HIDE DEF c
<1>4. /\ command' \in [Operators -> Command] /\ command'[o] = c
      /\ \A q \in Operators : q # o => command'[q] = command[q]
  BY <1>2, <1>3, Changed DEF BackupInv
<1>5. /\ command[o].pc = "replace" /\ main' = command[o].copy
      /\ UNCHANGED <<version, log, service, second, files, stale, kills>>
  BY DEF ReplaceMain
<1>6. command[o].source # {} /\ service = "down" /\ command[o].copy # Absent
  BY <1>5 DEF BackupInv, Restores
<1>7. main' \in Contents BY <1>1, <1>5, <1>6 DEF Command
<1>8. BackupTypeOK' BY <1>4, <1>5, <1>7 DEF BackupInv, BackupTypeOK
<1>9. Restores' BY <1>2, <1>4, <1>5, <1>6 DEF BackupInv, Restores
<1>10. (stale \/ Committed)' BY <1>2, <1>4, <1>5, <1>6 DEF BackupInv, Committed, Commits
<1>11. ForeignOnlyByKill' BY <1>2, <1>4 DEF ForeignOnlyByKill
<1> QED BY <1>8, <1>9, <1>10, <1>11 DEF BackupInv

LEMMA UnlinkStep ==
  ASSUME BackupInv, NEW o \in Operators, UnlinkLog(o)
  PROVE  BackupInv'
<1>1. Nothing \in Command /\ Nothing.pc = "idle" /\ Nothing.source = {} /\ Nothing.copy = Absent
  BY BackupAssumption DEF Nothing, Command, Paths, Contents
<1>2. /\ log' = {} /\ Goto(o, Nothing)
      /\ UNCHANGED <<version, main, service, second, files, stale, kills>>
  BY DEF UnlinkLog, LogAfter
<1>3. /\ command' \in [Operators -> Command] /\ command'[o] = Nothing
      /\ \A q \in Operators : q # o => command'[q] = command[q]
  BY <1>1, <1>2, Changed DEF BackupInv
<1>4. BackupTypeOK' BY <1>2, <1>3 DEF BackupInv, BackupTypeOK
<1>5. Restores' BY <1>1, <1>2, <1>3 DEF BackupInv, Restores
<1>6. (stale \/ Committed)' BY <1>1, <1>2, <1>3 DEF BackupInv, Committed, Commits, Foreign
<1>7. ForeignOnlyByKill' BY <1>2 DEF ForeignOnlyByKill, Foreign
<1> QED BY <1>4, <1>5, <1>6, <1>7 DEF BackupInv
-----------------------------------------------------------------------------
(* Records the actions build.                                              *)

LEMMA BegunType ==
  ASSUME NEW p \in Paths, NEW source \in SUBSET Paths, NEW w \in Contents \cup {Absent}
  PROVE  LET c == Begun(p, source, w)
         IN c \in Command /\ c.pc = "copy" /\ c.copy = Absent /\ c.source = source /\ c.wanted = w
  BY DEF Command, Begun

LEMMA NothingType ==
  /\ Nothing \in Command /\ Nothing.pc = "idle" /\ Nothing.source = {} /\ Nothing.copy = Absent
  BY BackupAssumption DEF Nothing, Command, Paths, Contents

LEMMA WithPc ==
  ASSUME NEW c \in Command, NEW pc \in {"idle", "copy", "publish", "manifest", "fetch", "replace", "unlink"}
  PROVE  LET d == [c EXCEPT !.pc = pc]
         IN /\ d \in Command /\ d.pc = pc /\ d.copy = c.copy /\ d.source = c.source
            /\ d.wanted = c.wanted /\ d.path = c.path
  BY DEF Command

LEMMA WithCopy ==
  ASSUME NEW c \in Command, NEW x \in Contents \cup {Absent}
  PROVE  LET d == [c EXCEPT !.copy = x]
         IN /\ d \in Command /\ d.pc = c.pc /\ d.copy = x /\ d.source = c.source
            /\ d.wanted = c.wanted /\ d.path = c.path
  BY DEF Command

-----------------------------------------------------------------------------
LEMMA ServicePreserves ==
  ASSUME BackupInv, Commit \/ Checkpoint \/ StopService \/ KillService \/ StartService
  PROVE  BackupInv'
<1>1. /\ version \in Nat /\ main \in Contents /\ service \in {"up", "down"} /\ kills \in Nat
      /\ stale \in BOOLEAN /\ log \subseteq [base : Contents, content : Nat]
      /\ Torn \in Contents
  BY DEF BackupInv, BackupTypeOK, Contents
<1>2. Visible \in Contents /\ (Committed /\ ~Foreign => Visible \in Commits)
  BY VisibleType DEF BackupInv
<1>3. CASE Commit
  <2> DEFINE l == [base |-> main, content |-> version + 1]
  <2>1. l \in [base : Contents, content : Nat] /\ l.base = main /\ l.content = version + 1
    BY <1>1
  <2>2. /\ service = "up" /\ version' = version + 1 /\ log' = {l}
        /\ UNCHANGED <<main, service, second, files, command, stale, kills>>
    BY <1>3 DEF Commit
  <2> HIDE DEF l
  <2>3. ~Foreign' BY <2>1, <2>2 DEF Foreign
  <2>4. /\ Committed => main' \in Commits'
        /\ \A k \in log' : k.content \in Commits'
    BY <1>1, <2>1, <2>2 DEF Committed, Commits
  <2> QED BY <1>1, <2>1, <2>2, <2>3, <2>4, ServiceStep
<1>4. ASSUME NEW s \in {"up", "down"}, service = "up", CheckpointTo(s) PROVE BackupInv'
  <2>1. /\ main' = Visible /\ log' = {} /\ service' = s
        /\ UNCHANGED <<version, second, files, command, stale, kills>>
    BY <1>4 DEF CheckpointTo
  <2>2. ~Foreign' BY <2>1 DEF Foreign
  <2>3. Committed => main' \in Commits' BY <1>2, <1>4, <2>1 DEF Committed, Commits
  <2> QED BY <1>1, <1>2, <1>4, <2>1, <2>2, <2>3, ServiceStep
<1>5. CASE KillService
  <2>1. /\ service' = "down" /\ kills' = kills + 1
        /\ UNCHANGED <<version, main, log, second, files, command, stale>>
    BY <1>5 DEF KillService
  <2>2. Committed => main' \in Commits' /\ \A k \in log' : k.content \in Commits'
    BY <2>1 DEF Committed, Commits
  <2> QED BY <1>1, <2>1, <2>2, ServiceStep
<1>6. CASE StartService
  <2>1. /\ service = "down" /\ ~Restoring /\ service' = "up" /\ stale' = (stale \/ Foreign)
        /\ UNCHANGED <<version, second, files, command, kills>>
    BY <1>6 DEF StartService
  <2>2. CASE Foreign
    <3>1. main' = Torn /\ log' = {} BY <1>6, <2>2 DEF StartService
    <3>2. ~Foreign' BY <3>1 DEF Foreign
    <3>3. stale' = TRUE BY <2>1, <2>2
    <3>4. version' \in Nat /\ version' >= version /\ kills' \in Nat /\ kills' >= kills BY <1>1, <2>1
    <3>5. main' \in Contents /\ log' \subseteq [base : Contents, content : Nat] BY <1>1, <3>1
    <3> QED BY <2>1, <3>2, <3>3, <3>4, <3>5, ServiceStep
  <2>3. CASE ~Foreign
    <3>1. UNCHANGED <<main, log>> BY <1>6, <2>3 DEF StartService
    <3>2. ~Foreign' BY <2>3, <3>1 DEF Foreign
    <3>3. Committed => main' \in Commits' /\ \A k \in log' : k.content \in Commits'
      BY <2>1, <3>1 DEF Committed, Commits
    <3> QED BY <1>1, <2>1, <3>1, <3>2, <3>3, ServiceStep
  <2> QED BY <2>2, <2>3
<1> QED BY <1>3, <1>4, <1>5, <1>6 DEF Checkpoint, StopService

LEMMA CommandPreserves ==
  ASSUME BackupInv, NEW o \in Operators,
         BeginBackup(o) \/ (\E p \in Paths : BeginRestore(o, p)) \/ Run(o) \/ KillCommand(o)
  PROVE  BackupInv'
<1>1. /\ command[o] \in Command /\ kills \in Nat /\ kills >= kills /\ stale \in BOOLEAN
      /\ second \in 0..MaxSecond
  BY DEF BackupInv, BackupTypeOK
<1>2. /\ command[o].source # {} => service = "down" /\ command[o].wanted # Absent
      /\ command[o].pc \in {"fetch", "replace", "unlink"} => command[o].source # {}
      /\ stale \/ command[o].copy \in Commits \cup {Absent}
      /\ command[o].copy \in Contents \cup {Absent}
  BY <1>1 DEF BackupInv, Restores, Committed, Command
<1>3. CASE BeginBackup(o)
  <2> DEFINE c == Begun(<<"backup", second>>, {}, Absent)
  <2>2. <<"backup", second>> \in Paths BY <1>1 DEF Paths
  <2>3. c \in Command /\ c.source = {} /\ c.pc = "copy" /\ c.copy = Absent BY <2>2, BegunType
  <2>4. command[o].pc = "idle" /\ Goto(o, c) /\ UNCHANGED <<database, second, files, stale, kills>>
    BY <1>3 DEF BeginBackup
  <2> HIDE DEF c
  <2> QED BY <1>1, <2>3, <2>4, CommandStep
<1>4. ASSUME NEW p \in Paths, BeginRestore(o, p) PROVE BackupInv'
  <2> DEFINE w == files[p].database
  <2> DEFINE c == Begun(<<"pre-restore", second>>, {p}, w)
  <2>2. <<"pre-restore", second>> \in Paths BY <1>1 DEF Paths
  <2>3. /\ w \in Contents \cup {Absent} /\ w # Absent /\ service = "down"
    BY <1>4 DEF BeginRestore, Verifies, BackupInv, BackupTypeOK
  <2>4. command[o].pc = "idle" /\ Goto(o, c) /\ UNCHANGED <<database, second, files, stale, kills>>
    BY <1>4 DEF BeginRestore
  <2> HIDE DEF w
  <2>5. c \in Command /\ c.wanted = w /\ c.pc = "copy" /\ c.copy = Absent BY <2>2, <2>3, BegunType
  <2> HIDE DEF c
  <2> QED BY <1>1, <2>3, <2>4, <2>5, CommandStep
<1>5. CASE Copy(o)
  <2>1. /\ command[o].pc = "copy" /\ stale' = (stale \/ Foreign)
        /\ UNCHANGED <<database, second, files, kills>>
    BY <1>5 DEF Copy
  <2>2. CASE Goto(o, Nothing) BY <1>1, <2>1, <2>2, NothingType, CommandStep
  <2>3. CASE Goto(o, [command[o] EXCEPT !.pc = "publish", !.copy = Snapshot])
    <3> DEFINE b == [command[o] EXCEPT !.pc = "publish"]
    <3> DEFINE c == [b EXCEPT !.copy = Visible]
    <3>1. Visible \in Contents /\ (Committed /\ ~Foreign => Visible \in Commits)
      BY VisibleType DEF BackupInv
    <3>2. /\ c \in Command /\ c.pc = "publish" /\ c.copy = Visible /\ c.source = command[o].source
          /\ c.wanted = command[o].wanted
      <4>1. /\ b \in Command /\ b.pc = "publish" /\ b.source = command[o].source
            /\ b.wanted = command[o].wanted
        BY <1>1, WithPc
      <4> HIDE DEF b
      <4> QED BY <3>1, <4>1, WithCopy
    <3>3. Goto(o, c)
      <4>1. [command[o] EXCEPT !.pc = "publish", !.copy = Visible] = c BY <1>1 DEF Command
      <4> QED BY <2>3, <4>1 DEF Snapshot
    <3> HIDE DEF b, c
    <3>4. stale' \/ c.copy \in Commits \cup {Absent} BY <2>1, <3>1, <3>2 DEF BackupInv
    <3> QED BY <1>1, <1>2, <2>1, <3>2, <3>3, <3>4, CommandStep
  <2> QED BY <1>5, <2>2, <2>3 DEF Copy
<1>6. CASE Publish(o)
  <2> DEFINE p == command[o].path
  <2> DEFINE f == [files[p] EXCEPT !.database = command[o].copy]
  <2> DEFINE c == [command[o] EXCEPT !.pc = "manifest"]
  <2>1. p \in Paths BY <1>1 DEF Command
  <2>2. /\ f \in [database : Contents \cup {Absent}, manifest : Contents \cup {Absent}]
        /\ f.database = command[o].copy
    BY <1>2, <2>1 DEF BackupInv, BackupTypeOK
  <2>3. files' = [files EXCEPT ![p] = f] BY <1>6 DEF Publish
  <2>4. /\ c \in Command /\ c.pc = "manifest" /\ c.copy = command[o].copy
        /\ c.source = command[o].source /\ c.wanted = command[o].wanted
    BY <1>1, WithPc
  <2>5. Goto(o, c) /\ command[o].pc = "publish" /\ UNCHANGED <<database, second, stale, kills>>
    BY <1>6 DEF Publish
  <2>6. Committed => f.database \in Commits \cup {Absent} BY <2>2 DEF Committed
  <2> HIDE DEF p, f, c
  <2> QED BY <1>2, <2>1, <2>2, <2>3, <2>4, <2>5, <2>6, FileStep
<1>7. CASE WriteManifest(o)
  <2> DEFINE p == command[o].path
  <2> DEFINE f == [files[p] EXCEPT !.manifest = command[o].copy]
  <2> DEFINE c == AfterManifest(o)
  <2>1. p \in Paths BY <1>1 DEF Command
  <2>2. /\ f \in [database : Contents \cup {Absent}, manifest : Contents \cup {Absent}]
        /\ f.database = files[p].database
    BY <1>2, <2>1 DEF BackupInv, BackupTypeOK
  <2>3. files' = [files EXCEPT ![p] = f] BY <1>7 DEF WriteManifest
  <2>4. /\ c \in Command /\ c.pc \in {"idle", "fetch"} /\ c.source = command[o].source
        /\ c.pc = "fetch" => c.source # {}
    BY <1>1, WithPc, NothingType DEF AfterManifest
  <2>5. c.wanted = command[o].wanted \/ c.source = {} BY <1>1, WithPc, NothingType DEF AfterManifest
  <2>6. stale \/ c.copy \in Commits \cup {Absent} BY <1>1, <1>2, WithPc, NothingType DEF AfterManifest
  <2>7. Goto(o, c) /\ command[o].pc = "manifest" /\ UNCHANGED <<database, second, stale, kills>>
    BY <1>7 DEF WriteManifest
  <2>8. Committed => f.database \in Commits \cup {Absent} BY <2>1, <2>2 DEF Committed
  <2> HIDE DEF p, f, c
  <2> QED BY <2>1, <2>2, <2>3, <2>4, <2>5, <2>6, <2>7, <2>8, FileStep
<1>8. CASE FetchBackup(o)
  <2>1. command[o].pc = "fetch" /\ UNCHANGED <<database, second, files, stale, kills>>
    BY <1>8 DEF FetchBackup
  <2>2. CASE Goto(o, Nothing) BY <1>1, <2>1, <2>2, NothingType, CommandStep
  <2>3. ASSUME NEW p \in command[o].source, files[p].database = command[o].wanted,
               Goto(o, [command[o] EXCEPT !.pc = "replace", !.copy = files[p].database])
        PROVE  BackupInv'
    <3> DEFINE x == files[p].database
    <3> DEFINE b == [command[o] EXCEPT !.pc = "replace"]
    <3> DEFINE c == [b EXCEPT !.copy = x]
    <3>1. p \in Paths BY <1>1 DEF Command
    <3>2. x \in Contents \cup {Absent} /\ (Committed => x \in Commits \cup {Absent})
      BY <3>1 DEF BackupInv, BackupTypeOK, Committed
    <3>3. x # Absent BY <1>2, <2>3
    <3> HIDE DEF x
    <3>4. /\ c \in Command /\ c.pc = "replace" /\ c.copy = x /\ c.source = command[o].source
          /\ c.wanted = command[o].wanted
      <4>1. /\ b \in Command /\ b.pc = "replace" /\ b.source = command[o].source
            /\ b.wanted = command[o].wanted
        BY <1>1, WithPc
      <4> HIDE DEF b
      <4> QED BY <3>2, <4>1, WithCopy
    <3>5. Goto(o, c)
      <4>1. [command[o] EXCEPT !.pc = "replace", !.copy = x] = c BY <1>1 DEF Command
      <4> QED BY <2>3, <4>1 DEF x
    <3> HIDE DEF b, c
    <3>6. stale \/ c.copy \in Commits \cup {Absent} BY <3>2, <3>4 DEF BackupInv
    <3> QED BY <1>1, <1>2, <2>1, <3>3, <3>4, <3>5, <3>6, CommandStep
  <2> QED BY <1>8, <2>2, <2>3 DEF FetchBackup
<1>9. CASE KillCommand(o)
  <2>1. Goto(o, Nothing) /\ kills' = kills + 1 /\ UNCHANGED <<database, second, files, stale>>
    BY <1>9 DEF KillCommand
  <2>2. kills' \in Nat /\ kills' >= kills /\ kills' > 0 BY <1>1, <2>1
  <2> QED BY <1>1, <2>1, <2>2, NothingType, CommandStep
<1> QED BY <1>3, <1>4, <1>5, <1>6, <1>7, <1>8, <1>9, ReplaceStep, UnlinkStep DEF Run

LEMMA BackupInvariance == BackupInv /\ [BackupNext]_backupVars => BackupInv'
<1> SUFFICES ASSUME BackupInv, [BackupNext]_backupVars PROVE BackupInv'
  OBVIOUS
<1>1. CASE UNCHANGED <<database, files, command, stale, kills>> /\ second' \in 0..MaxSecond
  BY <1>1 DEF database, BackupInv, BackupTypeOK, Restores, Committed, Commits, ForeignOnlyByKill, Foreign
<1>2. CASE NextSecond
  <2>1. second' \in 0..MaxSecond /\ UNCHANGED <<database, files, command, stale, kills>>
    BY <1>2, BackupAssumption DEF NextSecond, BackupInv, BackupTypeOK
  <2> QED BY <1>1, <2>1
<1>3. CASE UNCHANGED backupVars
  <2>1. second' \in 0..MaxSecond BY <1>3 DEF backupVars, BackupInv, BackupTypeOK
  <2> QED BY <1>1, <1>3, <2>1 DEF backupVars
<1> QED BY <1>2, <1>3, ServicePreserves, CommandPreserves DEF BackupNext

LEMMA BackupInitially == BackupInit => BackupInv
<1> SUFFICES ASSUME BackupInit PROVE BackupInv
  OBVIOUS
<1>1. BackupTypeOK
  <2>1. [database |-> Absent, manifest |-> Absent]
          \in [database : Contents \cup {Absent}, manifest : Contents \cup {Absent}]
    OBVIOUS
  <2>2. 0 \in 0..MaxSecond BY BackupAssumption
  <2> QED BY <2>1, <2>2, NothingType DEF BackupInit, BackupTypeOK, Contents
<1>2. Restores BY NothingType DEF BackupInit, Restores
<1>3. Committed BY NothingType DEF BackupInit, Committed, Commits, Foreign
<1>4. ForeignOnlyByKill BY DEF BackupInit, ForeignOnlyByKill, Foreign
<1> QED BY <1>1, <1>2, <1>3, <1>4 DEF BackupInv

LEMMA BackupInvariant == BackupSpec => []BackupInv
  BY BackupInitially, BackupInvariance, PTL DEF BackupSpec

\* However many backups and restores run at once and whatever is killed: a backup that
\* verify_backup accepts holds one commit of the database, unless somebody read the
\* database after a restore was killed between its replacement and the removal of the
\* old log, which nothing else leaves behind (backup_database, restore_database).
THEOREM BackupSafety ==
  BackupSpec => [](BackupTypeOK /\ VerifiedIsCommitted /\ ForeignOnlyByKill)
<1>1. BackupInv => BackupTypeOK /\ VerifiedIsCommitted /\ ForeignOnlyByKill
  BY DEF BackupInv, VerifiedIsCommitted, Committed, Commits, Verifies
<1> QED BY BackupInvariant, <1>1, PTL

-----------------------------------------------------------------------------
(* What a restore saves and installs, when commands take turns.            *)

\* Operators take turns, as --confirm-service-stopped asks of the one who restores.
Turns ==
  \A o \in Operators, q \in Operators :
    command[o].pc # "idle" /\ command[q].pc # "idle" => o = q

\* While a restore runs nothing but itself changes the database: what it saved is what
\* the database holds, and what it installs is what it verified.
Saves(c) == c.source # {} /\ ~stale =>
  /\ c.pc = "publish" => c.copy = Visible
  /\ c.pc = "manifest" => files[c.path].database = Visible /\ c.copy = Visible
  /\ c.pc \in {"fetch", "replace"} => Verifies(c.path) /\ files[c.path].database = Visible

Installs(c) ==
  /\ c.pc = "replace" => c.copy = c.wanted
  /\ c.pc = "unlink" => main = c.wanted

SavedInv == \A o \in Operators : Saves(command[o]) /\ Installs(command[o])

\* A service that runs, or is started, meets no restore.
LEMMA ServiceSaves ==
  ASSUME BackupInv, Commit \/ Checkpoint \/ StopService \/ KillService \/ StartService
  PROVE  SavedInv'
<1>1. command' = command
  BY DEF Commit, Checkpoint, StopService, KillService, StartService, CheckpointTo
<1>2. \A o \in Operators : command[o].source = {}
  BY DEF Commit, Checkpoint, StopService, KillService, StartService, Restoring, BackupInv, Restores
<1>3. \A o \in Operators : command[o].pc \notin {"fetch", "replace", "unlink"}
  BY <1>2 DEF BackupInv, Restores
<1> QED BY <1>1, <1>2, <1>3 DEF SavedInv, Saves, Installs

\* A step of the only command that runs.
LEMMA OwnSaves ==
  ASSUME BackupInv, SavedInv, NEW o \in Operators,
         BeginBackup(o) \/ (\E p \in Paths : BeginRestore(o, p)) \/ Run(o) \/ KillCommand(o)
  PROVE  Saves(command[o])' /\ Installs(command[o])'
<1>1. /\ command[o] \in Command /\ command[o].path \in Paths
      /\ command \in [Operators -> Command]
      /\ files \in [Paths -> [database : Contents \cup {Absent}, manifest : Contents \cup {Absent}]]
      /\ second \in 0..MaxSecond
  BY DEF BackupInv, BackupTypeOK, Command
<1>2. Saves(command[o]) /\ Installs(command[o]) BY DEF SavedInv
<1>3. /\ Visible \in Contents /\ Visible # Absent
  BY VisibleType, Numbers DEF BackupInv, Contents
<1>4. ASSUME NEW c, Goto(o, c) PROVE command'[o] = c BY <1>1, <1>4 DEF Goto
<1>5. CASE BeginBackup(o) \/ \E p \in Paths : BeginRestore(o, p)
  <2>1. ASSUME NEW path, NEW source, NEW wanted, Goto(o, Begun(path, source, wanted))
        PROVE  Saves(command[o])' /\ Installs(command[o])'
    <3>1. command'[o] = Begun(path, source, wanted) BY <1>4, <2>1
    <3>2. command'[o].pc = "copy" BY <3>1 DEF Begun
    <3> QED BY <3>2 DEF Saves, Installs
  <2>2. CASE BeginBackup(o) BY <2>1, <2>2 DEF BeginBackup
  <2>3. CASE \E p \in Paths : BeginRestore(o, p) BY <2>1, <2>3 DEF BeginRestore
  <2> QED BY <1>5, <2>2, <2>3
<1>6. CASE Copy(o)
  <2>1. /\ UNCHANGED <<database, files>> /\ stale' = (stale \/ Foreign) BY <1>6 DEF Copy
  <2>2. Visible' = Visible BY <2>1 DEF database, Visible, Foreign
  <2>3. CASE Goto(o, Nothing)
    <3>1. command'[o].pc = "idle" BY <1>4, <2>3, NothingType
    <3> QED BY <3>1 DEF Saves, Installs
  <2>4. CASE Goto(o, [command[o] EXCEPT !.pc = "publish", !.copy = Snapshot])
    <3>1. command'[o].pc = "publish" /\ command'[o].copy = Visible
      BY <1>1, <1>4, <2>4 DEF Command, Snapshot
    <3> QED BY <2>2, <3>1 DEF Saves, Installs
  <2> QED BY <1>6, <2>3, <2>4 DEF Copy
<1>7. CASE Publish(o)
  <2>1. /\ command[o].pc = "publish" /\ UNCHANGED <<database, stale>>
        /\ files' = [files EXCEPT ![command[o].path].database = command[o].copy]
        /\ command'[o] = [command[o] EXCEPT !.pc = "manifest"]
    BY <1>4, <1>7 DEF Publish
  <2>2. Visible' = Visible BY <2>1 DEF database, Visible, Foreign
  <2>3. /\ command'[o].pc = "manifest" /\ command'[o].copy = command[o].copy
        /\ command'[o].path = command[o].path /\ command'[o].source = command[o].source
    BY <1>1, <2>1, WithPc
  <2>4. files'[command[o].path].database = command[o].copy BY <1>1, <2>1
  <2> QED BY <1>2, <2>1, <2>2, <2>3, <2>4 DEF Saves, Installs
<1>8. CASE WriteManifest(o)
  <2>1. /\ command[o].pc = "manifest" /\ UNCHANGED <<database, stale>>
        /\ files' = [files EXCEPT ![command[o].path].manifest = command[o].copy]
        /\ command'[o] = AfterManifest(o)
    BY <1>4, <1>8 DEF WriteManifest
  <2>2. Visible' = Visible BY <2>1 DEF database, Visible, Foreign
  <2>3. CASE command[o].source = {}
    <3>1. command'[o].pc = "idle" BY <2>1, <2>3, NothingType DEF AfterManifest
    <3> QED BY <3>1 DEF Saves, Installs
  <2>4. CASE command[o].source # {}
    <3>1. /\ command'[o].pc = "fetch" /\ command'[o].path = command[o].path
          /\ command'[o].source = command[o].source
      <4>1. command'[o] = [command[o] EXCEPT !.pc = "fetch"] BY <2>1, <2>4 DEF AfterManifest
      <4> QED BY <1>1, <4>1, WithPc
    <3>2. /\ files'[command[o].path].manifest = command[o].copy
          /\ files'[command[o].path].database = files[command[o].path].database
      BY <1>1, <2>1
    <3> QED BY <1>2, <1>3, <2>1, <2>2, <2>4, <3>1, <3>2 DEF Saves, Installs, Verifies
  <2> QED BY <2>3, <2>4
<1>9. CASE FetchBackup(o)
  <2>1. command[o].pc = "fetch" /\ UNCHANGED <<database, files, stale>>
    BY <1>9 DEF FetchBackup
  <2>2. Visible' = Visible BY <2>1 DEF database, Visible, Foreign
  <2>3. CASE Goto(o, Nothing)
    <3>1. command'[o].pc = "idle" BY <1>4, <2>3, NothingType
    <3> QED BY <3>1 DEF Saves, Installs
  <2>4. ASSUME NEW p \in command[o].source, files[p].database = command[o].wanted,
               Goto(o, [command[o] EXCEPT !.pc = "replace", !.copy = files[p].database])
        PROVE  Saves(command[o])' /\ Installs(command[o])'
    <3> DEFINE x == files[p].database
    <3>1. command'[o] = [command[o] EXCEPT !.pc = "replace", !.copy = x] BY <1>4, <2>4
    <3> HIDE DEF x
    <3>2. /\ command'[o].pc = "replace" /\ command'[o].copy = x
          /\ command'[o].path = command[o].path /\ command'[o].source = command[o].source
          /\ command'[o].wanted = command[o].wanted
      BY <1>1, <3>1 DEF Command
    <3>3. x = command[o].wanted BY <2>4 DEF x
    <3> QED BY <1>2, <2>1, <2>2, <3>2, <3>3 DEF Saves, Installs, Verifies
  <2> QED BY <1>9, <2>3, <2>4 DEF FetchBackup
<1>10. CASE ReplaceMain(o)
  <2>1. /\ command[o].pc = "replace" /\ main' = command[o].copy
        /\ command'[o] = [command[o] EXCEPT !.pc = "unlink"]
    BY <1>4, <1>10 DEF ReplaceMain
  <2>2. command'[o].pc = "unlink" /\ command'[o].wanted = command[o].wanted
    BY <1>1, <2>1, WithPc
  <2> QED BY <1>2, <2>1, <2>2 DEF Saves, Installs
<1>11. CASE UnlinkLog(o) \/ KillCommand(o)
  <2>1. command'[o].pc = "idle" BY <1>4, <1>11, NothingType DEF UnlinkLog, KillCommand
  <2> QED BY <2>1 DEF Saves, Installs
<1> QED BY <1>5, <1>6, <1>7, <1>8, <1>9, <1>10, <1>11 DEF Run

\* The others are idle meanwhile.
LEMMA CommandSaves ==
  ASSUME BackupInv, SavedInv, Turns, Turns', NEW o \in Operators,
         BeginBackup(o) \/ (\E p \in Paths : BeginRestore(o, p)) \/ Run(o) \/ KillCommand(o)
  PROVE  SavedInv'
<1>1. \A q \in Operators \ {o} : command'[q] = command[q]
  BY DEF BeginBackup, BeginRestore, Run, Copy, Publish, WriteManifest, FetchBackup, ReplaceMain,
         UnlinkLog, KillCommand, Goto, BackupInv, BackupTypeOK
<1>2. Saves(command[o])' /\ Installs(command[o])' BY OwnSaves
<1>3. ASSUME NEW c, Goto(o, c) PROVE command'[o] = c
  BY <1>3 DEF Goto, BackupInv, BackupTypeOK
<1>4. ASSUME NEW q \in Operators \ {o} PROVE Saves(command[q])' /\ Installs(command[q])'
  <2>1. command[o].pc # "idle" \/ command'[o].pc # "idle"
    <3>1. CASE BeginBackup(o) \/ \E p \in Paths : BeginRestore(o, p)
      <4>1. ASSUME NEW path, NEW source, NEW wanted, Goto(o, Begun(path, source, wanted))
            PROVE  command'[o].pc = "copy"
        BY <1>3, <4>1 DEF Begun
      <4>2. CASE BeginBackup(o) BY <4>1, <4>2 DEF BeginBackup
      <4>3. CASE \E p \in Paths : BeginRestore(o, p) BY <4>1, <4>3 DEF BeginRestore
      <4> QED BY <3>1, <4>2, <4>3
    <3>2. CASE Run(o) \/ KillCommand(o)
      BY <3>2 DEF Run, Copy, Publish, WriteManifest, FetchBackup, ReplaceMain, UnlinkLog, KillCommand
    <3> QED BY <3>1, <3>2
  <2>2. command'[q].pc = "idle"
    BY <1>1, <2>1 DEF Turns
  <2> QED BY <2>2 DEF Saves, Installs
<1> QED BY <1>2, <1>4 DEF SavedInv

LEMMA SavedInvariant == BackupSpec /\ []Turns => []SavedInv
<1>1. BackupInit => SavedInv
  BY NothingType DEF BackupInit, SavedInv, Saves, Installs
<1>2. ASSUME BackupInv, SavedInv, Turns, Turns', [BackupNext]_backupVars PROVE SavedInv'
  <2>1. CASE NextSecond \/ UNCHANGED backupVars
    <3>1. UNCHANGED <<database, files, command, stale>> BY <2>1 DEF NextSecond, backupVars
    <3>2. Visible' = Visible BY <3>1 DEF database, Visible, Foreign
    <3> QED BY <1>2, <3>1, <3>2 DEF SavedInv, Saves, Installs, Verifies, database
  <2> QED BY <1>2, <2>1, ServiceSaves, CommandSaves DEF BackupNext
<1> QED BY <1>1, <1>2, BackupInvariant, PTL DEF BackupSpec

\* While commands take turns, when restore_database replaces the database, a backup that
\* verifies holds what the database was, with the commits that had only reached its log.
THEOREM RestoreSaves == BackupSpec /\ []Turns => SavedBeforeReplaced
<1>1. ASSUME BackupInv, SavedInv, NEW o \in Operators, Replaces(o)
      PROVE  stale \/ \E p \in Paths : Verifies(p) /\ files[p].database = Visible
  <2>1. command[o].pc = "replace" /\ command[o].source # {} BY <1>1 DEF Replaces, BackupInv, Restores
  <2>2. command[o].path \in Paths BY <1>1 DEF BackupInv, BackupTypeOK, Command
  <2> QED BY <1>1, <2>1, <2>2 DEF SavedInv, Saves
<1>2. BackupInv /\ SavedInv => \A o \in Operators : Replaces(o) =>
        stale \/ \E p \in Paths : Verifies(p) /\ files[p].database = Visible
  BY <1>1
<1> QED BY <1>2, BackupInvariant, SavedInvariant, PTL DEF SavedBeforeReplaced

\* While commands take turns, a restore_database that runs to its end leaves the database as
\* the backup that it verified holds it, whatever log was beside the old one.
THEOREM RestoreSafety == BackupSpec /\ []Turns => RestoreInstalls
<1>1. ASSUME BackupInv, SavedInv, [BackupNext]_backupVars, NEW o \in Operators,
             command[o].pc = "unlink", command'[o].pc = "idle", kills' = kills
      PROVE  Visible' = command[o].wanted
  <2>1. command' # command BY <1>1
  <2>2. PICK q \in Operators :
          BeginBackup(q) \/ (\E p \in Paths : BeginRestore(q, p)) \/ Run(q) \/ KillCommand(q)
    BY <1>1, <2>1 DEF BackupNext, Commit, Checkpoint, StopService, KillService, StartService,
                      CheckpointTo, NextSecond, backupVars
  <2>3. q = o
    <3>1. command \in [Operators -> Command] BY <1>1 DEF BackupInv, BackupTypeOK
    <3> QED BY <1>1, <2>2, <3>1 DEF BeginBackup, BeginRestore, Run, Copy, Publish, WriteManifest,
                                    FetchBackup, ReplaceMain, UnlinkLog, KillCommand, Goto
  <2>4. ~KillCommand(o)
    <3>1. kills \in Nat BY <1>1 DEF BackupInv, BackupTypeOK
    <3> QED BY <1>1, <3>1 DEF KillCommand
  <2>5. UnlinkLog(o)
    BY <1>1, <2>2, <2>3, <2>4 DEF BeginBackup, BeginRestore, Run, Copy, Publish, WriteManifest,
                                 FetchBackup, ReplaceMain
  <2>6. log' = {} /\ main' = main BY <2>5 DEF UnlinkLog, LogAfter
  <2>7. main = command[o].wanted BY <1>1 DEF SavedInv, Installs
  <2> QED BY <2>6, <2>7 DEF Visible
<1>2. BackupInv /\ SavedInv /\ [BackupNext]_backupVars =>
        \A o \in Operators :
          command[o].pc = "unlink" /\ command'[o].pc = "idle" /\ kills' = kills
            => Visible' = command[o].wanted
  BY <1>1
<1> QED BY <1>2, BackupInvariant, SavedInvariant, PTL DEF RestoreInstalls, BackupSpec
=============================================================================
