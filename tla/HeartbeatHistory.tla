--------------------------- MODULE HeartbeatHistory ---------------------------
(***************************************************************************)
(* From the network counter of a monitored machine to its daily traffic on *)
(* the server: the daily deltas (edge/counters.py), the heartbeat queue    *)
(* (edge/state.py), the cycle that drains it (edge/runtime.py), and the    *)
(* ingestion that rebuilds one day's rollup (agents/service.py,            *)
(* history/incremental.py).                                                *)
(*                                                                         *)
(* One agent and one of the two counters (download, upload) are modelled.  *)
(* Heartbeats are numbered in the order of their queue sequence.           *)
(***************************************************************************)
EXTENDS Naturals, FiniteSets, FiniteSetsExt

CONSTANTS
  DayLength,     \* ticks in a local day; a tick is one heartbeat interval
  MaxTime,       \* bound on the clock
  Growth,        \* bytes the machine may transfer in a tick
  QueueLimit,    \* max_heartbeats of the queue
  PerCycle,      \* max_heartbeats_per_cycle
  RetryDelays,   \* what _retry_delay may return, in ticks
  FailedReads,   \* TRUE: the collector may fail to read the counter
  MaxReboots,    \* bound on reboots of the machine
  MaxFailures    \* bound on exchanges that fail

ASSUME HistoryAssumption ==
  /\ DayLength \in Nat \ {0} /\ MaxTime \in Nat
  /\ Growth \subseteq Nat
  /\ QueueLimit \in Nat \ {0} /\ PerCycle \in Nat \ {0}
  /\ RetryDelays \subseteq Nat
  /\ FailedReads \in BOOLEAN
  /\ MaxReboots \in Nat /\ MaxFailures \in Nat

VARIABLES
  now,       \* the clock, the same for agent and server
  counter,   \* the operating system's cumulative byte counter
  daily,     \* edge_daily_network_v1: day -> last total and accumulated bytes
  taken,     \* number of heartbeats queued so far
  payload,   \* heartbeat -> the today_download_bytes it carries
  queuedAt,  \* heartbeat -> the queued_at it carries
  queue,     \* edge_heartbeat_queue_v1: heartbeats in the queue
  dueAt,     \* heartbeat -> next_attempt_at
  agent,     \* the agent process
  network,   \* heartbeat requests on their way to the server
  reply,     \* the response on its way to the waiting agent
  rows,      \* history_samples_v1
  rollup,    \* history_daily_rollup_v1: day -> bytes and resets
  current,   \* agent_current_v1: the heartbeat its summary comes from
  trimmed,   \* history: heartbeats removed because the queue was full
  traffic,   \* history: day -> bytes really transferred
  faults     \* history: reboots and failed exchanges

store == <<daily, taken, payload, queuedAt, queue, dueAt, trimmed>>
server == <<rows, rollup, current>>
vars == <<now, counter, store, agent, network, reply, server, traffic, faults>>

DayOf(t) == t \div DayLength
Days == 0..DayOf(MaxTime)
Heartbeats == 1..(MaxTime + 1)

NoDay == [last |-> 0, sum |-> 0, seen |-> FALSE]
NoReply == "none"
Asleep(t) == [pc |-> "asleep", anchor |-> 0, wakeAt |-> t, bytes |-> 0,
              current |-> 0, sent |-> 0]

\* The machine has run, and counted, before the agent was installed.
Init ==
  /\ now = 0 /\ counter \in Growth
  /\ daily = [d \in Days |-> NoDay]
  /\ taken = 0
  /\ payload = [h \in Heartbeats |-> 0]
  /\ queuedAt = [h \in Heartbeats |-> 0]
  /\ queue = {}
  /\ dueAt = [h \in Heartbeats |-> 0]
  /\ agent = Asleep(0)
  /\ network = {} /\ reply = NoReply
  /\ rows = {}
  /\ rollup = [d \in Days |-> [bytes |-> 0, resets |-> 0]]
  /\ current = 0
  /\ trimmed = {}
  /\ traffic = [d \in Days |-> 0]
  /\ faults = [reboots |-> 0, failures |-> 0]

\* Time passes while the agent sleeps: a cycle takes less than an interval
\* unless it waits for the network, whose delay is a failed exchange.
Tick ==
  /\ now < MaxTime
  /\ agent.pc = "asleep" /\ now < agent.wakeAt
  /\ now' = now + 1
  /\ \E bytes \in Growth :
       /\ counter' = counter + bytes
       /\ traffic' = [traffic EXCEPT ![DayOf(now')] = @ + bytes]
  /\ UNCHANGED <<store, agent, network, reply, server, faults>>

-----------------------------------------------------------------------------
(* enqueue_sample: first the daily counter, then the queue.                *)

\* What the collector reads: 0 when the counters cannot be read.
Readings == {counter} \cup (IF FailedReads THEN {0} ELSE {})

\* Mutated form: a restarted counter adds the size of the drop.
Delta_NoReset(total, last) == IF total >= last THEN total - last ELSE last - total

Delta(total, last) == IF total >= last THEN total - last ELSE total

\* DailyCounterStore.update
Counted(day, total) ==
  [last |-> total, seen |-> TRUE,
   sum |-> IF day.seen THEN day.sum + Delta(total, day.last) ELSE 0]

WakeUp ==
  /\ agent.pc = "asleep"
  /\ now >= agent.wakeAt
  /\ taken < MaxTime + 1
  /\ \E total \in Readings :
       LET day == Counted(daily[DayOf(now)], total)
       IN /\ daily' = [daily EXCEPT ![DayOf(now)] = day]
          /\ agent' = [agent EXCEPT !.pc = "sampled", !.anchor = now, !.bytes = day.sum]
  /\ UNCHANGED <<now, counter, taken, payload, queuedAt, queue, dueAt, trimmed, network,
                 reply, server, traffic, faults>>

\* The newest QueueLimit heartbeats stay.
Overflow(q) == {h \in q : Cardinality({g \in q : g >= h}) > QueueLimit}

\* EdgeQueue.enqueue_heartbeat
Enqueue ==
  /\ agent.pc = "sampled"
  /\ LET h == taken + 1
         q == queue \cup {h}
     IN /\ taken' = h
        /\ payload' = [payload EXCEPT ![h] = agent.bytes]
        /\ queuedAt' = [queuedAt EXCEPT ![h] = agent.anchor]
        /\ dueAt' = [dueAt EXCEPT ![h] = agent.anchor]
        /\ queue' = q \ Overflow(q)
        /\ trimmed' = trimmed \cup Overflow(q)
  /\ agent' = [agent EXCEPT !.pc = "flushing"]
  /\ UNCHANGED <<now, counter, daily, network, reply, server, traffic, faults>>

-----------------------------------------------------------------------------
(* _flush_heartbeats.                                                      *)

Due == {h \in queue : dueAt[h] <= agent.anchor}

\* EdgeQueue.next_heartbeat: ORDER BY sequence LIMIT 1
IsNext(h) == \A g \in Due : h <= g

Send ==
  /\ agent.pc = "flushing"
  /\ agent.sent < PerCycle
  /\ \E h \in Due :
       /\ IsNext(h)
       /\ agent' = [agent EXCEPT !.pc = "waiting", !.current = h]
       /\ network' = network \cup {[event |-> h, live |-> TRUE]}
  /\ UNCHANGED <<now, counter, store, reply, server, traffic, faults>>

\* EdgeQueue.complete_heartbeat
Completed ==
  /\ agent.pc = "waiting"
  /\ reply = "ok"
  /\ queue' = queue \ {agent.current}
  /\ agent' = [agent EXCEPT !.pc = "flushing", !.current = 0, !.sent = @ + 1]
  /\ reply' = NoReply
  /\ UNCHANGED <<now, counter, daily, taken, payload, queuedAt, dueAt, trimmed, network,
                 server, traffic, faults>>

\* An abandoned request may still reach the server.
Abandoned == {[req EXCEPT !.live = FALSE] : req \in network}

\* Mutated forms: a heartbeat that failed is given up, or treated as not retryable.
FailHeartbeat_NotRetryable(h, retryAt) ==
  /\ dueAt' = [dueAt EXCEPT ![h] = MaxTime + 1]
  /\ UNCHANGED <<daily, taken, payload, queuedAt, queue, trimmed>>
FailHeartbeat_Drops(h, retryAt) ==
  /\ queue' = queue \ {h}
  /\ UNCHANGED <<daily, taken, payload, queuedAt, dueAt, trimmed>>

\* EdgeQueue.fail_heartbeat
FailHeartbeat(h, retryAt) ==
  /\ dueAt' = [dueAt EXCEPT ![h] = retryAt]
  /\ UNCHANGED <<daily, taken, payload, queuedAt, queue, trimmed>>

\* A TransportError ends the loop; the request or its response was lost, or the
\* server is still at work on it.
Fail ==
  /\ agent.pc = "waiting"
  /\ faults.failures < MaxFailures
  /\ \E delay \in RetryDelays : FailHeartbeat(agent.current, agent.anchor + delay)
  /\ agent' = Asleep(now + 1)
  /\ network' \in {Abandoned, {req \in network : ~req.live}}
  /\ reply' = NoReply
  /\ faults' = [faults EXCEPT !.failures = @ + 1]
  /\ UNCHANGED <<now, counter, server, traffic>>

Sleep ==
  /\ agent.pc = "flushing"
  /\ Due = {} \/ agent.sent = PerCycle
  /\ agent' = Asleep(now + 1)
  /\ UNCHANGED <<now, counter, store, network, reply, server, traffic, faults>>

\* The machine or only the agent restarts, which takes a tick: the counter of a
\* restarted machine starts again, the agent's disk stays.
Reboot ==
  /\ faults.reboots < MaxReboots
  /\ counter' \in {0, counter}
  /\ agent' = Asleep(now + 1)
  /\ network' = Abandoned
  /\ reply' = NoReply
  /\ faults' = [faults EXCEPT !.reboots = @ + 1]
  /\ UNCHANGED <<now, store, server, traffic>>

-----------------------------------------------------------------------------
(* rebuild_rollup_for_key over one day's samples.                          *)

\* Mutated form: equal timestamps are ordered by a key that is not the sequence.
Before_ByKey(r, s) == r.at < s.at \/ (r.at = s.at /\ r.event > s.event)

\* ORDER BY event_at, event_id: event_id starts with the database sequence.
Before(r, s) == r.at < s.at \/ (r.at = s.at /\ r.seq < s.seq)

Previous(r, R) == CHOOSE p \in R :
  Before(p, r) /\ \A q \in R : Before(q, r) => ~Before(p, q)
IsFirst(r, R) == \A p \in R : ~Before(p, r)

\* _counter_total: a smaller value counts as a restarted counter.
IsReset(r, R) == ~IsFirst(r, R) /\ r.bytes < Previous(r, R).bytes
Gain(r, R) ==
  IF IsFirst(r, R) \/ IsReset(r, R) THEN r.bytes ELSE r.bytes - Previous(r, R).bytes

Rebuilt(R) == [bytes |-> MapThenSumSet(LAMBDA r : Gain(r, R), R),
               resets |-> Cardinality({r \in R : IsReset(r, R)})]

SamplesOf(day, R) == {r \in R : DayOf(r.at) = day}

Ingested == {r.event : r \in rows}

\* Mutated form: every request inserts a sample.
Ingest_EveryTime(h) ==
  LET more == rows \cup {[event |-> h, seq |-> Cardinality(rows) + 1, at |-> now,
                          bytes |-> payload[h]]}
  IN /\ rows' = more
     /\ rollup' = [rollup EXCEPT ![DayOf(now)] = Rebuilt(SamplesOf(DayOf(now), more))]
     /\ current' = h

\* ingest_heartbeat: the event key is unique; the sample's time and day are those
\* of its receipt.
Ingest(h) ==
  IF h \in Ingested THEN UNCHANGED server
  ELSE LET more == rows \cup {[event |-> h, seq |-> Cardinality(rows) + 1, at |-> now,
                               bytes |-> payload[h]]}
       IN /\ rows' = more
          /\ rollup' = [rollup EXCEPT ![DayOf(now)] = Rebuilt(SamplesOf(DayOf(now), more))]
          /\ current' = h

Serve ==
  /\ \E req \in network :
       /\ Ingest(req.event)
       /\ network' = network \ {req}
       /\ reply' = IF req.live THEN "ok" ELSE reply
  /\ UNCHANGED <<now, counter, store, agent, traffic, faults>>

\* The clock is bounded: a run ends at MaxTime with the agent asleep.
Horizon ==
  /\ now = MaxTime
  /\ agent.pc = "asleep" /\ agent.wakeAt > MaxTime
  /\ UNCHANGED vars

-----------------------------------------------------------------------------
AgentStep == WakeUp \/ Enqueue \/ Send \/ Completed \/ Sleep

Next == Tick \/ AgentStep \/ Fail \/ Reboot \/ Serve \/ Horizon

Spec == Init /\ [][Next]_vars

\* The service runs the agent, time passes and the server answers.
FairSpec == Spec /\ WF_vars(Tick) /\ WF_vars(AgentStep) /\ WF_vars(Serve)

-----------------------------------------------------------------------------
(* Properties.                                                             *)

\* Retries, late copies and lost responses store a heartbeat once.
IngestedOnce == \A r, s \in rows : r.event = s.event => r = s

\* A heartbeat leaves the queue only when the server has it or the queue was full,
\* and what a full queue gives up is older than all it keeps.
NoSampleLost ==
  /\ 1..taken \subseteq queue \cup Ingested \cup trimmed
  /\ \A h \in trimmed, g \in queue : h < g

\* No heartbeat that was queued on another day arrived on this one: the server counts
\* a total for the day of its receipt, the agent for the day of its sample.
OwnDay(d) == \A r \in SamplesOf(d, rows) : DayOf(queuedAt[r.event]) = d

\* The server never reports more traffic for a day than the machine transferred.
TrafficNotInflated == \A d \in Days : OwnDay(d) => rollup[d].bytes <= traffic[d]

\* A day's rollup is exactly the running total that its newest heartbeat carries:
\* no difference is counted twice or missed, however the counter restarts, the
\* agent crashes or a backlog arrives at once.
RollupIsLatestTotal == \A d \in Days :
  LET arrived == {r.event : r \in SamplesOf(d, rows)}
  IN OwnDay(d) /\ arrived # {} => /\ rollup[d].bytes = payload[Max(arrived)]
                                  /\ rollup[d].resets = 0

\* Once exchanges stop failing every heartbeat reaches the server or was trimmed.
EventuallyIngested == \A h \in Heartbeats :
  h \in queue /\ now + 4 < MaxTime ~> h \in Ingested \cup trimmed
=============================================================================
