------------------------ MODULE HeartbeatHistoryProofs ------------------------
(***************************************************************************)
(* No heartbeat is lost or stored twice, for any queue limit, any retry    *)
(* delays and any number of failures and reboots; and a day's rollup is    *)
(* what the agent counted, as long as heartbeats keep their order.         *)
(***************************************************************************)
EXTENDS HeartbeatHistory, FiniteSetTheorems, WellFoundedInduction, TLAPS

Request == [event : Nat, live : BOOLEAN]

QueueType ==
  /\ taken \in Nat
  /\ queue \subseteq 1..taken
  /\ trimmed \subseteq 1..taken
  /\ network \subseteq Request
  /\ agent = [pc |-> agent.pc, anchor |-> agent.anchor, wakeAt |-> agent.wakeAt,
              bytes |-> agent.bytes, current |-> agent.current, sent |-> agent.sent]
  /\ agent.current \in Nat

\* The response the agent waits for is about the heartbeat it waits for: nobody
\* else's response completes it.
Exchange ==
  /\ \A req \in network : req.live => agent.pc = "waiting" /\ req.event = agent.current
  /\ reply = "ok" => /\ agent.pc = "waiting" /\ agent.current \in Ingested
                     /\ \A req \in network : ~req.live

\* The inductive invariant: NoSampleLost alone says nothing about the response
\* that lets Completed drop a heartbeat.
IInv == QueueType /\ Exchange /\ IngestedOnce /\ NoSampleLost

LEMMA OverflowIsOldest ==
  ASSUME NEW q, IsFiniteSet(q), q \subseteq Nat, QueueLimit \in Nat,
         NEW h \in Overflow(q), NEW g \in q \ Overflow(q)
  PROVE h < g
<1> DEFINE above(x) == {y \in q : y >= x}
<1>1. h \in Nat /\ g \in Nat BY DEF Overflow
<1>2. SUFFICES ASSUME g <= h PROVE FALSE BY <1>1
<1>3. \A y \in q : y >= h => y >= g BY <1>1, <1>2
<1>4. above(h) \subseteq above(g) BY <1>3
<1>5. IsFiniteSet(above(g)) BY FS_Subset
<1>6. Cardinality(above(h)) <= Cardinality(above(g)) BY <1>4, <1>5, FS_Subset
<1>7. IsFiniteSet(above(h)) BY FS_Subset
<1>8. Cardinality(above(h)) \in Nat /\ Cardinality(above(g)) \in Nat
  BY <1>5, <1>7, FS_CardinalityType
<1>9. Cardinality(above(h)) > QueueLimit /\ ~(Cardinality(above(g)) > QueueLimit)
  BY DEF Overflow
<1> QED BY <1>6, <1>8, <1>9

LEMMA InitInv == Init => IInv
BY HistoryAssumption
DEF Init, IInv, QueueType, Exchange, IngestedOnce, NoSampleLost, Asleep, NoReply, Ingested,
    Heartbeats

\* Enqueue trims only the oldest heartbeats.
LEMMA EnqueueInv == IInv /\ Enqueue => IInv'
<1> SUFFICES ASSUME IInv, Enqueue PROVE IInv'
  OBVIOUS
<1> USE DEF IInv
<1> DEFINE q == queue \cup {taken + 1}
<1>1. /\ taken' = taken + 1
      /\ queue' = q \ Overflow(q)
      /\ trimmed' = trimmed \cup Overflow(q)
      /\ agent' = [agent EXCEPT !.pc = "flushing"]
      /\ agent.pc = "sampled"
      /\ UNCHANGED <<network, reply, rows>>
  BY DEF Enqueue, server
<1>2. q \subseteq Nat /\ IsFiniteSet(q)
  <2>0. taken \in Nat BY DEF QueueType
  <2>1. IsFiniteSet(1..(taken + 1)) BY <2>0, FS_Interval
  <2>2. q \subseteq 1..(taken + 1) BY DEF QueueType
  <2>3. IsFiniteSet(q) BY <2>1, <2>2, FS_Subset
  <2>4. q \subseteq Nat BY <2>2 DEF QueueType
  <2> QED BY <2>3, <2>4
<1>3. Overflow(q) \subseteq q BY DEF Overflow
<1>4. QueueType'
  <2>1. agent' = [pc |-> "flushing", anchor |-> agent.anchor, wakeAt |-> agent.wakeAt,
                  bytes |-> agent.bytes, current |-> agent.current, sent |-> agent.sent]
    BY <1>1 DEF QueueType
  <2>2. taken' \in Nat /\ q \subseteq 1..taken' /\ trimmed \subseteq 1..taken'
    BY <1>1 DEF QueueType
  <2> QED BY <1>1, <1>3, <2>1, <2>2 DEF QueueType
<1>5. Exchange'
  BY <1>1 DEF Exchange, QueueType, Ingested
<1>6. IngestedOnce'
  BY <1>1 DEF IngestedOnce
<1>7. ASSUME NEW h \in trimmed', NEW g \in queue' PROVE h < g
  <2>1. CASE h \in Overflow(q)
    BY <1>1, <1>2, <1>7, <2>1, OverflowIsOldest, HistoryAssumption
  <2>2. CASE h \in trimmed
    BY <1>1, <1>7, <2>2 DEF NoSampleLost, QueueType
  <2> QED BY <1>1, <1>7, <2>1, <2>2
<1>8. (1..taken)' \subseteq (queue \cup Ingested \cup trimmed)'
  BY <1>1 DEF NoSampleLost, QueueType, Ingested
<1> QED BY <1>4, <1>5, <1>6, <1>7, <1>8 DEF NoSampleLost

\* A response lets the agent drop exactly the heartbeat that the server stored.
LEMMA CompletedInv == IInv /\ Completed => IInv'
<1> SUFFICES ASSUME IInv, Completed PROVE IInv'
  OBVIOUS
<1> USE DEF IInv
<1>1. /\ queue' = queue \ {agent.current}
      /\ agent' = [agent EXCEPT !.pc = "flushing", !.current = 0, !.sent = @ + 1]
      /\ reply' = NoReply /\ reply = "ok" /\ agent.pc = "waiting"
      /\ UNCHANGED <<taken, trimmed, network, rows>>
  BY DEF Completed, server
<1>2. agent.current \in Ingested BY <1>1 DEF Exchange
<1>3. agent'.current = 0 /\ agent'.pc = "flushing"
  BY <1>1 DEF QueueType
<1>4. QueueType' BY <1>1, <1>3 DEF QueueType, NoReply
<1>5. Exchange' BY <1>1, <1>3 DEF Exchange, NoReply, QueueType
<1>6. NoSampleLost' BY <1>1, <1>2 DEF NoSampleLost, Ingested
<1> QED BY <1>1, <1>4, <1>5, <1>6 DEF IngestedOnce

\* The server stores a heartbeat once, and answers with what it has stored.
LEMMA ServeInv == IInv /\ Serve => IInv'
<1> SUFFICES ASSUME IInv, Serve PROVE IInv'
  OBVIOUS
<1> USE DEF IInv
<1>1. PICK req \in network :
        /\ Ingest(req.event)
        /\ network' = network \ {req}
        /\ reply' = IF req.live THEN "ok" ELSE reply
  BY DEF Serve
<1>2. UNCHANGED <<taken, queue, trimmed, agent>>
  BY DEF Serve, store
<1>3. /\ Ingested' = Ingested \cup {req.event}
      /\ IngestedOnce'
  <2>1. CASE req.event \in Ingested
    BY <1>1, <2>1 DEF Ingest, server, Ingested, IngestedOnce
  <2>2. CASE req.event \notin Ingested
    <3> DEFINE new == [event |-> req.event, seq |-> Cardinality(rows) + 1, at |-> now,
                       bytes |-> payload[req.event]]
    <3>1. rows' = rows \cup {new} BY <1>1, <2>2 DEF Ingest
    <3>2. new.event = req.event OBVIOUS
    <3>3. \A r \in rows : r.event # new.event BY <2>2, <3>2 DEF Ingested
    <3> HIDE DEF new
    <3>4. Ingested' = Ingested \cup {new.event} BY <3>1 DEF Ingested
    <3>5. IngestedOnce' BY <3>1, <3>3 DEF IngestedOnce
    <3> QED BY <3>2, <3>4, <3>5
  <2> QED BY <2>1, <2>2
<1>4. QueueType' BY <1>1, <1>2 DEF QueueType
<1>5. \A other \in network : other.live /\ req.live => other = req
  BY <1>1 DEF QueueType, Exchange, Request
<1>6. Exchange'
  <2>1. CASE req.live
    BY <1>1, <1>2, <1>3, <1>5, <2>1 DEF Exchange
  <2>2. CASE ~req.live
    BY <1>1, <1>2, <1>3, <2>2 DEF Exchange
  <2> QED BY <2>1, <2>2
<1>7. NoSampleLost' BY <1>2, <1>3 DEF NoSampleLost
<1> QED BY <1>3, <1>4, <1>6, <1>7

\* What every other step leaves alone.
Untouched == UNCHANGED <<taken, queue, trimmed, rows>>

\* A step that ends the exchange, by a failure or a restart.
LEMMA BreakInv == IInv /\ (Fail \/ Reboot) => IInv'
<1> SUFFICES ASSUME IInv, Fail \/ Reboot PROVE IInv'
  OBVIOUS
<1> USE DEF IInv
<1>1. Untouched /\ reply' = NoReply /\ (agent' = Asleep(now + 1))
  BY DEF Untouched, Fail, Reboot, FailHeartbeat, store, server
<1>2. network' \in {Abandoned, {req \in network : ~req.live}}
  BY DEF Fail, Reboot
<1>3. network' \subseteq Request /\ \A req \in network' : ~req.live
  <2>1. \A req \in Request : LET r == [req EXCEPT !.live = FALSE]
                             IN r \in Request /\ ~r.live
    BY DEF Request
  <2>2. network \subseteq Request BY DEF QueueType
  <2>3. CASE network' = Abandoned BY <2>1, <2>2, <2>3 DEF Abandoned
  <2>4. CASE network' = {req \in network : ~req.live} BY <2>2, <2>4
  <2> QED BY <1>2, <2>3, <2>4
<1>4. /\ agent' = [pc |-> "asleep", anchor |-> 0, wakeAt |-> now + 1, bytes |-> 0,
                  current |-> 0, sent |-> 0]
  BY <1>1 DEF Asleep
<1>5. QueueType'
  BY <1>1, <1>3, <1>4 DEF QueueType, Untouched
<1>6. Exchange' BY <1>1, <1>3 DEF Exchange, NoReply
<1>7. IngestedOnce' /\ NoSampleLost'
  BY <1>1 DEF Untouched, IngestedOnce, NoSampleLost, Ingested
<1> QED BY <1>5, <1>6, <1>7

\* Sending moves the agent to a wait for the heartbeat it sent.
LEMMA SendInv == IInv /\ Send => IInv'
<1> SUFFICES ASSUME IInv, Send PROVE IInv'
  OBVIOUS
<1> USE DEF IInv
<1>1. PICK h \in Due : /\ agent' = [agent EXCEPT !.pc = "waiting", !.current = h]
                       /\ network' = network \cup {[event |-> h, live |-> TRUE]}
  BY DEF Send
<1>2. Untouched /\ reply' = reply /\ agent.pc = "flushing"
  BY DEF Send, Untouched, store, server
<1>3. h \in Nat BY DEF Due, QueueType
<1>4. agent' = [pc |-> "waiting", anchor |-> agent.anchor, wakeAt |-> agent.wakeAt,
                bytes |-> agent.bytes, current |-> h, sent |-> agent.sent]
  BY <1>1 DEF QueueType
<1>5. network' \subseteq Request
  <2>1. [event |-> h, live |-> TRUE] \in Request BY <1>3 DEF Request
  <2>2. network \subseteq Request BY DEF QueueType
  <2> QED BY <1>1, <2>1, <2>2
<1>6. QueueType' BY <1>2, <1>3, <1>4, <1>5 DEF QueueType, Untouched
<1>7. reply # "ok" /\ \A req \in network : ~req.live BY <1>2 DEF Exchange
<1>8. Exchange' BY <1>1, <1>2, <1>4, <1>7 DEF Exchange
<1>9. IngestedOnce' /\ NoSampleLost'
  BY <1>2 DEF Untouched, IngestedOnce, NoSampleLost, Ingested
<1> QED BY <1>6, <1>8, <1>9

\* Steps that touch neither the queue nor the exchange.
LEMMA QuietInv == IInv /\ (Tick \/ WakeUp \/ Sleep \/ UNCHANGED vars) => IInv'
<1> SUFFICES ASSUME IInv, Tick \/ WakeUp \/ Sleep \/ UNCHANGED vars PROVE IInv'
  OBVIOUS
<1> USE DEF IInv
<1>1. Untouched /\ UNCHANGED <<network, reply>>
  BY DEF Tick, WakeUp, Sleep, vars, Untouched, store, server
<1>2. IngestedOnce' /\ NoSampleLost'
  BY <1>1 DEF Untouched, IngestedOnce, NoSampleLost, Ingested
<1>3. CASE agent' = agent
  BY <1>1, <1>2, <1>3 DEF QueueType, Exchange, Untouched, Ingested
<1>4. CASE WakeUp
  <2>1. PICK a, b : agent' = [agent EXCEPT !.pc = "sampled", !.anchor = a, !.bytes = b]
    BY <1>4 DEF WakeUp
  <2>2. agent' = [pc |-> "sampled", anchor |-> a, wakeAt |-> agent.wakeAt,
                  bytes |-> b, current |-> agent.current, sent |-> agent.sent]
    BY <2>1 DEF QueueType
  <2>3. agent.pc = "asleep" BY <1>4 DEF WakeUp
  <2> QED BY <1>1, <1>2, <2>2, <2>3 DEF QueueType, Exchange, Untouched, Ingested
<1>5. CASE Sleep
  <2>1. agent' = [pc |-> "asleep", anchor |-> 0, wakeAt |-> now + 1, bytes |-> 0,
                  current |-> 0, sent |-> 0]
    BY <1>5 DEF Sleep, Asleep
  <2>2. agent.pc = "flushing" BY <1>5 DEF Sleep
  <2> QED BY <1>1, <1>2, <2>1, <2>2 DEF QueueType, Exchange, Untouched, Ingested
<1> QED BY <1>3, <1>4, <1>5 DEF Tick, vars

LEMMA Invariance == IInv /\ [Next]_vars => IInv'
  BY EnqueueInv, CompletedInv, ServeInv, BreakInv, SendInv, QuietInv
  DEF Next, AgentStep, Horizon

\* Retries, late copies and reboots never store a heartbeat twice: ingest_event.
THEOREM HeartbeatSafety == Spec => []IngestedOnce
<1>1. IInv => IngestedOnce BY DEF IInv
<1> QED BY InitInv, Invariance, <1>1, PTL DEF Spec

\* No heartbeat leaves the queue unless the server has stored it or the queue was
\* full, and a full queue gives up its oldest: EdgeQueue.
THEOREM QueueSafety == Spec => []NoSampleLost
<1>1. IInv => NoSampleLost BY DEF IInv
<1> QED BY InitInv, Invariance, <1>1, PTL DEF Spec

-----------------------------------------------------------------------------
(* MapThenSumSet over the samples of a day.                                *)

\* One step of a sum over the subsets of R: the chosen element's part and the sum of the rest.
SumStep(R, f) == [s \in SUBSET R |->
  IF s = {} THEN 0 ELSE Gain(CHOOSE x \in s : TRUE, R) + f[s \ {CHOOSE x \in s : TRUE}]]

GainSum(R) == CHOOSE f : f = SumStep(R, f)

\* The sum of the library is the chosen function with that step.
LEMMA Expanded ==
  ASSUME NEW R
  PROVE  Rebuilt(R) = [bytes |-> GainSum(R)[R], resets |-> Cardinality({r \in R : IsReset(r, R)})]
<1> DEFINE total == MapThenSumSet(LAMBDA r : Gain(r, R), R)
<1>1. total = GainSum(R)[R]
  BY Zenon DEF MapThenSumSet, MapThenFoldSet, GainSum, SumStep
<1>2. Rebuilt(R) = [bytes |-> total, resets |-> Cardinality({r \in R : IsReset(r, R)})]
  BY Zenon DEF Rebuilt
<1> QED BY <1>1, <1>2, Zenon

\* The subsets of R with at most n elements, and the sums over them.
Small(R, n) == {s \in SUBSET R : Cardinality(s) <= n}
SumsOn(D, R, f) ==
  /\ f \in [D -> Nat]
  /\ \A s \in D : f[s] =
       IF s = {} THEN 0 ELSE Gain(CHOOSE x \in s : TRUE, R) + f[s \ {CHOOSE x \in s : TRUE}]

Below == {ss \in Nat \X Nat : ss[1] < ss[2]}

\* The order of the naturals is well founded.
LEMMA BelowIs == IsWellFoundedOn(Below, Nat)
<1>1. Below = OpToRel(<, Nat) BY Zenon DEF OpToRel, Below
<1> QED BY <1>1, NatLessThanWellFounded, Zenon

\* A set that holds 0 and every successor of its elements holds every natural.
LEMMA SetInduction ==
  ASSUME NEW T, 0 \in T, \A n \in Nat : n \in T => n + 1 \in T
  PROVE  Nat \subseteq T
<1> DEFINE S == Nat \ T
<1> SUFFICES ASSUME S # {} PROVE FALSE
  OBVIOUS
<1>1. PICK x \in S : \A y \in S : <<y, x>> \notin Below
  <2> HIDE DEF S
  <2>1. S \subseteq Nat BY DEF S
  <2> QED BY <2>1, WFMin, BelowIs
<1>2. x \in Nat /\ x # 0 OBVIOUS
<1>3. x - 1 \in Nat /\ x - 1 < x BY <1>2
<1>4. <<x - 1, x>> \in Below BY <1>2, <1>3 DEF Below
<1>5. x - 1 \in T BY <1>1, <1>3, <1>4
<1> QED BY <1>2, <1>3, <1>5

\* Taking out an element makes a set smaller.
LEMMA SmallSets ==
  ASSUME NEW R, IsFiniteSet(R)
  PROVE  /\ \A s \in Small(R, 0) : s = {}
         /\ \A n \in Nat : \A s \in Small(R, n + 1) : \A x \in s : s \ {x} \in Small(R, n)
         /\ \A n \in Nat : Small(R, n) \subseteq Small(R, n + 1)
         /\ \A n \in Nat : Small(R, n) \subseteq SUBSET R
         /\ {} \in Small(R, 0)
         /\ Cardinality(R) \in Nat /\ SUBSET R = Small(R, Cardinality(R))
<1>1. \A s \in SUBSET R : IsFiniteSet(s) /\ Cardinality(s) \in Nat
  BY FS_Subset, FS_CardinalityType
<1>2. ASSUME NEW n \in Nat, NEW s \in Small(R, n + 1), NEW x \in s PROVE s \ {x} \in Small(R, n)
  <2>1. s \in SUBSET R /\ Cardinality(s) <= n + 1 BY DEF Small
  <2>2. Cardinality(s \ {x}) = Cardinality(s) - 1 BY <1>1, <2>1, FS_RemoveElement
  <2> QED BY <1>1, <2>1, <2>2 DEF Small
<1>3. SUBSET R = Small(R, Cardinality(R)) BY FS_Subset DEF Small
<1>4. {} \in Small(R, 0) BY FS_EmptySet DEF Small
<1>5. \A s \in Small(R, 0) : s = {}
  <2> SUFFICES ASSUME NEW s \in Small(R, 0) PROVE s = {}
    OBVIOUS
  <2>1. s \in SUBSET R /\ Cardinality(s) <= 0 BY DEF Small
  <2>2. Cardinality(s) = 0 /\ IsFiniteSet(s) BY <1>1, <2>1
  <2> QED BY <2>2, FS_EmptySet
<1> QED BY <1>1, <1>2, <1>3, <1>4, <1>5, FS_CardinalityType DEF Small

\* There is such a function, so the chosen one has that step: by induction on the size of
\* the subsets.
LEMMA SumExists ==
  ASSUME NEW R, IsFiniteSet(R), \A r \in R : Gain(r, R) \in Nat
  PROVE  SumsOn(SUBSET R, R, GainSum(R))
<1> DEFINE T == {n \in Nat : \E f : SumsOn(Small(R, n), R, f)}
           chosen(s) == CHOOSE x \in s : TRUE
<1>1. \A s \in SUBSET R : s # {} => chosen(s) \in s
  OBVIOUS
<1> HIDE DEF chosen
<1>2. 0 \in T
  <2>1. SumsOn(Small(R, 0), R, [s \in Small(R, 0) |-> 0])
    BY SmallSets DEF SumsOn
  <2> QED BY <2>1
<1>3. ASSUME NEW n \in Nat, n \in T PROVE n + 1 \in T
  <2>1. PICK f : SumsOn(Small(R, n), R, f) BY <1>3
  <2> DEFINE part(s) == IF s = {} THEN 0 ELSE Gain(chosen(s), R) + f[s \ {chosen(s)}]
             g == [s \in Small(R, n + 1) |-> part(s)]
  <2>2. \A s \in Small(R, n + 1) : s # {} => chosen(s) \in R /\ s \ {chosen(s)} \in Small(R, n)
    BY <1>1, SmallSets
  <2>3. \A s \in Small(R, n) : f[s] = part(s) /\ f[s] \in Nat
    BY <2>1 DEF SumsOn, chosen
  <2>4. \A s \in Small(R, n) : g[s] = f[s]
    BY <2>3, SmallSets
  <2>5. \A s \in Small(R, n + 1) : part(s) \in Nat
    <3> TAKE s \in Small(R, n + 1)
    <3>1. s # {} => Gain(chosen(s), R) \in Nat /\ f[s \ {chosen(s)}] \in Nat BY <2>2, <2>3
    <3> QED BY <3>1
  <2>6. \A s \in Small(R, n + 1) : g[s] =
          IF s = {} THEN 0 ELSE Gain(chosen(s), R) + g[s \ {chosen(s)}]
    BY <2>2, <2>4
  <2>7. g \in [Small(R, n + 1) -> Nat] BY <2>5
  <2> HIDE DEF g
  <2>8. SumsOn(Small(R, n + 1), R, g)
    BY <2>6, <2>7 DEF SumsOn, chosen
  <2> QED BY <2>8
<1>4. Cardinality(R) \in T BY <1>2, <1>3, SetInduction, SmallSets
<1>5. PICK f : SumsOn(SUBSET R, R, f)
  <2>1. SUBSET R = Small(R, Cardinality(R)) BY SmallSets
  <2>2. PICK f : SumsOn(Small(R, Cardinality(R)), R, f) BY <1>4
  <2> QED BY <2>1, <2>2, Zenon
<1>6. f = SumStep(R, f) BY <1>5 DEF SumsOn, SumStep
<1>7. GainSum(R) = SumStep(R, GainSum(R)) BY <1>6 DEF GainSum
<1> DEFINE F == GainSum(R)
           N == {n \in Nat : \A s \in Small(R, n) : F[s] \in Nat}
<1>8. F = SumStep(R, F) BY <1>7
<1> HIDE DEF F
<1>9. \A s \in SUBSET R : F[s] = IF s = {} THEN 0 ELSE Gain(chosen(s), R) + F[s \ {chosen(s)}]
  BY <1>8 DEF SumStep, chosen
<1>10. 0 \in N
  <2>1. F[{}] = 0 BY <1>8 DEF SumStep
  <2>2. ASSUME NEW s \in Small(R, 0) PROVE F[s] = 0
    <3>1. s = {} BY SmallSets
    <3> QED BY <2>1, <3>1
  <2> QED BY <2>2
<1>11. ASSUME NEW n \in Nat, n \in N PROVE n + 1 \in N
  <2>1. ASSUME NEW s \in Small(R, n + 1) PROVE F[s] \in Nat
    <3>1. s \in SUBSET R BY SmallSets
    <3>2. CASE s = {} BY <1>10, <3>2, SmallSets
    <3>3. CASE s # {}
      <4>1. chosen(s) \in s BY <1>1, <3>1, <3>3
      <4>2. s \ {chosen(s)} \in Small(R, n) BY <2>1, <4>1, SmallSets
      <4>3. F[s \ {chosen(s)}] \in Nat BY <1>11, <4>2
      <4> QED BY <1>9, <3>1, <3>3, <4>1, <4>3
    <3> QED BY <3>2, <3>3
  <2> QED BY <2>1
<1>12. Cardinality(R) \in N BY <1>10, <1>11, SetInduction, SmallSets
<1>13. \A s \in SUBSET R : F[s] \in Nat BY <1>12, SmallSets
<1>14. F \in [SUBSET R -> Nat] BY <1>8, <1>13 DEF SumStep
<1> QED BY <1>9, <1>14 DEF SumsOn, chosen, F

\* The order in which a sum takes its elements does not matter.
LEMMA AnyFirst ==
  ASSUME NEW R, IsFiniteSet(R), \A r \in R : Gain(r, R) \in Nat,
         NEW s \in SUBSET R, NEW y \in s
  PROVE  GainSum(R)[s] = Gain(y, R) + GainSum(R)[s \ {y}]
<1> DEFINE F == GainSum(R)
           chosen(t) == CHOOSE x \in t : TRUE
           Swaps(t) == \A z \in t : F[t] = Gain(z, R) + F[t \ {z}]
           T == {n \in Nat : \A t \in Small(R, n) : Swaps(t)}
<1>1. SumsOn(SUBSET R, R, F) BY SumExists
<1> HIDE DEF F
<1>2. /\ \A t \in SUBSET R : F[t] \in Nat
      /\ \A t \in SUBSET R : t # {} => F[t] = Gain(chosen(t), R) + F[t \ {chosen(t)}]
  BY <1>1 DEF SumsOn
<1>3. \A t \in SUBSET R : t # {} => chosen(t) \in t
  OBVIOUS
<1> HIDE DEF chosen
<1>4. 0 \in T
  BY SmallSets
<1>5. ASSUME NEW n \in Nat, n \in T PROVE n + 1 \in T
  <2> SUFFICES ASSUME NEW t \in Small(R, n + 1), NEW z \in t
               PROVE  F[t] = Gain(z, R) + F[t \ {z}]
    OBVIOUS
  <2> DEFINE x == chosen(t)
  <2>1. t \in SUBSET R /\ x \in t BY <1>3, SmallSets
  <2>2. F[t] = Gain(x, R) + F[t \ {x}] BY <1>2, <2>1
  <2> HIDE DEF x
  <2>3. CASE x # z
    <3>1. t \ {x} \in Small(R, n) /\ t \ {z} \in Small(R, n)
      BY <2>1, SmallSets
    <3>2. Swaps(t \ {x}) /\ Swaps(t \ {z}) BY <1>5, <3>1
    <3>3. z \in t \ {x} /\ x \in t \ {z} /\ (t \ {x}) \ {z} = (t \ {z}) \ {x} BY <2>1, <2>3
    <3> DEFINE rest == (t \ {x}) \ {z}
    <3>4. F[t \ {x}] = Gain(z, R) + F[rest] /\ F[t \ {z}] = Gain(x, R) + F[rest]
      BY <3>2, <3>3
    <3>5. Gain(x, R) \in Nat /\ Gain(z, R) \in Nat /\ F[rest] \in Nat
      BY <1>2, <2>1
    <3> HIDE DEF rest
    <3> QED BY <2>2, <3>4, <3>5
  <2> QED BY <2>2, <2>3
<1>6. Cardinality(s) \in T
  <2>1. Cardinality(s) \in Nat BY FS_Subset, FS_CardinalityType
  <2> QED BY <1>4, <1>5, <2>1, SetInduction
<1>7. s \in Small(R, Cardinality(s))
  <2>1. Cardinality(s) \in Nat BY FS_Subset, FS_CardinalityType
  <2> QED BY <2>1 DEF Small
<1>8. Swaps(s) BY <1>6, <1>7
<1> QED BY <1>8 DEF F

Row == [event : Nat, seq : Nat, at : Nat, bytes : Nat]

\* Samples whose order by time is that of their sequence numbers, and whose totals grow.
Growing(R) ==
  /\ R \subseteq Row /\ IsFiniteSet(R)
  /\ \A r, s \in R : r.seq = s.seq => r = s
  /\ \A r, s \in R : r.seq < s.seq => r.at <= s.at /\ r.bytes <= s.bytes

\* The samples with a sequence number below k, and the newest one of a set.
Upto(R, k) == {r \in R : r.seq < k}
Newest(t, S) == t \in S /\ \A r \in S : r.seq <= t.seq

\* Finitely many samples have a newest one.
LEMMA NewestExists ==
  ASSUME NEW R, Growing(R)
  PROVE  \A k \in Nat : Upto(R, k) # {} => \E t : Newest(t, Upto(R, k))
<1> DEFINE T == {k \in Nat : Upto(R, k) # {} => \E t : Newest(t, Upto(R, k))}
<1>0. \A r \in R : r.seq \in Nat BY DEF Growing, Row
<1>1. 0 \in T BY <1>0 DEF Upto
<1>2. ASSUME NEW k \in Nat, k \in T PROVE k + 1 \in T
  <2>1. CASE \E y \in R : y.seq = k
    <3>1. PICK y \in R : y.seq = k BY <2>1
    <3>2. Newest(y, Upto(R, k + 1)) BY <1>0, <3>1 DEF Upto, Newest
    <3> QED BY <3>2
  <2>2. CASE ~\E y \in R : y.seq = k
    <3>1. Upto(R, k + 1) = Upto(R, k) BY <1>0, <2>2 DEF Upto
    <3> QED BY <1>2, <3>1
  <2> QED BY <2>1, <2>2
<1> QED BY <1>1, <1>2, SetInduction

\* event_at and event_id order growing samples by their sequence numbers.
LEMMA GrowingOrder ==
  ASSUME NEW R, Growing(R)
  PROVE  \A r, s \in R : Before(r, s) <=> r.seq < s.seq
<1> SUFFICES ASSUME NEW r \in R, NEW s \in R PROVE Before(r, s) <=> r.seq < s.seq
  OBVIOUS
<1>1. r.seq \in Nat /\ s.seq \in Nat /\ r.at \in Nat /\ s.at \in Nat BY DEF Growing, Row
<1>2. (r.seq < s.seq => r.at <= s.at) /\ (s.seq < r.seq => s.at <= r.at) /\ (r.seq = s.seq => r = s)
  BY DEF Growing
<1> QED BY <1>1, <1>2 DEF Before

\* In growing samples nothing counts as a reset, and each adds the difference to the one
\* before it.
LEMMA GrowingGain ==
  ASSUME NEW R, Growing(R), NEW y \in R
  PROVE  /\ Upto(R, y.seq) = {} => Gain(y, R) = y.bytes
         /\ \A p : Newest(p, Upto(R, y.seq)) => p.bytes <= y.bytes /\ Gain(y, R) = y.bytes - p.bytes
         /\ ~IsReset(y, R)
         /\ Gain(y, R) \in Nat
<1>0. \A r \in R : r.seq \in Nat /\ r.bytes \in Nat BY DEF Growing, Row
<1>1. IsFirst(y, R) <=> Upto(R, y.seq) = {} BY GrowingOrder DEF IsFirst, Upto
<1>2. CASE Upto(R, y.seq) = {} BY <1>0, <1>1, <1>2 DEF Newest, IsReset, Gain
<1>3. CASE Upto(R, y.seq) # {}
  <2>1. PICK t : Newest(t, Upto(R, y.seq)) BY <1>0, <1>3, NewestExists
  <2>2. ASSUME NEW p, Newest(p, Upto(R, y.seq)) PROVE Previous(y, R) = p
    <3>1. p \in R /\ Before(p, y) BY <2>2, GrowingOrder DEF Newest, Upto
    <3>2. \A q \in R : Before(q, y) => ~Before(p, q)
      BY <1>0, <2>2, <3>1, GrowingOrder DEF Newest, Upto
    <3>3. ASSUME NEW q \in R, Before(q, y), \A u \in R : Before(u, y) => ~Before(q, u)
          PROVE  q = p
      <4>1. ~(q.seq < p.seq) /\ ~(p.seq < q.seq) BY <3>1, <3>2, <3>3, GrowingOrder
      <4> QED BY <1>0, <3>1, <4>1 DEF Growing
    <3> QED BY <3>1, <3>2, <3>3 DEF Previous
  <2>3. \A p : Newest(p, Upto(R, y.seq)) => p.bytes <= y.bytes /\ p.bytes \in Nat
    BY <1>0 DEF Newest, Upto, Growing
  <2>4. ~IsReset(y, R)
    BY <1>0, <2>1, <2>2, <2>3 DEF IsReset
  <2>5. \A p : Newest(p, Upto(R, y.seq)) => Gain(y, R) = y.bytes - p.bytes
    BY <1>1, <1>3, <2>2, <2>4 DEF Gain
  <2> QED BY <1>0, <1>3, <2>1, <2>3, <2>4, <2>5
<1> QED BY <1>2, <1>3

\* The sum of the differences is the newest total.
LEMMA Telescoped ==
  ASSUME NEW R, Growing(R), NEW z, Newest(z, R)
  PROVE  Rebuilt(R) = [bytes |-> z.bytes, resets |-> 0]
<1> DEFINE F == GainSum(R)
           T == {k \in Nat : \A t : Newest(t, Upto(R, k)) => F[Upto(R, k)] = t.bytes}
<1>0. IsFiniteSet(R) /\ \A r \in R : r.seq \in Nat /\ r.bytes \in Nat /\ Gain(r, R) \in Nat
  BY GrowingGain DEF Growing, Row
<1>1. \A s \in SUBSET R : \A y \in s : F[s] = Gain(y, R) + F[s \ {y}]
  BY <1>0, AnyFirst
<1>2. F[{}] = 0
  BY <1>0, SumExists DEF SumsOn
<1> HIDE DEF F
<1>3. 0 \in T BY <1>0 DEF Newest, Upto
<1>4. ASSUME NEW k \in Nat, k \in T PROVE k + 1 \in T
  <2> SUFFICES ASSUME NEW t, Newest(t, Upto(R, k + 1)) PROVE F[Upto(R, k + 1)] = t.bytes
    OBVIOUS
  <2>0. t \in R /\ t.seq \in Nat /\ t.bytes \in Nat /\ t.seq < k + 1 BY <1>0 DEF Newest, Upto
  <2>1. CASE t.seq = k
    <3>1. Upto(R, k + 1) \ {t} = Upto(R, k) BY <1>0, <2>0, <2>1 DEF Upto, Growing
    <3>2. t \in Upto(R, k + 1) /\ Upto(R, k + 1) \in SUBSET R BY DEF Newest, Upto
    <3>3. F[Upto(R, k + 1)] = Gain(t, R) + F[Upto(R, k)] BY <1>1, <3>1, <3>2
    <3>4. CASE Upto(R, k) = {}
      <4>1. Gain(t, R) = t.bytes BY <2>0, <2>1, <3>4, GrowingGain
      <4>2. F[Upto(R, k)] = 0 BY <1>2, <3>4
      <4> QED BY <2>0, <3>3, <4>1, <4>2
    <3>5. CASE Upto(R, k) # {}
      <4>1. PICK p : Newest(p, Upto(R, k)) BY <3>5, NewestExists
      <4>2. p \in R BY <4>1 DEF Newest, Upto
      <4>3. Gain(t, R) = t.bytes - p.bytes BY <2>0, <2>1, <4>1, GrowingGain
      <4>4. F[Upto(R, k)] = p.bytes BY <1>4, <4>1
      <4> QED BY <1>0, <2>0, <3>3, <4>2, <4>3, <4>4
    <3> QED BY <3>4, <3>5
  <2>2. CASE t.seq # k
    <3>1. Upto(R, k + 1) = Upto(R, k) BY <1>0, <2>0, <2>2 DEF Newest, Upto
    <3> QED BY <1>4, <3>1
  <2> QED BY <2>1, <2>2
<1>5. z \in R /\ z.seq + 1 \in Nat /\ Upto(R, z.seq + 1) = R
  BY <1>0 DEF Newest, Upto
<1>6. z.seq + 1 \in T BY <1>3, <1>4, <1>5, SetInduction
<1>7. F[R] = z.bytes BY <1>5, <1>6
<1>8. {r \in R : IsReset(r, R)} = {} BY GrowingGain
<1>9. Cardinality({r \in R : IsReset(r, R)}) = 0 BY <1>8, FS_EmptySet
<1> QED BY <1>7, <1>9, Expanded DEF F

-----------------------------------------------------------------------------
(* What the heartbeats of a day carry, and in which order they arrive.      *)

Positions == {"asleep", "sampled", "flushing", "waiting"}
Agents == [pc : Positions, anchor : Nat, wakeAt : Nat, bytes : Nat, current : Nat, sent : Nat]
Day == [last : Nat, sum : Nat, seen : BOOLEAN]
Queued == 1..taken
QueuedOn(h) == DayOf(queuedAt[h])
Awake == agent.pc # "asleep"

\* A backoff is over when the next cycle begins.
Prompt == RetryDelays \subseteq {0, 1}

HistoryType ==
  /\ now \in 0..MaxTime /\ counter \in Nat
  /\ daily \in [Days -> Day] /\ traffic \in [Days -> Nat]
  /\ agent \in Agents
  /\ taken \in 0..(MaxTime + 1)
  /\ agent.pc = "sampled" => taken <= MaxTime
  /\ payload \in [Heartbeats -> Nat] /\ queuedAt \in [Heartbeats -> Nat]
  /\ dueAt \in [Heartbeats -> Nat]
  /\ rows \subseteq Row /\ IsFiniteSet(rows)

\* What the agent counted, and would count next, never exceeds what the machine transferred.
Accounted ==
  /\ \A d \in Days : daily[d].seen => daily[d].sum <= traffic[d]
  /\ daily[DayOf(now)].seen =>
       daily[DayOf(now)].sum + Delta(counter, daily[DayOf(now)].last) <= traffic[DayOf(now)]
  /\ \A d \in Days : DayOf(now) < d => ~daily[d].seen

\* A cycle takes no time, and nothing is counted between its sample and its heartbeat.
Sampled == Awake =>
  /\ agent.anchor = now
  /\ daily[DayOf(now)].seen /\ agent.bytes = daily[DayOf(now)].sum

\* A heartbeat carries no more than its day's sum, and no less than those before it.
Totals ==
  /\ \A h \in Queued : /\ queuedAt[h] <= now
                       /\ daily[QueuedOn(h)].seen /\ payload[h] <= daily[QueuedOn(h)].sum
  /\ \A g, h \in Queued : g < h /\ QueuedOn(g) = QueuedOn(h) => payload[g] <= payload[h]

\* Every cycle finds the whole queue due.
AllDue ==
  /\ \A h \in queue : dueAt[h] <= IF Awake THEN now ELSE agent.wakeAt
  /\ agent.wakeAt <= now + 1

Stored ==
  /\ \A r \in rows : /\ r.event \in Queued /\ r.bytes = payload[r.event]
                     /\ r.seq <= Cardinality(rows) /\ r.at <= now
  /\ \A r, s \in rows : r.seq = s.seq => r = s
  /\ \A r, s \in rows : r.seq < s.seq => r.at <= s.at
  /\ \A req \in network : req.event \in Queued

RolledUp == rollup = [d \in Days |-> Rebuilt(SamplesOf(d, rows))]

\* Heartbeats reach the server in the order of the queue.
InOrder ==
  /\ \A r, s \in rows : r.seq < s.seq => r.event < s.event
  /\ \A e \in Ingested, h \in Queued : h < e => h \in Ingested
  /\ \A req \in network, h \in Queued : h < req.event => h \in Ingested

HistoryParts ==
  /\ HistoryType /\ Accounted /\ Sampled /\ Totals /\ AllDue /\ Stored /\ RolledUp
  /\ trimmed = {} => InOrder

HistoryInv == IInv /\ HistoryParts

\* Days follow each other as their ticks do.
LEMMA DayFacts ==
  /\ \A t \in Nat : DayOf(t) \in Nat
  /\ \A t \in Nat, u \in Nat : t <= u => DayOf(t) <= DayOf(u)
  /\ \A t \in 0..MaxTime : DayOf(t) \in Days
<1>1. \A t \in Nat : DayOf(t) \in Nat
  BY HistoryAssumption DEF DayOf
<1>2. ASSUME NEW t \in Nat, NEW u \in Nat, t <= u PROVE DayOf(t) <= DayOf(u)
  BY <1>2, HistoryAssumption DEF DayOf
<1> QED BY <1>1, <1>2, HistoryAssumption DEF Days

\* What is known of a queued heartbeat.
LEMMA QueuedFacts ==
  ASSUME HistoryInv
  PROVE  /\ Queued \subseteq Heartbeats /\ queue \subseteq Queued
         /\ \A h \in Queued : /\ h \in Nat /\ queuedAt[h] \in 0..MaxTime /\ queuedAt[h] <= now
                             /\ QueuedOn(h) \in Days /\ QueuedOn(h) \in Nat
                             /\ payload[h] \in Nat /\ dueAt[h] \in Nat
<1>0. HistoryType /\ Totals BY DEF HistoryInv, HistoryParts
<1>1. /\ taken \in 0..(MaxTime + 1) /\ now \in 0..MaxTime
      /\ payload \in [Heartbeats -> Nat] /\ queuedAt \in [Heartbeats -> Nat]
      /\ dueAt \in [Heartbeats -> Nat]
  BY <1>0 DEF HistoryType
<1>2. Queued \subseteq Heartbeats BY <1>1, HistoryAssumption DEF Queued, Heartbeats
<1>3. queue \subseteq Queued BY DEF HistoryInv, IInv, QueueType, Queued
<1>4. ASSUME NEW h \in Queued
      PROVE  /\ h \in Nat /\ queuedAt[h] \in 0..MaxTime /\ queuedAt[h] <= now
             /\ QueuedOn(h) \in Days /\ QueuedOn(h) \in Nat
             /\ payload[h] \in Nat /\ dueAt[h] \in Nat
  <2>1. queuedAt[h] \in Nat /\ payload[h] \in Nat /\ dueAt[h] \in Nat BY <1>1, <1>2
  <2>2. queuedAt[h] <= now BY <1>0 DEF Totals
  <2>3. queuedAt[h] \in 0..MaxTime BY <1>1, <2>1, <2>2, HistoryAssumption
  <2>4. QueuedOn(h) \in Days /\ QueuedOn(h) \in Nat BY <2>1, <2>3, DayFacts DEF QueuedOn
  <2> QED BY <2>1, <2>2, <2>3, <2>4 DEF Queued
<1> QED BY <1>2, <1>3, <1>4

\* A day without samples.
LEMMA RebuiltNone == Rebuilt({}) = [bytes |-> 0, resets |-> 0]
<1>1. GainSum({})[{}] = 0 BY SumExists, FS_EmptySet DEF SumsOn
<1>2. {r \in {} : IsReset(r, {})} = {} OBVIOUS
<1>3. Cardinality({r \in {} : IsReset(r, {})}) = 0 BY <1>2, FS_EmptySet
<1> QED BY <1>1, <1>3, Expanded

\* Bytes that are transferred while the agent sleeps are on the day's account before they are
\* counted; a new day begins uncounted.
LEMMA TickParts == HistoryInv /\ Tick => HistoryParts'
<1> SUFFICES ASSUME HistoryInv, Tick PROVE HistoryParts'
  OBVIOUS
<1> USE DEF HistoryInv, HistoryParts
<1>1. PICK bytes \in Growth :
        counter' = counter + bytes
        /\ traffic' = [traffic EXCEPT ![DayOf(now')] = @ + bytes]
  BY DEF Tick
<1>2. /\ now' = now + 1 /\ now < MaxTime /\ agent.pc = "asleep"
      /\ UNCHANGED <<daily, taken, payload, queuedAt, queue, dueAt, trimmed, agent, network,
                     reply, rows, rollup>>
  BY DEF Tick, store, server
<1>3. now \in Nat /\ now' \in 0..MaxTime /\ bytes \in Nat /\ counter \in Nat
  BY <1>2, HistoryAssumption DEF HistoryType
<1>4. /\ DayOf(now) \in Nat /\ DayOf(now') \in Days /\ DayOf(now) <= DayOf(now')
      /\ DayOf(now) \in Days /\ Days \subseteq Nat
  BY <1>2, <1>3, DayFacts DEF HistoryType, Days
<1>5. HistoryType'
  <2>0. traffic \in [Days -> Nat] BY DEF HistoryType
  <2>1. traffic' \in [Days -> Nat]
    <3> DEFINE d == DayOf(now')
    <3>1. d \in Days /\ traffic' = [traffic EXCEPT ![d] = @ + bytes] BY <1>1, <1>4
    <3> HIDE DEF d
    <3> QED BY <1>3, <2>0, <3>1
  <2>2. counter' \in Nat BY <1>1, <1>3
  <2> QED BY <1>2, <1>3, <2>1, <2>2 DEF HistoryType
<1>6. Accounted'
  <2>0. /\ \A d \in Days : traffic[d] \in Nat /\ traffic[d] <= traffic'[d]
        /\ traffic'[DayOf(now')] = traffic[DayOf(now')] + bytes
        /\ \A d \in Days : daily[d].sum \in Nat /\ daily[d].last \in Nat
    BY <1>1, <1>3, <1>4 DEF HistoryType, Day
  <2>1. \A d \in Days : traffic'[d] \in Nat BY <1>5 DEF HistoryType
  <2>2. ASSUME NEW d \in Days, daily[d].seen PROVE daily[d].sum <= traffic'[d]
    <3>1. daily[d].sum <= traffic[d] BY <2>2 DEF Accounted
    <3> QED BY <2>0, <2>1, <3>1
  <2>3. ASSUME daily[DayOf(now')].seen
        PROVE  daily[DayOf(now')].sum + Delta(counter', daily[DayOf(now')].last) <= traffic'[DayOf(now')]
    <3>1. ~(DayOf(now) < DayOf(now')) BY <1>4, <2>3 DEF Accounted
    <3>2. DayOf(now') = DayOf(now) BY <1>4, <3>1 DEF Days
    <3> DEFINE d == DayOf(now)
    <3>3. daily[d].sum + Delta(counter, daily[d].last) <= traffic[d] BY <2>3, <3>2 DEF Accounted
    <3>4. daily[d].sum \in Nat /\ daily[d].last \in Nat /\ traffic[d] \in Nat BY <1>4, <2>0
    <3> HIDE DEF d
    <3>5. daily[d].sum + Delta(counter + bytes, daily[d].last) <= traffic[d] + bytes
      BY <1>3, <3>3, <3>4 DEF Delta
    <3> QED BY <1>1, <2>0, <3>2, <3>5 DEF d
  <2>4. \A d \in Days : DayOf(now') < d => ~daily[d].seen BY <1>4 DEF Accounted, Days
  <2> QED BY <1>2, <2>2, <2>3, <2>4 DEF Accounted
<1>7. Sampled' BY <1>2 DEF Sampled, Awake
<1>8. Totals'
  <2>1. \A h \in Queued : queuedAt[h] <= now + 1 BY <1>3, QueuedFacts
  <2> QED BY <1>2, <2>1 DEF Totals, Queued, QueuedOn
<1>9. AllDue'
  <2>1. agent.wakeAt <= now + 1 /\ agent.wakeAt \in Nat BY DEF AllDue, HistoryType, Agents
  <2> QED BY <1>2, <1>3, <2>1 DEF AllDue, Awake
<1>10. Stored' BY <1>2, <1>3 DEF Stored, Queued, HistoryType, Row
<1>11. RolledUp' BY <1>2 DEF RolledUp
<1>12. (trimmed = {} => InOrder)' BY <1>2 DEF InOrder, Ingested, Queued
<1> QED BY <1>5, <1>6, <1>7, <1>8, <1>9, <1>10, <1>11, <1>12

\* The daily counter takes over what was transferred since the last sample.
LEMMA WakeUpParts == HistoryInv /\ ~FailedReads /\ WakeUp => HistoryParts'
<1> SUFFICES ASSUME HistoryInv, ~FailedReads, WakeUp PROVE HistoryParts'
  OBVIOUS
<1> USE DEF HistoryInv, HistoryParts
<1> DEFINE d == DayOf(now)
           day == Counted(daily[d], counter)
<1>1. /\ daily' = [daily EXCEPT ![d] = day]
      /\ agent' = [agent EXCEPT !.pc = "sampled", !.anchor = now, !.bytes = day.sum]
      /\ agent.pc = "asleep" /\ agent.wakeAt <= now /\ taken < MaxTime + 1
      /\ UNCHANGED <<now, counter, traffic, taken, payload, queuedAt, queue, dueAt, trimmed,
                     network, reply, rows, rollup>>
  <2>1. Readings = {counter} BY DEF Readings
  <2>2. agent.wakeAt \in Nat /\ now \in Nat BY DEF HistoryType, Agents
  <2> QED BY <2>1, <2>2 DEF WakeUp, server
<1>2. /\ now \in Nat /\ now \in 0..MaxTime /\ counter \in Nat /\ d \in Days /\ d \in Nat
      /\ daily[d] \in Day /\ traffic[d] \in Nat
  BY DayFacts DEF HistoryType
<1>3. agent' = [pc |-> "sampled", anchor |-> now, wakeAt |-> agent.wakeAt,
                bytes |-> day.sum, current |-> agent.current, sent |-> agent.sent]
  BY <1>1 DEF IInv, QueueType
<1>4. /\ day \in Day /\ day.seen /\ daily[d].sum \in Nat
      /\ daily[d].seen => daily[d].sum <= day.sum
      /\ day.sum <= traffic[d] /\ day.sum + Delta(counter, day.last) <= traffic[d]
  <2> HIDE DEF d
  <2>1. daily[d].sum \in Nat /\ daily[d].last \in Nat /\ daily[d].seen \in BOOLEAN BY <1>2 DEF Day
  <2>2. daily[d].seen => daily[d].sum + Delta(counter, daily[d].last) <= traffic[d]
    BY DEF Accounted, d
  <2>3. Delta(counter, daily[d].last) \in Nat /\ Delta(counter, counter) = 0
    BY <1>2, <2>1 DEF Delta
  <2>4. /\ day.last = counter /\ day.seen = TRUE
        /\ day.sum = IF daily[d].seen THEN daily[d].sum + Delta(counter, daily[d].last) ELSE 0
    BY DEF Counted
  <2>5. day.sum \in Nat /\ day.sum <= traffic[d] /\ (daily[d].seen => daily[d].sum <= day.sum)
    BY <1>2, <2>1, <2>2, <2>3, <2>4
  <2>6. day \in Day BY <1>2, <2>4, <2>5 DEF Counted, Day
  <2> QED BY <1>2, <2>1, <2>3, <2>4, <2>5, <2>6
<1> HIDE DEF day
<1>5. /\ daily' \in [Days -> Day] /\ daily'[d] = day
      /\ \A e \in Days : e # d => daily'[e] = daily[e]
  <2> HIDE DEF d
  <2> QED BY <1>1, <1>2, <1>4 DEF HistoryType
<1>6. HistoryType'
  <2>1. agent' \in Agents BY <1>2, <1>3, <1>4 DEF HistoryType, Agents, Positions, Day
  <2>2. (taken <= MaxTime)' BY <1>1, HistoryAssumption DEF HistoryType
  <2> QED BY <1>1, <1>5, <2>1, <2>2 DEF HistoryType
<1>7. Accounted' BY <1>1, <1>2, <1>4, <1>5 DEF Accounted, Days
<1>8. Sampled' BY <1>1, <1>3, <1>4, <1>5 DEF Sampled
<1>9. Totals'
  <2>1. ASSUME NEW h \in Queued
        PROVE  daily'[QueuedOn(h)].seen /\ payload[h] <= daily'[QueuedOn(h)].sum
    <3>1. QueuedOn(h) \in Days BY QueuedFacts
    <3>2. daily[QueuedOn(h)].seen /\ payload[h] <= daily[QueuedOn(h)].sum /\ payload[h] \in Nat
      BY QueuedFacts DEF Totals
    <3>3. CASE QueuedOn(h) = d BY <1>4, <1>5, <3>2, <3>3 DEF Day
    <3>4. CASE QueuedOn(h) # d BY <1>5, <3>1, <3>2, <3>4
    <3> QED BY <3>3, <3>4
  <2> QED BY <1>1, <2>1 DEF Totals, Queued, QueuedOn
<1>10. AllDue'
  <2>1. ASSUME NEW h \in queue PROVE dueAt[h] <= now
    <3>1. dueAt[h] <= agent.wakeAt /\ dueAt[h] \in Nat /\ agent.wakeAt \in Nat
      BY <1>1, QueuedFacts DEF AllDue, Awake, HistoryType, Agents
    <3> QED BY <1>1, <1>2, <3>1
  <2> QED BY <1>1, <1>3, <2>1 DEF AllDue, Awake
<1>11. Stored' BY <1>1 DEF Stored, Queued
<1>12. RolledUp' BY <1>1 DEF RolledUp
<1>13. (trimmed = {} => InOrder)' BY <1>1 DEF InOrder, Ingested, Queued
<1> QED BY <1>6, <1>7, <1>8, <1>9, <1>10, <1>11, <1>12, <1>13

\* The new heartbeat carries the greatest total of its day.
LEMMA EnqueueParts == HistoryInv /\ Enqueue => HistoryParts'
<1> SUFFICES ASSUME HistoryInv, Enqueue PROVE HistoryParts'
  OBVIOUS
<1> USE DEF HistoryInv, HistoryParts
<1> DEFINE new == taken + 1
           q == queue \cup {new}
<1>1. /\ taken' = new /\ agent.pc = "sampled"
      /\ payload' = [payload EXCEPT ![new] = agent.bytes]
      /\ queuedAt' = [queuedAt EXCEPT ![new] = agent.anchor]
      /\ dueAt' = [dueAt EXCEPT ![new] = agent.anchor]
      /\ queue' = q \ Overflow(q) /\ trimmed' = trimmed \cup Overflow(q)
      /\ agent' = [agent EXCEPT !.pc = "flushing"]
      /\ UNCHANGED <<now, counter, daily, network, reply, rows, rollup, traffic>>
  BY DEF Enqueue, server
<1>2. /\ now \in Nat /\ now \in 0..MaxTime /\ agent.anchor = now /\ agent.bytes \in Nat
      /\ taken \in Nat /\ new \in Nat /\ new \in Heartbeats /\ new \notin Queued
      /\ Queued' = Queued \cup {new} /\ \A h \in Queued : h < new
  <2>1. taken \in 0..(MaxTime + 1) /\ taken <= MaxTime BY <1>1 DEF HistoryType
  <2>2. agent.anchor = now /\ agent.bytes \in Nat /\ now \in 0..MaxTime
    BY <1>1 DEF Sampled, Awake, HistoryType, Agents
  <2> QED BY <1>1, <2>1, <2>2, HistoryAssumption DEF Heartbeats, Queued
<1>3. agent' = [pc |-> "flushing", anchor |-> agent.anchor, wakeAt |-> agent.wakeAt,
                bytes |-> agent.bytes, current |-> agent.current, sent |-> agent.sent]
  BY <1>1 DEF IInv, QueueType
<1> HIDE DEF new
<1>4. /\ payload'[new] = agent.bytes /\ queuedAt'[new] = now /\ dueAt'[new] = now
      /\ \A h \in Queued : payload'[h] = payload[h] /\ queuedAt'[h] = queuedAt[h] /\ dueAt'[h] = dueAt[h]
      /\ payload' \in [Heartbeats -> Nat] /\ queuedAt' \in [Heartbeats -> Nat]
      /\ dueAt' \in [Heartbeats -> Nat]
  BY <1>1, <1>2, QueuedFacts DEF HistoryType
<1>5. HistoryType'
  <2>1. agent' \in Agents BY <1>2, <1>3 DEF HistoryType, Agents, Positions
  <2>2. taken' \in 0..(MaxTime + 1) BY <1>1, <1>2 DEF Heartbeats, new
  <2> QED BY <1>1, <1>3, <1>4, <2>1, <2>2 DEF HistoryType
<1>6. Accounted' BY <1>1 DEF Accounted
<1>7. Sampled' BY <1>1, <1>2, <1>3 DEF Sampled, Awake
<1>8. /\ DayOf(now) \in Days /\ daily[DayOf(now)].seen /\ agent.bytes = daily[DayOf(now)].sum
      /\ daily[DayOf(now)].sum \in Nat
  BY <1>1, <1>2, DayFacts DEF Sampled, Awake, HistoryType, Day
<1>9. Totals'
  <2>1. DayOf(queuedAt'[new]) = DayOf(now) /\ \A h \in Queued : DayOf(queuedAt'[h]) = QueuedOn(h)
    BY <1>4 DEF QueuedOn
  <2>2. ASSUME NEW h \in Queued \cup {new}
        PROVE  /\ queuedAt'[h] <= now
               /\ daily[DayOf(queuedAt'[h])].seen
               /\ payload'[h] <= daily[DayOf(queuedAt'[h])].sum
    <3>1. CASE h = new BY <1>2, <1>4, <1>8, <2>1, <3>1
    <3>2. CASE h \in Queued BY <1>4, <2>1, <3>2, QueuedFacts DEF Totals
    <3> QED BY <3>1, <3>2
  <2>3. ASSUME NEW g \in Queued \cup {new}, NEW h \in Queued \cup {new}, g < h,
               DayOf(queuedAt'[g]) = DayOf(queuedAt'[h])
        PROVE  payload'[g] <= payload'[h]
    <3>1. g # new BY <1>2, <2>3, QueuedFacts
    <3>2. CASE h = new
      <4>1. payload[g] <= daily[QueuedOn(g)].sum /\ QueuedOn(g) = DayOf(now)
        BY <2>1, <2>3, <3>1, <3>2 DEF Totals
      <4> QED BY <1>4, <1>8, <3>1, <3>2, <4>1
    <3>3. CASE h # new BY <1>4, <2>1, <2>3, <3>1, <3>3 DEF Totals
    <3> QED BY <3>2, <3>3
  <2> QED BY <1>1, <1>2, <2>2, <2>3 DEF Totals, QueuedOn
<1>10. AllDue'
  <2>1. ASSUME NEW h \in queue' PROVE dueAt'[h] <= now
    <3>1. h \in queue \/ h = new BY <1>1
    <3>2. CASE h = new BY <1>2, <1>4, <3>2
    <3>3. CASE h \in queue BY <1>1, <1>4, <3>3, QueuedFacts DEF AllDue, Awake
    <3> QED BY <3>1, <3>2, <3>3
  <2> QED BY <1>1, <1>3, <2>1 DEF AllDue, Awake
<1>11. Stored' BY <1>1, <1>2, <1>4 DEF Stored
<1>12. RolledUp' BY <1>1 DEF RolledUp
<1>13. ASSUME trimmed' = {} PROVE InOrder'
  <2>1. InOrder BY <1>1, <1>13
  <2>2. \A e \in Ingested : e \in Queued BY DEF Ingested, Stored
  <2>3. \A e \in Queued : e \in Nat /\ ~(new < e) BY <1>2, QueuedFacts
  <2>4. \A req \in network : req.event \in Queued BY DEF Stored
  <2> QED BY <1>1, <1>2, <2>1, <2>2, <2>3, <2>4 DEF InOrder, Ingested
<1> QED BY <1>5, <1>6, <1>7, <1>9, <1>10, <1>11, <1>12, <1>13

\* The oldest heartbeat of the queue is due, and all older ones have arrived.
LEMMA SendParts == HistoryInv /\ Prompt /\ Send => HistoryParts'
<1> SUFFICES ASSUME HistoryInv, Send PROVE HistoryParts'
  OBVIOUS
<1> USE DEF HistoryInv, HistoryParts
<1>1. PICK h \in Due : /\ IsNext(h)
                       /\ agent' = [agent EXCEPT !.pc = "waiting", !.current = h]
                       /\ network' = network \cup {[event |-> h, live |-> TRUE]}
  BY DEF Send
<1>2. /\ agent.pc = "flushing"
      /\ UNCHANGED <<now, counter, daily, taken, payload, queuedAt, queue, dueAt, trimmed,
                     reply, rows, rollup, traffic>>
  BY DEF Send, store, server
<1>3. agent' = [pc |-> "waiting", anchor |-> agent.anchor, wakeAt |-> agent.wakeAt,
                bytes |-> agent.bytes, current |-> h, sent |-> agent.sent]
  BY <1>1 DEF IInv, QueueType
<1>4. h \in queue /\ h \in Queued /\ h \in Nat BY QueuedFacts DEF Due
<1>5. HistoryType'
  <2>1. agent' \in Agents BY <1>3, <1>4 DEF HistoryType, Agents, Positions
  <2> QED BY <1>2, <1>3, <2>1 DEF HistoryType
<1>6. Accounted' BY <1>2 DEF Accounted
<1>7. Sampled' BY <1>2, <1>3 DEF Sampled, Awake
<1>8. Totals' BY <1>2 DEF Totals, Queued, QueuedOn
<1>9. AllDue' BY <1>2, <1>3 DEF AllDue, Awake
<1>10. Stored'
  <2>1. \A req \in network' : req.event \in Queued BY <1>1, <1>4 DEF Stored
  <2> QED BY <1>2, <2>1 DEF Stored, Queued
<1>11. RolledUp' BY <1>2 DEF RolledUp
<1>12. ASSUME trimmed' = {} PROVE InOrder'
  <2>1. InOrder /\ trimmed = {} BY <1>2, <1>12
  <2>2. ASSUME NEW g \in Queued, g < h PROVE g \in Ingested
    <3>1. g \in queue => g \in Due
      <4>1. agent.anchor = now BY <1>2 DEF Sampled, Awake
      <4> QED BY <1>2, <4>1 DEF AllDue, Awake, Due
    <3>2. g \notin queue BY <1>1, <1>4, <2>2, <3>1, QueuedFacts DEF IsNext
    <3> QED BY <2>1, <3>2 DEF IInv, NoSampleLost, Queued
  <2>3. \A req \in network', g \in Queued : g < req.event => g \in Ingested
    BY <1>1, <2>1, <2>2 DEF InOrder
  <2> QED BY <1>2, <2>1, <2>3 DEF InOrder, Ingested, Queued
<1> QED BY <1>5, <1>6, <1>7, <1>8, <1>9, <1>10, <1>11, <1>12

\* Only the queue shrinks.
LEMMA CompletedParts == HistoryInv /\ Completed => HistoryParts'
<1> SUFFICES ASSUME HistoryInv, Completed PROVE HistoryParts'
  OBVIOUS
<1> USE DEF HistoryInv, HistoryParts
<1>1. /\ agent.pc = "waiting" /\ queue' = queue \ {agent.current}
      /\ agent' = [agent EXCEPT !.pc = "flushing", !.current = 0, !.sent = @ + 1]
      /\ UNCHANGED <<now, counter, daily, taken, payload, queuedAt, dueAt, trimmed, network,
                     rows, rollup, traffic>>
  BY DEF Completed, server
<1>2. agent' = [pc |-> "flushing", anchor |-> agent.anchor, wakeAt |-> agent.wakeAt,
                bytes |-> agent.bytes, current |-> 0, sent |-> agent.sent + 1]
  BY <1>1 DEF IInv, QueueType
<1>3. HistoryType'
  <2>1. agent' \in Agents BY <1>2 DEF HistoryType, Agents, Positions
  <2> QED BY <1>1, <1>2, <2>1 DEF HistoryType
<1>4. Accounted' BY <1>1 DEF Accounted
<1>5. Sampled' BY <1>1, <1>2 DEF Sampled, Awake
<1>6. Totals' BY <1>1 DEF Totals, Queued, QueuedOn
<1>7. AllDue' BY <1>1, <1>2 DEF AllDue, Awake
<1>8. Stored' BY <1>1 DEF Stored, Queued
<1>9. RolledUp' BY <1>1 DEF RolledUp
<1>10. (trimmed = {} => InOrder)' BY <1>1 DEF InOrder, Ingested, Queued
<1> QED BY <1>3, <1>4, <1>5, <1>6, <1>7, <1>8, <1>9, <1>10

\* The agent goes to sleep: after a failure, a restart or a finished cycle.
LEMMA AsleepParts ==
  ASSUME HistoryInv, Prompt, Fail \/ Reboot \/ Sleep
  PROVE  HistoryParts'
<1> USE DEF HistoryInv, HistoryParts
<1>1. agent' = [pc |-> "asleep", anchor |-> 0, wakeAt |-> now + 1, bytes |-> 0,
                current |-> 0, sent |-> 0]
  BY DEF Fail, Reboot, Sleep, Asleep
<1>2. /\ UNCHANGED <<now, daily, taken, payload, queuedAt, queue, trimmed, rows, rollup, traffic>>
      /\ counter' \in {0, counter}
  BY DEF Fail, FailHeartbeat, Reboot, Sleep, store, server
<1>3. now \in Nat /\ now \in 0..MaxTime /\ counter \in Nat /\ counter' \in Nat
  BY <1>2, HistoryAssumption DEF HistoryType
<1>4. /\ \A h \in Queued : dueAt'[h] = dueAt[h] \/ dueAt'[h] \in {agent.anchor, agent.anchor + 1}
      /\ dueAt' \in [Heartbeats -> Nat]
      /\ dueAt' # dueAt => agent.pc = "waiting"
  <2>1. CASE UNCHANGED dueAt BY <2>1 DEF HistoryType
  <2>2. CASE Fail
    <3>1. PICK delay \in RetryDelays : FailHeartbeat(agent.current, agent.anchor + delay)
      BY <2>2 DEF Fail
    <3>2. delay \in {0, 1} /\ agent.anchor \in Nat BY DEF Prompt, HistoryType, Agents
    <3>3. dueAt' = [dueAt EXCEPT ![agent.current] = agent.anchor + delay]
      BY <3>1 DEF FailHeartbeat
    <3>4. \A h \in Queued : dueAt'[h] = dueAt[h] \/ dueAt'[h] \in {agent.anchor, agent.anchor + 1}
      BY <3>2, <3>3, QueuedFacts DEF HistoryType
    <3>5. dueAt' \in [Heartbeats -> Nat]
      <4>1. dueAt \in [Heartbeats -> Nat] /\ agent.anchor + delay \in Nat
        BY <3>2 DEF HistoryType
      <4> QED BY <3>3, <4>1
    <3> QED BY <2>2, <3>4, <3>5 DEF Fail
  <2> QED BY <2>1, <2>2 DEF Reboot, Sleep, store
<1>5. HistoryType'
  <2>1. agent' \in Agents BY <1>1, <1>3 DEF Agents, Positions
  <2> QED BY <1>1, <1>2, <1>3, <1>4, <2>1 DEF HistoryType
<1>6. Accounted'
  <2> DEFINE d == DayOf(now)
  <2>1. d \in Days /\ daily[d].last \in Nat /\ daily[d].sum \in Nat /\ traffic[d] \in Nat
    BY <1>3, DayFacts DEF HistoryType, Day
  <2>2. daily[d].seen => /\ daily[d].sum + Delta(counter, daily[d].last) <= traffic[d]
                         /\ daily[d].sum <= traffic[d]
    BY <2>1 DEF Accounted
  <2> HIDE DEF d
  <2>3. daily[d].seen => daily[d].sum + Delta(counter', daily[d].last) <= traffic[d]
    BY <1>2, <2>1, <2>2 DEF Delta
  <2> QED BY <1>2, <2>3 DEF Accounted, d
<1>7. Sampled' BY <1>1 DEF Sampled, Awake
<1>8. Totals' BY <1>2 DEF Totals, Queued, QueuedOn
<1>9. AllDue'
  <2>1. ASSUME NEW h \in queue PROVE dueAt'[h] <= now + 1
    <3>1. h \in Queued /\ dueAt[h] \in Nat BY QueuedFacts
    <3>2. agent.pc = "waiting" => agent.anchor = now BY DEF Sampled, Awake
    <3>3. dueAt[h] <= now + 1
      <4>1. CASE Awake BY <1>3, <3>1, <4>1 DEF AllDue
      <4>2. CASE ~Awake BY <1>3, <3>1, <4>2 DEF AllDue, HistoryType, Agents
      <4> QED BY <4>1, <4>2
    <3> QED BY <1>3, <1>4, <3>1, <3>2, <3>3
  <2> QED BY <1>1, <1>2, <1>3, <2>1 DEF AllDue, Awake
<1>10. \A req \in network' : \E old \in network : req.event = old.event
  <2>1. network' = network \/ network' = Abandoned \/ network' \subseteq network
    BY DEF Fail, Reboot, Sleep
  <2>2. CASE network' = Abandoned
    <3>1. \A old \in network : [old EXCEPT !.live = FALSE].event = old.event
      BY DEF IInv, QueueType, Request
    <3> QED BY <2>2, <3>1 DEF Abandoned
  <2> QED BY <2>1, <2>2
<1>11. Stored'
  <2>1. \A req \in network' : req.event \in Queued BY <1>10 DEF Stored
  <2> QED BY <1>2, <2>1 DEF Stored, Queued
<1>12. RolledUp' BY <1>2 DEF RolledUp
<1>13. ASSUME trimmed' = {} PROVE InOrder'
  <2>1. InOrder BY <1>2, <1>13
  <2>2. \A req \in network', h \in Queued : h < req.event => h \in Ingested
    BY <1>10, <2>1 DEF InOrder
  <2> QED BY <1>2, <2>1, <2>2 DEF InOrder, Ingested, Queued
<1> QED BY <1>5, <1>6, <1>7, <1>8, <1>9, <1>11, <1>12, <1>13

\* A heartbeat that arrives first is the newest sample, of today only.
LEMMA ServeParts == HistoryInv /\ Serve => HistoryParts'
<1> SUFFICES ASSUME HistoryInv, Serve PROVE HistoryParts'
  OBVIOUS
<1> USE DEF HistoryInv, HistoryParts
<1>1. PICK req \in network : Ingest(req.event) /\ network' = network \ {req}
  BY DEF Serve
<1>2. UNCHANGED <<now, counter, daily, taken, payload, queuedAt, queue, dueAt, trimmed, agent,
                  traffic>>
  BY DEF Serve, store
<1>3. /\ Accounted' /\ Sampled' /\ Totals' /\ AllDue'
  <2>1. Accounted' BY <1>2 DEF Accounted
  <2>2. Sampled' BY <1>2 DEF Sampled, Awake
  <2>3. Totals' BY <1>2 DEF Totals, Queued, QueuedOn
  <2>4. AllDue' BY <1>2 DEF AllDue, Awake
  <2> QED BY <2>1, <2>2, <2>3, <2>4
<1>4. \A other \in network' : other \in network BY <1>1
<1>5. CASE req.event \in Ingested
  <2>1. UNCHANGED <<rows, rollup>> BY <1>1, <1>5 DEF Ingest, server
  <2>2. HistoryType' BY <1>2, <2>1 DEF HistoryType
  <2>3. Stored' BY <1>2, <1>4, <2>1 DEF Stored, Queued
  <2>4. RolledUp' BY <2>1 DEF RolledUp
  <2>5. (trimmed = {} => InOrder)' BY <1>2, <1>4, <2>1 DEF InOrder, Ingested, Queued
  <2> QED BY <1>3, <2>2, <2>3, <2>4, <2>5
<1>6. CASE req.event \notin Ingested
  <2> DEFINE new == [event |-> req.event, seq |-> Cardinality(rows) + 1, at |-> now,
                     bytes |-> payload[req.event]]
             d == DayOf(now)
  <2>1. /\ rows' = rows \cup {new}
        /\ rollup' = [rollup EXCEPT ![d] = Rebuilt(SamplesOf(d, rows'))]
    BY <1>1, <1>6 DEF Ingest
  <2>2. /\ req.event \in Queued /\ payload[req.event] \in Nat /\ req.event \in Nat
        /\ now \in Nat /\ d \in Days /\ IsFiniteSet(rows) /\ rows \subseteq Row
        /\ Cardinality(rows) \in Nat
    <3>1. req.event \in Queued BY DEF Stored
    <3>2. now \in 0..MaxTime /\ IsFiniteSet(rows) /\ rows \subseteq Row BY DEF HistoryType
    <3>3. Cardinality(rows) \in Nat BY <3>2, FS_CardinalityType
    <3>4. payload[req.event] \in Nat /\ req.event \in Nat BY <3>1, QueuedFacts
    <3> QED BY <3>1, <3>2, <3>3, <3>4, DayFacts
  <2>3. /\ new \in Row /\ new.event = req.event /\ new.seq = Cardinality(rows) + 1
        /\ new.at = now /\ new.bytes = payload[req.event]
    BY <2>2 DEF Row
  <2> HIDE DEF new
  <2>4. new \notin rows BY <1>6, <2>3 DEF Ingested
  <2>5. /\ IsFiniteSet(rows') /\ Cardinality(rows') = Cardinality(rows) + 1
        /\ rows' \subseteq Row /\ Ingested' = Ingested \cup {req.event}
    <3>1. IsFiniteSet(rows') /\ Cardinality(rows') = Cardinality(rows) + 1
      BY <2>1, <2>2, <2>4, FS_AddElement
    <3> QED BY <2>1, <2>2, <2>3, <3>1 DEF Ingested
  <2>6. \A r \in rows : /\ r.seq \in Nat /\ r.at \in Nat /\ r.event \in Nat
                         /\ r.seq < new.seq /\ r.at <= now
    BY <2>2, <2>3 DEF Stored, Row
  <2>7. HistoryType' BY <1>2, <2>5 DEF HistoryType
  <2>8. Stored'
    <3>1. ASSUME NEW r \in rows'
          PROVE  /\ r.event \in Queued /\ r.bytes = payload[r.event]
                 /\ r.seq <= Cardinality(rows') /\ r.at <= now
      BY <2>1, <2>2, <2>3, <2>5, <2>6 DEF Stored
    <3>2. \A r, s \in rows' : r.seq = s.seq => r = s BY <2>1, <2>2, <2>3, <2>6 DEF Stored
    <3>3. \A r, s \in rows' : r.seq < s.seq => r.at <= s.at BY <2>1, <2>2, <2>3, <2>6 DEF Stored
    <3>4. \A other \in network' : other.event \in Queued BY <1>4 DEF Stored
    <3> QED BY <1>2, <3>1, <3>2, <3>3, <3>4 DEF Stored, Queued
  <2>9. RolledUp'
    <3>1. ASSUME NEW e \in Days, e # d PROVE SamplesOf(e, rows') = SamplesOf(e, rows)
      BY <2>1, <2>3, <3>1 DEF SamplesOf
    <3>2. rollup = [e \in Days |-> Rebuilt(SamplesOf(e, rows))] BY DEF RolledUp
    <3> HIDE DEF d
    <3>3. rollup' = [e \in Days |-> Rebuilt(SamplesOf(e, rows'))] BY <2>1, <2>2, <3>1, <3>2
    <3> QED BY <3>3 DEF RolledUp
  <2>10. ASSUME trimmed' = {} PROVE InOrder'
    <3>1. InOrder BY <1>2, <2>10
    <3>2. \A h \in Queued : h < req.event => h \in Ingested BY <3>1 DEF InOrder
    <3>3. \A e \in Ingested : e \in Queued /\ e \in Nat BY QueuedFacts DEF Ingested, Stored
    <3>4. \A e \in Ingested : e < req.event
      BY <1>6, <2>2, <3>1, <3>3 DEF InOrder
    <3>5. \A r, s \in rows' : r.seq < s.seq => r.event < s.event
      <4>1. \A r \in rows : r.event < new.event BY <2>3, <3>4 DEF Ingested
      <4> QED BY <2>1, <2>2, <2>3, <2>6, <3>1, <4>1 DEF InOrder
    <3>6. \A e \in Ingested', h \in Queued : h < e => h \in Ingested'
      BY <2>5, <3>1, <3>2 DEF InOrder
    <3>7. \A other \in network', h \in Queued : h < other.event => h \in Ingested'
      BY <1>4, <2>5, <3>1 DEF InOrder
    <3> QED BY <1>2, <3>5, <3>6, <3>7 DEF InOrder, Queued
  <2> QED BY <1>3, <2>7, <2>8, <2>9, <2>10
<1> QED BY <1>5, <1>6

\* Nothing changes.
LEMMA StutterParts == HistoryInv /\ UNCHANGED vars => HistoryParts'
<1> SUFFICES ASSUME HistoryInv, UNCHANGED vars PROVE HistoryParts'
  OBVIOUS
<1> USE DEF HistoryInv, HistoryParts, vars, store, server
<1>1. HistoryType' BY DEF HistoryType
<1>2. Accounted' BY DEF Accounted
<1>3. Sampled' BY DEF Sampled, Awake
<1>4. Totals' BY DEF Totals, Queued, QueuedOn
<1>5. AllDue' BY DEF AllDue, Awake
<1>6. Stored' BY DEF Stored, Queued
<1>7. RolledUp' BY DEF RolledUp
<1>8. (trimmed = {} => InOrder)' BY DEF InOrder, Ingested, Queued
<1> QED BY <1>1, <1>2, <1>3, <1>4, <1>5, <1>6, <1>7, <1>8

\* Nothing has been counted, queued or stored yet.
LEMMA HistoryInitially == Init => HistoryInv
<1> SUFFICES ASSUME Init PROVE HistoryInv
  OBVIOUS
<1>1. /\ now = 0 /\ counter \in Growth /\ daily = [d \in Days |-> NoDay] /\ taken = 0
      /\ payload = [h \in Heartbeats |-> 0] /\ queuedAt = [h \in Heartbeats |-> 0]
      /\ queue = {} /\ dueAt = [h \in Heartbeats |-> 0] /\ network = {} /\ rows = {}
      /\ rollup = [d \in Days |-> [bytes |-> 0, resets |-> 0]]
      /\ traffic = [d \in Days |-> 0]
      /\ agent = [pc |-> "asleep", anchor |-> 0, wakeAt |-> 0, bytes |-> 0,
                  current |-> 0, sent |-> 0]
  BY DEF Init, Asleep
<1>2. NoDay \in Day /\ ~NoDay.seen BY DEF NoDay, Day
<1>3. Queued = {} /\ Ingested = {} /\ 0 \in 0..MaxTime /\ DayOf(now) \in Days
  BY <1>1, DayFacts, HistoryAssumption DEF Queued, Ingested
<1>4. HistoryType
  <2>1. agent \in Agents BY <1>1 DEF Agents, Positions
  <2>2. IsFiniteSet(rows) BY <1>1, FS_EmptySet
  <2> QED BY <1>1, <1>2, <1>3, <2>1, <2>2, HistoryAssumption DEF HistoryType
<1>5. Accounted BY <1>1, <1>2, <1>3 DEF Accounted
<1>6. Sampled BY <1>1 DEF Sampled, Awake
<1>7. Totals BY <1>3 DEF Totals
<1>8. AllDue BY <1>1 DEF AllDue
<1>9. Stored BY <1>1 DEF Stored
<1>10. RolledUp
  <2>1. Rebuilt({}) = [bytes |-> 0, resets |-> 0] BY RebuiltNone
  <2>2. \A d \in Days : SamplesOf(d, rows) = {} BY <1>1 DEF SamplesOf
  <2> QED BY <1>1, <2>1, <2>2 DEF RolledUp
<1>11. InOrder BY <1>1, <1>3 DEF InOrder
<1> QED BY <1>4, <1>5, <1>6, <1>7, <1>8, <1>9, <1>10, <1>11, InitInv DEF HistoryInv, HistoryParts

\* A counter that is read and a prompt backoff preserve the invariant.
LEMMA HistoryInvariance ==
  Prompt /\ ~FailedReads /\ HistoryInv /\ [Next]_vars => HistoryInv'
<1> SUFFICES ASSUME Prompt, ~FailedReads, HistoryInv, [Next]_vars PROVE HistoryInv'
  OBVIOUS
<1>1. IInv' BY Invariance DEF HistoryInv
<1>2. HistoryParts'
  BY TickParts, WakeUpParts, EnqueueParts, SendParts, CompletedParts, AsleepParts, ServeParts,
     StutterParts DEF Next, AgentStep, Horizon
<1> QED BY <1>1, <1>2 DEF HistoryInv

LEMMA HistoryInvariant == Prompt /\ ~FailedReads => (Spec => []HistoryInv)
<1> SUFFICES ASSUME Prompt, ~FailedReads PROVE Spec => []HistoryInv
  OBVIOUS
<1>1. HistoryInv /\ [Next]_vars => HistoryInv' BY HistoryInvariance
<1> QED BY <1>1, HistoryInitially, PTL DEF Spec

\* The samples of a day on which only its own heartbeats arrived.
LEMMA OwnDaySamples ==
  ASSUME HistoryInv, InOrder, NEW d \in Days, OwnDay(d), SamplesOf(d, rows) # {}
  PROVE  \E z \in SamplesOf(d, rows) :
           /\ \A r \in SamplesOf(d, rows) : r.event <= z.event
           /\ rollup[d] = [bytes |-> z.bytes, resets |-> 0]
           /\ z.event \in Queued /\ QueuedOn(z.event) = d /\ z.bytes = payload[z.event]
<1> USE DEF HistoryInv, HistoryParts
<1> DEFINE R == SamplesOf(d, rows)
<1>1. /\ R \subseteq rows /\ IsFiniteSet(R) /\ R \subseteq Row
      /\ \A r \in R : r.event \in Queued /\ r.bytes = payload[r.event] /\ QueuedOn(r.event) = d
      /\ \A r \in R : r.seq \in Nat /\ r.event \in Nat /\ r.seq <= Cardinality(rows)
  <2>1. R \subseteq rows BY DEF SamplesOf
  <2>2. IsFiniteSet(R) /\ R \subseteq Row BY <2>1, FS_Subset DEF HistoryType
  <2> QED BY <2>1, <2>2 DEF Stored, Row, OwnDay, QueuedOn
<1> HIDE DEF R
<1>2. \A r, s \in R : r.seq < s.seq => r.event < s.event /\ r.at <= s.at
  BY <1>1 DEF InOrder, Stored
<1>3. \A r, s \in R : r.seq < s.seq => r.bytes <= s.bytes
  BY <1>1, <1>2 DEF Totals
<1>4. Growing(R) BY <1>1, <1>2, <1>3 DEF Growing, Stored
<1>5. Cardinality(rows) \in Nat BY FS_CardinalityType DEF HistoryType
<1>6. R = Upto(R, Cardinality(rows) + 1) BY <1>1, <1>5 DEF Upto
<1>7. PICK z : Newest(z, R) BY <1>4, <1>5, <1>6, NewestExists DEF R
<1>8. rollup[d] = [bytes |-> z.bytes, resets |-> 0] BY <1>4, <1>7, Telescoped DEF RolledUp, R
<1>9. \A r \in R : r.event <= z.event
  <2> SUFFICES ASSUME NEW r \in R PROVE r.event <= z.event
    OBVIOUS
  <2>1. z \in R /\ r.seq <= z.seq BY <1>7 DEF Newest
  <2>2. r.seq = z.seq => r = z BY <1>4, <2>1 DEF Growing
  <2> QED BY <1>1, <1>2, <2>1, <2>2
<1> QED BY <1>1, <1>7, <1>8, <1>9 DEF Newest, R

\* The invariant gives both properties while nothing was trimmed.
LEMMA HistoryFollows ==
  ASSUME HistoryInv, trimmed = {} PROVE TrafficNotInflated /\ RollupIsLatestTotal
<1> USE DEF HistoryInv, HistoryParts
<1>1. ASSUME NEW d \in Days, OwnDay(d) PROVE rollup[d].bytes <= traffic[d]
  <2>1. CASE SamplesOf(d, rows) = {}
    <3>1. Rebuilt({}) = [bytes |-> 0, resets |-> 0] BY RebuiltNone
    <3>2. traffic[d] \in Nat BY DEF HistoryType
    <3> QED BY <2>1, <3>1, <3>2 DEF RolledUp
  <2>2. CASE SamplesOf(d, rows) # {}
    <3>1. PICK z \in SamplesOf(d, rows) :
            /\ rollup[d] = [bytes |-> z.bytes, resets |-> 0]
            /\ z.event \in Queued /\ QueuedOn(z.event) = d /\ z.bytes = payload[z.event]
      BY <1>1, <2>2, OwnDaySamples
    <3>2. rollup[d].bytes = payload[z.event] BY <3>1
    <3>3. daily[d].seen /\ payload[z.event] <= daily[d].sum BY <3>1 DEF Totals
    <3>4. daily[d].sum <= traffic[d] BY <3>3 DEF Accounted
    <3>5. payload[z.event] \in Nat /\ daily[d].sum \in Nat /\ traffic[d] \in Nat
      BY <3>1, QueuedFacts DEF HistoryType, Day
    <3> QED BY <3>2, <3>3, <3>4, <3>5
  <2> QED BY <2>1, <2>2
<1>2. ASSUME NEW d \in Days, OwnDay(d), NEW e \in {r.event : r \in SamplesOf(d, rows)}
      PROVE  /\ rollup[d].bytes = payload[Max({r.event : r \in SamplesOf(d, rows)})]
             /\ rollup[d].resets = 0
  <2>1. PICK z \in SamplesOf(d, rows) :
          /\ \A r \in SamplesOf(d, rows) : r.event <= z.event
          /\ rollup[d] = [bytes |-> z.bytes, resets |-> 0]
          /\ z.event \in Queued /\ z.bytes = payload[z.event]
    BY <1>2, OwnDaySamples
  <2>2. Max({r.event : r \in SamplesOf(d, rows)}) = z.event
    <3> DEFINE E == {r.event : r \in SamplesOf(d, rows)}
    <3>1. z.event \in E /\ (\A x \in E : z.event >= x) /\ E \subseteq Nat
      BY <2>1, QueuedFacts DEF Stored, SamplesOf
    <3> HIDE DEF E
    <3>2. ASSUME NEW m \in E, \A x \in E : m >= x PROVE m = z.event
      <4>1. m \in Nat /\ z.event \in Nat /\ m >= z.event /\ z.event >= m BY <3>1, <3>2
      <4> QED BY <4>1
    <3>3. Max(E) = z.event BY <3>1, <3>2 DEF Max
    <3> QED BY <3>3 DEF E
  <2> QED BY <2>1, <2>2
<1> QED BY <1>1, <1>2 DEF TrafficNotInflated, RollupIsLatestTotal

\* However the counter and the agent restart and exchanges fail, if a backoff ends before
\* the next cycle, the counter can be read and the queue was never full, the rollup of a
\* day on which only its own heartbeats arrived reports no more than the machine
\* transferred: rebuild_rollup_for_key over ingest_heartbeat.
THEOREM TrafficSafety ==
  Prompt /\ ~FailedReads => (Spec => [](trimmed = {} => TrafficNotInflated))
  BY HistoryInvariant, HistoryFollows, PTL

\* Under the same conditions that rollup is the total of the newest heartbeat that arrived,
\* without a reset: differences that _counter_total takes telescope.
THEOREM RollupSafety ==
  Prompt /\ ~FailedReads => (Spec => [](trimmed = {} => RollupIsLatestTotal))
  BY HistoryInvariant, HistoryFollows, PTL
=============================================================================
