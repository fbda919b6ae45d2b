-------------------------- MODULE MessageSystemProofs --------------------------
(***************************************************************************)
(* TLAPS proofs about MessageSystem: what agent, notifiers and server know *)
(* of a popup agrees, for any number of messages, sessions and crashes,    *)
(* whatever the network loses or delays.                                   *)
(***************************************************************************)
EXTENDS MessageSystem, MessageDeliveryProofs, SequenceTheorems, WellFoundedInduction

-----------------------------------------------------------------------------
(* Types.                                                                  *)

Work == [id : Deliveries, token : Nat \ {0}]
Receipt == [id : Deliveries, token : Nat, dueAt : Nat, attempts : 0..Len(RetryDelays) - 1]

\* The rows of edge_receipt_queue_v1, one for a delivery.
QueueTyped(queue) ==
  /\ queue \in Seq(Receipt)
  /\ \A j, k \in DOMAIN queue : queue[j].id = queue[k].id => j = k

DiskTyped ==
  /\ pending \in [Deliveries -> Nat]
  /\ marker \in SUBSET Deliveries /\ marked \in SUBSET Deliveries
  /\ cached \in SUBSET Deliveries /\ acked \in SUBSET Deliveries
  /\ QueueTyped(outbox)

Places == {"asleep", "promoting", "completing", "receipts", "ackWait", "heartbeat",
           "heartbeatWait", "staging"}
Process == [pc : Places, anchor : Nat, wakeAt : Nat, authError : BOOLEAN,
            work : SUBSET Work, current : Deliveries \cup {NoDelivery}]

AgentTyped ==
  /\ agent \in Process
  /\ agent.pc \in {"completing", "ackWait"} => agent.current \in Deliveries

AckRequest == [kind : {"ack"}, id : Deliveries, token : Nat, live : BOOLEAN]
HeartbeatRequest == [kind : {"heartbeat"}, live : BOOLEAN]
Status == [kind : {"none", "ok", "unauthorized", "error"}]
HeartbeatReply == [kind : {"messages"}, work : SUBSET Work]

WireTyped ==
  /\ network \in SUBSET (AckRequest \cup HeartbeatRequest)
  /\ reply \in Status \cup HeartbeatReply

Session == [list : SUBSET Deliveries, showing : Deliveries \cup {NoDelivery}, found : BOOLEAN]

SessionsTyped ==
  /\ notifier \in [Notifiers -> Session]
  /\ \A n \in Notifiers :
       /\ notifier[n].showing = NoDelivery => ~notifier[n].found
       /\ notifier[n].showing \notin notifier[n].list

-----------------------------------------------------------------------------
(* The inductive invariant.                                                *)

\* The deliveries that the agent has yet to report.
IdsOf(queue) == {queue[k].id : k \in DOMAIN queue}
Unreported == IdsOf(outbox)

\* Only the request that the agent waits for is answered, once, and an answer that
\* ends a receipt is true at the server.
Exchange ==
  /\ \A req \in network : req.live =>
       /\ req.kind = "ack" => agent.pc = "ackWait" /\ req.id = agent.current
       /\ req.kind = "heartbeat" => agent.pc = "heartbeatWait"
       /\ reply = NoReply
  /\ \A req, other \in network : req.live /\ other.live => req = other
  /\ reply # NoReply => agent.pc \in {"ackWait", "heartbeatWait"}
  /\ reply.kind = "messages" => agent.pc = "heartbeatWait"
  /\ reply.kind = "ok" =>
       agent.pc = "ackWait" /\ delivery[agent.current].state = "ACKNOWLEDGED"

\* A queued receipt, or one that the server has.
Accounted(d) == d \in Unreported \cup acked

\* Agent and network speak only of deliveries that a notifier marked, and what the
\* agent is about to forget in the inbox is accounted for.
Reported ==
  /\ \A req \in network : req.kind = "ack" => req.id \in marked
  /\ agent.pc \in {"promoting", "completing"} => \A w \in agent.work : w.id \in marked
  /\ agent.pc \in {"completing", "ackWait"} => agent.current \in cached
  /\ agent.pc = "completing" => Accounted(agent.current)

ProcessInv == AgentTyped /\ WireTyped /\ Exchange /\ Reported

\* So does the disk.
Seen ==
  /\ marker \subseteq marked /\ cached \subseteq marked
  /\ Unreported \subseteq cached /\ acked \subseteq cached
  /\ AcknowledgedWasDisplayed

\* A notifier that has found the file will mark it, even if it is gone by then.
Remembered ==
  /\ \A d \in marked : d \in Store!Displayed \/ Accounted(d)
  /\ \A n \in Notifiers : notifier[n].found =>
       pending[notifier[n].showing] # 0 \/ Accounted(notifier[n].showing)

LocalAcks == \A d \in acked : delivery[d].state = "ACKNOWLEDGED" /\ d \notin Unreported

\* A notifier holds messages that were staged, and their files go only to the cache.
Staged == \A n \in Notifiers, d \in Deliveries :
  d \in notifier[n].list \cup {notifier[n].showing} => pending[d] # 0 \/ d \in cached

DiskInv == DiskTyped /\ SessionsTyped /\ Seen /\ Remembered /\ LocalAcks /\ Staged

SystemInv == SafeInv /\ ProcessInv /\ DiskInv

-----------------------------------------------------------------------------
(* The agent's disk.                                                       *)

\* A queue is a sequence of rows.
LEMMA QueueParts ==
  ASSUME NEW queue, QueueTyped(queue)
  PROVE  /\ Len(queue) \in Nat /\ DOMAIN queue = 1..Len(queue)
         /\ \A k \in DOMAIN queue :
              /\ queue[k] \in Receipt /\ queue[k].id \in Deliveries
              /\ queue[k].token \in Nat /\ queue[k].dueAt \in Nat
              /\ queue[k].attempts \in 0..Len(RetryDelays) - 1
<1>1. queue \in Seq(Receipt) BY DEF QueueTyped
<1>2. Len(queue) \in Nat /\ DOMAIN queue = 1..Len(queue) BY <1>1
<1>3. \A k \in DOMAIN queue : queue[k] \in Receipt BY <1>1
<1> QED BY <1>2, <1>3 DEF Receipt

\* A queue whose rows are written again, each under its id.
LEMMA RowsRewritten ==
  ASSUME NEW queue, QueueTyped(queue), NEW new, DOMAIN new = DOMAIN queue,
         new = [k \in DOMAIN queue |-> new[k]],
         \A k \in DOMAIN queue : new[k] \in Receipt /\ new[k].id = queue[k].id
  PROVE  QueueTyped(new) /\ IdsOf(new) = IdsOf(queue)
<1>1. Len(queue) \in Nat /\ DOMAIN queue = 1..Len(queue) BY QueueParts
<1>2. new \in [1..Len(queue) -> Receipt] BY <1>1
<1>3. new \in Seq(Receipt) BY <1>1, <1>2, SeqDef
<1>4. QueueTyped(new) BY <1>3 DEF QueueTyped
<1>5. IdsOf(new) = IdsOf(queue) BY DEF IdsOf
<1> QED BY <1>4, <1>5

\* INSERT ... ON CONFLICT adds a row for the id or renews the one there is.
LEMMA UpsertedIs ==
  ASSUME DiskTyped, NEW i \in Deliveries, NEW token \in Nat, NEW t \in Nat
  PROVE  /\ QueueTyped(Store!Upserted(i, token, t))
         /\ IdsOf(Store!Upserted(i, token, t)) = Unreported \cup {i}
<1> DEFINE new == Store!Upserted(i, token, t)
<1>0. QueueTyped(outbox) BY DEF DiskTyped
<1>1. /\ Len(outbox) \in Nat /\ DOMAIN outbox = 1..Len(outbox) /\ outbox \in Seq(Receipt)
  BY <1>0, QueueParts DEF QueueTyped
<1>2. CASE Store!HasReceipt(i)
  <2> DEFINE row(k) == [outbox[k] EXCEPT !.token = token, !.dueAt = t]
  <2>1. new = [k \in DOMAIN outbox |-> IF outbox[k].id = i THEN row(k) ELSE outbox[k]]
    BY <1>2 DEF Store!Upserted
  <2>2. ASSUME NEW k \in DOMAIN outbox PROVE row(k) \in Receipt /\ row(k).id = outbox[k].id
    <3> DEFINE n == [outbox[k] EXCEPT !.token = token]
    <3>1. outbox[k] \in Receipt BY <1>0, QueueParts
    <3>2. n \in Receipt /\ n.id = outbox[k].id BY <3>1 DEF Receipt
    <3>3. row(k) = [n EXCEPT !.dueAt = t] OBVIOUS
    <3> HIDE DEF n, row
    <3> QED BY <3>2, <3>3 DEF Receipt
  <2> HIDE DEF row
  <2>3. DOMAIN new = DOMAIN outbox /\ new = [k \in DOMAIN outbox |-> new[k]] BY <2>1
  <2>4. \A k \in DOMAIN outbox : new[k] \in Receipt /\ new[k].id = outbox[k].id
    BY <1>0, <2>1, <2>2, QueueParts
  <2> HIDE DEF new
  <2>5. QueueTyped(new) /\ IdsOf(new) = IdsOf(outbox) BY <1>0, <2>3, <2>4, RowsRewritten
  <2>6. i \in Unreported BY <1>2 DEF Unreported, IdsOf, Store!HasReceipt
  <2> QED BY <2>5, <2>6 DEF new, Unreported
<1>3. CASE ~Store!HasReceipt(i)
  <2> DEFINE row == [id |-> i, token |-> token, dueAt |-> t, attempts |-> 0]
  <2>1. new = Append(outbox, row) BY <1>3 DEF Store!Upserted
  <2>2. row \in Receipt /\ row.id = i
    <3>1. 0 \in 0..Len(RetryDelays) - 1 BY SystemAssumption
    <3> QED BY <3>1 DEF Receipt
  <2> HIDE DEF row
  <2>3. /\ new \in Seq(Receipt) /\ DOMAIN new = 1..(Len(outbox) + 1)
        /\ new[Len(outbox) + 1] = row /\ \A k \in DOMAIN outbox : new[k] = outbox[k]
    BY <1>1, <2>1, <2>2
  <2>4. \A k \in DOMAIN outbox : outbox[k].id # i BY <1>3 DEF Store!HasReceipt
  <2> HIDE DEF new
  <2>5. \A j, k \in DOMAIN new : new[j].id = new[k].id => j = k
    <3> SUFFICES ASSUME NEW j \in DOMAIN new, NEW k \in DOMAIN new, new[j].id = new[k].id
                 PROVE  j = k
      OBVIOUS
    <3>1. CASE j \in DOMAIN outbox /\ k \in DOMAIN outbox
      BY <1>0, <2>3, <3>1 DEF QueueTyped
    <3>2. CASE j \notin DOMAIN outbox \/ k \notin DOMAIN outbox
      BY <1>1, <2>2, <2>3, <2>4, <3>2
    <3> QED BY <3>1, <3>2
  <2>6. IdsOf(new) = IdsOf(outbox) \cup {i}
    <3>1. \A k \in DOMAIN new : new[k].id \in IdsOf(outbox) \cup {i}
      BY <1>1, <2>2, <2>3 DEF IdsOf
    <3>2. \A k \in DOMAIN outbox : outbox[k].id \in IdsOf(new)
      BY <1>1, <2>3 DEF IdsOf
    <3>3. i \in IdsOf(new) BY <1>1, <2>2, <2>3 DEF IdsOf
    <3> QED BY <3>1, <3>2, <3>3 DEF IdsOf
  <2> QED BY <2>3, <2>5, <2>6 DEF QueueTyped, Unreported, new
<1> QED BY <1>2, <1>3

\* DELETE removes the row of the id.
LEMMA WithoutIs ==
  ASSUME DiskTyped, NEW i \in Deliveries, Store!HasReceipt(i)
  PROVE  QueueTyped(Store!Without(i)) /\ IdsOf(Store!Without(i)) = Unreported \ {i}
<1> DEFINE new == Store!Without(i)
           n == Len(outbox)
           after(q) == \E j \in 1..q : outbox[j].id = i
<1>1. /\ n \in Nat /\ DOMAIN outbox = 1..n
      /\ \A j, k \in DOMAIN outbox : outbox[j].id = outbox[k].id => j = k
      /\ \A k \in DOMAIN outbox : outbox[k] \in Receipt
  BY QueueParts DEF DiskTyped, QueueTyped
<1>2. PICK p \in 1..n : outbox[p].id = i BY <1>1 DEF Store!HasReceipt
<1>3. new = [k \in 1..n - 1 |-> IF after(k) THEN outbox[k + 1] ELSE outbox[k]]
  BY DEF Store!Without
<1>4. \A k \in 1..n - 1 : after(k) <=> p <= k BY <1>1, <1>2
<1> HIDE DEF after, n
<1>5. \A k \in 1..n - 1 : new[k] = IF p <= k THEN outbox[k + 1] ELSE outbox[k]
  BY <1>3, <1>4
<1>6. DOMAIN new = 1..n - 1 /\ new = [k \in 1..n - 1 |-> new[k]] BY <1>3
<1> HIDE DEF new
<1>7. \A k \in 1..n - 1 : new[k] \in Receipt
  <2> TAKE k \in 1..n - 1
  <2>1. k \in 1..n /\ k + 1 \in 1..n BY <1>1
  <2> QED BY <1>1, <1>5, <2>1
<1>8. new \in Seq(Receipt)
  <2>1. new \in [1..n - 1 -> Receipt] BY <1>6, <1>7
  <2>2. n - 1 \in Nat BY <1>1, <1>2
  <2> QED BY <2>1, <2>2, SeqDef
<1>9. \A j, k \in DOMAIN new : new[j].id = new[k].id => j = k
  <2> SUFFICES ASSUME NEW j \in 1..n - 1, NEW k \in 1..n - 1, new[j].id = new[k].id
               PROVE  j = k
    BY <1>6
  <2>1. PICK a \in 1..n : new[j] = outbox[a] /\ a = IF p <= j THEN j + 1 ELSE j
    BY <1>1, <1>5
  <2>2. PICK b \in 1..n : new[k] = outbox[b] /\ b = IF p <= k THEN k + 1 ELSE k
    BY <1>1, <1>5
  <2>3. a = b BY <1>1, <2>1, <2>2
  <2> QED BY <2>1, <2>2, <2>3
<1>10. IdsOf(new) \subseteq IdsOf(outbox) \ {i}
  <2> SUFFICES ASSUME NEW k \in 1..n - 1 PROVE new[k].id \in IdsOf(outbox) \ {i}
    BY <1>6 DEF IdsOf
  <2>1. PICK a \in 1..n : new[k] = outbox[a] /\ a # p
    BY <1>1, <1>5
  <2>2. outbox[a].id # outbox[p].id BY <1>1, <2>1
  <2> QED BY <1>1, <1>2, <2>1, <2>2 DEF IdsOf
<1>11. IdsOf(outbox) \ {i} \subseteq IdsOf(new)
  <2> SUFFICES ASSUME NEW a \in 1..n, outbox[a].id # i PROVE outbox[a].id \in IdsOf(new)
    BY <1>1 DEF IdsOf
  <2>1. PICK k \in 1..n - 1 : new[k] = outbox[a]
    <3>1. CASE a < p
      <4>1. a \in 1..n - 1 /\ ~(p <= a) BY <1>1, <3>1
      <4> QED BY <1>5, <4>1
    <3>2. CASE a > p
      <4>1. a - 1 \in 1..n - 1 /\ p <= a - 1 /\ (a - 1) + 1 = a BY <1>1, <3>2
      <4> QED BY <1>5, <4>1
    <3>3. a # p BY <1>2
    <3> QED BY <3>1, <3>2, <3>3
  <2> QED BY <1>6, <2>1 DEF IdsOf
<1> QED BY <1>8, <1>9, <1>10, <1>11 DEF QueueTyped, Unreported, new

\* A failed exchange only moves the time at which the receipt is due.
LEMMA BackOffIs ==
  ASSUME DiskTyped, NEW i, NEW t \in Nat, Store!FailReceipt(i, t, RetryDelays)
  PROVE  QueueTyped(outbox') /\ IdsOf(outbox') = Unreported
<1> DEFINE next(n) == IF n + 1 < Len(RetryDelays) THEN n + 1 ELSE n
           delayed(k) == [outbox[k] EXCEPT !.dueAt = t + RetryDelays[outbox[k].attempts + 1]]
           row(k) == [delayed(k) EXCEPT !.attempts = next(@)]
<1>0. QueueTyped(outbox) BY DEF DiskTyped
<1>1. outbox' = [k \in DOMAIN outbox |-> IF outbox[k].id = i THEN row(k) ELSE outbox[k]]
  BY DEF Store!FailReceipt
<1>2. Len(RetryDelays) \in Nat /\ \A n \in 1..Len(RetryDelays) : RetryDelays[n] \in Nat
  BY SystemAssumption
<1>3. ASSUME NEW k \in DOMAIN outbox PROVE row(k) \in Receipt /\ row(k).id = outbox[k].id
  <2>1. outbox[k] \in Receipt /\ outbox[k].attempts \in 0..Len(RetryDelays) - 1
    BY <1>0, QueueParts
  <2>2. t + RetryDelays[outbox[k].attempts + 1] \in Nat
    <3>1. outbox[k].attempts + 1 \in 1..Len(RetryDelays) BY <1>2, <2>1
    <3> QED BY <1>2, <3>1
  <2>3. delayed(k) \in Receipt /\ delayed(k).id = outbox[k].id
        /\ delayed(k).attempts = outbox[k].attempts
    BY <2>1, <2>2 DEF Receipt
  <2>4. next(outbox[k].attempts) \in 0..Len(RetryDelays) - 1 BY <1>2, <2>1
  <2> HIDE DEF delayed, next
  <2>5. row(k) = [delayed(k) EXCEPT !.attempts = next(outbox[k].attempts)] BY <2>3
  <2> HIDE DEF row
  <2> QED BY <2>3, <2>4, <2>5 DEF Receipt
<1> HIDE DEF row
<1>4. DOMAIN outbox' = DOMAIN outbox /\ outbox' = [k \in DOMAIN outbox |-> outbox'[k]] BY <1>1
<1>5. \A k \in DOMAIN outbox : outbox'[k] \in Receipt /\ outbox'[k].id = outbox[k].id
  BY <1>0, <1>1, <1>3, QueueParts
<1> QED BY <1>0, <1>4, <1>5, RowsRewritten DEF Unreported

\* The oldest due receipt is a row of the queue.
LEMMA NextReceiptIs ==
  ASSUME DiskTyped, NEW t \in Nat, Store!DueReceipts(t) # {}
  PROVE  Store!NextReceipt(t) \in Receipt /\ Store!NextReceipt(t).id \in Unreported
<1> DEFINE S == Store!DueReceipts(t)
           R == {ab \in Nat \X Nat : ab[1] < ab[2]}
<1>1. \A a, b \in Nat : <<a, b>> \in R <=> a < b OBVIOUS
<1>2. IsWellFoundedOn(R, Nat) BY NatLessThanWellFounded DEF OpToRel
<1>3. QueueTyped(outbox) BY DEF DiskTyped
<1>4. S \subseteq Nat /\ S \subseteq DOMAIN outbox /\ S # {}
  BY <1>3, QueueParts DEF Store!DueReceipts
<1> HIDE DEF R, S
<1>5. PICK k \in S : \A j \in S : ~(<<j, k>> \in R) BY <1>2, <1>4, WFMin
<1>6. \A j \in S : k <= j
  <2> TAKE j \in S
  <2>1. j \in Nat /\ k \in Nat BY <1>4
  <2>2. ~(j < k) BY <1>1, <1>5, <2>1, Zenon
  <2> QED BY <2>1, <2>2
<1>7. PICK first \in S : first = CHOOSE k1 \in S : \A j \in S : k1 <= j BY <1>6
<1>8. Store!NextReceipt(t) = outbox[first] BY <1>7 DEF Store!NextReceipt, S
<1> QED BY <1>3, <1>4, <1>8, QueueParts DEF Unreported, IdsOf

-----------------------------------------------------------------------------
(* The agent process.                                                      *)

\* No delivery is the empty one.
LEMMA NoDeliveryIsNone == NoDelivery \notin Deliveries
<1> SUFFICES ASSUME NEW d \in Deliveries PROVE d # NoDelivery
  OBVIOUS
<1>1. PICK m \in Messages, c \in Clients : d = <<m, c>> BY DEF Deliveries
<1>2. Len(<<m, c>>) = 2 /\ Len(<<>>) = 0 OBVIOUS
<1> QED BY <1>1, <1>2 DEF NoDelivery

\* What the steps of the cycle make of the agent.
LEMMA AgentAt ==
  ASSUME NEW a \in Process, NEW p \in Places
  PROVE  /\ [a EXCEPT !.pc = p] \in Process
         /\ [a EXCEPT !.pc = p].pc = p
         /\ [a EXCEPT !.pc = p].work = a.work
         /\ [a EXCEPT !.pc = p].current = a.current
  BY DEF Process

LEMMA AgentWorks ==
  ASSUME NEW a \in Process, NEW w \in SUBSET Work
  PROVE  /\ [a EXCEPT !.work = w] \in Process
         /\ [a EXCEPT !.work = w].pc = a.pc
         /\ [a EXCEPT !.work = w].work = w
         /\ [a EXCEPT !.work = w].current = a.current
  BY DEF Process

LEMMA AgentTurns ==
  ASSUME agent \in Process, NEW p \in Places, NEW d \in Deliveries \cup {NoDelivery},
         agent' = [agent EXCEPT !.pc = p, !.current = d]
  PROVE  agent' \in Process /\ agent'.pc = p /\ agent'.work = agent.work /\ agent'.current = d
<1> DEFINE n == [agent EXCEPT !.pc = p]
<1>1. n \in Process /\ n.pc = p /\ n.work = agent.work BY AgentAt
<1> HIDE DEF n
<1>2. /\ [n EXCEPT !.current = d] \in Process /\ [n EXCEPT !.current = d].pc = p
      /\ [n EXCEPT !.current = d].work = agent.work /\ [n EXCEPT !.current = d].current = d
  BY <1>1 DEF Process
<1>3. agent' = [n EXCEPT !.current = d] BY DEF n
<1> QED BY <1>2, <1>3

LEMMA AgentPromotes ==
  ASSUME agent \in Process, NEW w \in SUBSET Work, NEW d \in Deliveries,
         agent' = [agent EXCEPT !.pc = "completing", !.work = w, !.current = d]
  PROVE  agent' \in Process /\ agent'.pc = "completing" /\ agent'.work = w
         /\ agent'.current = d
<1> DEFINE m == [agent EXCEPT !.pc = "completing"]
           n == [m EXCEPT !.work = w]
<1>1. m \in Process /\ m.pc = "completing" BY AgentAt DEF Places
<1> HIDE DEF m
<1>2. n \in Process /\ n.pc = "completing" /\ n.work = w BY <1>1 DEF Process
<1> HIDE DEF n
<1>3. /\ [n EXCEPT !.current = d] \in Process /\ [n EXCEPT !.current = d].pc = "completing"
      /\ [n EXCEPT !.current = d].work = w /\ [n EXCEPT !.current = d].current = d
  BY <1>2 DEF Process
<1>4. agent' = [n EXCEPT !.current = d] BY DEF n, m
<1> QED BY <1>3, <1>4

LEMMA AgentStops ==
  ASSUME agent \in Process, ReceiptRejected
  PROVE  agent' \in Process /\ agent'.pc = "heartbeat"
<1> DEFINE n == [agent EXCEPT !.pc = "heartbeat"]
           m == [n EXCEPT !.authError = TRUE]
<1>1. n \in Process /\ n.pc = "heartbeat" BY AgentAt DEF Places
<1> HIDE DEF n
<1>2. m \in Process /\ m.pc = "heartbeat" BY <1>1 DEF Process
<1> HIDE DEF m
<1>3. /\ [m EXCEPT !.current = NoDelivery] \in Process
      /\ [m EXCEPT !.current = NoDelivery].pc = "heartbeat"
  BY <1>2 DEF Process
<1>4. agent' = [m EXCEPT !.current = NoDelivery] BY DEF m, n, ReceiptRejected
<1> QED BY <1>3, <1>4

LEMMA AgentStages ==
  ASSUME agent \in Process, Delivered, NEW w \in SUBSET Work, w = reply.work
  PROVE  agent' \in Process /\ agent'.pc = "staging"
<1> DEFINE n == [agent EXCEPT !.pc = "staging"]
<1>1. n \in Process /\ n.pc = "staging" BY AgentAt DEF Places
<1> HIDE DEF n
<1>2. [n EXCEPT !.work = w] \in Process /\ [n EXCEPT !.work = w].pc = "staging"
  BY <1>1 DEF Process
<1>3. agent' = [n EXCEPT !.work = w] BY DEF n, Delivered
<1> QED BY <1>2, <1>3

LEMMA AgentWakes ==
  ASSUME agent \in Process, WakeUp, NEW t \in Nat, t = now, NEW w \in SUBSET Work,
         w = {[id |-> d, token |-> pending[d]] : d \in Store!Displayed}
  PROVE  agent' \in Process /\ agent'.pc = "promoting" /\ agent'.work = w
<1> DEFINE n == [agent EXCEPT !.pc = "promoting"]
           m == [n EXCEPT !.anchor = t]
           k == [m EXCEPT !.authError = FALSE]
<1>1. n \in Process /\ n.pc = "promoting" BY AgentAt DEF Places
<1> HIDE DEF n
<1>2. m \in Process /\ m.pc = "promoting" BY <1>1 DEF Process
<1> HIDE DEF m
<1>3. k \in Process /\ k.pc = "promoting" BY <1>2 DEF Process
<1> HIDE DEF k
<1>4. /\ [k EXCEPT !.work = w] \in Process /\ [k EXCEPT !.work = w].pc = "promoting"
      /\ [k EXCEPT !.work = w].work = w
  BY <1>3 DEF Process
<1>5. agent' = [k EXCEPT !.work = w] BY DEF k, m, n, WakeUp
<1> QED BY <1>4, <1>5

LEMMA AsleepIs ==
  ASSUME NEW t \in Nat
  PROVE  Asleep(t) \in Process /\ Asleep(t).pc = "asleep" /\ Asleep(t).work = {}
  BY DEF Asleep, Process, Places

-----------------------------------------------------------------------------
(* The server's steps are steps of MessageDelivery.                        *)

\* A claim leaves a token for every delivery of the batch.
LEMMA ClaimedTokens ==
  ASSUME SafeInv, NEW c \in Clients, NEW t \in Anchors, NEW batch \in Batches(c, t),
         Claim(c, t, batch)
  PROVE  {[id |-> d, token |-> delivery'[d].token] : d \in batch} \in SUBSET Work
<1> SUFFICES ASSUME NEW d \in batch PROVE d \in Deliveries /\ delivery'[d].token \in Nat \ {0}
  BY DEF Work
<1>1. TypeOK /\ t \in Nat BY AnchorTypes DEF SafeInv
<1>2. d \in Deliveries /\ SweptRow(d, t) \in DeliveryRow BY <1>1, BatchRows, SweepTypes
<1>3. delivery'[d] = LeasedRow(SweptRow(d, t), t) BY <1>2 DEF Claim, ClaimedRow
<1>4. LeasedRow(SweptRow(d, t), t).token = SweptRow(d, t).attempts + 1
  BY <1>2 DEF LeasedRow, DeliveryRow
<1>5. SweptRow(d, t).attempts \in Nat BY <1>2 DEF DeliveryRow
<1> QED BY <1>2, <1>3, <1>4, <1>5

\* An acknowledgement from the agent is one that MessageDelivery allows for.
LEMMA AgentAcknowledges ==
  ASSUME SafeInv, NEW d \in Deliveries, NEW token, NEW t \in Anchors,
         Acknowledge(Agent, d, token, ReceiptId, t)
  PROVE  Next
<1>1. delivery[d].state # "NONE" /\ delivery[d].token = token
  BY DEF Acknowledge, AckOutcome
<1>2. token \in Tokens(d)
  <2>1. delivery[d] \in DeliveryRow /\ delivery[d].token \in {NoToken, delivery[d].attempts}
    BY DeliveryParts DEF SafeInv, SafeRow, RowSafe
  <2> QED BY <1>1, <2>1 DEF Tokens, NoToken, DeliveryRow
<1>3. Agent \in Clients /\ ReceiptId \in ReceiptIds BY SystemAssumption
<1> QED BY <1>2, <1>3 DEF Next

\* Every step of the system is a step of MessageDelivery, or none.
LEMMA SystemRefinesDelivery == SystemInv /\ [SystemNext]_sysvars => [Next]_vars
<1> SUFFICES ASSUME SystemInv, [SystemNext]_sysvars PROVE [Next]_vars
  OBVIOUS
<1>0. SafeInv /\ TypeOK /\ WireTyped BY DEF SystemInv, SafeInv, ProcessInv
<1>1. CASE PassTime BY <1>1 DEF PassTime, Next
<1>2. CASE Submit
  <2>1. PICK m \in Messages, delay \in Delays, ttl \in Ttls, limit \in AttemptLimits :
          QueueMessage(m, {Agent}, now, delay, ttl, limit)
    BY <1>2 DEF Submit
  <2>2. now \in Anchors BY <1>0, ConstantsAssumption DEF TypeOK, Anchors
  <2>3. {Agent} \in SUBSET Clients BY SystemAssumption
  <2> QED BY <2>1, <2>2, <2>3 DEF Next
<1>3. CASE ServeAcknowledge
  <2>1. PICK req \in network, t \in Anchors :
          /\ req.kind = "ack"
          /\ \/ Acknowledge(Agent, req.id, req.token, ReceiptId, t)
             \/ UNCHANGED <<now, server>>
    BY <1>3 DEF ServeAcknowledge
  <2>2. req \in AckRequest BY <1>0, <2>1 DEF WireTyped, HeartbeatRequest
  <2>3. req.id \in Deliveries BY <2>2 DEF AckRequest
  <2> QED BY <1>0, <2>1, <2>3, AgentAcknowledges DEF vars, server
<1>4. CASE ServeHeartbeat
  <2>1. PICK t \in Anchors : \E batch \in Batches(Agent, t) : Claim(Agent, t, batch)
    BY <1>4 DEF ServeHeartbeat
  <2>2. Agent \in Clients BY SystemAssumption
  <2> QED BY <2>1, <2>2 DEF Next, ClaimSome
<1>5. CASE UNCHANGED <<now, server>> BY <1>5 DEF vars, server
<1>6. AgentStep => UNCHANGED <<now, server>>
  BY DEF AgentStep, WakeUp, Promote, CompleteInbox, BeginReceipts, SendReceipt,
         NoReceiptDue, Receipted, ReceiptRejected, ReceiptFailed, SendHeartbeat, Delivered,
         StageMessage, Sleep
<1>7. NextHeartbeat \/ Lose \/ TimeOut \/ AgentCrash \/ Horizon => UNCHANGED <<now, server>>
  BY DEF NextHeartbeat, Lose, TimeOut, AgentCrash, Horizon, sysvars
<1>8. (\E n \in Notifiers : NotifierStep(n)) => UNCHANGED <<now, server>>
  BY DEF NotifierStep, Poll, Popup, PopupFails, FindFile, MarkDisplayed, NotifierCrash
<1> QED BY <1>1, <1>2, <1>3, <1>4, <1>5, <1>6, <1>7, <1>8 DEF SystemNext, Serve, sysvars

\* The server's rows stay safe, and nothing is taken back that was acknowledged.
ServerKeeps ==
  /\ SafeInv'
  /\ \A d \in Deliveries :
       delivery[d].state = "ACKNOWLEDGED" => delivery'[d].state = "ACKNOWLEDGED"

LEMMA ServerSteps == ASSUME SystemInv, [SystemNext]_sysvars PROVE ServerKeeps
<1>1. SafeInv /\ [Next]_vars BY SystemRefinesDelivery DEF SystemInv
<1>2. SafeInv' BY <1>1, NextSafe
<1> SUFFICES ASSUME NEW d \in Deliveries, delivery[d].state = "ACKNOWLEDGED"
             PROVE  delivery'[d].state = "ACKNOWLEDGED"
  BY <1>2 DEF ServerKeeps
<1>3. ~Created(d) /\ delivery[d] # NoRow BY DEF Created, NoRow
<1>4. ~HandedOut(d)
  <2> SUFFICES ASSUME NEW t \in Anchors, SweptRow(d, t).state \in {"QUEUED", "FAILED"}
               PROVE  FALSE
    BY DEF HandedOut
  <2>1. SweptRow(d, t) = delivery[d] BY DEF SweptRow, TtlOver, LeaseOver, Open
  <2> QED BY <2>1
<1>5. ~Swept(d) /\ ~Refused(d) BY DEF Swept, Refused, Open
<1>6. Kept(d) BY <1>1, <1>3, <1>4, <1>5, StepMoves DEF NotAddressed
<1> QED BY <1>6 DEF Kept

-----------------------------------------------------------------------------
(* Steps that leave the processes alone, and steps that leave the disk     *)
(* alone.                                                                  *)

\* What is on the disk stays true if only server, agent and network move.
LEMMA DiskKeptIfSeen ==
  ASSUME SystemInv, ServerKeeps, UNCHANGED <<store, notifier, marked>>,
         AcknowledgedWasDisplayed'
  PROVE  DiskInv'
<1>1. DiskTyped' BY DEF SystemInv, DiskInv, DiskTyped, QueueTyped, store
<1>2. SessionsTyped' BY DEF SystemInv, DiskInv, SessionsTyped
<1>3. Seen' BY DEF SystemInv, DiskInv, Seen, Unreported, IdsOf, store
<1>4. Remembered'
  BY DEF SystemInv, DiskInv, Remembered, Store!Displayed, Accounted, Unreported, IdsOf, store
<1>5. LocalAcks'
  BY DEF SystemInv, DiskInv, DiskTyped, ServerKeeps, LocalAcks, Unreported, IdsOf, store
<1>6. Staged' BY DEF SystemInv, DiskInv, Staged, store
<1> QED BY <1>1, <1>2, <1>3, <1>4, <1>5, <1>6 DEF DiskInv

LEMMA DiskKept ==
  ASSUME SystemInv, ServerKeeps, UNCHANGED <<store, notifier, marked, receipts>>
  PROVE  DiskInv'
<1>1. AcknowledgedWasDisplayed' BY DEF SystemInv, DiskInv, Seen, AcknowledgedWasDisplayed
<1> QED BY <1>1, DiskKeptIfSeen

\* Agent and network stay right while notifiers and server work.
LEMMA ProcessKept ==
  ASSUME SystemInv, ServerKeeps, UNCHANGED <<agent, network, reply, cached, acked, outbox>>,
         marked \subseteq marked'
  PROVE  ProcessInv'
<1>1. AgentTyped' BY DEF SystemInv, ProcessInv, AgentTyped
<1>2. WireTyped' BY DEF SystemInv, ProcessInv, WireTyped
<1>3. Exchange'
  BY DEF SystemInv, ProcessInv, Exchange, ServerKeeps, AgentTyped
<1>4. Reported'
  BY DEF SystemInv, ProcessInv, Reported, Accounted, Unreported, IdsOf
<1> QED BY <1>1, <1>2, <1>3, <1>4 DEF ProcessInv

\* An agent between two exchanges, with nobody to answer.
LEMMA QuietAgent ==
  ASSUME agent' \in Process, agent'.pc \in {"asleep", "receipts", "heartbeat", "staging"},
         network' \in SUBSET (AckRequest \cup HeartbeatRequest), reply' = NoReply,
         \A req \in network' : ~req.live /\ (req.kind = "ack" => req.id \in marked')
  PROVE  ProcessInv'
<1>1. AgentTyped' BY DEF AgentTyped
<1>2. WireTyped' BY DEF WireTyped, NoReply, Status
<1>3. Exchange' BY DEF Exchange, NoReply
<1>4. Reported' BY DEF Reported
<1> QED BY <1>1, <1>2, <1>3, <1>4 DEF ProcessInv

\* Nobody waits for an answer.
LEMMA NobodyWaits ==
  ASSUME SystemInv, agent.pc \notin {"ackWait", "heartbeatWait"} \/ reply # NoReply
  PROVE  /\ \A req \in network : ~req.live /\ (req.kind = "ack" => req.id \in marked)
         /\ network \in SUBSET (AckRequest \cup HeartbeatRequest)
  BY DEF SystemInv, ProcessInv, Exchange, Reported, WireTyped, AckRequest, HeartbeatRequest

\* The requests of an agent that no longer waits for them.
LEMMA AbandonedAre ==
  ASSUME SystemInv
  PROVE  /\ Abandoned \in SUBSET (AckRequest \cup HeartbeatRequest)
         /\ \A req \in Abandoned : ~req.live /\ (req.kind = "ack" => req.id \in marked)
<1>1. SUFFICES ASSUME NEW req \in network
               PROVE  LET dead == [req EXCEPT !.live = FALSE]
                      IN  /\ dead \in AckRequest \cup HeartbeatRequest
                          /\ ~dead.live /\ (dead.kind = "ack" => dead.id \in marked)
  BY DEF Abandoned
<1>2. req.kind = "ack" => req.id \in marked BY DEF SystemInv, ProcessInv, Reported
<1>3. CASE req \in AckRequest BY <1>2, <1>3 DEF AckRequest
<1>4. CASE req \in HeartbeatRequest BY <1>4 DEF HeartbeatRequest
<1> QED BY <1>3, <1>4 DEF SystemInv, ProcessInv, WireTyped

-----------------------------------------------------------------------------
(* The steps.                                                              *)

\* The agent goes on to its next phase, or to sleep.
LEMMA PhasesKeep ==
  ASSUME SystemInv, ServerKeeps,
         BeginReceipts \/ NoReceiptDue \/ ReceiptRejected \/ Delivered \/ NextHeartbeat \/ Sleep
  PROVE  ProcessInv' /\ DiskInv'
<1> DEFINE quiet == {"asleep", "receipts", "heartbeat", "staging"}
<1>0. agent \in Process /\ now \in Nat
  BY DEF SystemInv, ProcessInv, AgentTyped, SafeInv, TypeOK
<1>1. DiskInv'
  BY DiskKept DEF BeginReceipts, NoReceiptDue, ReceiptRejected, Delivered, NextHeartbeat, Sleep,
                  server
<1>2. /\ agent.pc \notin {"ackWait", "heartbeatWait"} \/ reply # NoReply
      /\ UNCHANGED <<network, marked>>
  BY DEF BeginReceipts, NoReceiptDue, ReceiptRejected, Delivered, NextHeartbeat, Sleep, NoReply
<1>3. reply' = NoReply
  <2>1. CASE ReceiptRejected \/ Delivered BY <2>1 DEF ReceiptRejected, Delivered
  <2>2. CASE BeginReceipts \/ NoReceiptDue \/ NextHeartbeat \/ Sleep
    <3>1. agent.pc \in {"promoting", "receipts", "staging"} /\ reply' = reply
      BY <2>2 DEF BeginReceipts, NoReceiptDue, NextHeartbeat, Sleep
    <3>2. reply = NoReply BY <3>1 DEF SystemInv, ProcessInv, Exchange
    <3> QED BY <3>1, <3>2
  <2> QED BY <2>1, <2>2
<1>4. agent' \in Process /\ agent'.pc \in quiet
  <2>0. "receipts" \in Places /\ "heartbeat" \in Places /\ "staging" \in Places BY DEF Places
  <2>1. CASE BeginReceipts BY <1>0, <2>0, <2>1, AgentAt DEF BeginReceipts
  <2>2. CASE NoReceiptDue BY <1>0, <2>0, <2>2, AgentAt DEF NoReceiptDue
  <2>3. CASE NextHeartbeat BY <1>0, <2>0, <2>3, AgentAt DEF NextHeartbeat
  <2>4. CASE ReceiptRejected BY <1>0, <2>4, AgentStops
  <2>5. CASE Delivered
    <3>1. reply.kind = "messages" BY <2>5 DEF Delivered
    <3>2. reply \in HeartbeatReply
      BY <3>1 DEF SystemInv, ProcessInv, WireTyped, Status
    <3>3. reply.work \in SUBSET Work BY <3>2 DEF HeartbeatReply
    <3> QED BY <1>0, <2>5, <3>3, AgentStages
  <2>6. CASE Sleep
    <3>1. now + Pause \in Nat BY <1>0, SystemAssumption DEF Pause
    <3> QED BY <2>6, <3>1, AsleepIs DEF Sleep
  <2> QED BY <2>1, <2>2, <2>3, <2>4, <2>5, <2>6
<1>5. ProcessInv' BY <1>2, <1>3, <1>4, NobodyWaits, QuietAgent
<1> QED BY <1>1, <1>5

\* The agent asks the server something.
LEMMA SendReceiptKeeps ==
  ASSUME SystemInv, ServerKeeps, SendReceipt
  PROVE  ProcessInv' /\ DiskInv'
<1> DEFINE r == Store!NextReceipt(agent.anchor)
           ask == [kind |-> "ack", id |-> r.id, token |-> r.token, live |-> TRUE]
<1>0. agent \in Process /\ agent.anchor \in Nat /\ agent.pc = "receipts"
  BY DEF SystemInv, ProcessInv, AgentTyped, Process, SendReceipt
<1>1. DiskInv' BY DiskKept DEF SendReceipt, server
<1>2. r \in Receipt /\ r.id \in Unreported
  BY <1>0, NextReceiptIs DEF SystemInv, DiskInv, SendReceipt
<1>3. r.id \in Deliveries /\ r.token \in Nat /\ r.id \in cached /\ r.id \in marked
  BY <1>2 DEF Receipt, SystemInv, DiskInv, Seen
<1>4. agent' = [agent EXCEPT !.pc = "ackWait", !.current = r.id]
      /\ network' = network \cup {ask} /\ UNCHANGED <<reply, cached, marked>>
  BY DEF SendReceipt, store
<1> HIDE DEF r
<1>5. agent' \in Process /\ agent'.pc = "ackWait" /\ agent'.current = r.id
  <2>1. "ackWait" \in Places BY DEF Places
  <2> QED BY <1>0, <1>3, <1>4, <2>1, AgentTurns
<1>6. ask \in AckRequest /\ ask.live /\ ask.kind = "ack" /\ ask.id = r.id
  BY <1>3 DEF AckRequest
<1> HIDE DEF ask
<1>7. reply = NoReply BY <1>0 DEF SystemInv, ProcessInv, Exchange
<1>8. /\ \A req \in network : ~req.live /\ (req.kind = "ack" => req.id \in marked)
      /\ network \in SUBSET (AckRequest \cup HeartbeatRequest)
  BY <1>0, NobodyWaits
<1>9. AgentTyped' BY <1>3, <1>5 DEF AgentTyped
<1>10. WireTyped' BY <1>4, <1>6, <1>7, <1>8 DEF WireTyped, SystemInv, ProcessInv
<1>11. Exchange' BY <1>4, <1>5, <1>6, <1>7, <1>8 DEF Exchange, NoReply
<1>12. Reported' BY <1>3, <1>4, <1>5, <1>6, <1>8 DEF Reported
<1> QED BY <1>1, <1>9, <1>10, <1>11, <1>12 DEF ProcessInv

LEMMA SendHeartbeatKeeps ==
  ASSUME SystemInv, ServerKeeps, SendHeartbeat
  PROVE  ProcessInv' /\ DiskInv'
<1> DEFINE ask == [kind |-> "heartbeat", live |-> TRUE]
<1>0. agent \in Process /\ agent.pc = "heartbeat"
  BY DEF SystemInv, ProcessInv, AgentTyped, SendHeartbeat
<1>1. DiskInv' BY DiskKept DEF SendHeartbeat, server
<1>2. agent' = [agent EXCEPT !.pc = "heartbeatWait"]
      /\ network' = network \cup {ask} /\ UNCHANGED <<reply, marked>>
  BY DEF SendHeartbeat
<1>3. agent' \in Process /\ agent'.pc = "heartbeatWait"
  <2>1. "heartbeatWait" \in Places BY DEF Places
  <2> QED BY <1>0, <1>2, <2>1, AgentAt
<1>4. ask \in HeartbeatRequest /\ ask.live /\ ask.kind = "heartbeat" BY DEF HeartbeatRequest
<1> HIDE DEF ask
<1>5. reply = NoReply BY <1>0 DEF SystemInv, ProcessInv, Exchange
<1>6. /\ \A req \in network : ~req.live /\ (req.kind = "ack" => req.id \in marked)
      /\ network \in SUBSET (AckRequest \cup HeartbeatRequest)
  BY <1>0, NobodyWaits
<1>7. AgentTyped' BY <1>3 DEF AgentTyped
<1>8. WireTyped' BY <1>2, <1>4, <1>5, <1>6 DEF WireTyped, SystemInv, ProcessInv
<1>9. Exchange' BY <1>2, <1>3, <1>4, <1>5, <1>6 DEF Exchange, NoReply
<1>10. Reported' BY <1>2, <1>3, <1>4, <1>6 DEF Reported
<1> QED BY <1>1, <1>7, <1>8, <1>9, <1>10 DEF ProcessInv

\* A request or an answer is lost.
LEMMA LoseKeeps ==
  ASSUME SystemInv, ServerKeeps, Lose
  PROVE  ProcessInv' /\ DiskInv'
<1>1. DiskInv' BY DiskKept DEF Lose, server
<1>2. /\ network' \subseteq network /\ (reply' = reply \/ reply' = NoReply)
      /\ UNCHANGED <<agent, cached, acked, outbox, marked, delivery>>
  BY DEF Lose, store, server
<1>3. AgentTyped' BY <1>2 DEF AgentTyped, SystemInv, ProcessInv
<1>4. WireTyped' BY <1>2 DEF WireTyped, SystemInv, ProcessInv, NoReply, Status
<1>5. Exchange' BY <1>2 DEF Exchange, SystemInv, ProcessInv, NoReply
<1>6. Reported'
  BY <1>2 DEF Reported, Accounted, Unreported, IdsOf, SystemInv, ProcessInv
<1> QED BY <1>1, <1>3, <1>4, <1>5, <1>6 DEF ProcessInv

\* The server answers the agent, or nobody any more.
LEMMA AnswerKeeps ==
  ASSUME SystemInv, ServerKeeps, UNCHANGED <<store, agent, marked>>,
         NEW req \in network, NEW answer \in Status \cup HeartbeatReply, Answer(req, answer),
         answer.kind = "messages" => req.kind = "heartbeat",
         answer.kind = "ok" => req.kind = "ack" /\ delivery'[req.id].state = "ACKNOWLEDGED"
  PROVE  ProcessInv'
<1>0. req \in AckRequest \cup HeartbeatRequest /\ req.kind \in {"ack", "heartbeat"}
  BY DEF SystemInv, ProcessInv, WireTyped, AckRequest, HeartbeatRequest
<1>1. network' = network \ {req} /\ (reply' = IF req.live THEN answer ELSE reply)
  BY DEF Answer
<1>2. AgentTyped' BY DEF SystemInv, ProcessInv, AgentTyped
<1>3. WireTyped' BY <1>1 DEF SystemInv, ProcessInv, WireTyped
<1>4. Exchange'
  <2>0. Exchange /\ AgentTyped BY DEF SystemInv, ProcessInv
  <2>1. CASE req.live
    <3>1. \A other \in network' : ~other.live BY <1>1, <2>0, <2>1 DEF Exchange
    <3>2. agent.pc \in {"ackWait", "heartbeatWait"} BY <1>0, <2>0, <2>1 DEF Exchange
    <3>3. answer.kind = "messages" => agent.pc = "heartbeatWait"
      BY <2>0, <2>1 DEF Exchange
    <3>4. answer.kind = "ok" =>
            agent.pc = "ackWait" /\ delivery'[agent.current].state = "ACKNOWLEDGED"
      BY <2>0, <2>1 DEF Exchange
    <3> QED BY <1>1, <2>1, <3>1, <3>2, <3>3, <3>4 DEF Exchange
  <2>2. CASE ~req.live
    <3>1. reply' = reply /\ network' \subseteq network /\ agent' = agent BY <1>1, <2>2
    <3>2. reply.kind = "ok" =>
            agent.pc = "ackWait" /\ delivery'[agent.current].state = "ACKNOWLEDGED"
      BY <2>0 DEF Exchange, AgentTyped, ServerKeeps
    <3> QED BY <2>0, <3>1, <3>2 DEF Exchange
  <2> QED BY <2>1, <2>2
<1>5. Reported'
  BY <1>1 DEF Reported, Accounted, Unreported, IdsOf, SystemInv, ProcessInv, store
<1> QED BY <1>2, <1>3, <1>4, <1>5 DEF ProcessInv

LEMMA ServeAcknowledgeKeeps ==
  ASSUME SystemInv, ServerKeeps, ServeAcknowledge
  PROVE  ProcessInv' /\ DiskInv'
<1>1. PICK req \in network, t \in Anchors :
        /\ req.kind = "ack"
        /\ LET outcome == AckOutcome(Agent, req.id, req.token, ReceiptId, t)
           IN /\ IF outcome = "accepted"
                 THEN Acknowledge(Agent, req.id, req.token, ReceiptId, t)
                 ELSE UNCHANGED <<now, server>>
              /\ Answer(req, [kind |-> StatusOf(outcome)])
  BY DEF ServeAcknowledge
<1> DEFINE outcome == AckOutcome(Agent, req.id, req.token, ReceiptId, t)
           answer == [kind |-> StatusOf(outcome)]
<1>2. UNCHANGED <<store, agent, notifier, marked>> BY DEF ServeAcknowledge
<1>3. req \in AckRequest /\ req.id \in marked
  BY <1>1 DEF SystemInv, ProcessInv, WireTyped, HeartbeatRequest, Reported
<1>4. req.id \in Deliveries BY <1>3 DEF AckRequest
<1>5. TypeOK /\ AcknowledgedOnce BY SafeInvImplies DEF SystemInv, SafeInv
<1>6. CASE outcome = "accepted"
  <2>1. Acknowledge(Agent, req.id, req.token, ReceiptId, t) BY <1>1, <1>6
  <2>2. delivery'[req.id].state = "ACKNOWLEDGED"
    <3>1. delivery[req.id] \in DeliveryRow BY <1>4, <1>5, DeliveryParts
    <3>2. delivery'[req.id] = Closed(delivery[req.id], "ACKNOWLEDGED")
      BY <1>4, <1>5, <2>1 DEF Acknowledge, TypeOK
    <3> QED BY <3>1, <3>2 DEF Closed, DeliveryRow
  <2>3. AcknowledgedWasDisplayed'
    <3>1. \A d \in Deliveries : receipts'[d] # {} => receipts[d] # {} \/ d = req.id
      BY <1>4, <1>5, <2>1 DEF Acknowledge, TypeOK
    <3> QED BY <1>2, <1>3, <3>1
        DEF AcknowledgedWasDisplayed, SystemInv, DiskInv, Seen
  <2>4. answer = [kind |-> "ok"] BY <1>6 DEF StatusOf
  <2>5. answer \in Status /\ answer.kind = "ok" BY <2>4 DEF Status
  <2>6. Answer(req, answer) BY <1>1
  <2> HIDE DEF answer, outcome
  <2>7. ProcessInv' BY <1>1, <1>2, <2>2, <2>5, <2>6, AnswerKeeps
  <2> QED BY <1>2, <2>3, <2>7, DiskKeptIfSeen
<1>7. CASE outcome # "accepted"
  <2>1. UNCHANGED <<now, server>> BY <1>1, <1>7
  <2>2. outcome = "idempotent" => delivery[req.id].state = "ACKNOWLEDGED"
    <3>1. CASE ReceiptId \in receipts[req.id] BY <1>4, <1>5, <3>1 DEF AcknowledgedOnce
    <3>2. CASE ReceiptId \notin receipts[req.id] BY <3>2 DEF AckOutcome
    <3> QED BY <3>1, <3>2
  <2>3. answer \in Status /\ (answer.kind = "ok" => outcome = "idempotent")
        /\ answer.kind # "messages"
    <3>1. StatusOf(outcome) \in {"ok", "unauthorized", "error"}
          /\ (StatusOf(outcome) = "ok" => outcome = "idempotent")
      BY <1>7 DEF StatusOf
    <3> QED BY <3>1 DEF Status
  <2>4. Answer(req, answer) BY <1>1
  <2> HIDE DEF answer, outcome
  <2>5. answer.kind = "ok" => req.kind = "ack" /\ delivery'[req.id].state = "ACKNOWLEDGED"
    BY <1>1, <2>1, <2>2, <2>3 DEF server
  <2>6. ProcessInv' BY <1>2, <2>3, <2>4, <2>5, AnswerKeeps
  <2>7. UNCHANGED receipts BY <2>1 DEF server
  <2> QED BY <1>2, <2>6, <2>7, DiskKept
<1> QED BY <1>6, <1>7

LEMMA ServeHeartbeatKeeps ==
  ASSUME SystemInv, ServerKeeps, ServeHeartbeat
  PROVE  ProcessInv' /\ DiskInv'
<1>1. PICK req \in network, t \in Anchors :
        /\ req.kind = "heartbeat"
        /\ \E batch \in Batches(Agent, t) :
             /\ Claim(Agent, t, batch)
             /\ Answer(req, [kind |-> "messages",
                  work |-> {[id |-> d, token |-> delivery'[d].token] : d \in batch}])
  BY DEF ServeHeartbeat
<1>2. PICK batch \in Batches(Agent, t) :
        /\ Claim(Agent, t, batch)
        /\ Answer(req, [kind |-> "messages",
             work |-> {[id |-> d, token |-> delivery'[d].token] : d \in batch}])
  BY <1>1
<1> DEFINE claimed == {[id |-> d, token |-> delivery'[d].token] : d \in batch}
           answer == [kind |-> "messages", work |-> claimed]
<1>3. UNCHANGED <<store, agent, notifier, marked>> BY DEF ServeHeartbeat
<1>4. claimed \in SUBSET Work BY <1>2, SystemAssumption, ClaimedTokens DEF SystemInv
<1>5. Answer(req, answer) BY <1>2
<1> HIDE DEF claimed
<1>6. answer \in HeartbeatReply /\ answer.kind = "messages" BY <1>4 DEF HeartbeatReply
<1> HIDE DEF answer
<1>7. ProcessInv' BY <1>1, <1>3, <1>5, <1>6, AnswerKeeps
<1>8. UNCHANGED receipts BY <1>2 DEF Claim
<1> QED BY <1>3, <1>7, <1>8, DiskKept

\* Time passes, or an operator sends a message.
LEMMA OperatorKeeps ==
  ASSUME SystemInv, ServerKeeps, PassTime \/ Submit \/ UNCHANGED sysvars
  PROVE  ProcessInv' /\ DiskInv'
<1>1. UNCHANGED <<store, agent, notifier, network, reply, marked, receipts>>
  BY DEF PassTime, Tick, Submit, QueueMessage, sysvars, server
<1>2. ProcessInv' BY <1>1, ProcessKept DEF store
<1> QED BY <1>1, <1>2, DiskKept

\* An agent at work on the inbox, with nobody to answer.
LEMMA WorkingAgent ==
  ASSUME SystemInv, UNCHANGED <<network, reply, marked>>,
         agent.pc \notin {"ackWait", "heartbeatWait"},
         agent' \in Process, agent'.pc \in {"promoting", "completing"},
         \A w \in agent'.work : w.id \in marked,
         agent'.pc = "completing" =>
           agent'.current \in Deliveries /\ agent'.current \in cached' /\ Accounted(agent.current)'
  PROVE  ProcessInv'
<1>1. \A req \in network' : ~req.live /\ (req.kind = "ack" => req.id \in marked')
  BY NobodyWaits
<1>2. reply' = NoReply BY DEF SystemInv, ProcessInv, Exchange
<1>3. AgentTyped' BY DEF AgentTyped
<1>4. WireTyped' BY DEF SystemInv, ProcessInv, WireTyped
<1>5. Exchange' BY <1>1, <1>2 DEF Exchange, NoReply
<1>6. Reported' BY <1>1 DEF Reported
<1> QED BY <1>3, <1>4, <1>5, <1>6 DEF ProcessInv

LEMMA WakeUpKeeps ==
  ASSUME SystemInv, ServerKeeps, WakeUp
  PROVE  ProcessInv' /\ DiskInv'
<1>0. /\ agent \in Process /\ now \in Nat /\ agent.pc = "asleep"
      /\ pending \in [Deliveries -> Nat] /\ marker \subseteq marked
  BY DEF SystemInv, ProcessInv, AgentTyped, SafeInv, TypeOK, WakeUp, DiskInv, DiskTyped, Seen
<1> DEFINE found == {[id |-> d, token |-> pending[d]] : d \in Store!Displayed}
<1>1. found \in SUBSET Work /\ \A w \in found : w.id \in marked
  BY <1>0 DEF Work, Store!Displayed
<1>2. agent' \in Process /\ agent'.pc = "promoting" /\ agent'.work = found
  BY <1>0, <1>1, AgentWakes
<1> HIDE DEF found
<1>3. /\ UNCHANGED <<pending, cached, acked, outbox, notifier, network, reply, marked, delivery, receipts>>
      /\ marker' = {d \in marker : pending[d] # 0}
  BY DEF WakeUp, server
<1>4. ProcessInv' BY <1>0, <1>1, <1>2, <1>3, WorkingAgent
<1>5. DiskTyped' BY <1>3 DEF SystemInv, DiskInv, DiskTyped, QueueTyped
<1>6. SessionsTyped' BY <1>3 DEF SystemInv, DiskInv, SessionsTyped
<1>7. Seen' BY <1>3 DEF SystemInv, DiskInv, Seen, AcknowledgedWasDisplayed, Unreported, IdsOf
<1>8. Remembered'
  BY <1>3 DEF SystemInv, DiskInv, Remembered, Store!Displayed, Accounted, Unreported, IdsOf
<1>9. LocalAcks' BY <1>3 DEF SystemInv, DiskInv, LocalAcks, Unreported, IdsOf
<1>10. Staged' BY <1>3 DEF SystemInv, DiskInv, Staged
<1> QED BY <1>4, <1>5, <1>6, <1>7, <1>8, <1>9, <1>10 DEF DiskInv

LEMMA PromoteKeeps ==
  ASSUME SystemInv, ServerKeeps, Promote
  PROVE  ProcessInv' /\ DiskInv'
<1>1. PICK w \in agent.work :
        /\ Store!CacheMessage(w.id, w.token, agent.anchor)
        /\ agent' = [agent EXCEPT !.pc = "completing", !.work = @ \ {w}, !.current = w.id]
  BY DEF Promote
<1>0. /\ agent \in Process /\ agent.pc = "promoting" /\ agent.anchor \in Nat
      /\ agent.work \in SUBSET Work /\ \A v \in agent.work : v.id \in marked
      /\ DiskTyped /\ DiskInv
  BY DEF SystemInv, ProcessInv, AgentTyped, Process, Promote, DiskInv, Reported
<1>2. w.id \in Deliveries /\ w.token \in Nat /\ w.id \in marked BY <1>0, <1>1 DEF Work
<1>3. /\ UNCHANGED <<pending, marker, acked, notifier, network, reply, marked,
                     delivery, receipts>>
      /\ cached' = cached \cup {w.id}
  BY <1>1 DEF Promote, server, Store!CacheMessage
<1>4. QueueTyped(outbox') /\ Unreported' = IF w.id \in acked THEN Unreported
                                           ELSE Unreported \cup {w.id}
  <2>1. CASE w.id \in acked
    BY <1>0, <1>1, <2>1 DEF Store!CacheMessage, DiskTyped, Unreported
  <2>2. CASE w.id \notin acked
    <3>1. outbox' = Store!Upserted(w.id, w.token, agent.anchor)
      BY <1>1, <2>2 DEF Store!CacheMessage
    <3> QED BY <1>0, <1>2, <2>2, <3>1, UpsertedIs DEF Unreported
  <2> QED BY <2>1, <2>2
<1>5. /\ Unreported \subseteq Unreported' /\ Unreported' \subseteq Unreported \cup {w.id}
      /\ w.id \in Unreported' \cup acked' /\ (w.id \in acked => Unreported' = Unreported)
  BY <1>3, <1>4
<1>6. agent' \in Process /\ agent'.pc = "completing" /\ agent'.current = w.id
      /\ agent'.work = agent.work \ {w}
  <2>1. agent.work \ {w} \in SUBSET Work BY <1>0
  <2>2. agent' = [agent EXCEPT !.pc = "completing", !.work = agent.work \ {w}, !.current = w.id]
    BY <1>1
  <2> QED BY <1>0, <1>2, <2>1, <2>2, AgentPromotes
<1>7. ProcessInv'
  <2>1. Accounted(agent.current)' BY <1>5, <1>6 DEF Accounted
  <2> QED BY <1>0, <1>2, <1>3, <1>6, <2>1, WorkingAgent
<1>8. DiskTyped' BY <1>0, <1>2, <1>3, <1>4 DEF DiskTyped
<1>9. SessionsTyped' BY <1>3 DEF SystemInv, DiskInv, SessionsTyped
<1>10. Seen' BY <1>0, <1>2, <1>3, <1>5 DEF DiskInv, Seen, AcknowledgedWasDisplayed
<1>11. Remembered'
  BY <1>0, <1>3, <1>5 DEF DiskInv, Remembered, Store!Displayed, Accounted
<1>12. LocalAcks' BY <1>0, <1>3, <1>5 DEF DiskInv, LocalAcks
<1>13. Staged' BY <1>0, <1>3 DEF DiskInv, Staged
<1> QED BY <1>7, <1>8, <1>9, <1>10, <1>11, <1>12, <1>13 DEF DiskInv

\* What complete unlinks is accounted for.
LEMMA CompleteKeepsDisk ==
  ASSUME SystemInv, agent.pc = "completing", NEW gone, Store!Complete(agent.current, gone),
         UNCHANGED <<notifier, marked, delivery, receipts>>
  PROVE  DiskInv'
<1> DEFINE i == agent.current
<1>0. /\ i \in Deliveries /\ i \in cached /\ Accounted(i)
      /\ DiskInv /\ pending \in [Deliveries -> Nat] /\ marker \in SUBSET Deliveries
      /\ marked \in SUBSET Deliveries
  BY DEF SystemInv, ProcessInv, AgentTyped, Reported, DiskInv, DiskTyped
<1>1. /\ UNCHANGED <<cached, acked, outbox>>
      /\ pending' = [pending EXCEPT ![i] = IF "pending" \in gone THEN 0 ELSE @]
      /\ marker' = IF "marker" \in gone THEN marker \ {i} ELSE marker
  BY DEF Store!Complete
<1> HIDE DEF i
<1>2. /\ pending' \in [Deliveries -> Nat] /\ marker' \subseteq marker
      /\ \A d \in Deliveries \ {i} : pending'[d] = pending[d] /\ (d \in marker' <=> d \in marker)
  BY <1>0, <1>1
<1>3. DiskTyped' BY <1>0, <1>1, <1>2 DEF DiskInv, DiskTyped, QueueTyped
<1>4. SessionsTyped' BY <1>0 DEF DiskInv, SessionsTyped
<1>5. Seen' BY <1>0, <1>1, <1>2 DEF DiskInv, Seen, AcknowledgedWasDisplayed, Unreported, IdsOf
<1>6. \A d : Accounted(d)' <=> Accounted(d) BY <1>1 DEF Accounted, Unreported, IdsOf
<1>7. Remembered'
  <2>1. ASSUME NEW d \in marked' PROVE (d \in Store!Displayed \/ Accounted(d))'
    <3>1. d \in marked /\ d \in Deliveries BY <1>0, <2>1
    <3>2. d # i => (d \in Store!Displayed)' \/ Accounted(d)
      BY <1>0, <1>2, <3>1 DEF DiskInv, Remembered, Store!Displayed
    <3> QED BY <1>0, <1>6, <3>2
  <2>2. ASSUME NEW n \in Notifiers, notifier'[n].found
        PROVE  pending'[notifier'[n].showing] # 0 \/ Accounted(notifier[n].showing)'
    <3>1. notifier[n].found /\ notifier'[n] = notifier[n] BY <2>2
    <3>2. notifier[n].showing \in Deliveries
      BY <1>0, <3>1 DEF DiskInv, SessionsTyped, Session
    <3>3. notifier[n].showing # i =>
            pending'[notifier[n].showing] # 0 \/ Accounted(notifier[n].showing)
      BY <1>0, <1>2, <3>1, <3>2 DEF DiskInv, Remembered
    <3> QED BY <1>0, <1>6, <3>1, <3>3
  <2> QED BY <2>1, <2>2 DEF Remembered
<1>8. LocalAcks' BY <1>0, <1>1 DEF DiskInv, LocalAcks, Unreported, IdsOf
<1>9. Staged' BY <1>0, <1>1, <1>2 DEF DiskInv, Staged
<1> QED BY <1>3, <1>4, <1>5, <1>7, <1>8, <1>9 DEF DiskInv

LEMMA CompleteInboxKeeps ==
  ASSUME SystemInv, ServerKeeps, CompleteInbox
  PROVE  ProcessInv' /\ DiskInv'
<1>1. PICK gone \in Unlinked : Store!Complete(agent.current, gone) BY DEF CompleteInbox
<1>2. /\ UNCHANGED <<notifier, network, reply, marked, delivery, receipts>>
      /\ agent.pc = "completing"
      /\ agent' = [agent EXCEPT !.pc = "promoting", !.current = NoDelivery]
  BY DEF CompleteInbox, server
<1>3. DiskInv' BY <1>1, <1>2, CompleteKeepsDisk
<1>4. agent \in Process /\ \A w \in agent.work : w.id \in marked
  BY <1>2 DEF SystemInv, ProcessInv, AgentTyped, Reported
<1>5. agent' \in Process /\ agent'.pc = "promoting" /\ agent'.work = agent.work
  <2>1. "promoting" \in Places /\ NoDelivery \in Deliveries \cup {NoDelivery} BY DEF Places
  <2> QED BY <1>2, <1>4, <2>1, AgentTurns
<1>6. ProcessInv' BY <1>2, <1>4, <1>5, WorkingAgent
<1> QED BY <1>3, <1>6

\* A receipt leaves the queue when the server has it.
LEMMA ReceiptedKeeps ==
  ASSUME SystemInv, ServerKeeps, Receipted
  PROVE  ProcessInv' /\ DiskInv'
<1> DEFINE i == agent.current
<1>0. /\ agent \in Process /\ i \in Deliveries /\ i \in cached
      /\ delivery[i].state = "ACKNOWLEDGED" /\ DiskInv /\ DiskTyped
  BY DEF Receipted, SystemInv, ProcessInv, AgentTyped, Exchange, Reported, DiskInv
<1>1. /\ UNCHANGED <<pending, marker, cached, notifier, network, marked, delivery,
                     receipts>>
      /\ acked' = acked \cup {i}
      /\ outbox' = (IF Store!HasReceipt(i) THEN Store!Without(i) ELSE outbox)
      /\ agent' = [agent EXCEPT !.pc = "receipts", !.current = NoDelivery]
      /\ reply' = NoReply /\ reply # NoReply
  BY <1>0 DEF Receipted, server, Store!CompleteReceipt, NoReply
<1> HIDE DEF i
<1>2. QueueTyped(outbox') /\ Unreported' = Unreported \ {i}
  <2>1. CASE Store!HasReceipt(i)
    BY <1>0, <1>1, <2>1, WithoutIs DEF Unreported
  <2>2. CASE ~Store!HasReceipt(i)
    <3>1. i \notin Unreported BY <2>2 DEF Store!HasReceipt, Unreported, IdsOf
    <3> QED BY <1>0, <1>1, <2>2, <3>1 DEF DiskTyped, Unreported
  <2> QED BY <2>1, <2>2
<1>3. agent' \in Process /\ agent'.pc = "receipts"
  <2>1. "receipts" \in Places /\ NoDelivery \in Deliveries \cup {NoDelivery} BY DEF Places
  <2> QED BY <1>0, <1>1, <2>1, AgentTurns
<1>4. ProcessInv' BY <1>1, <1>3, NobodyWaits, QuietAgent
<1>5. DiskTyped' BY <1>0, <1>1, <1>2 DEF DiskTyped
<1>6. SessionsTyped' BY <1>0, <1>1 DEF DiskInv, SessionsTyped
<1>7. Seen' BY <1>0, <1>1, <1>2 DEF DiskInv, Seen, AcknowledgedWasDisplayed
<1>8. Remembered'
  BY <1>0, <1>1, <1>2 DEF DiskInv, Remembered, Store!Displayed, Accounted
<1>9. LocalAcks' BY <1>0, <1>1, <1>2 DEF DiskInv, LocalAcks
<1>10. Staged' BY <1>0, <1>1 DEF DiskInv, Staged
<1> QED BY <1>4, <1>5, <1>6, <1>7, <1>8, <1>9, <1>10 DEF DiskInv

\* A queue that only changes within its rows.
LEMMA RescheduledKeepsDisk ==
  ASSUME SystemInv, QueueTyped(outbox'), Unreported' = Unreported,
         UNCHANGED <<pending, marker, cached, acked, notifier, marked, delivery,
                     receipts>>
  PROVE  DiskInv'
<1>1. DiskTyped' BY DEF SystemInv, DiskInv, DiskTyped
<1>2. SessionsTyped' BY DEF SystemInv, DiskInv, SessionsTyped
<1>3. Seen' BY DEF SystemInv, DiskInv, Seen, AcknowledgedWasDisplayed
<1>4. Remembered' BY DEF SystemInv, DiskInv, Remembered, Store!Displayed, Accounted
<1>5. LocalAcks' BY DEF SystemInv, DiskInv, LocalAcks
<1>6. Staged' BY DEF SystemInv, DiskInv, Staged
<1> QED BY <1>1, <1>2, <1>3, <1>4, <1>5, <1>6 DEF DiskInv

\* The server refused the receipt, or did not answer in time.
LEMMA BackOffKeeps ==
  ASSUME SystemInv, BackOff, UNCHANGED <<notifier, marked, delivery, receipts>>
  PROVE  agent' \in Process /\ agent'.pc = "heartbeat" /\ DiskInv'
<1>0. agent \in Process /\ agent.anchor \in Nat /\ DiskTyped
  BY DEF SystemInv, ProcessInv, AgentTyped, Process, DiskInv
<1>1. QueueTyped(outbox') /\ IdsOf(outbox') = Unreported BY <1>0, BackOffIs DEF BackOff
<1>2. UNCHANGED <<pending, marker, cached, acked>>
      /\ agent' = [agent EXCEPT !.pc = "heartbeat", !.current = NoDelivery]
  BY DEF BackOff, Store!FailReceipt
<1>3. DiskInv' BY <1>1, <1>2, RescheduledKeepsDisk DEF Unreported
<1>4. agent' \in Process /\ agent'.pc = "heartbeat"
  <2>1. "heartbeat" \in Places /\ NoDelivery \in Deliveries \cup {NoDelivery} BY DEF Places
  <2> QED BY <1>0, <1>2, <2>1, AgentTurns
<1> QED BY <1>3, <1>4

LEMMA ReceiptFailedKeeps ==
  ASSUME SystemInv, ServerKeeps, ReceiptFailed
  PROVE  ProcessInv' /\ DiskInv'
<1>1. /\ UNCHANGED <<notifier, network, marked, delivery, receipts>>
      /\ BackOff /\ reply' = NoReply /\ reply # NoReply
  BY DEF ReceiptFailed, server, NoReply
<1>2. agent' \in Process /\ agent'.pc = "heartbeat" /\ DiskInv' BY <1>1, BackOffKeeps
<1>3. ProcessInv' BY <1>1, <1>2, NobodyWaits, QuietAgent
<1> QED BY <1>2, <1>3

LEMMA TimeOutKeeps ==
  ASSUME SystemInv, ServerKeeps, TimeOut
  PROVE  ProcessInv' /\ DiskInv'
<1>1. /\ UNCHANGED <<notifier, marked, delivery, receipts>>
      /\ network' = Abandoned /\ reply' = NoReply
  BY DEF TimeOut, server
<1>2. agent' \in Process /\ agent'.pc \in {"heartbeat", "asleep"} /\ DiskInv'
  <2>1. CASE BackOff BY <1>1, <2>1, BackOffKeeps
  <2>2. CASE agent' = Asleep(now + Pause) /\ UNCHANGED store
    <3>1. now + Pause \in Nat BY SystemAssumption DEF Pause, SystemInv, SafeInv, TypeOK
    <3> QED BY <1>1, <2>2, <3>1, AsleepIs, DiskKept
  <2> QED BY <2>1, <2>2 DEF TimeOut
<1>3. ProcessInv' BY <1>1, <1>2, AbandonedAre, QuietAgent
<1> QED BY <1>2, <1>3

LEMMA AgentCrashKeeps ==
  ASSUME SystemInv, ServerKeeps, AgentCrash
  PROVE  ProcessInv' /\ DiskInv'
<1>1. /\ UNCHANGED <<notifier, marked, delivery, receipts>>
      /\ network' = Abandoned /\ reply' = NoReply /\ agent' = Asleep(now)
  BY DEF AgentCrash, server
<1>2. DiskInv'
  <2>1. CASE UNCHANGED store BY <1>1, <2>1, DiskKept
  <2>2. CASE agent.pc = "completing" /\ Store!Complete(agent.current, {"pending"})
    BY <1>1, <2>2, CompleteKeepsDisk
  <2> QED BY <2>1, <2>2 DEF AgentCrash
<1>3. agent' \in Process /\ agent'.pc = "asleep"
  BY <1>1, AsleepIs DEF SystemInv, SafeInv, TypeOK
<1>4. ProcessInv' BY <1>1, <1>3, AbandonedAre, QuietAgent
<1> QED BY <1>2, <1>4

\* A delivered message is staged, or the receipt of a cached one is renewed.
LEMMA StageMessageKeeps ==
  ASSUME SystemInv, ServerKeeps, StageMessage
  PROVE  ProcessInv' /\ DiskInv'
<1>1. PICK w \in agent.work :
        /\ IF w.id \in cached
           THEN Store!Recache(w.id, w.token, agent.anchor)
           ELSE Store!Stage(w.id, w.token)
        /\ agent' = [agent EXCEPT !.work = @ \ {w}]
  BY DEF StageMessage
<1>0. /\ agent \in Process /\ agent.pc = "staging" /\ agent.anchor \in Nat
      /\ agent.work \in SUBSET Work /\ DiskInv /\ DiskTyped /\ reply = NoReply
  BY DEF SystemInv, ProcessInv, AgentTyped, Process, StageMessage, DiskInv, Exchange
<1>2. w.id \in Deliveries /\ w.token \in Nat \ {0} BY <1>0, <1>1 DEF Work
<1>3. UNCHANGED <<notifier, network, reply, marked, delivery, receipts>>
  BY DEF StageMessage, server
<1>4. agent' \in Process /\ agent'.pc = "staging"
  <2>1. agent.work \ {w} \in SUBSET Work BY <1>0
  <2> QED BY <1>0, <1>1, <2>1, AgentWorks
<1>5. ProcessInv' BY <1>0, <1>3, <1>4, NobodyWaits, QuietAgent
<1>6. SessionsTyped' BY <1>0, <1>3 DEF DiskInv, SessionsTyped
<1>7. CASE w.id \in cached
  <2>1. /\ UNCHANGED <<pending, marker, cached>> /\ acked' = acked \ {w.id}
        /\ outbox' = Store!Upserted(w.id, w.token, agent.anchor)
    BY <1>1, <1>7 DEF Store!Recache
  <2>2. QueueTyped(outbox') /\ Unreported' = Unreported \cup {w.id}
    BY <1>0, <1>2, <2>1, UpsertedIs DEF Unreported
  <2>3. DiskTyped' BY <1>0, <1>3, <2>1, <2>2 DEF DiskTyped
  <2>4. Seen' BY <1>0, <1>3, <1>7, <2>1, <2>2 DEF DiskInv, Seen, AcknowledgedWasDisplayed
  <2>5. Remembered'
    BY <1>0, <1>3, <2>1, <2>2 DEF DiskInv, Remembered, Store!Displayed, Accounted
  <2>6. LocalAcks' BY <1>0, <1>3, <2>1, <2>2 DEF DiskInv, LocalAcks
  <2>7. Staged' BY <1>0, <1>3, <2>1 DEF DiskInv, Staged
  <2> QED BY <1>5, <1>6, <2>3, <2>4, <2>5, <2>6, <2>7 DEF DiskInv
<1>8. CASE w.id \notin cached
  <2>1. /\ UNCHANGED <<marker, cached, acked, outbox>>
        /\ pending' = [pending EXCEPT ![w.id] = w.token]
    BY <1>1, <1>8 DEF Store!Stage
  <2>2. /\ pending' \in [Deliveries -> Nat]
        /\ \A d \in Deliveries : pending[d] # 0 => pending'[d] # 0
    BY <1>0, <1>2, <2>1 DEF DiskTyped
  <2>3. DiskTyped' BY <1>0, <1>3, <2>1, <2>2 DEF DiskTyped, QueueTyped
  <2>4. Seen'
    BY <1>0, <1>3, <2>1 DEF DiskInv, Seen, AcknowledgedWasDisplayed, Unreported, IdsOf
  <2>5. \A d : Accounted(d)' <=> Accounted(d) BY <2>1 DEF Accounted, Unreported, IdsOf
  <2>6. Remembered'
    <3>1. \A d \in marked : d \in Deliveries BY <1>0 DEF DiskTyped
    <3>2. \A n \in Notifiers : notifier[n].found => notifier[n].showing \in Deliveries
      BY <1>0 DEF DiskInv, SessionsTyped, Session
    <3> QED BY <1>0, <1>3, <2>1, <2>2, <2>5, <3>1, <3>2 DEF DiskInv, Remembered, Store!Displayed
  <2>7. LocalAcks' BY <1>0, <1>3, <2>1 DEF DiskInv, LocalAcks, Unreported, IdsOf
  <2>8. Staged' BY <1>0, <1>3, <2>1, <2>2 DEF DiskInv, Staged
  <2> QED BY <1>5, <1>6, <2>3, <2>4, <2>6, <2>7, <2>8 DEF DiskInv
<1> QED BY <1>7, <1>8

\* A notifier's session stays true of the disk.
SessionTrue(s) ==
  /\ s \in Session
  /\ s.showing = NoDelivery => ~s.found
  /\ s.showing \notin s.list
  /\ s.found => pending[s.showing] # 0 \/ Accounted(s.showing)
  /\ \A d \in Deliveries : d \in s.list \cup {s.showing} => pending[d] # 0 \/ d \in cached

LEMMA SessionsTrue ==
  ASSUME SystemInv, NEW n \in Notifiers
  PROVE  SessionTrue(notifier[n])
  BY DEF SystemInv, DiskInv, SessionsTyped, Remembered, Staged, SessionTrue

LEMMA SessionMoves ==
  ASSUME SystemInv, NEW n \in Notifiers, NEW s, SessionTrue(s),
         notifier' = [notifier EXCEPT ![n] = s],
         UNCHANGED <<pending, cached, acked, outbox, delivery, receipts>>,
         \/ UNCHANGED <<marker, marked>>
         \/ \E d \in Deliveries : /\ marker' = marker \cup {d} /\ marked' = marked \cup {d}
                                  /\ pending[d] # 0 \/ Accounted(d)
  PROVE  DiskInv'
<1>0. /\ DiskInv /\ notifier \in [Notifiers -> Session]
      /\ \A o \in Notifiers : SessionTrue(notifier[o])
  BY SessionsTrue DEF SystemInv, DiskInv, SessionsTyped
<1>1. \A o \in Notifiers : SessionTrue(notifier'[o]) BY <1>0
<1>2. marked \subseteq marked' /\ marker \subseteq marker' OBVIOUS
<1>3. \A d : Accounted(d)' <=> Accounted(d) BY DEF Accounted, Unreported, IdsOf
<1>4. DiskTyped' BY <1>0 DEF DiskInv, DiskTyped, QueueTyped
<1>5. SessionsTyped'
  <2>1. notifier' \in [Notifiers -> Session] BY <1>0 DEF SessionTrue
  <2> QED BY <1>1, <2>1 DEF SessionsTyped, SessionTrue
<1>6. Seen' BY <1>0, <1>2 DEF DiskInv, Seen, AcknowledgedWasDisplayed, Unreported, IdsOf
<1>7. Remembered'
  <2>1. \A d \in marked' : (d \in Store!Displayed)' \/ Accounted(d)
    <3>1. CASE UNCHANGED <<marker, marked>>
      BY <1>0, <3>1 DEF DiskInv, Remembered, Store!Displayed
    <3>2. ASSUME NEW d \in Deliveries, marker' = marker \cup {d}, marked' = marked \cup {d},
                 pending[d] # 0 \/ Accounted(d)
          PROVE  \A e \in marked' : (e \in Store!Displayed)' \/ Accounted(e)
      <4>1. \A e \in marked : (e \in Store!Displayed)' \/ Accounted(e)
        BY <1>0, <1>2 DEF DiskInv, Remembered, Store!Displayed
      <4>2. (d \in Store!Displayed)' \/ Accounted(d) BY <3>2 DEF Store!Displayed
      <4> QED BY <3>2, <4>1, <4>2
    <3> QED BY <3>1, <3>2
  <2>2. \A o \in Notifiers : notifier'[o].found =>
          pending'[notifier'[o].showing] # 0 \/ Accounted(notifier'[o].showing)
    BY <1>1 DEF SessionTrue
  <2>3. \A o \in Notifiers : Accounted(notifier[o].showing)' <=> Accounted(notifier'[o].showing)
    BY DEF Accounted, Unreported, IdsOf
  <2> QED BY <1>3, <2>1, <2>2, <2>3 DEF Remembered
<1>8. LocalAcks' BY <1>0 DEF DiskInv, LocalAcks, Unreported, IdsOf
<1>9. Staged' BY <1>1 DEF SessionTrue, Staged
<1> QED BY <1>4, <1>5, <1>6, <1>7, <1>8, <1>9 DEF DiskInv

LEMMA IdleIs == SessionTrue(Idle) /\ Idle \in Session /\ Idle.list = {} /\ Idle.showing = NoDelivery
<1>1. Idle \in Session /\ Idle.list = {} /\ Idle.showing = NoDelivery /\ Idle.found = FALSE
  BY DEF Idle, Session
<1> QED BY <1>1, NoDeliveryIsNone DEF SessionTrue

\* A notifier polls the inbox, shows what it found and marks what it showed.
LEMMA NotifierKeeps ==
  ASSUME SystemInv, ServerKeeps, NEW n \in Notifiers, NotifierStep(n)
  PROVE  ProcessInv' /\ DiskInv'
<1> DEFINE s == notifier[n]
           listing(l) == [s EXCEPT !.list = l]
<1>0. /\ notifier \in [Notifiers -> Session] /\ s \in Session /\ SessionTrue(s)
      /\ s.list \in SUBSET Deliveries /\ s.showing \in Deliveries \cup {NoDelivery}
  BY SessionsTrue DEF SystemInv, DiskInv, SessionsTyped, Session
<1>1. ProcessInv'
  BY ProcessKept DEF NotifierStep, Poll, Popup, PopupFails, FindFile, MarkDisplayed,
                     NotifierCrash, store
<1>2. UNCHANGED <<pending, cached, acked, outbox, delivery, receipts>>
  BY DEF NotifierStep, Poll, Popup, PopupFails, FindFile, MarkDisplayed, NotifierCrash, store,
         server
<1>3. Poll(n) \/ Popup(n) \/ PopupFails(n) \/ FindFile(n) \/ NotifierCrash(n) =>
        UNCHANGED <<marker, marked>>
  BY DEF Poll, Popup, PopupFails, FindFile, NotifierCrash, store
<1>4. ASSUME NEW l \in SUBSET Deliveries
      PROVE  /\ listing(l) \in Session /\ listing(l).list = l
             /\ listing(l).showing = s.showing /\ listing(l).found = s.found
  BY <1>0 DEF Session
<1> HIDE DEF s, listing
<1>5. CASE Poll(n)
  <2>1. Store!Unmarked \in SUBSET Deliveries /\ s = Idle
        /\ notifier' = [notifier EXCEPT ![n] = listing(Store!Unmarked)]
    BY <1>5 DEF Poll, Store!Unmarked, s, listing
  <2>2. SessionTrue(listing(Store!Unmarked))
    <3>1. s.showing = NoDelivery /\ ~s.found BY <2>1 DEF Idle
    <3>2. \A d \in Store!Unmarked : pending[d] # 0 BY DEF Store!Unmarked
    <3> QED BY <1>4, <2>1, <3>1, <3>2, NoDeliveryIsNone DEF SessionTrue
  <2> QED BY <1>1, <1>2, <1>3, <1>5, <2>1, <2>2, SessionMoves
<1>6. CASE Popup(n)
  <2>1. PICK d \in s.list :
          notifier' = [notifier EXCEPT ![n] = [Idle EXCEPT !.list = s.list \ {d}, !.showing = d]]
    BY <1>6 DEF Popup, s
  <2> DEFINE rest == [Idle EXCEPT !.list = s.list \ {d}]
             next == [rest EXCEPT !.showing = d]
  <2>2. /\ rest \in Session /\ rest.list = s.list \ {d} /\ rest.found = FALSE
    BY <1>0, IdleIs DEF Session, Idle
  <2>3. notifier' = [notifier EXCEPT ![n] = next] BY <2>1
  <2> HIDE DEF rest
  <2>4. d \in Deliveries BY <1>0
  <2>5. /\ next \in Session /\ next.list = s.list \ {d} /\ next.showing = d /\ next.found = FALSE
    BY <2>2, <2>4 DEF Session
  <2> HIDE DEF next
  <2>6. SessionTrue(next) BY <1>0, <2>4, <2>5 DEF SessionTrue
  <2> QED BY <1>1, <1>2, <1>3, <1>6, <2>3, <2>6, SessionMoves
<1>7. CASE PopupFails(n)
  <2>1. PICK d \in s.list : notifier' = [notifier EXCEPT ![n].list = @ \ {d}]
    BY <1>7 DEF PopupFails, s
  <2>2. notifier' = [notifier EXCEPT ![n] = listing(s.list \ {d})]
    BY <2>1 DEF s, listing
  <2>3. s.list \ {d} \in SUBSET Deliveries BY <1>0
  <2>4. SessionTrue(listing(s.list \ {d})) BY <1>0, <1>4, <2>3 DEF SessionTrue
  <2> QED BY <1>1, <1>2, <1>3, <1>7, <2>2, <2>4, SessionMoves
<1>8. CASE FindFile(n)
  <2> DEFINE found == [s EXCEPT !.found = TRUE]
  <2>1. /\ found \in Session /\ found.list = s.list /\ found.showing = s.showing
        /\ found.found = TRUE
    BY <1>0 DEF Session
  <2>2. s.showing # NoDelivery BY <1>8 DEF FindFile, s
  <2>3. \/ pending[s.showing] # 0 /\ notifier' = [notifier EXCEPT ![n] = found]
        \/ notifier' = [notifier EXCEPT ![n] = Idle]
    BY <1>8 DEF FindFile, s
  <2> HIDE DEF found
  <2>4. pending[s.showing] # 0 => SessionTrue(found)
    BY <1>0, <2>1, <2>2 DEF SessionTrue
  <2> QED BY <1>1, <1>2, <1>3, <1>8, <2>3, <2>4, IdleIs, SessionMoves
<1>9. CASE MarkDisplayed(n)
  <2> DEFINE next == [Idle EXCEPT !.list = s.list]
  <2>1. /\ next \in Session /\ next.list = s.list /\ next.showing = NoDelivery
        /\ next.found = FALSE
    BY <1>0, IdleIs DEF Session, Idle
  <2>2. /\ notifier' = [notifier EXCEPT ![n] = next] /\ s.found
        /\ marker' = marker \cup {s.showing} /\ marked' = marked \cup {s.showing}
    BY <1>9 DEF MarkDisplayed, s
  <2> HIDE DEF next
  <2>3. SessionTrue(next) BY <1>0, <2>1, NoDeliveryIsNone DEF SessionTrue
  <2>4. s.showing \in Deliveries /\ (pending[s.showing] # 0 \/ Accounted(s.showing))
    BY <1>0, <2>2 DEF SessionTrue
  <2> QED BY <1>1, <1>2, <2>2, <2>3, <2>4, SessionMoves
<1>10. CASE NotifierCrash(n)
  BY <1>1, <1>2, <1>3, <1>10, IdleIs, SessionMoves DEF NotifierCrash
<1> QED BY <1>5, <1>6, <1>7, <1>8, <1>9, <1>10 DEF NotifierStep

-----------------------------------------------------------------------------
(* Nothing is there at first, and every step keeps the invariant.          *)

LEMMA SystemInitially == SystemInit => SystemInv
<1> SUFFICES ASSUME SystemInit PROVE SystemInv
  OBVIOUS
<1>1. SafeInv BY InitSafe DEF SystemInit
<1>2. /\ pending = [d \in Deliveries |-> 0] /\ marker = {} /\ cached = {} /\ acked = {}
      /\ outbox = <<>> /\ marked = {} /\ network = {} /\ reply = NoReply
      /\ \A d \in Deliveries : receipts[d] = {}
  BY DEF SystemInit, Store!StoreInit, Init
<1>3. agent \in Process /\ agent.pc = "asleep" BY AsleepIs DEF SystemInit
<1>4. notifier = [n \in Notifiers |-> Idle] BY DEF SystemInit
<1>5. Unreported = {} BY <1>2 DEF Unreported, IdsOf
<1>6. ProcessInv
  BY <1>2, <1>3 DEF ProcessInv, AgentTyped, WireTyped, Exchange, Reported, NoReply, Status
<1>7. DiskTyped BY <1>2 DEF DiskTyped, QueueTyped
<1>8. SessionsTyped BY <1>4, IdleIs DEF SessionsTyped, Idle
<1>9. Seen BY <1>2, <1>5 DEF Seen, AcknowledgedWasDisplayed
<1>10. Remembered /\ LocalAcks BY <1>2, <1>4 DEF Remembered, LocalAcks, Idle
<1>11. Staged
  <2>1. \A n \in Notifiers : notifier[n].list = {} /\ notifier[n].showing \notin Deliveries
    BY <1>4, IdleIs, NoDeliveryIsNone
  <2> QED BY <2>1 DEF Staged
<1> QED BY <1>1, <1>6, <1>7, <1>8, <1>9, <1>10, <1>11 DEF SystemInv, DiskInv

LEMMA SystemSteps == SystemInv /\ [SystemNext]_sysvars => SystemInv'
<1> SUFFICES ASSUME SystemInv, [SystemNext]_sysvars PROVE SystemInv'
  OBVIOUS
<1>1. ServerKeeps BY ServerSteps
<1>2. CASE AgentStep
  BY <1>1, <1>2, WakeUpKeeps, PromoteKeeps, CompleteInboxKeeps, PhasesKeep, SendReceiptKeeps,
     ReceiptedKeeps, ReceiptFailedKeeps, SendHeartbeatKeeps, StageMessageKeeps
     DEF AgentStep, ServerKeeps, SystemInv
<1>3. CASE NextHeartbeat BY <1>1, <1>3, PhasesKeep DEF ServerKeeps, SystemInv
<1>4. CASE Serve
  BY <1>1, <1>4, ServeAcknowledgeKeeps, ServeHeartbeatKeeps DEF Serve, ServerKeeps, SystemInv
<1>5. CASE Lose \/ TimeOut \/ AgentCrash
  BY <1>1, <1>5, LoseKeeps, TimeOutKeeps, AgentCrashKeeps DEF ServerKeeps, SystemInv
<1>6. CASE \E n \in Notifiers : NotifierStep(n)
  BY <1>1, <1>6, NotifierKeeps DEF ServerKeeps, SystemInv
<1>7. CASE PassTime \/ Submit \/ UNCHANGED sysvars
  BY <1>1, <1>7, OperatorKeeps DEF ServerKeeps, SystemInv
<1>8. Horizon => UNCHANGED sysvars BY DEF Horizon
<1> QED BY <1>2, <1>3, <1>4, <1>5, <1>6, <1>7, <1>8 DEF SystemNext

LEMMA SystemInvariant == SystemSpec => []SystemInv
  BY SystemInitially, SystemSteps, PTL DEF SystemSpec

\* The invariant gives the invariants that the runs check.
LEMMA SystemInvImplies ==
  SystemInv => AcknowledgedWasDisplayed /\ DisplayRemembered /\ LocalAckIsServerAck
<1> SUFFICES ASSUME SystemInv
             PROVE  AcknowledgedWasDisplayed /\ DisplayRemembered /\ LocalAckIsServerAck
  OBVIOUS
<1>1. \A d : Store!HasReceipt(d) <=> d \in Unreported
  BY DEF Store!HasReceipt, Unreported, IdsOf
<1>2. DisplayRemembered
  BY <1>1 DEF DisplayRemembered, SystemInv, DiskInv, Remembered, Accounted
<1>3. LocalAckIsServerAck
  BY <1>1 DEF LocalAckIsServerAck, SystemInv, DiskInv, LocalAcks
<1> QED BY <1>2, <1>3 DEF SystemInv, DiskInv, Seen

\* No retry, late request or crash makes the server hold a receipt for a message that no
\* notifier marked as displayed: acknowledge_delivery is reached only from a marker.
THEOREM AcknowledgementSafety == SystemSpec => []AcknowledgedWasDisplayed
  BY SystemInvariant, SystemInvImplies, PTL

\* A marked message is in the inbox with its marker, or has a receipt in the queue, until
\* the server has settled it: complete, cache_message and fail_receipt never drop it.
THEOREM SystemSafety == SystemSpec => []DisplayRemembered
  BY SystemInvariant, SystemInvImplies, PTL

\* What complete_receipt records as acknowledged is acknowledged at the server, so that
\* cache_message never reopens such a delivery.
THEOREM LocalAckSafety == SystemSpec => []LocalAckIsServerAck
  BY SystemInvariant, SystemInvImplies, PTL

\* The server within the system is the server of MessageDelivery.
THEOREM ServerRefinement == SystemSpec => Spec
<1>1. SystemInit => Init BY DEF SystemInit
<1> QED BY <1>1, SystemRefinesDelivery, SystemInvariant, PTL DEF SystemSpec, Spec

-----------------------------------------------------------------------------
(* How often a popup is shown, unless unlinks fail.                        *)

\* What was displayed can not be polled again.
Gone(d) == (pending[d] # 0 /\ d \in marker) \/ (pending[d] = 0 /\ d \in cached)

\* A listed message may be shown once more; one that was shown as often as it may be is
\* gone, or about to be marked.
PopupOf(n, d) ==
  /\ shown[n][d] <= 1 + crashes.notifier
  /\ d \in notifier[n].list => shown[n][d] <= crashes.notifier
  /\ shown[n][d] = 1 + crashes.notifier => Gone(d) \/ notifier[n].showing = d
  /\ notifier[n].showing = d => shown[n][d] > 0

\* The session that marked the message is done with it.
Done(o, d) == shown[o][d] > 0 /\ d \notin notifier[o].list /\ d # notifier[o].showing

PopupInv ==
  /\ shown \in [Notifiers -> [Deliveries -> Nat]]
  /\ crashes \in [agent : Nat, notifier : Nat]
  /\ \A n \in Notifiers, d \in Deliveries : PopupOf(n, d)
  /\ \A d \in marked : Gone(d) /\ \E o \in Notifiers : Done(o, d)

\* No step but the notifiers' brings a file back.
LEMMA GoneStays ==
  ASSUME SystemInv, ~FileErrors, NEW d \in Deliveries, Gone(d),
         \/ PassTime \/ Submit \/ AgentStep \/ NextHeartbeat \/ Serve \/ Lose \/ TimeOut
         \/ AgentCrash \/ UNCHANGED sysvars
  PROVE  Gone(d)'
<1>0. /\ pending \in [Deliveries -> Nat] /\ DiskTyped /\ AgentTyped
      /\ agent.pc = "completing" => agent.current \in cached /\ agent.current \in Deliveries
  BY DEF SystemInv, DiskInv, DiskTyped, ProcessInv, AgentTyped, Reported
<1>1. CASE UNCHANGED <<pending, marker>> /\ cached \subseteq cached'
  BY <1>1 DEF Gone
<1>2. CASE WakeUp BY <1>2 DEF WakeUp, Gone
<1>3. CASE Promote BY <1>1, <1>3 DEF Promote, Store!CacheMessage
<1>4. CASE CompleteInbox
  <2>1. PICK gone \in Unlinked : Store!Complete(agent.current, gone) BY <1>4 DEF CompleteInbox
  <2>2. gone = {"pending", "marker"} BY <2>1 DEF Unlinked
  <2>3. agent.pc = "completing" BY <1>4 DEF CompleteInbox
  <2>4. /\ cached' = cached /\ marker' = marker \ {agent.current}
        /\ pending' = [pending EXCEPT ![agent.current] = 0]
    BY <2>1, <2>2 DEF Store!Complete
  <2> QED BY <1>0, <2>3, <2>4 DEF Gone
<1>5. CASE AgentCrash
  <2>1. CASE UNCHANGED store BY <1>1, <2>1 DEF store
  <2>2. CASE agent.pc = "completing" /\ Store!Complete(agent.current, {"pending"})
    <3>1. cached' = cached /\ marker' = marker /\ pending' = [pending EXCEPT ![agent.current] = 0]
      BY <2>2 DEF Store!Complete
    <3> QED BY <1>0, <2>2, <3>1 DEF Gone
  <2> QED BY <1>5, <2>1, <2>2 DEF AgentCrash
<1>6. CASE StageMessage
  <2>1. PICK w \in agent.work :
          IF w.id \in cached THEN Store!Recache(w.id, w.token, agent.anchor)
          ELSE Store!Stage(w.id, w.token)
    BY <1>6 DEF StageMessage
  <2>2. CASE w.id \in cached BY <1>1, <2>1, <2>2 DEF Store!Recache
  <2>3. CASE w.id \notin cached
    <3>1. w.id \in Deliveries /\ w.token \in Nat \ {0}
      BY <1>0 DEF AgentTyped, Process, Work
    <3>2. UNCHANGED <<marker, cached>> /\ pending' = [pending EXCEPT ![w.id] = w.token]
      BY <2>1, <2>3 DEF Store!Stage
    <3> QED BY <1>0, <2>3, <3>1, <3>2 DEF Gone
  <2> QED BY <2>2, <2>3
<1>7. CASE Receipted \/ ReceiptFailed \/ TimeOut
  BY <1>1, <1>7 DEF Receipted, ReceiptFailed, TimeOut, BackOff, Store!CompleteReceipt,
                    Store!FailReceipt, store
<1>8. CASE BeginReceipts \/ SendReceipt \/ NoReceiptDue \/ ReceiptRejected \/ SendHeartbeat
           \/ Delivered \/ NextHeartbeat \/ Sleep
  BY <1>1, <1>8 DEF BeginReceipts, SendReceipt, NoReceiptDue, ReceiptRejected, SendHeartbeat,
                    Delivered, NextHeartbeat, Sleep, store
<1>9. CASE PassTime \/ Submit \/ Serve \/ Lose \/ UNCHANGED sysvars
  BY <1>1, <1>9 DEF PassTime, Submit, Serve, ServeAcknowledge, ServeHeartbeat, Lose, sysvars, store
<1> QED BY <1>2, <1>3, <1>4, <1>5, <1>6, <1>7, <1>8, <1>9 DEF AgentStep

\* None of them shows or marks anything.
LEMMA NothingShown ==
  ASSUME \/ PassTime \/ Submit \/ AgentStep \/ NextHeartbeat \/ Serve \/ Lose \/ TimeOut
         \/ AgentCrash \/ UNCHANGED sysvars
  PROVE  /\ UNCHANGED <<notifier, shown, marked>>
         /\ crashes' = crashes \/ crashes' = [crashes EXCEPT !.agent = @ + 1]
<1>1. AgentStep => UNCHANGED <<notifier, shown, marked, crashes>>
  BY DEF AgentStep, WakeUp, Promote, CompleteInbox, BeginReceipts, SendReceipt, NoReceiptDue,
         Receipted, ReceiptRejected, ReceiptFailed, SendHeartbeat, Delivered, StageMessage, Sleep
<1>2. \/ PassTime \/ Submit \/ NextHeartbeat \/ Serve \/ Lose \/ TimeOut \/ UNCHANGED sysvars
      => UNCHANGED <<notifier, shown, marked, crashes>>
  BY DEF PassTime, Submit, NextHeartbeat, Serve, ServeAcknowledge, ServeHeartbeat, Lose, TimeOut,
         sysvars
<1>3. AgentCrash => UNCHANGED <<notifier, shown, marked>>
                    /\ crashes' = [crashes EXCEPT !.agent = @ + 1]
  BY DEF AgentCrash
<1> QED BY <1>1, <1>2, <1>3

LEMMA OthersKeepPopups ==
  ASSUME SystemInv, PopupInv, ~FileErrors,
         \/ PassTime \/ Submit \/ AgentStep \/ NextHeartbeat \/ Serve \/ Lose \/ TimeOut
         \/ AgentCrash \/ UNCHANGED sysvars
  PROVE  PopupInv'
<1>1. UNCHANGED <<notifier, shown, marked>> BY NothingShown
<1>2. crashes' \in [agent : Nat, notifier : Nat] /\ crashes'.notifier = crashes.notifier
  BY NothingShown DEF PopupInv
<1>3. \A d \in Deliveries : Gone(d) => Gone(d)' BY GoneStays
<1>4. ASSUME NEW n \in Notifiers, NEW d \in Deliveries PROVE PopupOf(n, d)'
  BY <1>1, <1>2, <1>3 DEF PopupInv, PopupOf
<1>5. ASSUME NEW d \in marked' PROVE Gone(d)' /\ \E o \in Notifiers : Done(o, d)'
  <2>1. d \in marked /\ d \in Deliveries BY <1>1, <1>5 DEF SystemInv, DiskInv, DiskTyped
  <2> QED BY <1>1, <1>3, <2>1 DEF PopupInv, Done
<1> QED BY <1>1, <1>2, <1>4, <1>5 DEF PopupInv

\* Another crash allows for another popup.
LEMMA MoreCrashes ==
  ASSUME NEW k \in Nat, NEW c \in Nat, NEW e \in Nat, k <= 1 + c, c <= e
  PROVE  k <= 1 + e /\ (k = 1 + e => k = 1 + c) /\ (k <= c => k <= e)
  OBVIOUS

\* A session moves: its own popups and the messages it marked stay right.
LEMMA PopupMoves ==
  ASSUME SystemInv, PopupInv, NEW n \in Notifiers, NEW s \in Session,
         notifier' = [notifier EXCEPT ![n] = s],
         UNCHANGED <<pending, cached>>, marker \subseteq marker', marked' \in SUBSET Deliveries,
         shown' \in [Notifiers -> [Deliveries -> Nat]],
         \A o \in Notifiers \ {n} : shown'[o] = shown[o],
         crashes' \in [agent : Nat, notifier : Nat], crashes.notifier <= crashes'.notifier,
         \A d \in Deliveries : PopupOf(n, d)',
         \A d \in Deliveries : d \in marked => (Done(n, d) => Done(n, d)'),
         \A d \in Deliveries : d \in marked' \ marked => Gone(d)' /\ Done(n, d)'
  PROVE  PopupInv'
<1>1. \A o \in Notifiers \ {n} : notifier'[o] = notifier[o]
  BY DEF SystemInv, DiskInv, SessionsTyped
<1>2. \A d \in Deliveries : Gone(d) => Gone(d)' BY DEF Gone
<1>3. ASSUME NEW o \in Notifiers, NEW d \in Deliveries PROVE PopupOf(o, d)'
  <2>1. CASE o = n BY <2>1
  <2>2. CASE o # n
    <3>1. PopupOf(o, d) /\ notifier'[o] = notifier[o] /\ shown'[o] = shown[o]
      BY <1>1, <2>2 DEF PopupInv
    <3>2. shown[o][d] \in Nat /\ crashes.notifier \in Nat /\ crashes'.notifier \in Nat
      <4>1. shown[o] \in [Deliveries -> Nat] BY DEF PopupInv
      <4>2. shown[o][d] \in Nat BY <4>1
      <4>3. crashes.notifier \in Nat BY DEF PopupInv
      <4>4. crashes'.notifier \in Nat OBVIOUS
      <4> QED BY <4>2, <4>3, <4>4
    <3>3. shown'[o][d] = shown[o][d] /\ notifier'[o] = notifier[o] BY <3>1
    <3>4. shown[o][d] <= 1 + crashes.notifier BY <3>1 DEF PopupOf
    <3>5. /\ shown[o][d] <= 1 + crashes'.notifier
          /\ shown[o][d] = 1 + crashes'.notifier => shown[o][d] = 1 + crashes.notifier
          /\ shown[o][d] <= crashes.notifier => shown[o][d] <= crashes'.notifier
      <4>1. PICK k \in Nat : k = shown[o][d] BY <3>2
      <4>2. PICK c \in Nat : c = crashes.notifier BY <3>2
      <4>3. PICK e \in Nat : e = crashes'.notifier BY <3>2
      <4>4. c <= e BY <4>2, <4>3
      <4>5. k <= 1 + c BY <3>4, <4>1, <4>2
      <4>6. k <= 1 + e /\ (k = 1 + e => k = 1 + c) /\ (k <= c => k <= e)
        BY <4>4, <4>5, MoreCrashes
      <4> QED BY <4>1, <4>2, <4>3, <4>6
    <3>6. shown'[o][d] <= 1 + crashes'.notifier BY <3>3, <3>5
    <3>7. d \in notifier'[o].list => shown'[o][d] <= crashes'.notifier
      BY <3>1, <3>3, <3>5 DEF PopupOf
    <3>8. shown'[o][d] = 1 + crashes'.notifier => Gone(d)' \/ notifier'[o].showing = d
      <4>1. shown[o][d] = 1 + crashes.notifier => Gone(d) \/ notifier[o].showing = d
        BY <3>1 DEF PopupOf
      <4> QED BY <1>2, <3>3, <3>5, <4>1
    <3>9. notifier'[o].showing = d => shown'[o][d] > 0 BY <3>1, <3>3 DEF PopupOf
    <3> QED BY <3>6, <3>7, <3>8, <3>9 DEF PopupOf
  <2> QED BY <2>1, <2>2
<1>4. ASSUME NEW d \in marked'
      PROVE  Gone(d)' /\ \E o \in Notifiers : Done(o, d)'
  <2>0. d \in Deliveries BY <1>4
  <2>1. CASE d \in marked
    <3>1. Gone(d)' BY <1>2, <2>0, <2>1 DEF PopupInv
    <3>2. PICK o \in Notifiers : Done(o, d) BY <2>1 DEF PopupInv
    <3>3. CASE o = n BY <2>0, <2>1, <3>1, <3>2, <3>3
    <3>4. CASE o # n BY <1>1, <3>1, <3>2, <3>4 DEF Done
    <3> QED BY <3>3, <3>4
  <2>2. CASE d \notin marked BY <1>4, <2>0, <2>2
  <2> QED BY <2>1, <2>2
<1> QED BY <1>3, <1>4 DEF PopupInv

\* How often a message may be listed or shown.
LEMMA PopupParts ==
  ASSUME PopupInv, NEW n \in Notifiers, NEW d \in Deliveries
  PROVE  /\ shown[n][d] \in Nat /\ crashes.notifier \in Nat /\ PopupOf(n, d)
         /\ d \in marked => Gone(d)
<1>1. shown[n] \in [Deliveries -> Nat] BY DEF PopupInv
<1>2. shown[n][d] \in Nat BY <1>1
<1> QED BY <1>2 DEF PopupInv

\* A step that shows nothing, and after which no notifier has died.
LEMMA QuietPopups ==
  ASSUME SystemInv, SystemInv', PopupInv, NEW n \in Notifiers, NEW s \in Session,
         notifier' = [notifier EXCEPT ![n] = s],
         UNCHANGED <<pending, cached, shown, crashes>>, marker \subseteq marker',
         \A d \in s.list : d \in notifier[n].list \/ shown[n][d] <= crashes.notifier,
         s.showing = notifier[n].showing \/ s.showing = NoDelivery,
         \A d \in Deliveries : d = notifier[n].showing /\ s.showing = NoDelivery => Gone(d)',
         \A d \in Deliveries : d \in marked => d \notin s.list \/ d \in notifier[n].list,
         \A d \in Deliveries : d \in marked' \ marked => Gone(d)' /\ Done(n, d)'
  PROVE  PopupInv'
<1>1. notifier'[n] = s /\ notifier[n] \in Session BY DEF SystemInv, DiskInv, SessionsTyped
<1>2. marked' \in SUBSET Deliveries BY DEF SystemInv, DiskInv, DiskTyped
<1>3. ASSUME NEW d \in Deliveries PROVE PopupOf(n, d)'
  <2>1. PopupOf(n, d) /\ d # NoDelivery BY PopupParts, NoDeliveryIsNone
  <2>2. Gone(d) => Gone(d)' BY DEF Gone
  <2>3. shown'[n][d] <= 1 + crashes'.notifier BY <2>1 DEF PopupOf
  <2>4. d \in s.list => shown'[n][d] <= crashes'.notifier BY <2>1 DEF PopupOf
  <2>5. shown'[n][d] = 1 + crashes'.notifier => Gone(d)' \/ s.showing = d
    <3>1. shown[n][d] = 1 + crashes.notifier => Gone(d) \/ notifier[n].showing = d
      BY <2>1 DEF PopupOf
    <3>2. notifier[n].showing = d /\ s.showing # d => Gone(d)' BY <2>1
    <3> QED BY <2>2, <3>1, <3>2
  <2>6. s.showing = d => shown'[n][d] > 0 BY <2>1 DEF PopupOf
  <2> QED BY <1>1, <2>3, <2>4, <2>5, <2>6 DEF PopupOf
<1>4. ASSUME NEW d \in Deliveries, d \in marked, Done(n, d) PROVE Done(n, d)'
  BY <1>1, <1>4, NoDeliveryIsNone DEF Done
<1>5. /\ shown' \in [Notifiers -> [Deliveries -> Nat]] /\ crashes' \in [agent : Nat, notifier : Nat]
      /\ \A o \in Notifiers \ {n} : shown'[o] = shown[o]
  BY DEF PopupInv
<1>6. crashes.notifier <= crashes'.notifier
  <2>1. crashes.notifier \in Nat BY DEF PopupInv
  <2> QED BY <2>1
<1> QED BY <1>2, <1>3, <1>4, <1>5, <1>6, PopupMoves

LEMMA NotifierKeepsPopups ==
  ASSUME SystemInv, SystemInv', PopupInv, NEW n \in Notifiers, NotifierStep(n)
  PROVE  PopupInv'
<1> DEFINE s == notifier[n]
           listing(l) == [s EXCEPT !.list = l]
<1>0. /\ notifier \in [Notifiers -> Session] /\ s \in Session /\ SessionTrue(s)
      /\ s.list \in SUBSET Deliveries /\ s.showing \in Deliveries \cup {NoDelivery}
  BY SessionsTrue DEF SystemInv, DiskInv, SessionsTyped, Session
<1>1. UNCHANGED <<pending, cached>>
  BY DEF NotifierStep, Poll, Popup, PopupFails, FindFile, MarkDisplayed, NotifierCrash, store
<1>2. Poll(n) \/ Popup(n) \/ PopupFails(n) \/ FindFile(n) \/ NotifierCrash(n) =>
        UNCHANGED <<marker, marked>>
  BY DEF Poll, Popup, PopupFails, FindFile, NotifierCrash, store
<1>3. Poll(n) \/ PopupFails(n) \/ FindFile(n) \/ MarkDisplayed(n) => UNCHANGED <<shown, crashes>>
  BY DEF Poll, PopupFails, FindFile, MarkDisplayed
<1>4. ASSUME NEW l \in SUBSET Deliveries
      PROVE  /\ listing(l) \in Session /\ listing(l).list = l
             /\ listing(l).showing = s.showing
  BY <1>0 DEF Session
<1>5. /\ Idle \in Session /\ Idle.list = {} /\ Idle.showing = NoDelivery
      /\ NoDelivery \notin Deliveries
  BY IdleIs, NoDeliveryIsNone
<1> HIDE DEF s, listing
<1>6. CASE Poll(n)
  <2>1. Store!Unmarked \in SUBSET Deliveries /\ s = Idle
        /\ notifier' = [notifier EXCEPT ![n] = listing(Store!Unmarked)]
    BY <1>6 DEF Poll, Store!Unmarked, s, listing
  <2>2. ASSUME NEW d \in Store!Unmarked PROVE ~Gone(d) BY DEF Store!Unmarked, Gone
  <2>3. ASSUME NEW d \in Store!Unmarked PROVE shown[n][d] <= crashes.notifier
    <3>1. d \in Deliveries BY <2>1
    <3>2. shown[n][d] <= 1 + crashes.notifier /\ shown[n][d] # 1 + crashes.notifier
      BY <1>5, <2>1, <2>2, <3>1, PopupParts DEF PopupOf, s
    <3>3. shown[n][d] \in Nat /\ crashes.notifier \in Nat BY <3>1, PopupParts
    <3> QED BY <3>2, <3>3
  <2>4. \A d \in Deliveries : d \in marked => d \notin Store!Unmarked BY <2>2, PopupParts
  <2>5. /\ listing(Store!Unmarked) \in Session /\ listing(Store!Unmarked).list = Store!Unmarked
        /\ listing(Store!Unmarked).showing = NoDelivery /\ notifier[n].showing = NoDelivery
    BY <1>4, <1>5, <2>1 DEF s
  <2> QED BY <1>1, <1>2, <1>3, <1>5, <1>6, <2>1, <2>3, <2>4, <2>5, QuietPopups
<1>7. CASE PopupFails(n)
  <2>1. PICK d \in s.list : notifier' = [notifier EXCEPT ![n] = listing(s.list \ {d})]
    BY <1>7 DEF PopupFails, s, listing
  <2>2. s.showing = NoDelivery BY <1>7 DEF PopupFails, s
  <2>3. /\ listing(s.list \ {d}) \in Session /\ listing(s.list \ {d}).list = s.list \ {d}
        /\ listing(s.list \ {d}).showing = NoDelivery
    BY <1>0, <1>4, <2>2
  <2> QED BY <1>1, <1>2, <1>3, <1>5, <1>7, <2>1, <2>2, <2>3, QuietPopups DEF s
<1>8. CASE FindFile(n)
  <2> DEFINE found == [s EXCEPT !.found = TRUE]
  <2>1. found \in Session /\ found.list = s.list /\ found.showing = s.showing
    BY <1>0 DEF Session
  <2>2. s.showing # NoDelivery BY <1>8 DEF FindFile, s
  <2>3. \/ notifier' = [notifier EXCEPT ![n] = found]
        \/ pending[s.showing] = 0 /\ notifier' = [notifier EXCEPT ![n] = Idle]
    BY <1>8 DEF FindFile, s
  <2> HIDE DEF found
  <2>4. CASE notifier' = [notifier EXCEPT ![n] = found]
    BY <1>1, <1>2, <1>3, <1>8, <2>1, <2>2, <2>4, QuietPopups DEF s
  <2>5. CASE pending[s.showing] = 0 /\ notifier' = [notifier EXCEPT ![n] = Idle]
    <3>1. \A d \in Deliveries : d = s.showing => Gone(d)'
      BY <1>0, <1>1, <2>5 DEF SessionTrue, Gone
    <3> QED BY <1>1, <1>2, <1>3, <1>5, <1>8, <2>5, <3>1, QuietPopups DEF s
  <2> QED BY <2>3, <2>4, <2>5
<1>9. CASE MarkDisplayed(n)
  <2> DEFINE next == [Idle EXCEPT !.list = s.list]
  <2>1. next \in Session /\ next.list = s.list /\ next.showing = NoDelivery
    BY <1>0, <1>5 DEF Session, Idle
  <2>2. /\ notifier' = [notifier EXCEPT ![n] = next] /\ s.found
        /\ marker' = marker \cup {s.showing} /\ marked' = marked \cup {s.showing}
    BY <1>9 DEF MarkDisplayed, s
  <2> HIDE DEF next
  <2>3. s.showing \in Deliveries BY <1>0, <2>2 DEF SessionTrue
  <2>4. \A d \in Deliveries : d = s.showing => Gone(d)'
    BY <1>0, <1>1, <2>2 DEF SessionTrue, Gone
  <2>5. \A d \in Deliveries : d = s.showing => Done(n, d)'
    <3>1. shown'[n][s.showing] > 0 BY <1>3, <1>9, <2>3, PopupParts DEF PopupOf, s
    <3>2. notifier'[n] = next BY <1>0, <2>2
    <3> QED BY <1>0, <1>5, <2>1, <3>1, <3>2 DEF SessionTrue, Done
  <2> QED BY <1>1, <1>3, <1>9, <2>1, <2>2, <2>4, <2>5, QuietPopups DEF s
<1>10. CASE Popup(n)
  <2>1. PICK d \in s.list :
          /\ notifier' = [notifier EXCEPT ![n] = [Idle EXCEPT !.list = s.list \ {d}, !.showing = d]]
          /\ shown' = [shown EXCEPT ![n][d] = @ + 1] /\ crashes' = crashes
    BY <1>10 DEF Popup, s
  <2> DEFINE rest == [Idle EXCEPT !.list = s.list \ {d}]
             next == [rest EXCEPT !.showing = d]
  <2>2. rest \in Session /\ rest.list = s.list \ {d} BY <1>0, <1>5 DEF Session, Idle
  <2>3. notifier' = [notifier EXCEPT ![n] = next] BY <2>1
  <2> HIDE DEF rest
  <2>4. d \in Deliveries /\ s.showing = NoDelivery BY <1>0, <1>10 DEF Popup, s
  <2>5. next \in Session /\ next.list = s.list \ {d} /\ next.showing = d
    BY <2>2, <2>4 DEF Session
  <2> HIDE DEF next
  <2>6. notifier'[n] = next BY <1>0, <2>3
  <2>7. /\ shown' \in [Notifiers -> [Deliveries -> Nat]]
        /\ \A o \in Notifiers \ {n} : shown'[o] = shown[o]
        /\ shown'[n][d] = shown[n][d] + 1
        /\ \A e \in Deliveries \ {d} : shown'[n][e] = shown[n][e]
    <3>1. shown \in [Notifiers -> [Deliveries -> Nat]] /\ shown[n][d] \in Nat
      BY <2>4, PopupParts DEF PopupInv
    <3>2. shown' = [shown EXCEPT ![n] = [shown[n] EXCEPT ![d] = shown[n][d] + 1]] BY <2>1
    <3>3. shown[n][d] + 1 \in Nat BY <3>1
    <3> QED BY <2>4, <3>1, <3>2, <3>3
  <2>8. ASSUME NEW e \in Deliveries PROVE PopupOf(n, e)'
    <3>1. PICK k \in Nat, c \in Nat : k = shown[n][e] /\ c = crashes.notifier BY PopupParts
    <3>2. crashes'.notifier = c BY <2>1, <3>1
    <3>3. CASE e = d
      <4>1. shown'[n][e] = k + 1 BY <2>7, <3>1, <3>3
      <4>2. k <= c BY <2>4, <3>1, <3>3, PopupParts DEF PopupOf, s
      <4>3. k + 1 <= 1 + c /\ k + 1 > 0 BY <4>2
      <4>4. e \notin notifier'[n].list /\ notifier'[n].showing = e BY <2>5, <2>6, <3>3
      <4> QED BY <3>2, <4>1, <4>3, <4>4 DEF PopupOf
    <3>4. CASE e # d
      <4>1. shown'[n][e] = k BY <2>7, <3>1, <3>4
      <4>2. /\ k <= 1 + c /\ (e \in s.list => k <= c)
            /\ (k = 1 + c => Gone(e))
        BY <1>5, <2>4, <3>1, PopupParts DEF PopupOf, s
      <4>3. Gone(e) => Gone(e)' BY <1>1, <1>2, <1>10 DEF Gone
      <4>4. (e \in notifier'[n].list => e \in s.list) /\ notifier'[n].showing # e
        BY <2>5, <2>6, <3>4
      <4> QED BY <3>2, <4>1, <4>2, <4>3, <4>4 DEF PopupOf
    <3> QED BY <3>3, <3>4
  <2>9. ASSUME NEW e \in Deliveries, e \in marked, Done(n, e) PROVE Done(n, e)'
    <3>1. e # d BY <2>9 DEF Done, s
    <3> QED BY <2>5, <2>6, <2>7, <2>9, <3>1 DEF Done, s
  <2>10. marked' = marked /\ marker' = marker /\ marked' \in SUBSET Deliveries
    BY <1>2, <1>10 DEF SystemInv, DiskInv, DiskTyped
  <2>11. crashes.notifier <= crashes'.notifier /\ crashes' \in [agent : Nat, notifier : Nat]
    <3>1. crashes.notifier \in Nat BY <2>4, PopupParts
    <3> QED BY <2>1, <3>1 DEF PopupInv
  <2> QED BY <1>1, <2>3, <2>5, <2>7, <2>8, <2>9, <2>10, <2>11, PopupMoves
<1>11. CASE NotifierCrash(n)
  <2>1. notifier' = [notifier EXCEPT ![n] = Idle] /\ shown' = shown
        /\ crashes' = [crashes EXCEPT !.notifier = @ + 1]
    BY <1>11 DEF NotifierCrash
  <2>2. PICK c \in Nat : c = crashes.notifier BY DEF PopupInv
  <2>3. crashes' \in [agent : Nat, notifier : Nat] /\ crashes'.notifier = c + 1
    BY <2>1, <2>2 DEF PopupInv
  <2>4. notifier'[n] = Idle BY <1>0, <2>1
  <2>5. ASSUME NEW e \in Deliveries PROVE PopupOf(n, e)'
    <3>1. PICK k \in Nat : k = shown[n][e] /\ shown'[n][e] = k BY <2>1, PopupParts
    <3>2. k <= 1 + c BY <2>2, <3>1, PopupParts DEF PopupOf
    <3>3. k <= 1 + (c + 1) /\ k # 1 + (c + 1) BY <3>2
    <3>4. e \notin notifier'[n].list /\ notifier'[n].showing # e BY <1>5, <2>4
    <3> QED BY <2>3, <3>1, <3>3, <3>4 DEF PopupOf
  <2>6. ASSUME NEW e \in Deliveries, e \in marked, Done(n, e) PROVE Done(n, e)'
    BY <1>5, <2>1, <2>4, <2>6 DEF Done
  <2>7. marked' = marked /\ marker' = marker /\ marked' \in SUBSET Deliveries
    BY <1>2, <1>11 DEF SystemInv, DiskInv, DiskTyped
  <2>8. crashes.notifier <= crashes'.notifier BY <2>2, <2>3
  <2>9. shown' \in [Notifiers -> [Deliveries -> Nat]] BY <2>1 DEF PopupInv
  <2> QED BY <1>1, <1>5, <2>1, <2>3, <2>5, <2>6, <2>7, <2>8, <2>9, PopupMoves
<1> QED BY <1>6, <1>7, <1>8, <1>9, <1>10, <1>11 DEF NotifierStep

-----------------------------------------------------------------------------
(* Popups and files.                                                       *)

LEMMA PopupInitially == SystemInit => PopupInv
<1> SUFFICES ASSUME SystemInit PROVE PopupInv
  OBVIOUS
<1>1. /\ shown = [n \in Notifiers |-> [d \in Deliveries |-> 0]] /\ marked = {}
      /\ crashes = [agent |-> 0, notifier |-> 0] /\ notifier = [n \in Notifiers |-> Idle]
  BY DEF SystemInit
<1>2. ASSUME NEW n \in Notifiers, NEW d \in Deliveries PROVE PopupOf(n, d)
  <2>1. notifier[n].list = {} /\ notifier[n].showing # d BY <1>1, IdleIs, NoDeliveryIsNone
  <2> QED BY <1>1, <2>1 DEF PopupOf
<1> QED BY <1>1, <1>2 DEF PopupInv

LEMMA PopupSteps ==
  ~FileErrors => (SystemInv /\ SystemInv' /\ PopupInv /\ [SystemNext]_sysvars => PopupInv')
<1>1. Horizon => UNCHANGED sysvars BY DEF Horizon
<1> QED BY <1>1, OthersKeepPopups, NotifierKeepsPopups DEF SystemNext

LEMMA PopupInvariant == ~FileErrors => (SystemSpec => []PopupInv)
<1> SUFFICES ASSUME ~FileErrors PROVE SystemSpec => []PopupInv
  OBVIOUS
<1>1. SystemInv /\ SystemInv' /\ PopupInv /\ [SystemNext]_sysvars => PopupInv' BY PopupSteps
<1> QED BY <1>1, PopupInitially, SystemInvariant, PTL DEF SystemSpec

LEMMA PopupInvImplies == SystemInv /\ PopupInv => ShownOnce /\ FileGoneToAnother
<1> SUFFICES ASSUME SystemInv, PopupInv, NEW n \in Notifiers
             PROVE  /\ \A d \in Deliveries : shown[n][d] <= 1 + crashes.notifier
                    /\ notifier[n].showing # NoDelivery /\ pending[notifier[n].showing] = 0 =>
                         /\ notifier[n].showing \in cached
                         /\ \E o \in Notifiers \ {n} : shown[o][notifier[n].showing] > 0
  BY DEF ShownOnce, FileGoneToAnother
<1>1. \A d \in Deliveries : shown[n][d] <= 1 + crashes.notifier BY PopupParts DEF PopupOf
<1>2. ASSUME notifier[n].showing # NoDelivery, pending[notifier[n].showing] = 0
      PROVE  /\ notifier[n].showing \in cached
             /\ \E o \in Notifiers \ {n} : shown[o][notifier[n].showing] > 0
  <2>1. notifier[n].showing \in Deliveries BY <1>2 DEF SystemInv, DiskInv, SessionsTyped, Session
  <2>2. notifier[n].showing \in cached BY <1>2, <2>1 DEF SystemInv, DiskInv, Staged
  <2>3. notifier[n].showing \in marked BY <2>2 DEF SystemInv, DiskInv, Seen
  <2>4. PICK o \in Notifiers : Done(o, notifier[n].showing) BY <2>3 DEF PopupInv
  <2>5. o # n BY <2>4 DEF Done
  <2> QED BY <2>2, <2>4, <2>5 DEF Done
<1> QED BY <1>1, <1>2

\* Unless unlinks fail, a session shows a message once and once more for every notifier
\* that died between the popup and its marker.
THEOREM PopupSafety == ~FileErrors => (SystemSpec => []ShownOnce)
  BY SystemInvariant, PopupInvariant, PopupInvImplies, PTL

\* Unless unlinks fail, a notifier that misses the file of what it shows lost it to another
\* session that has shown it too, with the receipt in the queue.
THEOREM FileSafety == ~FileErrors => (SystemSpec => []FileGoneToAnother)
  BY SystemInvariant, PopupInvariant, PopupInvImplies, PTL
=============================================================================
