------------------------ MODULE MessageDeliveryProofs ------------------------
(***************************************************************************)
(* TLAPS proofs about MessageDelivery, for every value of its constants.   *)
(***************************************************************************)
EXTENDS MessageDelivery, FiniteSetTheorems, TLAPS

-----------------------------------------------------------------------------
(* Operators of the model.                                                 *)

\* A delivery and its parts have their types.
LEMMA DeliveryParts ==
  ASSUME TypeOK, NEW d \in Deliveries
  PROVE  /\ d[1] \in Messages /\ d[2] \in Clients
         /\ delivery[d] \in DeliveryRow
         /\ MessageOf(d) \in MessageRow
         /\ receipts[d] \subseteq ReceiptIds
         /\ events[d] \in Seq(RowStates \X RowStates)
  BY DEF TypeOK, Deliveries, MessageOf

\* Anchors are past or present times.
LEMMA AnchorTypes ==
  ASSUME TypeOK, NEW t \in Anchors
  PROVE  t \in Nat /\ t <= now /\ now <= t + AnchorLag
  BY ConstantsAssumption DEF TypeOK, Anchors

\* The names of states that the operations write.
LEMMA StateNames ==
  {"NONE", "QUEUED", "DISPATCHED", "ACKNOWLEDGED", "FAILED", "EXPIRED"} = RowStates
  BY DEF RowStates, States

\* The updates the operations make to a row keep its type.
LEMMA RowUpdates ==
  ASSUME NEW row \in DeliveryRow, NEW s \in RowStates, NEW n \in Nat
  PROVE  /\ Closed(row, s) \in DeliveryRow
         /\ [row EXCEPT !.nextAttempt = n] \in DeliveryRow
         /\ [row EXCEPT !.state = s, !.nextAttempt = n] \in DeliveryRow
         /\ LeasedRow(row, n) \in DeliveryRow
<1>1. NoToken \in Nat /\ NoLease \in Nat
  BY DEF NoToken, NoLease
<1>2. Closed(row, s) \in DeliveryRow
  BY <1>1 DEF Closed, DeliveryRow
<1>3. LeasedRow(row, n) \in DeliveryRow
  <2>1. row.attempts + 1 \in Nat /\ n + LeaseSeconds \in Nat
    BY ConstantsAssumption DEF DeliveryRow
  <2>2. "DISPATCHED" \in RowStates
    BY StateNames
  <2>3. QED
    BY <2>1, <2>2 DEF LeasedRow, DeliveryRow
<1>4. QED
  BY <1>2, <1>3 DEF DeliveryRow

\* A row that does not exist yet has the type of a row.
LEMMA NoRowType == NoRow \in DeliveryRow
  BY StateNames DEF NoRow, DeliveryRow, NoLease, NoToken

\* What the sweep can do to one row, and when.
LEMMA SweepCases ==
  ASSUME TypeOK, NEW d \in Deliveries, NEW t \in Nat
  PROVE  \/ SweptRow(d, t) = delivery[d]
         \/ /\ delivery[d].state \in Open
            /\ MessageOf(d).expires <= t
            /\ SweptRow(d, t) = Closed(delivery[d], "EXPIRED")
         \/ /\ delivery[d].state = "DISPATCHED"
            /\ delivery[d].lease <= t
            /\ SweptRow(d, t) =
                 [Closed(delivery[d], ReleasedState(d)) EXCEPT !.nextAttempt = t]
  BY DEF SweptRow, TtlOver, LeaseOver

\* The sweep keeps the types of a row and of its events.
LEMMA SweepTypes ==
  ASSUME TypeOK, NEW d \in Deliveries, NEW t \in Nat
  PROVE  /\ SweptRow(d, t) \in DeliveryRow
         /\ SweptEvents(d, t) \in Seq(RowStates \X RowStates)
<1>1. SweptRow(d, t) \in DeliveryRow
  <2>1. ReleasedState(d) \in RowStates /\ "EXPIRED" \in RowStates
    BY StateNames DEF ReleasedState
  <2>2. /\ Closed(delivery[d], "EXPIRED") \in DeliveryRow
        /\ Closed(delivery[d], ReleasedState(d)) \in DeliveryRow
    BY <2>1, DeliveryParts, RowUpdates
  <2>3. [Closed(delivery[d], ReleasedState(d)) EXCEPT !.nextAttempt = t] \in DeliveryRow
    BY <2>1, <2>2, RowUpdates
  <2>4. QED
    BY <2>2, <2>3, SweepCases, DeliveryParts
<1>2. <<delivery[d].state, SweptRow(d, t).state>> \in RowStates \X RowStates
  BY <1>1, DeliveryParts DEF DeliveryRow
<1>3. QED
  BY <1>1, <1>2, DeliveryParts DEF SweptEvents

\* The rows of a batch are the client's, due, and within their budget.
LEMMA BatchRows ==
  ASSUME NEW c \in Clients, NEW t \in Nat, NEW batch \in Batches(c, t),
         NEW d \in batch
  PROVE  /\ d \in Deliveries
         /\ ClientOf(d) = c
         /\ SweptRow(d, t).state \in {"QUEUED", "FAILED"}
         /\ SweptRow(d, t).nextAttempt <= t
         /\ MessageOf(d).notBefore <= t
         /\ MessageOf(d).expires > t
         /\ delivery[d].attempts < MessageOf(d).maxAttempts
  BY DEF Batches, Due

-----------------------------------------------------------------------------
(* Type correctness.                                                       *)

\* The initial state has the right types.
LEMMA InitTypes == Init => TypeOK
  BY ConstantsAssumption
     DEF Init, TypeOK, NoMessage, MessageRow, NoRow, DeliveryRow, RowStates,
         States, NoLease, NoToken

\* Every step keeps the types.
LEMMA NextTypes == TypeOK /\ [Next]_vars => TypeOK'
<1> SUFFICES ASSUME TypeOK, [Next]_vars PROVE TypeOK'
  OBVIOUS
<1>1. CASE Tick
  BY <1>1 DEF Tick, TypeOK
<1>2. ASSUME NEW m \in Messages, NEW targets \in SUBSET Clients, NEW t \in Anchors,
             NEW delay \in Delays, NEW ttl \in Ttls, NEW limit \in AttemptLimits,
             QueueMessage(m, targets, t, delay, ttl, limit)
      PROVE  TypeOK'
  <2>1. t \in Nat /\ delay \in Nat /\ ttl \in Nat /\ limit \in Nat
    BY ConstantsAssumption, AnchorTypes
  <2>2. message' \in [Messages -> MessageRow]
    BY <1>2, <2>1 DEF QueueMessage, TypeOK, MessageRow
  <2>3. delivery' \in [Deliveries -> DeliveryRow]
    <3>1. [NoRow EXCEPT !.state = "QUEUED", !.nextAttempt = t + delay] \in DeliveryRow
      <4>1. t + delay \in Nat /\ "QUEUED" \in RowStates
        BY <2>1, StateNames
      <4>2. QED
        BY <4>1, NoRowType, RowUpdates
    <3>2. QED
      BY <1>2, <3>1 DEF QueueMessage, TypeOK
  <2>4. <<"NONE", "QUEUED">> \in RowStates \X RowStates
    BY DEF RowStates, States
  <2>5. events' \in [Deliveries -> Seq(RowStates \X RowStates)]
    BY <1>2, <2>4, DeliveryParts DEF QueueMessage
  <2>6. QED
    BY <1>2, <2>2, <2>3, <2>5 DEF QueueMessage, TypeOK
<1>3. ASSUME NEW c \in Clients, NEW t \in Anchors, NEW batch \in Batches(c, t),
             Claim(c, t, batch)
      PROVE  TypeOK'
  <2>1. t \in Nat
    BY AnchorTypes
  <2>2. \A d \in Deliveries : ClaimedRow(d, c, t, batch) \in DeliveryRow
    <3> TAKE d \in Deliveries
    <3>1. SweptRow(d, t) \in DeliveryRow /\ delivery[d] \in DeliveryRow
      BY <2>1, SweepTypes, DeliveryParts
    <3>2. LeasedRow(SweptRow(d, t), t) \in DeliveryRow
      BY <2>1, <3>1, RowUpdates, StateNames
    <3>3. QED
      BY <3>1, <3>2 DEF ClaimedRow
  <2>3. \A d \in Deliveries : ClaimedEvents(d, c, t, batch) \in Seq(RowStates \X RowStates)
    <3> TAKE d \in Deliveries
    <3>1. /\ SweptEvents(d, t) \in Seq(RowStates \X RowStates)
          /\ events[d] \in Seq(RowStates \X RowStates)
      BY <2>1, SweepTypes, DeliveryParts
    <3>2. <<SweptRow(d, t).state, "DISPATCHED">> \in RowStates \X RowStates
      BY <2>1, SweepTypes DEF DeliveryRow, RowStates, States
    <3>3. QED
      BY <3>1, <3>2 DEF ClaimedEvents
  <2>4. QED
    BY <1>3, <2>2, <2>3 DEF Claim, TypeOK
<1>4. ASSUME NEW c \in Clients, NEW d \in Deliveries, NEW t \in Anchors,
             NEW receipt \in ReceiptIds, NEW token \in Tokens(d),
             Acknowledge(c, d, token, receipt, t)
      PROVE  TypeOK'
  <2>1. Closed(delivery[d], "ACKNOWLEDGED") \in DeliveryRow
    BY DeliveryParts, RowUpdates, StateNames
  <2>2. Append(events[d], <<"DISPATCHED", "ACKNOWLEDGED">>) \in Seq(RowStates \X RowStates)
    BY DeliveryParts DEF RowStates, States
  <2>3. QED
    BY <1>4, <2>1, <2>2 DEF Acknowledge, TypeOK
<1>5. ASSUME NEW c \in Clients, NEW d \in Deliveries, NEW t \in Anchors,
             NEW retry \in Retries, NEW token \in Tokens(d),
             RecordFailure(c, d, token, retry, t)
      PROVE  TypeOK'
  <2>1. t \in Nat /\ retry \in Nat
    BY AnchorTypes, ConstantsAssumption
  <2>2. [Closed(delivery[d], "FAILED") EXCEPT !.nextAttempt = t + retry] \in DeliveryRow
    <3>1. Closed(delivery[d], "FAILED") \in DeliveryRow
      BY DeliveryParts, RowUpdates, StateNames
    <3>2. t + retry \in Nat
      BY <2>1
    <3>3. QED
      BY <3>1, <3>2, RowUpdates, StateNames
  <2>3. Append(events[d], <<"DISPATCHED", "FAILED">>) \in Seq(RowStates \X RowStates)
    BY DeliveryParts DEF RowStates, States
  <2>4. QED
    BY <1>5, <2>2, <2>3 DEF RecordFailure, TypeOK
<1>6. ASSUME NEW t \in Anchors, ExpireDue(t)
      PROVE  TypeOK'
  BY <1>6, AnchorTypes, SweepTypes DEF ExpireDue, TypeOK
<1>7. CASE UNCHANGED vars
  BY <1>7 DEF vars, TypeOK
<1>8. QED
  BY <1>1, <1>2, <1>3, <1>4, <1>5, <1>6, <1>7 DEF Next, ClaimSome

\* Every reachable state has the right types.
THEOREM TypeCorrect == Spec => []TypeOK
<1>1. QED
  BY InitTypes, NextTypes, PTL DEF Spec

-----------------------------------------------------------------------------
(* The inductive invariant: every row, with the attempt limit of its       *)
(* message and the receipts stored for it, is safe.  It adds to the three  *)
(* invariants of MessageDelivery that a row which does not exist is blank  *)
(* and that rows only exist for queued messages: queue_message inserts a   *)
(* QUEUED row without looking at receipts, and that is safe only for a     *)
(* delivery nothing is known of yet.                                       *)

RowSafe(row, limit, stored) ==
  /\ row.state = "DISPATCHED" <=> row.token # NoToken
  /\ row.state = "DISPATCHED" <=> row.lease # NoLease
  /\ row.token \in {NoToken, row.attempts}
  /\ row.state = "ACKNOWLEDGED" <=> stored # {}
  /\ \A r1, r2 \in stored : r1 = r2
  /\ row.attempts <= limit
  /\ row.state = "NONE" => row = NoRow
  /\ limit = 0 => row.state = "NONE"

SafeRow(d) == RowSafe(delivery[d], MessageOf(d).maxAttempts, receipts[d])

SafeInv == TypeOK /\ \A d \in Deliveries : SafeRow(d)

\* The inductive invariant gives the invariants that the runs check.
LEMMA SafeInvImplies ==
  SafeInv => LeaseConsistent /\ AcknowledgedOnce /\ WithinBudget
  BY DEF SafeInv, SafeRow, RowSafe, LeaseConsistent, AcknowledgedOnce, WithinBudget

\* A row may be closed into any state but DISPATCHED, ACKNOWLEDGED and NONE.
LEMMA CloseSafe ==
  ASSUME NEW row \in DeliveryRow, NEW limit, NEW stored, RowSafe(row, limit, stored),
         row.state \in Open,
         NEW s \in {"QUEUED", "FAILED", "EXPIRED"}, NEW n \in Nat
  PROVE  /\ RowSafe(Closed(row, s), limit, stored)
         /\ RowSafe([Closed(row, s) EXCEPT !.nextAttempt = n], limit, stored)
<1>1. /\ Closed(row, s).state = s
      /\ Closed(row, s).attempts = row.attempts
      /\ Closed(row, s).lease = NoLease
      /\ Closed(row, s).token = NoToken
  BY DEF Closed, DeliveryRow
<1>2. /\ [Closed(row, s) EXCEPT !.nextAttempt = n].state = s
      /\ [Closed(row, s) EXCEPT !.nextAttempt = n].attempts = row.attempts
      /\ [Closed(row, s) EXCEPT !.nextAttempt = n].lease = NoLease
      /\ [Closed(row, s) EXCEPT !.nextAttempt = n].token = NoToken
  BY DEF Closed, DeliveryRow
<1>3. /\ row.attempts <= limit
      /\ limit # 0
      /\ stored = {}
  BY DEF RowSafe, Open
<1>4. RowSafe(Closed(row, s), limit, stored)
  BY <1>1, <1>3 DEF RowSafe
<1>5. RowSafe([Closed(row, s) EXCEPT !.nextAttempt = n], limit, stored)
  BY <1>2, <1>3 DEF RowSafe
<1>6. QED
  BY <1>4, <1>5

\* The sweep keeps a row safe.
LEMMA SweepSafe ==
  ASSUME TypeOK, NEW d \in Deliveries, NEW t \in Nat, SafeRow(d)
  PROVE  RowSafe(SweptRow(d, t), MessageOf(d).maxAttempts, receipts[d])
<1>1. ReleasedState(d) \in {"QUEUED", "FAILED"}
  BY DEF ReleasedState
<1>2. delivery[d].state = "DISPATCHED" => delivery[d].state \in Open
  BY DEF Open
<1>3. delivery[d] \in DeliveryRow
  BY DeliveryParts
<1>4. ASSUME delivery[d].state \in Open
      PROVE  /\ RowSafe(Closed(delivery[d], "EXPIRED"),
                        MessageOf(d).maxAttempts, receipts[d])
             /\ RowSafe([Closed(delivery[d], ReleasedState(d)) EXCEPT !.nextAttempt = t],
                        MessageOf(d).maxAttempts, receipts[d])
  BY <1>1, <1>3, <1>4, CloseSafe DEF SafeRow
<1>5. QED
  BY <1>2, <1>4, SweepCases DEF SafeRow

\* Leasing a due row within its budget keeps it safe.
LEMMA LeaseSafe ==
  ASSUME NEW row \in DeliveryRow, NEW limit \in Nat, NEW stored,
         RowSafe(row, limit, stored), NEW t \in Nat,
         row.state \in {"QUEUED", "FAILED"}, row.attempts < limit
  PROVE  RowSafe(LeasedRow(row, t), limit, stored)
<1>1. /\ LeasedRow(row, t).state = "DISPATCHED"
      /\ LeasedRow(row, t).attempts = row.attempts + 1
      /\ LeasedRow(row, t).lease = t + LeaseSeconds
      /\ LeasedRow(row, t).token = row.attempts + 1
  BY DEF LeasedRow, DeliveryRow
<1>2. row.attempts \in Nat /\ t + LeaseSeconds \in Nat \ {0}
  BY ConstantsAssumption DEF DeliveryRow
<1>3. QED
  BY <1>1, <1>2 DEF RowSafe, NoToken, NoLease

\* The sweep does not count attempts.
LEMMA SweepAttempts ==
  ASSUME TypeOK, NEW d \in Deliveries, NEW t \in Nat
  PROVE  SweptRow(d, t).attempts = delivery[d].attempts
<1>1. delivery[d] \in DeliveryRow
  BY DeliveryParts
<1>2. /\ Closed(delivery[d], "EXPIRED").attempts = delivery[d].attempts
      /\ [Closed(delivery[d], ReleasedState(d)) EXCEPT !.nextAttempt = t].attempts
           = delivery[d].attempts
  BY <1>1 DEF Closed, DeliveryRow
<1>3. QED
  BY <1>2, SweepCases

\* No row exists at first.
LEMMA InitSafe == Init => SafeInv
<1> SUFFICES ASSUME Init, NEW d \in Deliveries PROVE SafeRow(d)
  BY InitTypes DEF SafeInv
<1>1. delivery[d] = NoRow /\ receipts[d] = {} /\ MessageOf(d).maxAttempts = 0
  BY DEF Init, Deliveries, MessageOf, NoMessage
<1>2. QED
  BY <1>1 DEF SafeRow, RowSafe, NoRow, NoToken, NoLease

\* Every step keeps every row safe.
LEMMA NextSafe == SafeInv /\ [Next]_vars => SafeInv'
<1> SUFFICES ASSUME SafeInv, [Next]_vars, NEW d \in Deliveries PROVE SafeRow(d)'
  BY NextTypes DEF SafeInv
<1>0. TypeOK /\ SafeRow(d) /\ delivery[d] \in DeliveryRow /\ d[1] \in Messages
      /\ MessageOf(d) \in MessageRow
  BY DeliveryParts DEF SafeInv
<1>1. CASE Tick
  BY <1>0, <1>1 DEF Tick, SafeRow, MessageOf
<1>2. ASSUME NEW m \in Messages, NEW targets \in SUBSET Clients, NEW t \in Anchors,
             NEW delay \in Delays, NEW ttl \in Ttls, NEW limit \in AttemptLimits,
             QueueMessage(m, targets, t, delay, ttl, limit)
      PROVE  SafeRow(d)'
  <2>0. t \in Nat /\ delay \in Nat /\ limit \in Nat \ {0}
    BY <1>0, ConstantsAssumption, AnchorTypes
  <2>1. CASE d[1] # m
    BY <1>0, <1>2, <2>1 DEF QueueMessage, SafeRow, MessageOf, TypeOK
  <2>2. CASE d[1] = m
    <3>1. MessageOf(d).maxAttempts = 0
      BY <1>2, <2>2 DEF QueueMessage, Queued, MessageOf
    <3>2. delivery[d] = NoRow /\ receipts[d] = {}
      BY <1>0, <3>1 DEF SafeRow, RowSafe
    <3>3. MessageOf(d)'.maxAttempts = limit /\ receipts'[d] = {}
      BY <1>0, <1>2, <2>2, <3>2 DEF QueueMessage, MessageOf, TypeOK
    <3>4. delivery'[d] \in {NoRow, [NoRow EXCEPT !.state = "QUEUED", !.nextAttempt = t + delay]}
      BY <1>2, <3>2 DEF QueueMessage
    <3>5. CASE delivery'[d] = NoRow
      BY <2>0, <3>3, <3>5 DEF SafeRow, RowSafe, NoRow, NoToken, NoLease
    <3>6. CASE delivery'[d] = [NoRow EXCEPT !.state = "QUEUED", !.nextAttempt = t + delay]
      <4>1. /\ delivery'[d].state = "QUEUED" /\ delivery'[d].attempts = 0
            /\ delivery'[d].lease = NoLease /\ delivery'[d].token = NoToken
        BY <3>6 DEF NoRow
      <4>2. QED
        BY <2>0, <3>3, <4>1 DEF SafeRow, RowSafe
    <3>7. QED
      BY <3>4, <3>5, <3>6
  <2>3. QED
    BY <2>1, <2>2
<1>3. ASSUME NEW c \in Clients, NEW t \in Anchors, NEW batch \in Batches(c, t),
             Claim(c, t, batch)
      PROVE  SafeRow(d)'
  <2>0. t \in Nat
    BY <1>0, AnchorTypes
  <2>1. /\ delivery'[d] = ClaimedRow(d, c, t, batch)
        /\ MessageOf(d)' = MessageOf(d) /\ receipts'[d] = receipts[d]
    BY <1>3 DEF Claim, MessageOf
  <2>2. /\ RowSafe(SweptRow(d, t), MessageOf(d).maxAttempts, receipts[d])
        /\ SweptRow(d, t) \in DeliveryRow
    BY <1>0, <2>0, SweepSafe, SweepTypes
  <2>3. CASE d \in batch
    <3>1. SweptRow(d, t).state \in {"QUEUED", "FAILED"}
      BY <2>0, <2>3, BatchRows
    <3>2. SweptRow(d, t).attempts < MessageOf(d).maxAttempts
      BY <1>0, <2>0, <2>3, BatchRows, SweepAttempts
    <3>3. MessageOf(d).maxAttempts \in Nat
      BY <1>0 DEF MessageRow
    <3>4. QED
      BY <2>0, <2>1, <2>2, <2>3, <3>1, <3>2, <3>3, LeaseSafe DEF ClaimedRow, SafeRow
  <2>4. CASE d \notin batch
    BY <1>0, <2>1, <2>2, <2>4 DEF ClaimedRow, SafeRow
  <2>5. QED
    BY <2>3, <2>4
<1>4. ASSUME NEW c \in Clients, NEW e \in Deliveries, NEW t \in Anchors,
             NEW receipt \in ReceiptIds, NEW token \in Tokens(e),
             Acknowledge(c, e, token, receipt, t)
      PROVE  SafeRow(d)'
  <2>1. CASE d # e
    BY <1>0, <1>4, <2>1 DEF Acknowledge, SafeRow, MessageOf, TypeOK
  <2>2. CASE d = e
    <3>1. delivery[d].state = "DISPATCHED"
      BY <1>4, <2>2 DEF Acknowledge, AckOutcome
    <3>2. receipts[d] = {} /\ receipts'[d] = {receipt}
      BY <1>0, <1>4, <2>2, <3>1 DEF Acknowledge, TypeOK, SafeRow, RowSafe
    <3>3. delivery'[d] =
            [state |-> "ACKNOWLEDGED", attempts |-> delivery[d].attempts,
             nextAttempt |-> delivery[d].nextAttempt, lease |-> NoLease, token |-> NoToken]
      BY <1>0, <1>4, <2>2 DEF Acknowledge, Closed, DeliveryRow, TypeOK
    <3>4. MessageOf(d)' = MessageOf(d)
      BY <1>4 DEF Acknowledge, MessageOf
    <3>5. QED
      BY <1>0, <3>1, <3>2, <3>3, <3>4 DEF SafeRow, RowSafe, NoRow
  <2>3. QED
    BY <2>1, <2>2
<1>5. ASSUME NEW c \in Clients, NEW e \in Deliveries, NEW t \in Anchors,
             NEW retry \in Retries, NEW token \in Tokens(e),
             RecordFailure(c, e, token, retry, t)
      PROVE  SafeRow(d)'
  <2>0. t + retry \in Nat
    BY <1>0, AnchorTypes, ConstantsAssumption
  <2>1. CASE d # e
    BY <1>0, <1>5, <2>1 DEF RecordFailure, SafeRow, MessageOf, TypeOK
  <2>2. CASE d = e
    <3>1. delivery'[d] = [Closed(delivery[d], "FAILED") EXCEPT !.nextAttempt = t + retry]
      BY <1>0, <1>5, <2>2 DEF RecordFailure, TypeOK
    <3>2. delivery[d].state \in Open
      BY <1>5, <2>2 DEF RecordFailure, Open
    <3>3. RowSafe(delivery'[d], MessageOf(d).maxAttempts, receipts[d])
      BY <1>0, <2>0, <3>1, <3>2, CloseSafe DEF SafeRow
    <3>4. QED
      BY <1>5, <3>3 DEF RecordFailure, SafeRow, MessageOf
  <2>3. QED
    BY <2>1, <2>2
<1>6. ASSUME NEW t \in Anchors, ExpireDue(t)
      PROVE  SafeRow(d)'
  <2>1. t \in Nat
    BY <1>0, AnchorTypes
  <2>2. delivery'[d] = SweptRow(d, t) /\ MessageOf(d)' = MessageOf(d)
        /\ receipts'[d] = receipts[d]
    BY <1>6 DEF ExpireDue, MessageOf
  <2>3. QED
    BY <1>0, <2>1, <2>2, SweepSafe DEF SafeRow
<1>7. CASE UNCHANGED vars
  BY <1>0, <1>7 DEF vars, SafeRow, MessageOf
<1>8. QED
  BY <1>1, <1>2, <1>3, <1>4, <1>5, <1>6, <1>7 DEF Next, ClaimSome

\* Every reachable state satisfies the inductive invariant.
LEMMA SafeInvariant == Spec => []SafeInv
  BY InitSafe, NextSafe, PTL DEF Spec

\* Tokens live exactly as long as their lease, a delivery is acknowledged once
\* with one receipt, and no delivery exceeds its attempt limit.
THEOREM DeliverySafety == Spec => [](LeaseConsistent /\ AcknowledgedOnce /\ WithinBudget)
  BY SafeInvariant, SafeInvImplies, PTL

-----------------------------------------------------------------------------
(* Action properties.                                                      *)

\* What an operation does to one row, seen from the row: the four things that
\* can happen besides nothing.
Created(d) ==
  /\ delivery[d] = NoRow /\ MessageOf(d).maxAttempts = 0
  /\ delivery'[d].state = "QUEUED" /\ delivery'[d].attempts = 0
  /\ delivery'[d].token = NoToken
  /\ MessageOf(d)'.maxAttempts > 0

\* A message was queued, but not for this client.
NotAddressed(d) == delivery[d] = NoRow /\ delivery'[d] = NoRow

LimitKept(d) == MessageOf(d)'.maxAttempts = MessageOf(d).maxAttempts

HandedOut(d) == \E t \in Anchors :
  /\ SweptRow(d, t).state \in {"QUEUED", "FAILED"}
  /\ SweptRow(d, t).nextAttempt <= t
  /\ MessageOf(d).notBefore <= t
  /\ MessageOf(d).expires > t
  /\ delivery[d].attempts < MessageOf(d).maxAttempts
  /\ delivery'[d].state = "DISPATCHED"
  /\ delivery'[d].attempts = delivery[d].attempts + 1
  /\ LimitKept(d)

ClosedAs(d, states) ==
  /\ delivery'[d].state \in states
  /\ delivery'[d].attempts = delivery[d].attempts
  /\ delivery'[d].token = NoToken
  /\ LimitKept(d)

Swept(d) ==
  \/ delivery[d].state \in Open /\ ClosedAs(d, {"EXPIRED"})
  \/ delivery[d].state = "DISPATCHED" /\ ClosedAs(d, {ReleasedState(d)})

Refused(d) == delivery[d].state = "DISPATCHED" /\ ClosedAs(d, {"FAILED"})

Kept(d) == delivery'[d] = delivery[d] /\ LimitKept(d)

\* The sweep closes a row or keeps it.
LEMMA SweepMoves ==
  ASSUME TypeOK, NEW d \in Deliveries, NEW t \in Nat,
         delivery'[d] = SweptRow(d, t), LimitKept(d)
  PROVE  Swept(d) \/ Kept(d)
<1>1. delivery[d] \in DeliveryRow
  BY DeliveryParts
<1>2. ASSUME NEW s
      PROVE  /\ Closed(delivery[d], s).state = s
             /\ Closed(delivery[d], s).token = NoToken
             /\ Closed(delivery[d], s).attempts = delivery[d].attempts
             /\ [Closed(delivery[d], s) EXCEPT !.nextAttempt = t].state = s
             /\ [Closed(delivery[d], s) EXCEPT !.nextAttempt = t].token = NoToken
             /\ [Closed(delivery[d], s) EXCEPT !.nextAttempt = t].attempts
                  = delivery[d].attempts
  BY <1>1 DEF Closed, DeliveryRow
<1>3. CASE SweptRow(d, t) = delivery[d]
  BY <1>3 DEF Kept
<1>4. CASE /\ delivery[d].state \in Open
           /\ SweptRow(d, t) = Closed(delivery[d], "EXPIRED")
  BY <1>2, <1>4 DEF Swept, ClosedAs
<1>5. CASE /\ delivery[d].state = "DISPATCHED"
           /\ SweptRow(d, t) =
                [Closed(delivery[d], ReleasedState(d)) EXCEPT !.nextAttempt = t]
  BY <1>2, <1>5 DEF Swept, ClosedAs
<1>6. QED
  BY <1>3, <1>4, <1>5, SweepCases

\* What queueing a message does to one row.
LEMMA QueueMoves ==
  ASSUME SafeInv, NEW m \in Messages, NEW targets \in SUBSET Clients, NEW t \in Anchors,
         NEW delay \in Delays, NEW ttl \in Ttls, NEW limit \in AttemptLimits,
         QueueMessage(m, targets, t, delay, ttl, limit), NEW d \in Deliveries
  PROVE  Created(d) \/ NotAddressed(d) \/ Kept(d)
<1>0. TypeOK /\ SafeRow(d) /\ d[1] \in Messages /\ limit \in Nat \ {0}
  BY DeliveryParts, ConstantsAssumption DEF SafeInv
<1>1. CASE d[1] # m
  BY <1>0, <1>1 DEF QueueMessage, MessageOf, TypeOK, Kept, LimitKept
<1>2. CASE d[1] = m
  <2>1. MessageOf(d).maxAttempts = 0
    BY <1>2 DEF QueueMessage, Queued, MessageOf
  <2>2. delivery[d] = NoRow
    BY <1>0, <2>1 DEF SafeRow, RowSafe
  <2>3. MessageOf(d)'.maxAttempts = limit
    BY <1>0, <1>2 DEF QueueMessage, MessageOf, TypeOK
  <2>4. delivery'[d] \in {NoRow, [NoRow EXCEPT !.state = "QUEUED", !.nextAttempt = t + delay]}
    BY <2>2 DEF QueueMessage
  <2>5. /\ [NoRow EXCEPT !.state = "QUEUED", !.nextAttempt = t + delay].state = "QUEUED"
        /\ [NoRow EXCEPT !.state = "QUEUED", !.nextAttempt = t + delay].attempts = 0
        /\ [NoRow EXCEPT !.state = "QUEUED", !.nextAttempt = t + delay].token = NoToken
    BY DEF NoRow
  <2>6. CASE delivery'[d] = NoRow
    BY <2>2, <2>6 DEF NotAddressed
  <2>7. CASE delivery'[d] = [NoRow EXCEPT !.state = "QUEUED", !.nextAttempt = t + delay]
    <3>1. /\ delivery'[d].state = "QUEUED" /\ delivery'[d].attempts = 0
          /\ delivery'[d].token = NoToken
      BY <2>5, <2>7
    <3>2. MessageOf(d)'.maxAttempts > 0
      BY <1>0, <2>3
    <3>3. QED
      BY <2>1, <2>2, <3>1, <3>2 DEF Created
  <2>8. QED
    BY <2>4, <2>6, <2>7
<1>3. QED
  BY <1>1, <1>2

\* What a claim does to one row.
LEMMA ClaimMoves ==
  ASSUME SafeInv, NEW c \in Clients, NEW t \in Anchors, NEW batch \in Batches(c, t),
         Claim(c, t, batch), NEW d \in Deliveries
  PROVE  HandedOut(d) \/ Swept(d) \/ Kept(d)
<1>0. TypeOK /\ t \in Nat
  BY AnchorTypes DEF SafeInv
<1>1. delivery'[d] = ClaimedRow(d, c, t, batch) /\ LimitKept(d)
  BY DEF Claim, MessageOf, LimitKept
<1>2. CASE d \in batch
  <2>1. SweptRow(d, t) \in DeliveryRow
        /\ SweptRow(d, t).attempts = delivery[d].attempts
    BY <1>0, SweepTypes, SweepAttempts
  <2>2. delivery'[d] = LeasedRow(SweptRow(d, t), t)
    BY <1>1, <1>2 DEF ClaimedRow
  <2>3. delivery'[d].state = "DISPATCHED"
        /\ delivery'[d].attempts = delivery[d].attempts + 1
    BY <2>1, <2>2 DEF LeasedRow, DeliveryRow
  <2>4. QED
    BY <1>0, <1>1, <1>2, <2>3, BatchRows DEF HandedOut
<1>3. CASE d \notin batch
  <2>1. delivery'[d] \in {SweptRow(d, t), delivery[d]}
    BY <1>1, <1>3 DEF ClaimedRow
  <2>2. QED
    BY <1>0, <1>1, <2>1, SweepMoves DEF Kept
<1>4. QED
  BY <1>2, <1>3

\* What a receipt does to the row it is for.
LEMMA AcknowledgeMoves ==
  ASSUME SafeInv, NEW c \in Clients, NEW d \in Deliveries, NEW t \in Anchors,
         NEW receipt \in ReceiptIds, NEW token \in Tokens(d),
         Acknowledge(c, d, token, receipt, t)
  PROVE  /\ delivery[d].state = "DISPATCHED" /\ ClosedAs(d, {"ACKNOWLEDGED"})
         /\ \A e \in Deliveries \ {d} : Kept(e)
<1>0. TypeOK /\ delivery[d] \in DeliveryRow
  BY DeliveryParts DEF SafeInv
<1>1. delivery'[d] = Closed(delivery[d], "ACKNOWLEDGED")
  BY <1>0 DEF Acknowledge, TypeOK
<1>2. /\ delivery'[d].state = "ACKNOWLEDGED" /\ delivery'[d].token = NoToken
      /\ delivery'[d].attempts = delivery[d].attempts
  BY <1>0, <1>1 DEF Closed, DeliveryRow
<1>3. delivery[d].state = "DISPATCHED"
  BY DEF Acknowledge, AckOutcome
<1>4. \A e \in Deliveries : LimitKept(e)
  BY DEF Acknowledge, LimitKept, MessageOf
<1>5. \A e \in Deliveries \ {d} : delivery'[e] = delivery[e]
  BY <1>0 DEF Acknowledge, TypeOK
<1>6. QED
  BY <1>2, <1>3, <1>4, <1>5 DEF ClosedAs, Kept

\* What a reported failure does to the row it is for.
LEMMA FailureMoves ==
  ASSUME SafeInv, NEW c \in Clients, NEW d \in Deliveries, NEW t \in Anchors,
         NEW retry \in Retries, NEW token \in Tokens(d),
         RecordFailure(c, d, token, retry, t)
  PROVE  Refused(d) /\ \A e \in Deliveries \ {d} : Kept(e)
<1>0. TypeOK /\ delivery[d] \in DeliveryRow
  BY DeliveryParts DEF SafeInv
<1>1. delivery'[d] = [Closed(delivery[d], "FAILED") EXCEPT !.nextAttempt = t + retry]
  BY <1>0 DEF RecordFailure, TypeOK
<1>2. /\ delivery'[d].state = "FAILED" /\ delivery'[d].token = NoToken
      /\ delivery'[d].attempts = delivery[d].attempts
  BY <1>0, <1>1 DEF Closed, DeliveryRow
<1>3. delivery[d].state = "DISPATCHED"
  BY DEF RecordFailure
<1>4. \A e \in Deliveries : LimitKept(e)
  BY DEF RecordFailure, LimitKept, MessageOf
<1>5. \A e \in Deliveries \ {d} : delivery'[e] = delivery[e]
  BY <1>0 DEF RecordFailure, TypeOK
<1>6. QED
  BY <1>2, <1>3, <1>4, <1>5 DEF Refused, ClosedAs, Kept

\* The moves of all rows in one step, by kind of step.
LEMMA StepMoves ==
  ASSUME SafeInv, [Next]_vars
  PROVE  \/ \A d \in Deliveries : Created(d) \/ NotAddressed(d) \/ Kept(d)
         \/ \A d \in Deliveries : HandedOut(d) \/ Swept(d) \/ Kept(d)
         \/ \E d \in Deliveries :
              /\ delivery[d].state = "DISPATCHED" /\ ClosedAs(d, {"ACKNOWLEDGED"})
              /\ \A e \in Deliveries \ {d} : Kept(e)
         \/ \E d \in Deliveries : Refused(d) /\ \A e \in Deliveries \ {d} : Kept(e)
<1>1. CASE Tick \/ UNCHANGED vars
  BY <1>1 DEF Tick, vars, Kept, LimitKept, MessageOf
<1>2. ASSUME NEW t \in Anchors, ExpireDue(t)
      PROVE  \A d \in Deliveries : Swept(d) \/ Kept(d)
  <2> TAKE d \in Deliveries
  <2>1. TypeOK /\ t \in Nat
    BY AnchorTypes DEF SafeInv
  <2>2. delivery'[d] = SweptRow(d, t) /\ LimitKept(d)
    BY <1>2 DEF ExpireDue, LimitKept, MessageOf
  <2>3. QED
    BY <2>1, <2>2, SweepMoves
<1>3. QED
  BY <1>1, <1>2, QueueMoves, ClaimMoves, AcknowledgeMoves, FailureMoves
     DEF Next, ClaimSome

\* A row is handed out only when its lease, its backoff and its message allow.
LEMMA HandOutIsExclusive ==
  ASSUME SafeInv, NEW d \in Deliveries, HandedOut(d)
  PROVE  /\ delivery[d].lease <= now
         /\ delivery[d].state # "DISPATCHED" => delivery[d].nextAttempt <= now
         /\ MessageOf(d).notBefore <= now
         /\ now < MessageOf(d).expires + AnchorLag
<1>0. PICK t \in Anchors :
        /\ SweptRow(d, t).state \in {"QUEUED", "FAILED"}
        /\ SweptRow(d, t).nextAttempt <= t
        /\ MessageOf(d).notBefore <= t
        /\ MessageOf(d).expires > t
  BY DEF HandedOut
<1>1. /\ TypeOK /\ t \in Nat /\ t <= now /\ now <= t + AnchorLag /\ now \in Nat
      /\ AnchorLag \in Nat
      /\ delivery[d] \in DeliveryRow /\ MessageOf(d) \in MessageRow
      /\ SafeRow(d)
  BY AnchorTypes, DeliveryParts, ConstantsAssumption DEF SafeInv, TypeOK
<1>2. /\ delivery[d].lease \in Nat /\ delivery[d].nextAttempt \in Nat
      /\ MessageOf(d).notBefore \in Nat /\ MessageOf(d).expires \in Nat
  BY <1>1 DEF DeliveryRow, MessageRow
<1>3. MessageOf(d).notBefore <= now /\ now < MessageOf(d).expires + AnchorLag
  BY <1>0, <1>1, <1>2
<1>4. Closed(delivery[d], "EXPIRED").state = "EXPIRED"
  BY <1>1 DEF Closed, DeliveryRow
<1>5. CASE delivery[d].state = "DISPATCHED"
  <2>1. delivery[d].lease <= t
    BY <1>0, <1>1, <1>4, <1>5, SweepCases
  <2>2. QED
    BY <1>1, <1>2, <1>3, <1>5, <2>1
<1>6. CASE delivery[d].state # "DISPATCHED"
  <2>1. SweptRow(d, t) = delivery[d]
    BY <1>0, <1>1, <1>4, <1>6, SweepCases
  <2>2. delivery[d].lease = 0
    BY <1>1, <1>6 DEF SafeRow, RowSafe, NoLease
  <2>3. QED
    BY <1>0, <1>1, <1>2, <1>3, <1>6, <2>1, <2>2
<1>7. QED
  BY <1>5, <1>6

\* A token is handed out only when no other lease on its delivery still runs,
\* and within the times its message and its backoff allow.
THEOREM LeaseSafety == Spec => LeaseExclusive
<1>1. ASSUME SafeInv, [Next]_vars, NEW d \in Deliveries,
             delivery'[d].token \notin {NoToken, delivery[d].token}
      PROVE  HandedOut(d)
  <2>1. ~Created(d) /\ ~NotAddressed(d) /\ ~Kept(d)
    BY <1>1 DEF Created, NotAddressed, Kept, NoRow
  <2>2. ~Swept(d) /\ ~Refused(d) /\ ~ClosedAs(d, {"ACKNOWLEDGED"})
    BY <1>1 DEF Swept, Refused, ClosedAs
  <2>3. QED
    BY <1>1, <2>1, <2>2, StepMoves
<1>2. ASSUME SafeInv, [Next]_vars
      PROVE  \A d \in Deliveries :
               delivery'[d].token \notin {NoToken, delivery[d].token} =>
                 /\ delivery[d].lease <= now
                 /\ delivery[d].state # "DISPATCHED" => delivery[d].nextAttempt <= now
                 /\ MessageOf(d).notBefore <= now
                 /\ now < MessageOf(d).expires + AnchorLag
  BY <1>1, <1>2, HandOutIsExclusive
<1>3. QED
  BY <1>2, SafeInvariant, PTL DEF Spec, LeaseExclusive

\* Nothing reopens a settled row, and rows are not removed.
LEMMA SettledStays ==
  ASSUME SafeInv, [Next]_vars, NEW d \in Deliveries
  PROVE  /\ delivery'[d].state = "NONE" => delivery[d].state = "NONE"
         /\ Settled(d) => Settled(d)'
<1>0. /\ delivery[d] \in DeliveryRow /\ MessageOf(d) \in MessageRow /\ SafeRow(d)
  BY DeliveryParts DEF SafeInv
<1>1. delivery[d].attempts \in Nat /\ MessageOf(d).maxAttempts \in Nat
  BY <1>0 DEF DeliveryRow, MessageRow
<1>2. NoRow.state = "NONE"
  BY DEF NoRow
<1>3. CASE Created(d) \/ NotAddressed(d)
  BY <1>2, <1>3 DEF Created, NotAddressed, Settled
<1>4. CASE Kept(d)
  BY <1>4 DEF Kept, LimitKept, Settled, Exhausted
<1>5. CASE Swept(d)
  BY <1>5 DEF Swept, ClosedAs, LimitKept, ReleasedState, Settled, Exhausted, Open
<1>6. CASE Refused(d) \/ (delivery[d].state = "DISPATCHED" /\ ClosedAs(d, {"ACKNOWLEDGED"}))
  BY <1>6 DEF Refused, ClosedAs, Settled
<1>7. CASE HandedOut(d)
  <2>1. PICK t \in Anchors :
          /\ SweptRow(d, t).state \in {"QUEUED", "FAILED"}
          /\ delivery[d].attempts < MessageOf(d).maxAttempts
    BY <1>7 DEF HandedOut
  <2>2. ~Exhausted(d)
    BY <1>1, <2>1 DEF Exhausted
  <2>3. delivery[d].state \notin {"ACKNOWLEDGED", "EXPIRED"}
    BY <1>0, <2>1, SweepCases, AnchorTypes DEF SafeInv, Open
  <2>4. QED
    BY <1>7, <2>2, <2>3 DEF HandedOut, Settled
<1>8. QED
  BY <1>3, <1>4, <1>5, <1>6, <1>7, StepMoves

\* Rows of a message that exists are never added to.
LEMMA NoLateRows ==
  ASSUME SafeInv, [Next]_vars, NEW d \in Deliveries, NEW e \in Deliveries,
         d[1] = e[1], delivery[e].state # "NONE", delivery'[d].state # "NONE"
  PROVE  delivery[d].state # "NONE"
<1>0. SafeRow(e) /\ delivery[d] \in DeliveryRow /\ delivery[e] \in DeliveryRow
      /\ MessageOf(e) \in MessageRow
  BY DeliveryParts DEF SafeInv
<1>1. MessageOf(d).maxAttempts # 0
  BY <1>0 DEF SafeRow, RowSafe, MessageOf
<1>2. ~Created(d)
  BY <1>1 DEF Created
<1>3. NoRow.state = "NONE"
  BY DEF NoRow
<1>4. ASSUME HandedOut(d) PROVE delivery[d].state # "NONE"
  <2>1. PICK t \in Anchors : SweptRow(d, t).state \in {"QUEUED", "FAILED"}
    BY <1>4 DEF HandedOut
  <2>2. QED
    BY <2>1, SweepCases, AnchorTypes DEF SafeInv, Open
<1>5. QED
  BY <1>2, <1>3, <1>4, StepMoves DEF NotAddressed, Kept, Swept, Refused, Open

\* The report never takes back that a message is complete.
THEOREM ReportSafety == Spec => CompleteIsStable
<1>1. ASSUME SafeInv, [Next]_vars, NEW m \in Messages, Complete(m)
      PROVE  Complete(m)'
  <2>1. PICK e \in Deliveries : e[1] = m /\ delivery[e].state # "NONE"
    BY <1>1 DEF Complete, Rows
  <2>2. delivery'[e].state # "NONE"
    BY <1>1, <2>1, SettledStays
  <2>3. ASSUME NEW d \in Deliveries, d[1] = m, delivery'[d].state # "NONE"
        PROVE  Settled(d)'
    <3>1. delivery[d].state # "NONE"
      BY <1>1, <2>1, <2>3, NoLateRows
    <3>2. Settled(d)
      BY <1>1, <2>3, <3>1 DEF Complete, Rows
    <3>3. QED
      BY <1>1, <3>2, SettledStays
  <2>4. QED
    BY <2>1, <2>2, <2>3 DEF Complete, Rows
<1>2. ASSUME SafeInv, [Next]_vars
      PROVE  \A m \in Messages : Complete(m) => Complete(m)'
  BY <1>1, <1>2
<1>3. QED
  BY <1>2, SafeInvariant, PTL DEF Spec, CompleteIsStable

-----------------------------------------------------------------------------
(* The service implements what it promises: every move of a row is a move  *)
(* of DeliveryPromise, and every step a step of it.                        *)

\* The status that the promise knows, by the state of the row.
LEMMA StatusCases ==
  ASSUME NEW d \in Deliveries
  PROVE  /\ delivery[d].state = "NONE" => PromisedStatus(d) = "absent"
         /\ delivery[d].state = "QUEUED" => PromisedStatus(d) = "waiting"
         /\ delivery[d].state = "DISPATCHED" => PromisedStatus(d) = "out"
         /\ delivery[d].state = "FAILED" /\ Exhausted(d) => PromisedStatus(d) = "given_up"
         /\ delivery[d].state = "FAILED" /\ ~Exhausted(d) => PromisedStatus(d) = "waiting"
         /\ delivery[d].state = "ACKNOWLEDGED" => PromisedStatus(d) = "acknowledged"
         /\ delivery[d].state = "EXPIRED" => PromisedStatus(d) = "expired"
  BY DEF PromisedStatus

\* The same after a step.
LEMMA StatusCasesNext ==
  ASSUME NEW d \in Deliveries
  PROVE  /\ delivery'[d].state = "NONE" => PromisedStatus(d)' = "absent"
         /\ delivery'[d].state = "QUEUED" => PromisedStatus(d)' = "waiting"
         /\ delivery'[d].state = "DISPATCHED" => PromisedStatus(d)' = "out"
         /\ delivery'[d].state = "FAILED" /\ Exhausted(d)' => PromisedStatus(d)' = "given_up"
         /\ delivery'[d].state = "FAILED" /\ ~Exhausted(d)' => PromisedStatus(d)' = "waiting"
         /\ delivery'[d].state = "ACKNOWLEDGED" => PromisedStatus(d)' = "acknowledged"
         /\ delivery'[d].state = "EXPIRED" => PromisedStatus(d)' = "expired"
  BY DEF PromisedStatus

\* A row that keeps its attempts and exists before and after keeps its tries.
LEMMA TriesKept ==
  ASSUME NEW d \in Deliveries, LimitKept(d),
         delivery'[d].attempts = delivery[d].attempts,
         delivery[d].state # "NONE", delivery'[d].state # "NONE"
  PROVE  /\ PromisedTries(d)' = PromisedTries(d)
         /\ Exhausted(d)' = Exhausted(d)
  BY DEF PromisedTries, LimitKept, Exhausted

\* An untouched row stands still in the promise.
LEMMA KeptIsSame ==
  ASSUME NEW d \in Deliveries, Kept(d)
  PROVE  Promise!Same(d)
<1>1. PromisedStatus(d)' = PromisedStatus(d)
  BY DEF Kept, LimitKept, PromisedStatus, Exhausted
<1>2. PromisedTries(d)' = PromisedTries(d)
  BY DEF Kept, LimitKept, PromisedTries
<1>3. QED
  BY <1>1, <1>2 DEF Promise!Same, Promise!Becomes

\* A message that is queued is offered to the clients it names.
LEMMA CreatedIsOffered ==
  ASSUME NEW d \in Deliveries, Created(d) \/ NotAddressed(d)
  PROVE  Promise!Offered(d) \/ Promise!Same(d)
<1>0. NoRow.state = "NONE" /\ NoRow.attempts = 0
  BY DEF NoRow
<1>1. CASE Created(d)
  <2>1. PromisedStatus(d) = "absent" /\ PromisedStatus(d)' = "waiting"
    BY <1>0, <1>1, StatusCases, StatusCasesNext DEF Created
  <2>2. PromisedTries(d)' = [used |-> 0, limit |-> MessageOf(d)'.maxAttempts]
    BY <1>1 DEF Created, PromisedTries
  <2>3. QED
    BY <1>1, <2>1, <2>2 DEF Created, Promise!Offered
<1>2. CASE NotAddressed(d)
  <2>1. PromisedStatus(d) = "absent" /\ PromisedStatus(d)' = "absent"
    BY <1>0, <1>2, StatusCases, StatusCasesNext DEF NotAddressed
  <2>2. PromisedTries(d)' = PromisedTries(d)
    BY <1>0, <1>2 DEF NotAddressed, PromisedTries
  <2>3. QED
    BY <2>1, <2>2 DEF Promise!Same, Promise!Becomes
<1>3. QED
  BY <1>1, <1>2

\* A claim hands out what waits or what its client let lapse, within its limit.
LEMMA HandOutIsPromised ==
  ASSUME SafeInv, NEW d \in Deliveries, HandedOut(d)
  PROVE  Promise!HandedOut(d)
<1>0. /\ delivery[d] \in DeliveryRow /\ MessageOf(d) \in MessageRow /\ TypeOK
  BY DeliveryParts DEF SafeInv
<1>1. PICK t \in Anchors :
        /\ SweptRow(d, t).state \in {"QUEUED", "FAILED"}
        /\ delivery[d].attempts < MessageOf(d).maxAttempts
        /\ delivery'[d].state = "DISPATCHED"
        /\ delivery'[d].attempts = delivery[d].attempts + 1
        /\ LimitKept(d)
  BY DEF HandedOut
<1>2. ~Exhausted(d)
  BY <1>0, <1>1 DEF Exhausted, DeliveryRow, MessageRow
<1>3. delivery[d].state \in {"QUEUED", "FAILED", "DISPATCHED"}
  BY <1>0, <1>1, SweepCases, AnchorTypes DEF Open, Closed, DeliveryRow
<1>4. PromisedStatus(d) \in {"waiting", "out"} /\ PromisedStatus(d)' = "out"
  BY <1>1, <1>2, <1>3, StatusCases, StatusCasesNext
<1>5. PromisedTries(d) = [used |-> delivery[d].attempts, limit |-> MessageOf(d).maxAttempts]
  BY <1>3 DEF PromisedTries
<1>6. PromisedTries(d)' =
        [used |-> delivery[d].attempts + 1, limit |-> MessageOf(d).maxAttempts]
  BY <1>1 DEF PromisedTries, LimitKept
<1>7. PromisedTries(d)' = [PromisedTries(d) EXCEPT !.used = @ + 1]
  BY <1>5, <1>6
<1>8. PromisedTries(d).used < PromisedTries(d).limit
  BY <1>1, <1>5
<1>9. QED
  BY <1>4, <1>7, <1>8 DEF Promise!HandedOut, Promise!CanRetry

\* A lapsed lease or a reported failure takes a delivery back, and gives it up
\* when its attempts are used; the end of its time expires it.
LEMMA ClosedIsPromised ==
  ASSUME SafeInv, NEW d \in Deliveries, Swept(d) \/ Refused(d)
  PROVE  Promise!TakenBack(d) \/ Promise!Expired(d)
<1>0. /\ delivery[d] \in DeliveryRow /\ MessageOf(d) \in MessageRow
  BY DeliveryParts DEF SafeInv
<1>1. Exhausted(d) <=> ~(delivery[d].attempts < MessageOf(d).maxAttempts)
  BY <1>0 DEF Exhausted, DeliveryRow, MessageRow
<1>2. CASE delivery[d].state \in Open /\ ClosedAs(d, {"EXPIRED"})
  <2>1. PromisedStatus(d) \in {"waiting", "out", "given_up"}
        /\ PromisedStatus(d)' = "expired"
    BY <1>2, StatusCases, StatusCasesNext DEF Open, ClosedAs
  <2>2. PromisedTries(d)' = PromisedTries(d)
    BY <1>2, TriesKept DEF Open, ClosedAs
  <2>3. QED
    BY <2>1, <2>2 DEF Promise!Expired, Promise!Becomes
<1>3. CASE /\ delivery[d].state = "DISPATCHED"
           /\ ClosedAs(d, {"FAILED"}) \/ ClosedAs(d, {ReleasedState(d)})
  <2>1. /\ delivery'[d].state = "FAILED" \/ (delivery'[d].state = "QUEUED" /\ ~Exhausted(d))
        /\ LimitKept(d) /\ delivery'[d].attempts = delivery[d].attempts
    BY <1>3 DEF ClosedAs, ReleasedState
  <2>2. PromisedTries(d)' = PromisedTries(d) /\ Exhausted(d)' = Exhausted(d)
    BY <1>3, <2>1, TriesKept
  <2>3. PromisedTries(d) = [used |-> delivery[d].attempts, limit |-> MessageOf(d).maxAttempts]
    BY <1>3 DEF PromisedTries
  <2>4. PromisedTries(d).used < PromisedTries(d).limit <=> ~Exhausted(d)
    BY <1>1, <2>3
  <2>5. PromisedStatus(d) = "out"
    BY <1>3, StatusCases
  <2>6. PromisedStatus(d)' = IF ~Exhausted(d) THEN "waiting" ELSE "given_up"
    BY <2>1, <2>2, StatusCasesNext
  <2>7. QED
    BY <2>2, <2>4, <2>5, <2>6 DEF Promise!TakenBack, Promise!Becomes, Promise!CanRetry
<1>4. QED
  BY <1>2, <1>3 DEF Swept, Refused

\* A receipt acknowledges a delivery that is out.
LEMMA AcknowledgedIsPromised ==
  ASSUME NEW d \in Deliveries, delivery[d].state = "DISPATCHED",
         ClosedAs(d, {"ACKNOWLEDGED"})
  PROVE  PromisedStatus(d) = "out" /\ Promise!Becomes(d, "acknowledged")
<1>1. PromisedStatus(d) = "out" /\ PromisedStatus(d)' = "acknowledged"
  BY StatusCases, StatusCasesNext DEF ClosedAs
<1>2. PromisedTries(d)' = PromisedTries(d)
  BY TriesKept DEF ClosedAs
<1>3. QED
  BY <1>1, <1>2 DEF Promise!Becomes

\* The empty tables promise nothing.
LEMMA InitPromised == Init => Promise!Init
<1> SUFFICES ASSUME Init PROVE Promise!Init
  OBVIOUS
<1>1. ASSUME NEW d \in Deliveries
      PROVE  PromisedStatus(d) = "absent" /\ PromisedTries(d) = [used |-> 0, limit |-> 0]
  <2>1. delivery[d].state = "NONE" /\ delivery[d].attempts = 0
    BY <1>1 DEF Init, NoRow
  <2>2. QED
    BY <2>1, StatusCases DEF PromisedTries
<1>2. QED
  BY <1>1 DEF Promise!Init

\* Every step is one of the promise, or none.
LEMMA NextPromised == SafeInv /\ [Next]_vars => [Promise!Next]_(Promise!promise)
<1> SUFFICES ASSUME SafeInv, [Next]_vars PROVE Promise!Next
  OBVIOUS
<1>1. CASE \A d \in Deliveries : Created(d) \/ NotAddressed(d) \/ Kept(d)
  <2>1. \A d \in Deliveries : Promise!Offered(d) \/ Promise!Same(d)
    BY <1>1, CreatedIsOffered, KeptIsSame
  <2>2. QED
    BY <2>1 DEF Promise!Next, Promise!Offer
<1>2. CASE \A d \in Deliveries : HandedOut(d) \/ Swept(d) \/ Refused(d) \/ Kept(d)
  <2>1. \A d \in Deliveries :
          Promise!HandedOut(d) \/ Promise!TakenBack(d) \/ Promise!Expired(d) \/ Promise!Same(d)
    BY <1>2, HandOutIsPromised, ClosedIsPromised, KeptIsSame
  <2>2. QED
    BY <2>1 DEF Promise!Next, Promise!Advance
<1>3. ASSUME NEW d \in Deliveries,
             delivery[d].state = "DISPATCHED", ClosedAs(d, {"ACKNOWLEDGED"}),
             \A e \in Deliveries \ {d} : Kept(e)
      PROVE  Promise!Next
  <2>1. PromisedStatus(d) = "out" /\ Promise!Becomes(d, "acknowledged")
    BY <1>3, AcknowledgedIsPromised
  <2>2. \A e \in Deliveries \ {d} : Promise!Same(e)
    BY <1>3, KeptIsSame
  <2>3. QED
    BY <2>1, <2>2 DEF Promise!Next, Promise!Acknowledge
<1>4. ASSUME NEW d \in Deliveries, Refused(d), \A e \in Deliveries \ {d} : Kept(e)
      PROVE  \A e \in Deliveries : HandedOut(e) \/ Swept(e) \/ Refused(e) \/ Kept(e)
  BY <1>4
<1>5. QED
  BY <1>1, <1>2, <1>3, <1>4, StepMoves

\* The transactions of delivery.py, sweeps of many rows and lapsed leases that
\* one claim hands out again included, keep the promise to the operator.
THEOREM Refinement == Spec => ImplementsPromise
<1>1. QED
  BY InitPromised, NextPromised, SafeInvariant, PTL
     DEF Spec, ImplementsPromise, Promise!Spec

-----------------------------------------------------------------------------
(* The event rows.                                                         *)

Dispatches(trail) == {i \in DOMAIN trail : trail[i][2] = "DISPATCHED"}

\* The trail of a row in this state after n attempts.
TrailOf(trail, state, n) ==
  /\ \A i \in 1..Len(trail) - 1 : trail[i][2] = trail[i + 1][1]
  /\ state = IF trail = <<>> THEN "NONE" ELSE trail[Len(trail)][2]
  /\ IsFiniteSet(Dispatches(trail)) /\ Cardinality(Dispatches(trail)) = n

TrailRight(d) == TrailOf(events[d], delivery[d].state, delivery[d].attempts)

TrailInv == SafeInv /\ \A d \in Deliveries : TrailRight(d)

\* An event that leaves the present state continues the trail.
LEMMA TrailGrows ==
  ASSUME NEW trail \in Seq(RowStates \X RowStates), NEW a \in RowStates,
         NEW b \in RowStates, NEW n \in Nat, TrailOf(trail, a, n)
  PROVE  TrailOf(Append(trail, <<a, b>>), b, IF b = "DISPATCHED" THEN n + 1 ELSE n)
<1> DEFINE longer == Append(trail, <<a, b>>)
<1>1. /\ Len(trail) \in Nat /\ Len(longer) = Len(trail) + 1 /\ longer # <<>>
  <2>1. <<a, b>> \in RowStates \X RowStates
    OBVIOUS
  <2>2. Len(trail) \in Nat /\ Len(longer) = Len(trail) + 1
    BY <2>1
  <2>3. Len(<<>>) = 0
    OBVIOUS
  <2>4. QED
    BY <2>2, <2>3
<1>2. /\ longer[Len(longer)] = <<a, b>>
      /\ \A i \in 1..Len(trail) : longer[i] = trail[i]
  OBVIOUS
<1>3. DOMAIN trail = 1..Len(trail) /\ DOMAIN longer = 1..(Len(trail) + 1)
  OBVIOUS
<1>4. trail = <<>> <=> Len(trail) = 0
  OBVIOUS
<1> HIDE DEF longer
<1>5. \A i \in 1..Len(longer) - 1 : longer[i][2] = longer[i + 1][1]
  <2> TAKE i \in 1..Len(longer) - 1
  <2>1. CASE i = Len(trail)
    <3>1. trail # <<>> /\ a = trail[i][2]
      BY <1>1, <1>4, <2>1 DEF TrailOf
    <3>2. longer[i] = trail[i] /\ longer[i + 1] = <<a, b>>
      BY <1>1, <1>2, <2>1
    <3>3. QED
      BY <3>1, <3>2
  <2>2. CASE i # Len(trail)
    <3>1. i \in 1..Len(trail) - 1 /\ i + 1 \in 1..Len(trail) /\ i \in 1..Len(trail)
      BY <1>1, <2>2
    <3>2. trail[i][2] = trail[i + 1][1]
      BY <3>1 DEF TrailOf
    <3>3. QED
      BY <1>2, <3>1, <3>2
  <2>3. QED
    BY <2>1, <2>2
<1>6. Len(trail) + 1 \notin Dispatches(trail)
  BY <1>1, <1>3 DEF Dispatches
<1>7. IsFiniteSet(Dispatches(trail)) /\ Cardinality(Dispatches(trail)) = n
  BY DEF TrailOf
<1>8. /\ IsFiniteSet(Dispatches(longer))
      /\ Cardinality(Dispatches(longer)) = IF b = "DISPATCHED" THEN n + 1 ELSE n
  <2>1. CASE b = "DISPATCHED"
    <3>1. Dispatches(longer) = Dispatches(trail) \cup {Len(trail) + 1}
      BY <1>1, <1>2, <1>3, <2>1 DEF Dispatches
    <3>2. /\ IsFiniteSet(Dispatches(trail) \cup {Len(trail) + 1})
          /\ Cardinality(Dispatches(trail) \cup {Len(trail) + 1}) = n + 1
      BY <1>6, <1>7, FS_AddElement
    <3>3. QED
      BY <2>1, <3>1, <3>2
  <2>2. CASE b # "DISPATCHED"
    <3>1. Dispatches(longer) = Dispatches(trail)
      BY <1>1, <1>2, <1>3, <2>2 DEF Dispatches
    <3>2. QED
      BY <1>7, <2>2, <3>1
  <2>3. QED
    BY <2>1, <2>2
<1>9. TrailOf(longer, b, IF b = "DISPATCHED" THEN n + 1 ELSE n)
  BY <1>1, <1>2, <1>5, <1>8 DEF TrailOf
<1>10. QED
  BY <1>9 DEF longer

\* The sweep records what it does to a row.
LEMMA SweepTrail ==
  ASSUME TypeOK, NEW d \in Deliveries, NEW t \in Nat, TrailRight(d)
  PROVE  TrailOf(SweptEvents(d, t), SweptRow(d, t).state, SweptRow(d, t).attempts)
<1>1. /\ delivery[d] \in DeliveryRow /\ SweptRow(d, t) \in DeliveryRow
      /\ events[d] \in Seq(RowStates \X RowStates)
      /\ SweptRow(d, t).attempts = delivery[d].attempts
  BY DeliveryParts, SweepTypes, SweepAttempts
<1>2. /\ delivery[d].state \in RowStates /\ delivery[d].attempts \in Nat
      /\ SweptRow(d, t).state \in RowStates
  BY <1>1 DEF DeliveryRow
<1>3. CASE SweptRow(d, t).state = delivery[d].state
  BY <1>1, <1>3 DEF SweptEvents, TrailRight
<1>4. CASE SweptRow(d, t).state # delivery[d].state
  <2>1. SweptRow(d, t).state # "DISPATCHED"
    <3>1. ASSUME NEW s \in {"EXPIRED", "QUEUED", "FAILED"}
          PROVE  /\ Closed(delivery[d], s).state # "DISPATCHED"
                 /\ [Closed(delivery[d], s) EXCEPT !.nextAttempt = t].state # "DISPATCHED"
      BY <1>1 DEF Closed, DeliveryRow
    <3>2. ReleasedState(d) \in {"EXPIRED", "QUEUED", "FAILED"}
      BY DEF ReleasedState
    <3>3. QED
      BY <1>4, <3>1, <3>2, SweepCases
  <2>2. TrailOf(Append(events[d], <<delivery[d].state, SweptRow(d, t).state>>),
                SweptRow(d, t).state, delivery[d].attempts)
    BY <1>1, <1>2, <2>1, TrailGrows DEF TrailRight
  <2>3. QED
    BY <1>1, <1>4, <2>2 DEF SweptEvents
<1>5. QED
  BY <1>3, <1>4

\* No event is stored at first.
LEMMA InitTrail == Init => TrailInv
<1> SUFFICES ASSUME Init, NEW d \in Deliveries PROVE TrailRight(d)
  BY InitSafe DEF TrailInv
<1>1. events[d] = <<>> /\ delivery[d].state = "NONE" /\ delivery[d].attempts = 0
  BY DEF Init, NoRow
<1>2. Dispatches(<<>>) = {}
  BY DEF Dispatches
<1>3. \A i \in 1..Len(<<>>) - 1 : FALSE
  OBVIOUS
<1>4. IsFiniteSet(Dispatches(<<>>)) /\ Cardinality(Dispatches(<<>>)) = 0
  BY <1>2, FS_EmptySet
<1>5. TrailOf(<<>>, "NONE", 0)
  BY <1>3, <1>4 DEF TrailOf
<1>6. QED
  BY <1>1, <1>5 DEF TrailRight

\* Every step continues the trail of every row it changes.
LEMMA NextTrail == TrailInv /\ [Next]_vars => TrailInv'
<1> SUFFICES ASSUME TrailInv, [Next]_vars, NEW d \in Deliveries PROVE TrailRight(d)'
  BY NextSafe DEF TrailInv
<1>0. /\ SafeInv /\ TypeOK /\ TrailRight(d) /\ SafeRow(d)
      /\ delivery[d] \in DeliveryRow /\ events[d] \in Seq(RowStates \X RowStates)
      /\ delivery[d].state \in RowStates /\ delivery[d].attempts \in Nat
  BY DeliveryParts DEF TrailInv, SafeInv, DeliveryRow
<1>1. ASSUME delivery'[d] = delivery[d], events'[d] = events[d]
      PROVE  TrailRight(d)'
  BY <1>0, <1>1 DEF TrailRight
<1>2. ASSUME NEW s \in RowStates, s # "DISPATCHED",
             delivery'[d].state = s, delivery'[d].attempts = delivery[d].attempts,
             events'[d] = Append(events[d], <<delivery[d].state, s>>)
      PROVE  TrailRight(d)'
  <2>1. TrailOf(Append(events[d], <<delivery[d].state, s>>), s, delivery[d].attempts)
    BY <1>0, <1>2, TrailGrows DEF TrailRight
  <2>2. QED
    BY <1>2, <2>1 DEF TrailRight
<1>3. CASE Tick \/ UNCHANGED vars
  BY <1>1, <1>3 DEF Tick, vars
<1>4. ASSUME NEW m \in Messages, NEW targets \in SUBSET Clients, NEW t \in Anchors,
             NEW delay \in Delays, NEW ttl \in Ttls, NEW limit \in AttemptLimits,
             QueueMessage(m, targets, t, delay, ttl, limit)
      PROVE  TrailRight(d)'
  <2>1. CASE ~(d[1] = m /\ ClientOf(d) \in targets)
    BY <1>1, <1>4, <2>1 DEF QueueMessage
  <2>2. CASE d[1] = m /\ ClientOf(d) \in targets
    <3>1. delivery[d] = NoRow
      BY <1>0, <1>4, <2>2 DEF QueueMessage, Queued, MessageOf, SafeRow, RowSafe
    <3>2. delivery[d].state = "NONE" /\ delivery[d].attempts = 0
      BY <3>1 DEF NoRow
    <3>3. delivery'[d] = [NoRow EXCEPT !.state = "QUEUED", !.nextAttempt = t + delay]
          /\ events'[d] = Append(events[d], <<"NONE", "QUEUED">>)
      BY <1>4, <2>2 DEF QueueMessage
    <3>4. delivery'[d].state = "QUEUED" /\ delivery'[d].attempts = 0
      BY <3>3 DEF NoRow
    <3>5. "QUEUED" \in RowStates
      BY StateNames
    <3>6. QED
      BY <1>2, <3>2, <3>3, <3>4, <3>5
  <2>3. QED
    BY <2>1, <2>2
<1>5. ASSUME NEW c \in Clients, NEW t \in Anchors, NEW batch \in Batches(c, t),
             Claim(c, t, batch)
      PROVE  TrailRight(d)'
  <2>0. t \in Nat
    BY <1>0, AnchorTypes
  <2>1. /\ delivery'[d] = ClaimedRow(d, c, t, batch)
        /\ events'[d] = ClaimedEvents(d, c, t, batch)
    BY <1>5 DEF Claim
  <2>2. /\ TrailOf(SweptEvents(d, t), SweptRow(d, t).state, SweptRow(d, t).attempts)
        /\ SweptRow(d, t) \in DeliveryRow
        /\ SweptEvents(d, t) \in Seq(RowStates \X RowStates)
    BY <1>0, <2>0, SweepTrail, SweepTypes
  <2>3. CASE d \in batch
    <3>1. delivery'[d] = LeasedRow(SweptRow(d, t), t)
          /\ events'[d] = Append(SweptEvents(d, t), <<SweptRow(d, t).state, "DISPATCHED">>)
      BY <2>1, <2>3 DEF ClaimedRow, ClaimedEvents
    <3>2. delivery'[d].state = "DISPATCHED"
          /\ delivery'[d].attempts = SweptRow(d, t).attempts + 1
      BY <2>2, <3>1 DEF LeasedRow, DeliveryRow
    <3>3. "DISPATCHED" \in RowStates /\ SweptRow(d, t).state \in RowStates
          /\ SweptRow(d, t).attempts \in Nat
      BY <2>2, StateNames DEF DeliveryRow
    <3>4. TrailOf(Append(SweptEvents(d, t), <<SweptRow(d, t).state, "DISPATCHED">>),
                  "DISPATCHED", SweptRow(d, t).attempts + 1)
      BY <2>2, <3>3, TrailGrows
    <3>5. QED
      BY <3>1, <3>2, <3>4 DEF TrailRight
  <2>4. CASE d \notin batch /\ ClientOf(d) = c
    <3>1. delivery'[d] = SweptRow(d, t) /\ events'[d] = SweptEvents(d, t)
      BY <2>1, <2>4 DEF ClaimedRow, ClaimedEvents
    <3>2. QED
      BY <2>2, <3>1 DEF TrailRight
  <2>5. CASE d \notin batch /\ ClientOf(d) # c
    BY <1>1, <2>1, <2>5 DEF ClaimedRow, ClaimedEvents
  <2>6. QED
    BY <2>3, <2>4, <2>5
<1>6. ASSUME NEW c \in Clients, NEW e \in Deliveries, NEW t \in Anchors,
             NEW receipt \in ReceiptIds, NEW token \in Tokens(e),
             Acknowledge(c, e, token, receipt, t)
      PROVE  TrailRight(d)'
  <2>1. CASE d # e
    BY <1>0, <1>1, <1>6, <2>1 DEF Acknowledge, TypeOK
  <2>2. CASE d = e
    <3>1. /\ delivery'[d].state = "ACKNOWLEDGED"
          /\ delivery'[d].attempts = delivery[d].attempts
          /\ delivery[d].state = "DISPATCHED"
      BY <1>0, <1>6, <2>2, AcknowledgeMoves DEF ClosedAs
    <3>2. events'[d] = Append(events[d], <<delivery[d].state, "ACKNOWLEDGED">>)
      BY <1>0, <1>6, <2>2, <3>1 DEF Acknowledge, TypeOK
    <3>3. QED
      BY <1>2, <3>1, <3>2, StateNames
  <2>3. QED
    BY <2>1, <2>2
<1>7. ASSUME NEW c \in Clients, NEW e \in Deliveries, NEW t \in Anchors,
             NEW retry \in Retries, NEW token \in Tokens(e),
             RecordFailure(c, e, token, retry, t)
      PROVE  TrailRight(d)'
  <2>1. CASE d # e
    BY <1>0, <1>1, <1>7, <2>1 DEF RecordFailure, TypeOK
  <2>2. CASE d = e
    <3>1. /\ delivery'[d].state = "FAILED"
          /\ delivery'[d].attempts = delivery[d].attempts
          /\ delivery[d].state = "DISPATCHED"
      BY <1>0, <1>7, <2>2, FailureMoves DEF Refused, ClosedAs
    <3>2. events'[d] = Append(events[d], <<delivery[d].state, "FAILED">>)
      BY <1>0, <1>7, <2>2, <3>1 DEF RecordFailure, TypeOK
    <3>3. QED
      BY <1>2, <3>1, <3>2, StateNames
  <2>3. QED
    BY <2>1, <2>2
<1>8. ASSUME NEW t \in Anchors, ExpireDue(t)
      PROVE  TrailRight(d)'
  <2>1. t \in Nat
    BY <1>0, AnchorTypes
  <2>2. delivery'[d] = SweptRow(d, t) /\ events'[d] = SweptEvents(d, t)
    BY <1>8 DEF ExpireDue
  <2>3. QED
    BY <1>0, <2>1, <2>2, SweepTrail DEF TrailRight
<1>9. QED
  BY <1>3, <1>4, <1>5, <1>6, <1>7, <1>8 DEF Next, ClaimSome

\* The stored events of a delivery are one unbroken path to its state, with one
\* dispatch for every attempt counted.
THEOREM TrailSafety == Spec => []AuditTrail
<1>1. TrailInv => AuditTrail
  BY DEF TrailInv, TrailRight, TrailOf, Dispatches, AuditTrail
<1>2. QED
  BY <1>1, InitTrail, NextTrail, PTL DEF Spec
-----------------------------------------------------------------------------
(* The order of hand-outs.  A claim compares next_attempt_at alone, so a   *)
(* row that waits must not have a next_attempt_at before the not_before of *)
(* its message: otherwise a claim with an old anchor leaves it out for its *)
(* not_before, and hands out a later one.  record_delivery_failure can do  *)
(* that if its backoff is shorter than what its anchor lags the clock; the *)
(* default is sixty seconds, and a transaction waits five for the lock.    *)

Backoffs == \A retry \in Retries : AnchorLag <= retry

RowOrdered(row, sent, time) ==
  /\ row.state = "QUEUED" => row.attempts < sent.maxAttempts
  /\ row.state \in {"QUEUED", "FAILED"} => sent.notBefore <= row.nextAttempt
  /\ row.state = "DISPATCHED" => sent.notBefore <= time /\ sent.notBefore <= row.lease

Ordered(d) == RowOrdered(delivery[d], MessageOf(d), now)

OrderInv == SafeInv /\ \A d \in Deliveries : Ordered(d)

\* The numbers of a row and of its message.
LEMMA RowNumbers ==
  ASSUME TypeOK, NEW d \in Deliveries
  PROVE  /\ delivery[d].attempts \in Nat /\ delivery[d].nextAttempt \in Nat
         /\ delivery[d].lease \in Nat
         /\ MessageOf(d).notBefore \in Nat /\ MessageOf(d).expires \in Nat
         /\ MessageOf(d).maxAttempts \in Nat /\ now \in Nat
<1>1. delivery[d] \in DeliveryRow /\ MessageOf(d) \in MessageRow
  BY DeliveryParts
<1>2. now \in Nat BY DEF TypeOK
<1> QED BY <1>1, <1>2 DEF DeliveryRow, MessageRow

\* The sweep releases a lease only when the lease is over, so late enough.
LEMMA SweepOrdered ==
  ASSUME TypeOK, NEW d \in Deliveries, NEW t \in Nat, Ordered(d)
  PROVE  RowOrdered(SweptRow(d, t), MessageOf(d), now)
<1>1. delivery[d] \in DeliveryRow BY DeliveryParts
<1>2. CASE SweptRow(d, t) = delivery[d] BY <1>2 DEF Ordered
<1>3. CASE SweptRow(d, t) = Closed(delivery[d], "EXPIRED")
  <2>1. SweptRow(d, t).state = "EXPIRED" BY <1>1, <1>3 DEF Closed, DeliveryRow
  <2> QED BY <2>1 DEF RowOrdered
<1>4. CASE /\ delivery[d].state = "DISPATCHED" /\ delivery[d].lease <= t
           /\ SweptRow(d, t) = [Closed(delivery[d], ReleasedState(d)) EXCEPT !.nextAttempt = t]
  <2>1. /\ SweptRow(d, t).state = ReleasedState(d) /\ SweptRow(d, t).nextAttempt = t
        /\ SweptRow(d, t).attempts = delivery[d].attempts
    BY <1>1, <1>4 DEF Closed, DeliveryRow
  <2>2. MessageOf(d).notBefore <= t
    BY <1>4, RowNumbers DEF Ordered, RowOrdered
  <2>3. ReleasedState(d) = "QUEUED" => delivery[d].attempts < MessageOf(d).maxAttempts
    BY RowNumbers DEF ReleasedState, Exhausted
  <2>4. ReleasedState(d) \in {"QUEUED", "FAILED"} BY DEF ReleasedState
  <2> QED BY <2>1, <2>2, <2>3, <2>4 DEF RowOrdered
<1> QED BY <1>2, <1>3, <1>4, SweepCases

\* Every step keeps every row in order.
LEMMA NextOrdered == Backoffs /\ OrderInv /\ [Next]_vars => OrderInv'
<1> SUFFICES ASSUME Backoffs, OrderInv, [Next]_vars, NEW d \in Deliveries PROVE Ordered(d)'
  BY NextSafe DEF OrderInv
<1>0. /\ SafeInv /\ TypeOK /\ Ordered(d) /\ SafeRow(d) /\ delivery[d] \in DeliveryRow
      /\ d[1] \in Messages /\ message[d[1]] \in MessageRow
  BY DeliveryParts DEF OrderInv, SafeInv, MessageOf
<1>1. ASSUME delivery'[d] = delivery[d], MessageOf(d)' = MessageOf(d), now' \in {now, now + 1}
      PROVE  Ordered(d)'
  BY <1>0, <1>1, RowNumbers DEF Ordered, RowOrdered
<1>2. CASE Tick \/ UNCHANGED vars
  BY <1>1, <1>2 DEF Tick, vars, MessageOf
<1>3. ASSUME NEW m \in Messages, NEW targets \in SUBSET Clients, NEW t \in Anchors,
             NEW delay \in Delays, NEW ttl \in Ttls, NEW limit \in AttemptLimits,
             QueueMessage(m, targets, t, delay, ttl, limit)
      PROVE  Ordered(d)'
  <2>1. CASE d[1] # m
    BY <1>0, <1>1, <1>3, <2>1 DEF QueueMessage, MessageOf, TypeOK
  <2>2. CASE d[1] = m
    <3>1. t \in Nat /\ delay \in Nat /\ limit \in Nat \ {0}
      BY <1>0, ConstantsAssumption, AnchorTypes
    <3>2. delivery[d] = NoRow
      BY <1>0, <1>3, <2>2 DEF QueueMessage, Queued, MessageOf, SafeRow, RowSafe
    <3>3. MessageOf(d)'.notBefore = t + delay /\ MessageOf(d)'.maxAttempts = limit
      BY <1>0, <1>3, <2>2 DEF QueueMessage, MessageOf, TypeOK
    <3>4. delivery'[d] \in {NoRow, [NoRow EXCEPT !.state = "QUEUED", !.nextAttempt = t + delay]}
      BY <1>3, <3>2 DEF QueueMessage
    <3>5. CASE delivery'[d] = NoRow
      <4>1. delivery'[d].state = "NONE" BY <3>5 DEF NoRow
      <4> QED BY <4>1 DEF Ordered, RowOrdered
    <3>6. CASE delivery'[d] = [NoRow EXCEPT !.state = "QUEUED", !.nextAttempt = t + delay]
      <4>1. /\ delivery'[d].state = "QUEUED" /\ delivery'[d].attempts = 0
            /\ delivery'[d].nextAttempt = t + delay
        BY <3>6 DEF NoRow
      <4> QED BY <3>1, <3>3, <4>1 DEF Ordered, RowOrdered
    <3> QED BY <3>4, <3>5, <3>6
  <2> QED BY <2>1, <2>2
<1>4. ASSUME NEW c \in Clients, NEW t \in Anchors, NEW batch \in Batches(c, t),
             Claim(c, t, batch)
      PROVE  Ordered(d)'
  <2>0. t \in Nat /\ t <= now BY <1>0, AnchorTypes
  <2>1. delivery'[d] = ClaimedRow(d, c, t, batch) /\ MessageOf(d)' = MessageOf(d) /\ now' = now
    BY <1>4 DEF Claim, MessageOf
  <2>2. RowOrdered(SweptRow(d, t), MessageOf(d), now)
    BY <1>0, <2>0, SweepOrdered
  <2>3. CASE d \in batch
    <3>1. delivery'[d] = LeasedRow(SweptRow(d, t), t) BY <2>1, <2>3 DEF ClaimedRow
    <3>2. delivery'[d].state = "DISPATCHED" /\ delivery'[d].lease = t + LeaseSeconds
      BY <1>0, <2>0, <3>1, SweepTypes DEF LeasedRow, DeliveryRow
    <3>3. MessageOf(d).notBefore <= t BY <2>0, <2>3, BatchRows
    <3>4. MessageOf(d).notBefore <= now /\ MessageOf(d).notBefore <= t + LeaseSeconds
      BY <1>0, <2>0, <3>3, RowNumbers, ConstantsAssumption
    <3> QED BY <2>1, <3>2, <3>4 DEF Ordered, RowOrdered
  <2>4. CASE d \notin batch
    <3>1. delivery'[d] \in {SweptRow(d, t), delivery[d]} BY <2>1, <2>4 DEF ClaimedRow
    <3> QED BY <1>0, <2>1, <2>2, <3>1 DEF Ordered
  <2> QED BY <2>3, <2>4
<1>5. ASSUME NEW c \in Clients, NEW e \in Deliveries, NEW t \in Anchors,
             NEW receipt \in ReceiptIds, NEW token \in Tokens(e),
             Acknowledge(c, e, token, receipt, t)
      PROVE  Ordered(d)'
  <2>1. CASE d # e
    BY <1>0, <1>1, <1>5, <2>1 DEF Acknowledge, MessageOf, TypeOK
  <2>2. CASE d = e
    <3>1. delivery'[d].state = "ACKNOWLEDGED"
      BY <1>0, <1>5, <2>2 DEF Acknowledge, Closed, DeliveryRow, TypeOK
    <3> QED BY <3>1 DEF Ordered, RowOrdered
  <2> QED BY <2>1, <2>2
<1>6. ASSUME NEW c \in Clients, NEW e \in Deliveries, NEW t \in Anchors,
             NEW retry \in Retries, NEW token \in Tokens(e),
             RecordFailure(c, e, token, retry, t)
      PROVE  Ordered(d)'
  <2>1. CASE d # e
    BY <1>0, <1>1, <1>6, <2>1 DEF RecordFailure, MessageOf, TypeOK
  <2>2. CASE d = e
    <3>1. delivery'[d] = [Closed(delivery[d], "FAILED") EXCEPT !.nextAttempt = t + retry]
      BY <1>0, <1>6, <2>2 DEF RecordFailure, TypeOK
    <3>2. delivery'[d].state = "FAILED" /\ delivery'[d].nextAttempt = t + retry
      BY <1>0, <3>1 DEF Closed, DeliveryRow
    <3>3. MessageOf(d)' = MessageOf(d) /\ delivery[d].state = "DISPATCHED"
      BY <1>6, <2>2 DEF RecordFailure, MessageOf
    <3>4. MessageOf(d).notBefore <= now BY <1>0, <3>3 DEF Ordered, RowOrdered
    <3>5. /\ t \in Nat /\ now <= t + AnchorLag /\ retry \in Nat /\ AnchorLag <= retry
          /\ AnchorLag \in Nat
      BY <1>0, AnchorTypes, ConstantsAssumption DEF Backoffs
    <3>6. MessageOf(d).notBefore <= t + retry BY <1>0, <3>4, <3>5, RowNumbers
    <3> QED BY <3>2, <3>3, <3>6 DEF Ordered, RowOrdered
  <2> QED BY <2>1, <2>2
<1>7. ASSUME NEW t \in Anchors, ExpireDue(t) PROVE Ordered(d)'
  <2>1. /\ delivery'[d] = SweptRow(d, t) /\ MessageOf(d)' = MessageOf(d) /\ now' = now
        /\ t \in Nat
    BY <1>0, <1>7, AnchorTypes DEF ExpireDue, MessageOf
  <2> QED BY <1>0, <2>1, SweepOrdered DEF Ordered
<1> QED BY <1>2, <1>3, <1>4, <1>5, <1>6, <1>7 DEF Next, ClaimSome

\* A new token comes from a claim whose batch holds the delivery.
LEMMA TokensFromClaims ==
  ASSUME SafeInv, [Next]_vars, NEW d \in Deliveries,
         delivery'[d].token \notin {NoToken, delivery[d].token}
  PROVE  \E c \in Clients, t \in Anchors : \E batch \in Batches(c, t) :
           Claim(c, t, batch) /\ d \in batch
<1>0. TypeOK /\ delivery[d] \in DeliveryRow BY DeliveryParts DEF SafeInv
<1>1. delivery'[d] # delivery[d] OBVIOUS
<1>2. ASSUME NEW s PROVE Closed(delivery[d], s).token = NoToken
  BY <1>0 DEF Closed, DeliveryRow
<1>3. ASSUME NEW s, NEW n PROVE [Closed(delivery[d], s) EXCEPT !.nextAttempt = n].token = NoToken
  BY <1>0 DEF Closed, DeliveryRow
<1>4. ASSUME NEW t \in Anchors PROVE SweptRow(d, t).token \in {NoToken, delivery[d].token}
  <2>1. \/ SweptRow(d, t) = delivery[d]
        \/ SweptRow(d, t) = Closed(delivery[d], "EXPIRED")
        \/ SweptRow(d, t) = [Closed(delivery[d], ReleasedState(d)) EXCEPT !.nextAttempt = t]
    BY <1>0, AnchorTypes, SweepCases
  <2>2. CASE SweptRow(d, t) = delivery[d] BY <2>2
  <2>3. CASE SweptRow(d, t) = Closed(delivery[d], "EXPIRED") BY <1>2, <2>3
  <2>4. CASE SweptRow(d, t) = [Closed(delivery[d], ReleasedState(d)) EXCEPT !.nextAttempt = t]
    BY <1>3, <2>4
  <2> QED BY <2>1, <2>2, <2>3, <2>4
<1>5. CASE Tick \/ UNCHANGED vars BY <1>1, <1>5 DEF Tick, vars
<1>6. ASSUME NEW m \in Messages, NEW targets \in SUBSET Clients, NEW t \in Anchors,
             NEW delay \in Delays, NEW ttl \in Ttls, NEW limit \in AttemptLimits,
             QueueMessage(m, targets, t, delay, ttl, limit)
      PROVE  FALSE
  <2>1. delivery'[d] = [NoRow EXCEPT !.state = "QUEUED", !.nextAttempt = t + delay]
    BY <1>1, <1>6 DEF QueueMessage
  <2>2. delivery'[d].token = NoToken BY <2>1 DEF NoRow
  <2> QED BY <2>2
<1>7. ASSUME NEW c \in Clients, NEW t \in Anchors, NEW batch \in Batches(c, t),
             Claim(c, t, batch)
      PROVE  d \in batch
  <2>1. d \notin batch => delivery'[d] \in {SweptRow(d, t), delivery[d]}
    BY <1>7 DEF Claim, ClaimedRow
  <2> QED BY <1>4, <2>1
<1>8. ASSUME NEW c \in Clients, NEW e \in Deliveries, NEW t \in Anchors,
             NEW receipt \in ReceiptIds, NEW token \in Tokens(e),
             Acknowledge(c, e, token, receipt, t)
      PROVE  FALSE
  <2>1. delivery'[d] \in {delivery[d], Closed(delivery[d], "ACKNOWLEDGED")}
    BY <1>0, <1>8 DEF Acknowledge, TypeOK
  <2> QED BY <1>2, <2>1
<1>9. ASSUME NEW c \in Clients, NEW e \in Deliveries, NEW t \in Anchors,
             NEW retry \in Retries, NEW token \in Tokens(e),
             RecordFailure(c, e, token, retry, t)
      PROVE  FALSE
  <2>1. delivery'[d] \in
          {delivery[d], [Closed(delivery[d], "FAILED") EXCEPT !.nextAttempt = t + retry]}
    BY <1>0, <1>9 DEF RecordFailure, TypeOK
  <2> QED BY <1>3, <2>1
<1>10. ASSUME NEW t \in Anchors, ExpireDue(t) PROVE FALSE
  BY <1>4, <1>10 DEF ExpireDue
<1> QED BY <1>5, <1>6, <1>7, <1>8, <1>9, <1>10 DEF Next, ClaimSome

\* A claim that hands out d leaves no waiting row of the client behind that comes first.
LEMMA ClaimInOrder ==
  ASSUME OrderInv, NEW c \in Clients, NEW t \in Anchors, NEW batch \in Batches(c, t),
         Claim(c, t, batch), NEW d \in batch, NEW e \in Deliveries, ClientOf(e) = c,
         delivery'[e].state \in {"QUEUED", "FAILED"}, ~Settled(e)'
  PROVE  delivery'[d].nextAttempt <= delivery'[e].nextAttempt
<1>0. /\ SafeInv /\ TypeOK /\ t \in Nat /\ Ordered(e) /\ d \in Deliveries
      /\ SweptRow(d, t) \in DeliveryRow /\ SweptRow(e, t) \in DeliveryRow
      /\ delivery[e] \in DeliveryRow
  BY AnchorTypes, BatchRows, SweepTypes, DeliveryParts DEF OrderInv, SafeInv
<1>1. delivery'[d].nextAttempt = SweptRow(d, t).nextAttempt
  BY <1>0 DEF Claim, ClaimedRow, LeasedRow, DeliveryRow
<1>2. e \notin batch
  <2> SUFFICES ASSUME e \in batch PROVE FALSE
    OBVIOUS
  <2>1. delivery'[e].state = "DISPATCHED" BY <1>0 DEF Claim, ClaimedRow, LeasedRow, DeliveryRow
  <2> QED BY <2>1
<1>3. delivery'[e] = SweptRow(e, t) /\ MessageOf(e)' = MessageOf(e)
  BY <1>2 DEF Claim, ClaimedRow, MessageOf
<1>4. SweptRow(d, t).nextAttempt <= t BY <1>0, BatchRows
<1>5. /\ SweptRow(d, t).nextAttempt \in Nat /\ SweptRow(e, t).nextAttempt \in Nat
      /\ MessageOf(e).notBefore \in Nat /\ MessageOf(e).expires \in Nat
      /\ delivery[e].attempts \in Nat /\ MessageOf(e).maxAttempts \in Nat
  BY <1>0, RowNumbers DEF DeliveryRow
<1>6. RowOrdered(SweptRow(e, t), MessageOf(e), now) BY <1>0, SweepOrdered
<1>7. CASE e \in Due(c, t)
  <2>1. NotAfter(d, e, t) BY <1>2, <1>7 DEF Batches
  <2> QED BY <1>1, <1>3, <1>5, <2>1 DEF NotAfter
<1>8. CASE e \notin Due(c, t)
  <2>1. delivery[e].attempts < MessageOf(e).maxAttempts
    <3>1. SweptRow(e, t).attempts = delivery[e].attempts BY <1>0, SweepAttempts
    <3>2. CASE delivery'[e].state = "QUEUED" BY <1>3, <1>6, <3>1, <3>2 DEF RowOrdered
    <3>3. CASE delivery'[e].state = "FAILED"
      BY <1>3, <1>5, <3>1, <3>3 DEF Settled, Exhausted
    <3> QED BY <3>2, <3>3
  <2>2. MessageOf(e).expires > t
    <3> SUFFICES ASSUME MessageOf(e).expires <= t PROVE FALSE
      BY <1>0, <1>5
    <3>1. TtlOver(e, t) => SweptRow(e, t).state = "EXPIRED"
      BY <1>0 DEF SweptRow, Closed, DeliveryRow
    <3>2. delivery[e].state \notin Open BY <1>3, <3>1 DEF TtlOver
    <3>3. SweptRow(e, t) = delivery[e] BY <1>0, <3>2, SweepCases DEF Open
    <3> QED BY <1>3, <3>2, <3>3 DEF Open
  <2>3. t < SweptRow(e, t).nextAttempt \/ t < MessageOf(e).notBefore
    BY <1>0, <1>3, <1>5, <1>8, <2>1, <2>2 DEF Due
  <2>4. MessageOf(e).notBefore <= SweptRow(e, t).nextAttempt
    BY <1>3, <1>6 DEF RowOrdered
  <2> QED BY <1>0, <1>1, <1>3, <1>4, <1>5, <2>3, <2>4
<1> QED BY <1>7, <1>8

\* A claim cut off by its limit passes over no delivery that comes earlier, if backoffs
\* are at least as long as a transaction waits for the database (claim_pending_deliveries,
\* record_delivery_failure).
THEOREM OrderSafety == Backoffs => (Spec => NoOvertaking)
<1> SUFFICES ASSUME Backoffs PROVE Spec => NoOvertaking
  OBVIOUS
<1>1. Init => OrderInv
  <2> SUFFICES ASSUME Init, NEW d \in Deliveries PROVE Ordered(d)
    BY InitSafe DEF OrderInv
  <2>1. delivery[d].state = "NONE" BY DEF Init, NoRow
  <2> QED BY <2>1 DEF Ordered, RowOrdered
<1>2. OrderInv /\ [Next]_vars => OrderInv' BY NextOrdered
<1>3. ASSUME OrderInv, [Next]_vars, NEW d \in Deliveries, NEW e \in Deliveries,
             ClientOf(d) = ClientOf(e),
             delivery'[d].token \notin {NoToken, delivery[d].token},
             delivery'[e].state \in {"QUEUED", "FAILED"}, ~Settled(e)'
      PROVE  delivery'[d].nextAttempt <= delivery'[e].nextAttempt
  <2>1. PICK c \in Clients, t \in Anchors : \E batch \in Batches(c, t) :
          Claim(c, t, batch) /\ d \in batch
    BY <1>3, TokensFromClaims DEF OrderInv
  <2>2. PICK batch \in Batches(c, t) : Claim(c, t, batch) /\ d \in batch BY <2>1
  <2>3. t \in Nat BY <1>3, AnchorTypes DEF OrderInv, SafeInv
  <2>4. ClientOf(e) = c BY <1>3, <2>2, <2>3, BatchRows
  <2> QED BY <1>3, <2>2, <2>4, ClaimInOrder
<1>4. OrderInv /\ [Next]_vars =>
        \A d, e \in Deliveries :
          /\ ClientOf(d) = ClientOf(e)
          /\ delivery'[d].token \notin {NoToken, delivery[d].token}
          /\ delivery'[e].state \in {"QUEUED", "FAILED"}
          /\ ~Settled(e)'
          => delivery'[d].nextAttempt <= delivery'[e].nextAttempt
  BY <1>3
<1> QED BY <1>1, <1>2, <1>4, PTL DEF Spec, NoOvertaking
=============================================================================
