--------------------------- MODULE MessageDelivery ---------------------------
(***************************************************************************)
(* The server side of acknowledged client messages                         *)
(* (sagar_monitor/messaging/delivery.py and service.py).  Every operation  *)
(* is one BEGIN IMMEDIATE transaction, so one action.  A handler reads its *)
(* anchor time BEFORE it obtains the write lock (the server is a           *)
(* ThreadingHTTPServer and SQLite waits up to its busy timeout), so a      *)
(* transaction may commit with an anchor that lags the clock: every action *)
(* takes its anchor from Anchors.                                          *)
(*                                                                         *)
(* One organization is modelled: organization_id only filters rows.        *)
(***************************************************************************)
EXTENDS Naturals, Sequences, FiniteSets

CONSTANTS
  Messages,       \* message identifiers
  Clients,        \* canonical client identifiers
  ReceiptIds,     \* client_receipt_id values the clients present
  Ttls,           \* ttl_seconds a caller may ask for, in ticks
  Delays,         \* not_before - created a caller may ask for, in ticks
  Retries,        \* retry_after_seconds a caller may ask for, in ticks
  AttemptLimits,  \* max_attempts a caller may ask for
  LeaseSeconds,   \* lease_seconds of a claim, in ticks
  BatchLimit,     \* LIMIT of one claim
  AnchorLag,      \* how far a transaction's anchor may lag the clock
  MaxDeliveries,  \* bound on delivery rows
  MaxTime         \* bound on the clock

ASSUME ConstantsAssumption ==
  /\ Ttls \subseteq Nat \ {0}
  /\ Delays \subseteq Nat
  /\ Retries \subseteq Nat \ {0}
  /\ AttemptLimits \subseteq Nat \ {0}
  /\ LeaseSeconds \in Nat \ {0}
  /\ BatchLimit \in Nat \ {0}
  /\ AnchorLag \in Nat
  /\ MaxDeliveries \in Nat /\ MaxTime \in Nat
  /\ IsFiniteSet(Messages) /\ IsFiniteSet(Clients)

VARIABLES
  now,       \* the server's clock
  message,   \* client_messages_v1: message id -> its row
  delivery,  \* client_message_deliveries_v1: <<message, client>> -> its row
  receipts,  \* client_message_receipts_v1: receipt ids stored per delivery
  events     \* client_message_delivery_events_v1: <<from, to>> per delivery

vars == <<now, message, delivery, receipts, events>>

Deliveries == Messages \X Clients

States == {"QUEUED", "DISPATCHED", "ACKNOWLEDGED", "FAILED", "EXPIRED"}
RowStates == States \cup {"NONE"}   \* NONE: no such row

\* States the sweep may still expire.
Open == {"QUEUED", "DISPATCHED", "FAILED"}

\* NULL lease_expires_at and '' dispatch_token_hash are 0: a real lease ends
\* after time 0 and a real token is the number of the attempt it was issued for.
NoLease == 0
NoToken == 0

NoMessage == [created |-> 0, notBefore |-> 0, expires |-> 0, maxAttempts |-> 0]
NoRow == [state |-> "NONE", attempts |-> 0, nextAttempt |-> 0,
          lease |-> NoLease, token |-> NoToken]

MessageRow == [created : Nat, notBefore : Nat, expires : Nat, maxAttempts : Nat]
DeliveryRow == [state : RowStates, attempts : Nat, nextAttempt : Nat,
                lease : Nat, token : Nat]

MessageOf(d) == message[d[1]]
ClientOf(d) == d[2]

Anchors == {t \in 0..now : now <= t + AnchorLag}

-----------------------------------------------------------------------------
(* _expire_and_release: what the sweep leaves of one row, and the event it *)
(* appends.  A message past its TTL expires before its lease is looked at. *)

\* Mutated form: the sweep skips FAILED rows.
TtlOver_SkipsFailed(d, t) ==
  delivery[d].state \in {"QUEUED", "DISPATCHED"} /\ MessageOf(d).expires <= t

TtlOver(d, t) == delivery[d].state \in Open /\ MessageOf(d).expires <= t

\* Mutated form: the sweep releases a lease one tick early.
LeaseOver_Early(d, t) ==
  ~TtlOver(d, t) /\ delivery[d].state = "DISPATCHED" /\ delivery[d].lease <= t + 1

LeaseOver(d, t) ==
  /\ ~TtlOver(d, t)
  /\ delivery[d].state = "DISPATCHED"
  /\ delivery[d].lease <= t

Exhausted(d) == delivery[d].attempts >= MessageOf(d).maxAttempts

Closed(row, state) == [row EXCEPT !.state = state, !.token = NoToken, !.lease = NoLease]

\* Mutated form: no attempt limit.
ReleasedState_AlwaysQueued(d) == "QUEUED"

ReleasedState(d) == IF Exhausted(d) THEN "FAILED" ELSE "QUEUED"

SweptRow(d, t) ==
  IF TtlOver(d, t) THEN Closed(delivery[d], "EXPIRED")
  ELSE IF LeaseOver(d, t)
       THEN [Closed(delivery[d], ReleasedState(d)) EXCEPT !.nextAttempt = t]
       ELSE delivery[d]

SweptEvents(d, t) ==
  IF SweptRow(d, t).state = delivery[d].state THEN events[d]
  ELSE Append(events[d], <<delivery[d].state, SweptRow(d, t).state>>)

-----------------------------------------------------------------------------
Init ==
  /\ now = 0
  /\ message = [m \in Messages |-> NoMessage]
  /\ delivery = [d \in Deliveries |-> NoRow]
  /\ receipts = [d \in Deliveries |-> {}]
  /\ events = [d \in Deliveries |-> <<>>]

Tick ==
  /\ now < MaxTime
  /\ now' = now + 1
  /\ UNCHANGED <<message, delivery, receipts, events>>

Queued(m) == message[m].maxAttempts # 0

\* queue_message: one message row and one QUEUED delivery per unique client.
\* MaxTime bounds the expiry so that every queued message can expire.
QueueMessage(m, targets, created, delay, ttl, limit) ==
  /\ ~Queued(m)
  /\ targets # {}
  /\ Cardinality(targets) + Cardinality({d \in Deliveries : delivery[d].state # "NONE"}) <= MaxDeliveries
  /\ delay < ttl
  /\ created + ttl <= MaxTime
  /\ message' = [message EXCEPT ![m] =
       [created |-> created, notBefore |-> created + delay,
        expires |-> created + ttl, maxAttempts |-> limit]]
  /\ delivery' = [d \in Deliveries |->
       IF d[1] = m /\ ClientOf(d) \in targets
       THEN [NoRow EXCEPT !.state = "QUEUED", !.nextAttempt = created + delay]
       ELSE delivery[d]]
  /\ events' = [d \in Deliveries |->
       IF d[1] = m /\ ClientOf(d) \in targets
       THEN Append(events[d], <<"NONE", "QUEUED">>) ELSE events[d]]
  /\ UNCHANGED <<now, receipts>>

-----------------------------------------------------------------------------
(* claim_pending_deliveries: sweep the client's rows, then lease the first *)
(* BatchLimit due ones.  Delivery ids are random, so ties go either way.   *)

Due(c, t) == {d \in Deliveries :
  /\ ClientOf(d) = c
  /\ SweptRow(d, t).state \in {"QUEUED", "FAILED"}
  /\ SweptRow(d, t).nextAttempt <= t
  /\ MessageOf(d).notBefore <= t
  /\ MessageOf(d).expires > t
  /\ delivery[d].attempts < MessageOf(d).maxAttempts}

\* Mutated form: no ORDER BY.
NotAfter_Unordered(d, e, t) == TRUE

\* ORDER BY next_attempt_at, queued_at
NotAfter(d, e, t) ==
  \/ SweptRow(d, t).nextAttempt < SweptRow(e, t).nextAttempt
  \/ /\ SweptRow(d, t).nextAttempt = SweptRow(e, t).nextAttempt
     /\ MessageOf(d).created <= MessageOf(e).created

Batches(c, t) == {B \in SUBSET Due(c, t) :
  /\ Cardinality(B) <= BatchLimit
  /\ B = Due(c, t) \/ Cardinality(B) = BatchLimit
  /\ \A d \in B, e \in Due(c, t) \ B : NotAfter(d, e, t)}

LeasedRow(row, t) ==
  [row EXCEPT !.state = "DISPATCHED", !.attempts = row.attempts + 1,
              !.lease = t + LeaseSeconds, !.token = row.attempts + 1]

ClaimedRow(d, c, t, batch) ==
  IF d \in batch THEN LeasedRow(SweptRow(d, t), t)
  ELSE IF ClientOf(d) = c THEN SweptRow(d, t) ELSE delivery[d]

\* Mutated form: the event names the state the row had before the sweep.
ClaimedEvents_StaleFrom(d, c, t, batch) ==
  IF d \in batch
  THEN Append(SweptEvents(d, t), <<delivery[d].state, "DISPATCHED">>)
  ELSE IF ClientOf(d) = c THEN SweptEvents(d, t) ELSE events[d]

ClaimedEvents(d, c, t, batch) ==
  IF d \in batch
  THEN Append(SweptEvents(d, t), <<SweptRow(d, t).state, "DISPATCHED">>)
  ELSE IF ClientOf(d) = c THEN SweptEvents(d, t) ELSE events[d]

Claim(c, t, batch) ==
  /\ delivery' = [d \in Deliveries |-> ClaimedRow(d, c, t, batch)]
  /\ events' = [d \in Deliveries |-> ClaimedEvents(d, c, t, batch)]
  /\ UNCHANGED <<now, message, receipts>>

-----------------------------------------------------------------------------
(* acknowledge_delivery: the checks in the order the code makes them.      *)

AckOutcome(c, d, token, receipt, t) ==
  IF receipt \in receipts[d] THEN "idempotent"
  ELSE IF delivery[d].state = "NONE" THEN "missing"
  ELSE IF ClientOf(d) # c THEN "forbidden"
  ELSE IF delivery[d].state = "ACKNOWLEDGED" THEN "idempotent"
  ELSE IF delivery[d].state # "DISPATCHED" THEN "wrong_state"
  ELSE IF delivery[d].lease < t THEN "lease_over"
  ELSE IF delivery[d].token # token THEN "forbidden"
  ELSE "accepted"

\* Mutated form: the delivery row is not updated after the receipt is stored.
Acknowledge_ReceiptOnly(c, d, token, receipt, t) ==
  /\ AckOutcome(c, d, token, receipt, t) = "accepted"
  /\ receipts' = [receipts EXCEPT ![d] = @ \cup {receipt}]
  /\ UNCHANGED <<now, message, delivery, events>>

Acknowledge(c, d, token, receipt, t) ==
  /\ AckOutcome(c, d, token, receipt, t) = "accepted"
  /\ receipts' = [receipts EXCEPT ![d] = @ \cup {receipt}]
  /\ delivery' = [delivery EXCEPT ![d] = Closed(@, "ACKNOWLEDGED")]
  /\ events' = [events EXCEPT ![d] = Append(@, <<"DISPATCHED", "ACKNOWLEDGED">>)]
  /\ UNCHANGED <<now, message>>

\* record_delivery_failure: no lease check, the token alone decides.
RecordFailure(c, d, token, retry, t) ==
  /\ ClientOf(d) = c
  /\ delivery[d].state = "DISPATCHED"
  /\ delivery[d].token = token
  /\ delivery' = [delivery EXCEPT ![d] =
       [Closed(@, "FAILED") EXCEPT !.nextAttempt = t + retry]]
  /\ events' = [events EXCEPT ![d] = Append(@, <<"DISPATCHED", "FAILED">>)]
  /\ UNCHANGED <<now, message, receipts>>

\* expire_due_deliveries: the sweep over every client of the organization.
ExpireDue(t) ==
  /\ delivery' = [d \in Deliveries |-> SweptRow(d, t)]
  /\ events' = [d \in Deliveries |-> SweptEvents(d, t)]
  /\ UNCHANGED <<now, message, receipts>>

\* A client may present any token it was ever given, or none (0).
Tokens(d) == 0..delivery[d].attempts

ClaimSome(c, t) == \E batch \in Batches(c, t) : Claim(c, t, batch)

Next ==
  \/ Tick
  \/ \E m \in Messages, targets \in SUBSET Clients, t \in Anchors,
        delay \in Delays, ttl \in Ttls, limit \in AttemptLimits :
       QueueMessage(m, targets, t, delay, ttl, limit)
  \/ \E c \in Clients, t \in Anchors : ClaimSome(c, t)
  \/ \E c \in Clients, d \in Deliveries, t \in Anchors, receipt \in ReceiptIds :
       \E token \in Tokens(d) : Acknowledge(c, d, token, receipt, t)
  \/ \E c \in Clients, d \in Deliveries, t \in Anchors, retry \in Retries :
       \E token \in Tokens(d) : RecordFailure(c, d, token, retry, t)
  \/ \E t \in Anchors : ExpireDue(t)

Spec == Init /\ [][Next]_vars

\* The agent of a client heartbeats for ever, and every heartbeat claims.
\* Nothing in the product calls expire_due_deliveries, so it is not fair.
Fairness == WF_vars(Tick) /\ \A c \in Clients : WF_vars(ClaimSome(c, now))

FairSpec == Spec /\ Fairness

-----------------------------------------------------------------------------
(* delivery_report (service.py): the "complete" flag of a message.         *)

\* Mutated form: every failure counts, as in the report of delivery.py.
Settled_AnyFailure(d) == delivery[d].state \in {"ACKNOWLEDGED", "EXPIRED", "FAILED"}

Settled(d) ==
  \/ delivery[d].state \in {"ACKNOWLEDGED", "EXPIRED"}
  \/ delivery[d].state = "FAILED" /\ Exhausted(d)

Rows(m) == {d \in Deliveries : d[1] = m /\ delivery[d].state # "NONE"}

Complete(m) == Rows(m) # {} /\ \A d \in Rows(m) : Settled(d)

-----------------------------------------------------------------------------
(* Properties.                                                             *)

\* Every variable has its type.
TypeOK ==
  /\ now \in Nat
  /\ message \in [Messages -> MessageRow]
  /\ delivery \in [Deliveries -> DeliveryRow]
  /\ receipts \in [Deliveries -> SUBSET ReceiptIds]
  /\ events \in [Deliveries -> Seq(RowStates \X RowStates)]

\* A dispatch token is stored exactly while its lease runs, and it is the one
\* issued by the latest attempt: whatever path closed a lease (sweep, failure,
\* acknowledgement, retry) also cleared the token, so an older token that a
\* slow client still holds can never match.
LeaseConsistent == \A d \in Deliveries :
  /\ delivery[d].state = "DISPATCHED" <=> delivery[d].token # NoToken
  /\ delivery[d].state = "DISPATCHED" <=> delivery[d].lease # NoLease
  /\ delivery[d].token \in {NoToken, delivery[d].attempts}

\* A delivery is ACKNOWLEDGED exactly when one receipt is stored for it, never
\* more, whatever receipt ids its client retries with, so the idempotent answer
\* of acknowledge_delivery never vouches for a delivery that is not done.
AcknowledgedOnce == \A d \in Deliveries :
  /\ delivery[d].state = "ACKNOWLEDGED" <=> receipts[d] # {}
  /\ \A r1, r2 \in receipts[d] : r1 = r2

\* The event rows of a delivery are one unbroken path from QUEUED to its
\* present state, and they record one dispatch per attempt counted.
AuditTrail == \A d \in Deliveries :
  LET trail == events[d]
      dispatches == {i \in DOMAIN trail : trail[i][2] = "DISPATCHED"}
  IN /\ \A i \in 1..Len(trail) - 1 : trail[i][2] = trail[i + 1][1]
     /\ delivery[d].state = IF trail = <<>> THEN "NONE" ELSE trail[Len(trail)][2]
     /\ Cardinality(dispatches) = delivery[d].attempts

\* The retry budget: no interleaving of sweeps, failures and claims hands a
\* message out more often than max_attempts.
WithinBudget == \A d \in Deliveries :
  delivery[d].attempts <= MessageOf(d).maxAttempts

\* Once delivery_report calls a message complete it never takes that back,
\* although a delivery that ran out of attempts may still turn EXPIRED.
CompleteIsStable == [][\A m \in Messages : Complete(m) => Complete(m)']_vars

\* A transaction hands out a new token only when no other lease on the delivery
\* still runs, its backoff and not_before have passed, and the message could
\* still be alive at an anchor the transaction may have read.
LeaseExclusive == [][\A d \in Deliveries :
  delivery'[d].token \notin {NoToken, delivery[d].token} =>
    /\ delivery[d].lease <= now
    /\ delivery[d].state # "DISPATCHED" => delivery[d].nextAttempt <= now
    /\ MessageOf(d).notBefore <= now
    /\ now < MessageOf(d).expires + AnchorLag]_vars

\* A claim limited to BatchLimit rows never passes over a delivery that became
\* available earlier: whatever is left waiting, re-queued or backed off after a
\* hand-out has a later next_attempt_at than what was handed out.
NoOvertaking == [][\A d, e \in Deliveries :
    /\ ClientOf(d) = ClientOf(e)
    /\ delivery'[d].token \notin {NoToken, delivery[d].token}
    /\ delivery'[e].state \in {"QUEUED", "FAILED"}
    /\ ~Settled(e)'
  => delivery'[d].nextAttempt <= delivery'[e].nextAttempt]_vars

\* If clients keep heartbeating, every queued message becomes complete: it is
\* acknowledged, out of attempts, or swept once its TTL has passed.
EventuallyComplete == \A m \in Messages : Queued(m) ~> Complete(m)

-----------------------------------------------------------------------------
(* The refinement mapping to what the service promises.  A FAILED row is   *)
(* waiting until its attempts are used up: only then is it given up.       *)

PromisedStatus(d) ==
  CASE delivery[d].state = "NONE" -> "absent"
    [] delivery[d].state = "QUEUED" -> "waiting"
    [] delivery[d].state = "DISPATCHED" -> "out"
    [] delivery[d].state = "FAILED" -> IF Exhausted(d) THEN "given_up" ELSE "waiting"
    [] delivery[d].state = "ACKNOWLEDGED" -> "acknowledged"
    [] delivery[d].state = "EXPIRED" -> "expired"

PromisedTries(d) ==
  [used |-> delivery[d].attempts,
   limit |-> IF delivery[d].state = "NONE" THEN 0 ELSE MessageOf(d).maxAttempts]

Promise == INSTANCE DeliveryPromise WITH
  status <- [d \in Deliveries |-> PromisedStatus(d)],
  tries <- [d \in Deliveries |-> PromisedTries(d)]

\* The transactions of delivery.py implement the promise, sweeps of many rows
\* and lapsed leases re-leased within one claim included.
ImplementsPromise == Promise!Spec

=============================================================================
