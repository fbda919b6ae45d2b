--------------------------- MODULE DeliveryPromise ---------------------------
(***************************************************************************)
(* What the message service promises the operator who queues a message,    *)
(* without clocks, leases, tokens or rows: a delivery is offered, handed   *)
(* out at most `limit` times, and ends acknowledged, given up or expired.  *)
(* Only a delivery that is out with the client is acknowledged, one at a   *)
(* time; any set of deliveries may be handed out, taken back or expired by *)
(* one step.                                                               *)
(***************************************************************************)
EXTENDS Naturals

CONSTANT Deliveries

VARIABLES
  status,   \* where a delivery stands
  tries     \* [used, limit]: times handed out, and how often it may be

promise == <<status, tries>>

Init ==
  /\ status = [d \in Deliveries |-> "absent"]
  /\ tries = [d \in Deliveries |-> [used |-> 0, limit |-> 0]]

CanRetry(d) == tries[d].used < tries[d].limit

Becomes(d, new) == status'[d] = new /\ tries'[d] = tries[d]

Offered(d) ==
  /\ status[d] = "absent"
  /\ status'[d] = "waiting"
  /\ tries'[d].used = 0
  /\ tries'[d].limit > 0

\* A delivery whose client let the last hand-out lapse may go out again at once.
HandedOut(d) ==
  /\ status[d] \in {"waiting", "out"}
  /\ CanRetry(d)
  /\ status'[d] = "out"
  /\ tries'[d] = [tries[d] EXCEPT !.used = @ + 1]

TakenBack(d) ==
  /\ status[d] = "out"
  /\ Becomes(d, IF CanRetry(d) THEN "waiting" ELSE "given_up")

Expired(d) ==
  /\ status[d] \in {"waiting", "out", "given_up"}
  /\ Becomes(d, "expired")

Same(d) == Becomes(d, status[d])

Acknowledge ==
  \E d \in Deliveries :
    /\ status[d] = "out"
    /\ Becomes(d, "acknowledged")
    /\ \A e \in Deliveries \ {d} : Same(e)

Offer == \A d \in Deliveries : Offered(d) \/ Same(d)

Advance == \A d \in Deliveries :
  HandedOut(d) \/ TakenBack(d) \/ Expired(d) \/ Same(d)

Next == Offer \/ Acknowledge \/ Advance

Spec == Init /\ [][Next]_promise
=============================================================================
