--------------------------- MODULE MCMessageDelivery --------------------------
(* Bounds for TLC: a lease is two ticks, an anchor may lag by one tick, and  *)
(* of the four possible deliveries any two are queued: two messages for one  *)
(* client, one message for two, or one each.                                 *)
EXTENDS MessageDelivery

CONSTANTS m1, m2, c1, c2, r1, r2

TwoMessages == {m1, m2}
TwoClients == {c1, c2}
TwoReceipts == {r1, r2}

TheTtls == {3, 4}
OneDelay == {1}
TheRetries == {1}
TheLimits == {1, 2}
=============================================================================
