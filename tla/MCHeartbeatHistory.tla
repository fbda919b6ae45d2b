-------------------------- MODULE MCHeartbeatHistory --------------------------
(* Bounds for TLC: a tick is one heartbeat interval.                         *)
EXTENDS HeartbeatHistory

SomeGrowth == {0, 2}
NoGrowth == {0}
SteadyGrowth == {1}
ShortDelay == {1}
LongDelay == {1, 3}
=============================================================================
