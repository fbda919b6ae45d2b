--------------------------- MODULE MCMessageSystem ---------------------------
(* Bounds for TLC.  In the safety run and that of the slow agent one tick is a *)
(* minute: the default lease is two ticks, the default heartbeat interval one. *)
(* In the liveness run a tick is half a cycle, some 31 s (the sleep of 60 s    *)
(* and the cycle's own work): the interval is two ticks and the lease of 120 s *)
(* three, alive one cycle after its claim and over after two.  BackedOff is    *)
(* _retry_delay after each failure: 5, 10 and 20 s are over by the next cycle, *)
(* 40 to 50 s take two ticks, 80 to 100 s three, 160 to 200 s six (the shorter *)
(* of six and seven), and the last stands for all the later, longer ones.      *)
EXTENDS MessageSystem, TLC

CONSTANTS m1, m2, a, rid, n1, n2

OneMessage == {m1}
TwoMessages == {m1, m2}
AgentOnly == {a}
TheReceipt == {rid}
OneSession == {n1}
TwoSessions == {n1, n2}
Symmetry == Permutations(TwoSessions)
NoDelay == {0}
LongTtl == {5}
TenTtl == {10}
TwentyOneTtl == {21}
TheRetries == {1}
TwoAttempts == {2}
ThreeAttempts == {3}
TheDelays == <<1>>
BackedOff == <<1, 1, 1, 2, 3, 6>>
FiveOrOne == {1, 5}
=============================================================================
