SPECIFICATION Spec
CONSTANTS
  t1 = t1  t2 = t2  root = root  guest = guest
  Threads <- TwoThreads
  Users <- TwoUsers
  Root <- root
  Limit = 2
  Window = 2
  TTL = 2
  MaxTime = 3
  MaxRequests = 3
  MaxFaults = 0
SYMMETRY Symmetry
INVARIANTS AuditChainVerifies
