SPECIFICATION FairSpec
CONSTANTS
  m1 = m1  m2 = m2  c1 = c1  c2 = c2  r1 = r1  r2 = r2
  Messages <- TwoMessages
  Clients <- TwoClients
  ReceiptIds <- TwoReceipts
  Ttls <- TheTtls
  Delays <- OneDelay
  Retries <- TheRetries
  AttemptLimits <- TheLimits
  LeaseSeconds = 2
  BatchLimit = 1
  AnchorLag = 1
  MaxDeliveries = 2
  MaxTime = 4
INVARIANTS AcknowledgedOnce AuditTrail
PROPERTIES CompleteIsStable LeaseExclusive ImplementsPromise NoOvertaking EventuallyComplete
