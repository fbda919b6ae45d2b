SPECIFICATION FairSystemSpec
CONSTANTS
  m1 = m1  m2 = m2  a = a  rid = rid  n1 = n1  n2 = n2
  Messages <- OneMessage
  Clients <- AgentOnly
  ReceiptIds <- TheReceipt
  Agent = a
  Notifiers <- OneSession
  ReceiptId = rid
  Ttls <- TenTtl
  Delays <- NoDelay
  Retries <- TheRetries
  AttemptLimits <- ThreeAttempts
  LeaseSeconds = 2
  BatchLimit = 2
  AnchorLag = 0
  MaxDeliveries = 1
  MaxTime = 10
  Interval = 3
  AuthPause = 5
  RetryDelays <- TheDelays
  Prompt = TRUE
  FileErrors = FALSE
  MaxCrashes = 0
PROPERTIES DisplayedIsAcknowledged
