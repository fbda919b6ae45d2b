SPECIFICATION SystemSpec
CONSTANTS
  m1 = m1  m2 = m2  a = a  rid = rid  n1 = n1  n2 = n2
  Messages <- OneMessage
  Clients <- AgentOnly
  ReceiptIds <- TheReceipt
  Agent = a
  Notifiers <- TwoSessions
  ReceiptId = rid
  Ttls <- LongTtl
  Delays <- NoDelay
  Retries <- TheRetries
  AttemptLimits <- TwoAttempts
  LeaseSeconds = 2
  BatchLimit = 2
  AnchorLag = 0
  MaxDeliveries = 1
  MaxTime = 5
  Interval = 1
  AuthPause = 3
  RetryDelays <- TheDelays
  Prompt = FALSE
  FileErrors = FALSE
  MaxCrashes = 1
SYMMETRY Symmetry
INVARIANTS AcknowledgedWasDisplayed ShownOnce DisplayRemembered LocalAckIsServerAck FileGoneToAnother
