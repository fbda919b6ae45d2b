SPECIFICATION FairSystemSpec
CONSTANTS
  m1 = m1  m2 = m2  a = a  rid = rid  n1 = n1  n2 = n2
  Messages <- TwoMessages
  Clients <- AgentOnly
  ReceiptIds <- TheReceipt
  Agent = a
  Notifiers <- OneSession
  ReceiptId = rid
  Ttls <- TwentyOneTtl
  Delays <- NoDelay
  Retries <- TheRetries
  AttemptLimits <- FiveOrOne
  LeaseSeconds = 3
  BatchLimit = 2
  AnchorLag = 0
  MaxDeliveries = 2
  MaxTime = 22
  Interval = 2
  AuthPause = 10
  RetryDelays <- BackedOff
  Prompt = TRUE
  FileErrors = FALSE
  MaxCrashes = 0
PROPERTIES DisplayedIsAcknowledged
