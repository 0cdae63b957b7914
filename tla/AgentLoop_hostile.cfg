SPECIFICATION Spec
CONSTANTS
  Messages = {m1, m2}
  SteeringMode = "all"
  FollowUpMode = "one-at-a-time"
  MaxCalls = 2
  MaxRequests = 1
  MaxFaults = 1
  EpochCanGoStale = TRUE
  TextCallRecovery = FALSE
CHECK_DEADLOCK FALSE
INVARIANTS
  DeliveredOnce
  NeverAskAfterAssistant
  AskWithTranscript
  EndReportsTranscript
PROPERTIES
  RunSettles
