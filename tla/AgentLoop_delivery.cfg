SPECIFICATION Spec
CONSTANTS
  Messages = {m1, m2, m3}
  SteeringMode = "one-at-a-time"
  FollowUpMode = "all"
  MaxCalls = 2
  MaxRequests = 2
  MaxFaults = 0
  EpochCanGoStale = FALSE
  TextCallRecovery = FALSE
SYMMETRY Symmetry
CHECK_DEADLOCK FALSE
INVARIANTS
  TypeOK
  NoMessageLost
  QueuesAreFIFO
  SteeringBeforeFollowUp
  CallsAnswered
  NoCallPendingAtTurnEnd
PROPERTIES
  ImplementsDelivery
