SPECIFICATION FairSpec
CONSTANTS
    t1 = t1
    none = none
    MaxWorkers = 2
    Tasks = {t1}
    None = none
    MaxCalls = 3
    MailboxSize = 1
    MaxFaults = 1
INVARIANTS TypeOK MessageKept KillTakesHold RunningIsRegistered EndsOnce BindingFollowsEvents
PROPERTIES EverythingSettles
CHECK_DEADLOCK FALSE
