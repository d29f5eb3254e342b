SPECIFICATION MCSpec
CONSTANTS
    Instance = {i1, i2}
    Handler = {h1, h2}
    i1 = i1
    e1 = e1
    e2 = e2
    e3 = e3
    e4 = e4
    Event = {e1, e2, e3, e4}
    OccurredAt <- MCOccurredAt
    NewTier <- MCNewTier
    Signed = {e1, e2, e3}
    Lead = 1
    Latency = 1
    MaxEventAge = 2
    EventDedupTTL = 4
    MaxTime = 4
    MaxInbox = 1
INVARIANTS TypeOK PassedOnce SkippedIsAccountedFor TierIsHighestRaised CleanStopSendsAll
PROPERTIES KeepsListening QuitEnds
