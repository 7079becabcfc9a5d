SPECIFICATION WebhookFairSpec
CONSTANTS
    Handlers = {h1, h2}
    MaxVer = 2
    MaxFaults = 2
INVARIANTS
    RecordFollowsEffect
    ReplayIsSkipped
PROPERTIES
    SetBackOnlyByRace
    EventuallyHandled
CHECK_DEADLOCK FALSE
