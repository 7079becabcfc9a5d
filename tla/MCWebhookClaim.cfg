SPECIFICATION WebhookSpec
CONSTANTS
    Handlers = {h1, h2}
    MaxVer = 2
    MaxFaults = 2
INVARIANT RecordNeverClaimsTooMuch
CHECK_DEADLOCK FALSE
