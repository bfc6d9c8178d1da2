SPECIFICATION HealthSpec
CONSTANTS
    Events = {1, 2}
    Malformed = {2}
    Workers = {w1, w2}
    BatchSize = 2
    MaxAttempts = 2
    ClaimTTL = 1
    IdleLimit = 1
    Prompt = FALSE
    MaxCrashes = 1
    MaxRemediations = 1
PROPERTIES ParkedRowIsLeftAlone ImplementsRelay EventuallySettled ExhaustedIsReported
