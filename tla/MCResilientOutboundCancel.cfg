CONSTANTS
    Threshold = 2
    BaseCooldown = 1
    MaxCooldown = 2
    MaxCallbacks = 1
    MaxPending = 1
    Requests = {r1, r2}
    MaxAttempts = 2
    Cancels = {r1}
SPECIFICATION AnsweredRSpec
PROPERTY HalfOpenResolves
