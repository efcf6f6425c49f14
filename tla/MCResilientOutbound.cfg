CONSTANTS
    Threshold = 2
    BaseCooldown = 1
    MaxCooldown = 3
    MaxCallbacks = 2
    MaxPending = 1
    Requests = {r1, r2}
    MaxAttempts = 2
    Cancels = {r1}
SPECIFICATION FairRSpec
INVARIANTS RequestTypeOK SingleProbe OpenHasTimer
PROPERTIES BackoffNeverShrinks ImplementsAbstract RequestsReturn CooldownEnds
