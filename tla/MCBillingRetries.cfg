SPECIFICATION Spec
CONSTANTS
    w1 = w1
    r1 = r1
    Workers = {w1}
    Requests = {}
    Signups <- FreshSignups
    MaxRetries = 3
    MaxEvents = 3
    MaxOthers = 0
    MaxCleanups = 0
INVARIANT ThirdFailureCancels
CHECK_DEADLOCK FALSE
