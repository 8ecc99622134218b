SPECIFICATION FairSpec
CONSTANTS
    w1 = w1
    r1 = r1
    Workers = {w1}
    Requests = {r1}
    Signups <- SomeSignups
    MaxRetries = 3
    MaxEvents = 2
    MaxOthers = 1
    MaxCleanups = 1
INVARIANTS AppliedOnce PaymentsExplainInvoice PaidIsConfirmed CancelledAfterRetries
PROPERTIES ClaimIsFinal PastDueEnds
CHECK_DEADLOCK FALSE
