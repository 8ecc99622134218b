SPECIFICATION FairSpec
CONSTANTS
    e1 = e1
    e2 = e2
    ppa = ppa
    ma = ma
    s1 = s1
    s2 = s2
    priced = priced
    free = free
    Engagements = {e1, e2}
    Allocations = {ppa}
    Workspaces = {ma}
    Requests = {s1, s2}
    Templates = {priced, free}
    Cost <- CostOf
    Price <- PriceOf
    SharePct = 60
    TopUps = {2, 4}
    MaxGranted = 6
    MaxRuns = 2
    MaxCrashes = 1
INVARIANTS PaidForWork ResultsAreSettled SpentOnServices EarningsCoveredBySales
PROPERTIES QueuedRunsEnd
CHECK_DEADLOCK FALSE
