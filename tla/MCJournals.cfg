SPECIFICATION Spec
CONSTANTS
    Txns = {t1, t2}
    Clerks = {t1}
    Closers = {t2}
    NoTxn = NoTxn
    olga = olga
    amir = amir
    Users = {olga, amir}
    NoUser = NoUser
    RoleOf <- MCRoleOf
    Periods <- TwoPeriods
    MaxPerPeriod = 1
    Scopes = {"entity"}
    LockTypes = {"SOFT_CLOSED", "HARD_CLOSED"}
    require_reviewer = TRUE
    require_distinct_poster = TRUE
INVARIANTS HardClosedIsSettled FourEyes
PROPERTY ClosedPeriodOnlyReversed
