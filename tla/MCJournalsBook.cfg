SPECIFICATION Spec
CONSTANTS
    Txns = {t1, t2}
    Clerks = {t1, t2}
    Closers = {t2}
    NoTxn = NoTxn
    olga = olga
    amir = amir
    Users = {olga, amir}
    NoUser = NoUser
    RoleOf <- MCRoleOf
    Periods <- OnePeriod
    MaxPerPeriod = 2
    Scopes = {"entity"}
    LockTypes = {"HARD_CLOSED"}
    require_reviewer = FALSE
    require_distinct_poster = FALSE
INVARIANTS PostedOnce ReversedOnce
PROPERTY ImplementsBook
