SPECIFICATION Spec
CONSTANTS
    Txns = {t1, t2}
    NoTxn = NoTxn
    NoKey = NoKey
    t1 = t1
    t2 = t2
    e1 = e1
    e2 = e2
    key1 = key1
    key2 = key2
    key3 = key3
    DefaultEntity = e1
    Calls <- SharedItem
    RetryKeys = {key1}
    approval_required = FALSE
INVARIANT BatchAccountsForItems
SYMMETRY SessionSymmetry
