SPECIFICATION Spec
CONSTANTS
    t1 = t1
    t2 = t2
    r1 = r1
    r2 = r2
    NoTxn = NoTxn
    Txns <- MCTxns2
    ReservationIds <- MCIds
    Amounts = {1, 2}
    MaxEntries = 5
SYMMETRY MCSymmetry2
INVARIANTS
    NoOverdraft
    ReservedIsPending
    LedgerExplainsBalance
    SettledOnce
    LockOrder
PROPERTIES ImplementsAccount
