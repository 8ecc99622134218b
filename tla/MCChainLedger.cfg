SPECIFICATION FairSpec
CONSTANTS
    t1 = t1
    t2 = t2
    audit = audit
    journal = journal
    k1 = k1
    k2 = k2
    NoTxn = NoTxn
    Txns <- MCTxns
    Chains <- MCChains
    AuditChain = audit
    LockKeys = {k1, k2}
    LockKeyOf <- MCLockKeyOf
    Data = {d1}
    Times <- MCTimes
    MaxRows = 2
INVARIANTS
    NoFork
    CommittedChainVerifies
    AuditorFindsChainIntact
PROPERTIES TailHashesExtendHistory TransactionsEnd
