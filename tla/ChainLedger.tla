------------------------------ MODULE ChainLedger ------------------------------
(***************************************************************************)
(* The tamper-evident ledgers of FinanceOps.  Every financial table and    *)
(* the audit trail form, per tenant, one hash chain: a row stores the hash *)
(* of its predecessor and its own hash over its payload and that           *)
(* predecessor (utils/chain_hash.py, services/audit_writer.py,             *)
(* services/audit_service.py).  Rows are appended by request transactions  *)
(* that run concurrently at READ COMMITTED; what keeps a chain linear is   *)
(* an advisory lock per (table, tenant) that is taken before the tail is   *)
(* read and held to the end of the transaction.                            *)
(*                                                                         *)
(* The model has one action per database statement of an append, so that   *)
(* other transactions run between the lock, the tail query, the INSERT and *)
(* the COMMIT.                                                             *)
(***************************************************************************)
EXTENDS Naturals, Sequences, FiniteSets

CONSTANTS
    Txns,        \* database sessions, each running one transaction at a time
    Chains,      \* (table, tenant) pairs
    AuditChain,  \* audit_trail of the tenant
    LockKeys,    \* the 60-bit advisory lock keys
    LockKeyOf,   \* md5(table:tenant): keys of different chains may collide
    Data,        \* record payloads
    Times,       \* application clock readings stored in created_at
    NoTxn,       \* "nobody holds the lock"
    MaxRows      \* bound on the rows of one chain

ASSUME ChainAssumption ==
    /\ AuditChain \in Chains
    /\ LockKeyOf \in [Chains -> LockKeys]
    /\ NoTxn \notin Txns
    /\ Times \subseteq Nat
    /\ MaxRows \in Nat

VARIABLES
    table,    \* committed rows of each chain, in commit order
    pending,  \* rows flushed by a transaction and not yet committed
    lock,     \* holder of each advisory lock key
    pc,       \* which statement a session executes next
    target,   \* the chain the statement is about
    prev      \* previous_hash read by get_previous_hash_locked

vars == <<table, pending, lock, pc, target, prev>>

--------------------------------------------------------------------------------
(* Fault: the predecessor is left out of the hashed payload.               *)
HashWithoutPrevious(record_data, previous_hash) == <<record_data>>

(* A hash is the sequence of payloads it commits to, oldest first: equal   *)
(* hashes have equal payload and predecessor, as for SHA-256 without       *)
(* collisions.                                                             *)
GENESIS_HASH == <<>>

compute_chain_hash(record_data, previous_hash) ==
    Append(previous_hash, record_data)

Hash == Seq(Data)

Row == [data : Data, previous_hash : Hash, chain_hash : Hash, created_at : Times]

(* What a statement of t sees: all committed rows and its own.             *)
View(t, c) == table[c] \o pending[t][c]

(* Fault: the youngest row is taken for the tail.                          *)
TailsByClock(rows) ==
    {i \in DOMAIN rows : \A j \in DOMAIN rows : rows[j].created_at <= rows[i].created_at}

(* The rows nobody points to; the query takes the youngest of them.        *)
Tails(rows) ==
    {i \in DOMAIN rows :
        \A j \in DOMAIN rows : rows[j].previous_hash # rows[i].chain_hash}

(* The hash of the tail, or the genesis hash of an empty table.            *)
TailHash(rows) ==
    IF Tails(rows) = {}
    THEN GENESIS_HASH
    ELSE rows[CHOOSE i \in Tails(rows) :
                \A j \in Tails(rows) : rows[j].created_at <= rows[i].created_at].chain_hash

NoRows == [c \in Chains |-> <<>>]

Init ==
    /\ table = NoRows
    /\ pending = [t \in Txns |-> NoRows]
    /\ lock = [k \in LockKeys |-> NoTxn]
    /\ pc = [t \in Txns |-> "idle"]
    /\ target = [t \in Txns |-> AuditChain]
    /\ prev = [t \in Txns |-> GENESIS_HASH]

--------------------------------------------------------------------------------
(* A request opens its session; the transaction starts with it.            *)
Begin(t) ==
    /\ pc[t] = "idle"
    /\ pc' = [pc EXCEPT ![t] = "active"]
    /\ UNCHANGED <<table, pending, lock, target, prev>>

(* get_previous_hash_locked: SELECT pg_advisory_xact_lock is sent.         *)
RequestLock(t, c) ==
    /\ pc[t] = "active"
    /\ Len(View(t, c)) < MaxRows
    /\ pc' = [pc EXCEPT ![t] = "waiting"]
    /\ target' = [target EXCEPT ![t] = c]
    /\ UNCHANGED <<table, pending, lock, prev>>

(* Fault: a lock key in use does not block (pg_try_advisory_xact_lock with *)
(* its result ignored).                                                    *)
GrantLockUnchecked(t) ==
    /\ pc[t] = "waiting"
    /\ lock' = [lock EXCEPT ![LockKeyOf[target[t]]] = t]
    /\ pc' = [pc EXCEPT ![t] = "locked"]
    /\ UNCHANGED <<table, pending, target, prev>>

(* PostgreSQL grants it when the key is free, or at once to its holder.    *)
GrantLock(t) ==
    LET k == LockKeyOf[target[t]] IN
    /\ pc[t] = "waiting"
    /\ lock[k] \in {NoTxn, t}
    /\ lock' = [lock EXCEPT ![k] = t]
    /\ pc' = [pc EXCEPT ![t] = "locked"]
    /\ UNCHANGED <<table, pending, target, prev>>

(* Fault: the tail query does not see the rows this transaction flushed.   *)
ReadTailCommitted(t) ==
    /\ pc[t] = "locked"
    /\ prev' = [prev EXCEPT ![t] = TailHash(table[target[t]])]
    /\ pc' = [pc EXCEPT ![t] = "read"]
    /\ UNCHANGED <<table, pending, lock, target>>

(* The tail query, a statement of its own with a snapshot of its own.      *)
ReadTail(t) ==
    /\ pc[t] = "locked"
    /\ prev' = [prev EXCEPT ![t] = TailHash(View(t, target[t]))]
    /\ pc' = [pc EXCEPT ![t] = "read"]
    /\ UNCHANGED <<table, pending, lock, target>>

(* insert_financial_record / log_action flush the new row; a record written *)
(* with an AuditEvent goes on to log_action, which appends to the audit     *)
(* trail in the same transaction.  The locals target and prev are reset    *)
(* when their call is over.                                                *)
InsertRow(t, d, now, audited) ==
    LET c == target[t]
        row == [data |-> d, previous_hash |-> prev[t],
                chain_hash |-> compute_chain_hash(d, prev[t]), created_at |-> now]
    IN
    /\ pc[t] = "read"
    /\ audited => c # AuditChain
    /\ pending' = [pending EXCEPT ![t][c] = Append(@, row)]
    /\ pc' = [pc EXCEPT ![t] = IF audited THEN "waiting" ELSE "active"]
    /\ target' = [target EXCEPT ![t] = AuditChain]
    /\ prev' = [prev EXCEPT ![t] = GENESIS_HASH]
    /\ UNCHANGED <<table, lock>>

(* Fault: session-scoped locks (pg_advisory_lock) outlive the transaction. *)
KeepLocks(t) == UNCHANGED lock

(* The end of a transaction frees its transaction-scoped locks.            *)
ReleaseLocks(t) ==
    lock' = [k \in LockKeys |-> IF lock[k] = t THEN NoTxn ELSE lock[k]]

(* get_async_session commits when the handler returns.                     *)
Commit(t) ==
    /\ pc[t] = "active"
    /\ table' = [c \in Chains |-> View(t, c)]
    /\ pending' = [pending EXCEPT ![t] = NoRows]
    /\ ReleaseLocks(t)
    /\ pc' = [pc EXCEPT ![t] = "idle"]
    /\ UNCHANGED <<target, prev>>

Rollback(t) ==
    /\ pending' = [pending EXCEPT ![t] = NoRows]
    /\ ReleaseLocks(t)
    /\ pc' = [pc EXCEPT ![t] = "idle"]
    /\ target' = [target EXCEPT ![t] = AuditChain]
    /\ prev' = [prev EXCEPT ![t] = GENESIS_HASH]
    /\ UNCHANGED table

(* Any exception of the handler, or the loss of its connection, at any     *)
(* statement.                                                              *)
Fail(t) ==
    /\ pc[t] # "idle"
    /\ Rollback(t)

(* Transactions that wait for each other in a cycle: PostgreSQL's deadlock *)
(* detector fails the statement of one of them.                            *)
WaitCycle(S) ==
    /\ \A t \in S : pc[t] = "waiting"
    /\ {lock[LockKeyOf[target[t]]] : t \in S} = S

DeadlockAbort(t) ==
    /\ \E S \in SUBSET Txns : t \in S /\ Cardinality(S) > 1 /\ WaitCycle(S)
    /\ Rollback(t)

--------------------------------------------------------------------------------
Step(t) ==
    \/ Begin(t)
    \/ \E c \in Chains : RequestLock(t, c)
    \/ GrantLock(t)
    \/ ReadTail(t)
    \/ \E d \in Data, now \in Times, audited \in BOOLEAN : InsertRow(t, d, now, audited)
    \/ Commit(t)
    \/ Fail(t)
    \/ DeadlockAbort(t)

Next == \E t \in Txns : Step(t)

Spec == Init /\ [][Next]_vars

(* An open transaction keeps executing statements and ends: its handler is *)
(* finite, PostgreSQL serves lock waiters in order of arrival (hence strong *)
(* fairness of the grant) and breaks wait cycles after deadlock_timeout.   *)
Fairness ==
    \A t \in Txns :
        /\ SF_vars(GrantLock(t))
        /\ WF_vars(ReadTail(t))
        /\ WF_vars(\E d \in Data, now \in Times, audited \in BOOLEAN :
                        InsertRow(t, d, now, audited))
        /\ SF_vars(Commit(t))
        /\ WF_vars(DeadlockAbort(t))

FairSpec == Spec /\ Fairness

--------------------------------------------------------------------------------
(* verify_chain: the linkage and the recomputed hash of every record.      *)
verify_chain(records) ==
    \A i \in DOMAIN records :
        /\ records[i].previous_hash =
                (IF i = 1 THEN GENESIS_HASH ELSE records[i - 1].chain_hash)
        /\ records[i].chain_hash =
                compute_chain_hash(records[i].data, records[i].previous_hash)

(* verify_tenant_chain: follow previous_hash from the genesis hash, exactly *)
(* one successor and no revisited hash at each step, then verify_chain.    *)
Successors(rows, h) == {i \in DOMAIN rows : rows[i].previous_hash = h}

Follow(rows, ordered) ==
    LET h == IF ordered = <<>> THEN GENESIS_HASH ELSE ordered[Len(ordered)].chain_hash
        next == Successors(rows, h)
        node == rows[CHOOSE i \in next : TRUE]
    IN IF /\ Cardinality(next) = 1
          /\ \A i \in DOMAIN ordered : ordered[i].chain_hash # node.chain_hash
       THEN Append(ordered, node)
       ELSE ordered

WalkFrom(rows) ==
    LET walk[n \in 0..Len(rows)] == IF n = 0 THEN <<>> ELSE Follow(rows, walk[n - 1])
    IN walk[Len(rows)]

verify_tenant_chain(rows) ==
    /\ Len(WalkFrom(rows)) = Len(rows)
    /\ verify_chain(WalkFrom(rows))

--------------------------------------------------------------------------------
(* The state of the ledger is well typed.                                  *)
TypeOK ==
    /\ table \in [Chains -> Seq(Row)]
    /\ pending \in [Txns -> [Chains -> Seq(Row)]]
    /\ lock \in [LockKeys -> Txns \cup {NoTxn}]
    /\ pc \in [Txns -> {"idle", "active", "waiting", "locked", "read"}]
    /\ target \in [Txns -> Chains]
    /\ prev \in [Txns -> Hash]

(* No two committed rows of a chain name the same predecessor, however     *)
(* their transactions interleaved and whatever their clocks said           *)
(* (get_previous_hash_locked).                                             *)
NoFork ==
    \A c \in Chains : \A i, j \in DOMAIN table[c] :
        table[c][i].previous_hash = table[c][j].previous_hash => i = j

(* The committed rows of a chain, in the order they were committed, pass   *)
(* verify_chain: commit order is chain order although created_at is not.   *)
CommittedChainVerifies == \A c \in Chains : verify_chain(table[c])

(* An auditor who runs verify_tenant_chain at any moment finds the chain   *)
(* intact: the walk from the genesis hash reaches every committed row.     *)
AuditorFindsChainIntact == \A c \in Chains : verify_tenant_chain(table[c])

(* The previous_hash a transaction carries from the tail query to the      *)
(* INSERT is still the tail when the INSERT runs.                          *)
TailStillCurrent ==
    \A t \in Txns : pc[t] = "read" => prev[t] = TailHash(View(t, target[t]))

(* The tail hash of each committed chain commits to the whole history: the *)
(* ledger implements a list that only grows at its end.                    *)
Log == INSTANCE AppendOnlyLog WITH log <- [c \in Chains |-> TailHash(table[c])]
TailHashesExtendHistory == Log!Spec

(* Every transaction ends, also when several wait for each other's chains. *)
TransactionsEnd == \A t \in Txns : pc[t] # "idle" ~> pc[t] = "idle"

================================================================================
