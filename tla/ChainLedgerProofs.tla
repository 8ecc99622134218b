-------------------------- MODULE ChainLedgerProofs --------------------------
(***************************************************************************)
(* Proofs about ChainLedger, for every set of transactions, chains, lock   *)
(* keys (colliding or not), payloads and clock readings.                   *)
(***************************************************************************)
EXTENDS ChainLedger, FiniteSetTheorems, WellFoundedInduction, TLAPS

(* The number of rows a hash commits to is the row's place in its chain.   *)
Linear(rows) ==
    /\ verify_chain(rows)
    /\ \A i \in DOMAIN rows : Len(rows[i].chain_hash) = i

LastHash(rows) == IF rows = <<>> THEN GENESIS_HASH ELSE rows[Len(rows)].chain_hash

(* Only the holder of a chain's key is between its lock and its INSERT.    *)
LockedWhileAppending ==
    \A t \in Txns : pc[t] \in {"locked", "read"} => lock[LockKeyOf[target[t]]] = t

(* Only the holder of a chain's key has uncommitted rows in it.            *)
LockedWhilePending ==
    \A t \in Txns, c \in Chains : pending[t][c] # <<>> => lock[LockKeyOf[c]] = t

ViewsLinear ==
    /\ \A c \in Chains : Linear(table[c])
    /\ \A t \in Txns, c \in Chains : Linear(View(t, c))

(* TailStillCurrent with the tail of a linear chain spelled out.           *)
ReadIsLast ==
    \A t \in Txns : pc[t] = "read" => prev[t] = LastHash(View(t, target[t]))

(* The tail a transaction sees commits to all committed history.           *)
ViewsExtend ==
    \A t \in Txns, c \in Chains : Log!Extends(LastHash(table[c]), LastHash(View(t, c)))

IInv ==
    /\ TypeOK
    /\ LockedWhileAppending
    /\ LockedWhilePending
    /\ ViewsLinear
    /\ ReadIsLast
    /\ ViewsExtend

------------------------------------------------------------------------------
(* The hash compute_chain_hash returns commits to exactly one payload more *)
(* than the previous hash.                                                 *)
LEMMA HashOfRow ==
    ASSUME NEW d \in Data, NEW h \in Hash
    PROVE  /\ compute_chain_hash(d, h) \in Hash
           /\ Len(compute_chain_hash(d, h)) = Len(h) + 1
  BY DEF compute_chain_hash, Hash

(* The fields of the rows of a chain are well typed.                       *)
LEMMA RowOfSeq ==
    ASSUME NEW rows \in Seq(Row), NEW i \in DOMAIN rows
    PROVE  /\ rows[i] \in Row
           /\ rows[i].previous_hash \in Hash
           /\ rows[i].chain_hash \in Hash
           /\ rows[i].created_at \in Nat
PROOF
  <1>1. rows[i] \in Row
    OBVIOUS
  <1> QED
    BY <1>1, ChainAssumption DEF Row

------------------------------------------------------------------------------
(* In a linear chain the tail query, which looks for a row no row refers to*)
(* and breaks ties by created_at, finds the last row: there is no tie to   *)
(* break.                                                                  *)
LEMMA TailOfLinear ==
    ASSUME NEW rows \in Seq(Row), Linear(rows)
    PROVE  TailHash(rows) = LastHash(rows)
PROOF
  <1> DEFINE n == Len(rows)
  <1>1. CASE rows = <<>>
    <2>1. DOMAIN rows = {}
      BY <1>1
    <2>2. Tails(rows) = {}
      BY <2>1 DEF Tails
    <2> QED
      BY <1>1, <2>2 DEF TailHash, LastHash
  <1>2. CASE rows # <<>>
    <2>1. n \in Nat /\ n # 0 /\ DOMAIN rows = 1..n
      BY <1>2
    <2>2. \A i \in 1..n : /\ rows[i].previous_hash \in Hash
                          /\ rows[i].chain_hash \in Hash
                          /\ rows[i].created_at \in Nat
      BY <2>1, RowOfSeq
    <2>3. \A i \in 1..n : Len(rows[i].previous_hash) = i - 1
      <3> SUFFICES ASSUME NEW i \in 1..n
                   PROVE  Len(rows[i].previous_hash) = i - 1
        OBVIOUS
      <3>1. CASE i = 1
        BY <2>1, <3>1 DEF Linear, verify_chain, GENESIS_HASH
      <3>2. CASE i # 1
        <4>1. i - 1 \in 1..n
          BY <2>1, <3>2
        <4> QED
          BY <2>1, <3>2, <4>1 DEF Linear, verify_chain
      <3> QED
        BY <3>1, <3>2
    <2>4. n \in Tails(rows)
      BY <2>1, <2>3 DEF Tails, Linear
    <2>5. \A i \in Tails(rows) : i = n
      <3> SUFFICES ASSUME NEW i \in Tails(rows), i # n
                   PROVE  FALSE
        OBVIOUS
      <3>1. i \in 1..n /\ i + 1 \in 1..n
        BY <2>1 DEF Tails
      <3>2. rows[i + 1].previous_hash = rows[i].chain_hash
        <4>1. i + 1 # 1 /\ (i + 1) - 1 = i
          BY <3>1
        <4> QED
          BY <2>1, <3>1, <4>1 DEF Linear, verify_chain
      <3> QED
        BY <2>1, <3>1, <3>2 DEF Tails
    <2>6. Tails(rows) = {n}
      BY <2>4, <2>5
    <2>7. (CHOOSE i \in Tails(rows) :
              \A j \in Tails(rows) : rows[j].created_at <= rows[i].created_at) = n
      BY <2>1, <2>2, <2>6
    <2>8. Tails(rows) # {}
      BY <2>6
    <2> QED
      <3>1. TailHash(rows) =
               rows[CHOOSE i \in Tails(rows) :
                      \A j \in Tails(rows) : rows[j].created_at <= rows[i].created_at].chain_hash
        BY <2>8, Zenon DEF TailHash
      <3>2. TailHash(rows) = rows[n].chain_hash
        BY <2>7, <3>1, Zenon
      <3> QED
        BY <1>2, <3>2 DEF LastHash
  <1> QED
    BY <1>1, <1>2

(* A linear chain stays linear when a row is appended that refers to its   *)
(* last row and carries the hash compute_chain_hash gives it.              *)
LEMMA AppendLinear ==
    ASSUME NEW rows \in Seq(Row), Linear(rows), NEW row \in Row,
           row.previous_hash = LastHash(rows),
           row.chain_hash = compute_chain_hash(row.data, row.previous_hash)
    PROVE  Linear(Append(rows, row))
PROOF
  <1> DEFINE n == Len(rows)  new == Append(rows, row)
  <1>1. /\ n \in Nat /\ DOMAIN rows = 1..n /\ DOMAIN new = 1..(n + 1)
        /\ new[n + 1] = row
        /\ \A i \in 1..n : new[i] = rows[i]
    OBVIOUS
  <1>2. Len(row.previous_hash) = n
    <2>1. CASE rows = <<>>
      BY <2>1 DEF LastHash, GENESIS_HASH
    <2>2. CASE rows # <<>>
      BY <1>1, <2>2 DEF LastHash, Linear
    <2> QED
      BY <2>1, <2>2
  <1>3. Len(row.chain_hash) = n + 1
    BY <1>2, HashOfRow DEF Row
  <1>4. \A i \in DOMAIN new : Len(new[i].chain_hash) = i
    BY <1>1, <1>3 DEF Linear
  <1>5. verify_chain(new)
    <2> SUFFICES ASSUME NEW i \in 1..(n + 1)
                 PROVE  /\ new[i].previous_hash =
                             (IF i = 1 THEN GENESIS_HASH ELSE new[i - 1].chain_hash)
                        /\ new[i].chain_hash =
                             compute_chain_hash(new[i].data, new[i].previous_hash)
      BY <1>1 DEF verify_chain
    <2>1. CASE i = n + 1
      <3>1. CASE n = 0
        BY <1>1, <2>1, <3>1 DEF LastHash
      <3>2. CASE n # 0
        <4>1. /\ rows # <<>> /\ n \in 1..n
              /\ i # 1 /\ i - 1 = n
          BY <1>1, <2>1, <3>2
        <4>2. new[i - 1].chain_hash = LastHash(rows)
          BY <1>1, <4>1 DEF LastHash
        <4> QED
          BY <1>1, <2>1, <4>1, <4>2
      <3> QED
        BY <3>1, <3>2
    <2>2. CASE i # n + 1
      <3>1. i \in 1..n /\ (i # 1 => i - 1 \in 1..n)
        BY <1>1, <2>2
      <3> QED
        BY <1>1, <3>1 DEF Linear, verify_chain
    <2> QED
      BY <2>1, <2>2
  <1> QED
    BY <1>4, <1>5 DEF Linear

(* Appending to the pending rows appends to what their transaction sees.   *)
LEMMA ConcatAppend ==
    ASSUME NEW a \in Seq(Row), NEW b \in Seq(Row), NEW row \in Row
    PROVE  a \o Append(b, row) = Append(a \o b, row)
  OBVIOUS

(* A transaction without pending rows sees the committed ones.             *)
LEMMA ConcatEmpty ==
    ASSUME NEW a \in Seq(Row)
    PROVE  a \o <<>> = a
  OBVIOUS

(* The hash of the last row is a hash, the genesis hash of an empty chain  *)
(* included.                                                               *)
LEMMA LastHashType ==
    ASSUME NEW rows \in Seq(Row)
    PROVE  LastHash(rows) \in Hash
PROOF
  <1>1. CASE rows = <<>>
    BY <1>1 DEF LastHash, GENESIS_HASH, Hash
  <1>2. CASE rows # <<>>
    <2>1. Len(rows) \in DOMAIN rows
      BY <1>2
    <2> QED
      BY <1>2, <2>1, RowOfSeq DEF LastHash
  <1> QED
    BY <1>1, <1>2

(* A history extends itself.                                               *)
LEMMA ExtendsRefl ==
    ASSUME NEW h \in Hash
    PROVE  Log!Extends(h, h)
  BY DEF Log!Extends, Hash

(* The hash of one more row extends what the previous hash extended.       *)
LEMMA ExtendsAppend ==
    ASSUME NEW g \in Hash, NEW h \in Hash, NEW d \in Data, Log!Extends(g, h)
    PROVE  Log!Extends(g, compute_chain_hash(d, h))
  BY DEF Log!Extends, Hash, compute_chain_hash

(* What the tail query of a transaction looks at is a sequence of rows.    *)
LEMMA ViewType ==
    ASSUME TypeOK, NEW t \in Txns, NEW c \in Chains
    PROVE  View(t, c) \in Seq(Row)
  BY DEF View, TypeOK

------------------------------------------------------------------------------
(* Empty chains and free locks satisfy the inductive invariant.            *)
LEMMA InitIInv == Init => IInv
PROOF
  <1> SUFFICES ASSUME Init PROVE IInv
    OBVIOUS
  <1>1. TypeOK
    BY ChainAssumption DEF Init, TypeOK, NoRows, GENESIS_HASH, Hash
  <1>2. Linear(<<>>)
    BY DEF Linear, verify_chain
  <1>3. ViewsLinear
    BY <1>2, ConcatEmpty DEF Init, ViewsLinear, View, NoRows
  <1>4. ViewsExtend
    <2>1. LastHash(<<>>) \in Hash
      BY DEF LastHash, GENESIS_HASH, Hash
    <2>2. \A t \in Txns, c \in Chains : View(t, c) = <<>> /\ table[c] = <<>>
      BY ConcatEmpty DEF Init, View, NoRows
    <2> QED
      BY <2>1, <2>2, ExtendsRefl DEF ViewsExtend
  <1> QED
    BY <1>1, <1>3, <1>4 DEF Init, IInv, LockedWhileAppending, LockedWhilePending, ReadIsLast, NoRows

(* Ending a transaction without its rows: rollback after a failure or a    *)
(* deadlock.                                                               *)
LEMMA RollbackIInv ==
    ASSUME IInv, NEW t \in Txns, Rollback(t)
    PROVE  IInv'
PROOF
  <1> USE DEF IInv
  <1>1. TypeOK'
    BY ChainAssumption DEF TypeOK, Rollback, ReleaseLocks, NoRows, GENESIS_HASH, Hash
  <1>2. \A u \in Txns : u # t => \A k \in LockKeys : lock[k] = u => lock'[k] = u
    BY ChainAssumption DEF Rollback, ReleaseLocks, TypeOK
  <1>3. \A u \in Txns : u # t => /\ pc'[u] = pc[u] /\ target'[u] = target[u]
                                 /\ prev'[u] = prev[u] /\ pending'[u] = pending[u]
    BY DEF Rollback, TypeOK
  <1>4. pc'[t] = "idle" /\ (\A c \in Chains : pending'[t][c] = <<>>) /\ table' = table
    BY DEF Rollback, TypeOK, NoRows
  <1>5. LockedWhileAppending'
    <2> SUFFICES ASSUME NEW u \in Txns, pc'[u] \in {"locked", "read"}
                 PROVE  lock'[LockKeyOf[target'[u]]] = u
      BY DEF LockedWhileAppending
    <2>1. u # t /\ pc[u] \in {"locked", "read"} /\ target'[u] = target[u]
      BY <1>3, <1>4
    <2>2. lock[LockKeyOf[target[u]]] = u /\ LockKeyOf[target[u]] \in LockKeys
      BY <2>1, ChainAssumption DEF LockedWhileAppending, TypeOK
    <2> QED
      BY <1>2, <2>1, <2>2
  <1>6. LockedWhilePending'
    BY <1>2, <1>3, <1>4, ChainAssumption DEF LockedWhilePending
  <1>7. \A u \in Txns, c \in Chains :
            View(u, c)' = IF u = t THEN table[c] ELSE View(u, c)
    <2> SUFFICES ASSUME NEW u \in Txns, NEW c \in Chains
                 PROVE  View(u, c)' = IF u = t THEN table[c] ELSE View(u, c)
      OBVIOUS
    <2>1. CASE u = t
      BY <1>4, <2>1, ConcatEmpty DEF View, TypeOK
    <2>2. CASE u # t
      BY <1>3, <1>4, <2>2 DEF View
    <2> QED
      BY <2>1, <2>2
  <1>8. ViewsLinear'
    BY <1>4, <1>7 DEF ViewsLinear
  <1>9. ReadIsLast'
    <2> SUFFICES ASSUME NEW u \in Txns, pc'[u] = "read"
                 PROVE  prev'[u] = LastHash(View(u, target[u])')
      BY <1>3, <1>4 DEF ReadIsLast
    <2>1. u # t /\ pc[u] = "read" /\ target[u] \in Chains
      BY <1>3, <1>4 DEF TypeOK
    <2>2. View(u, target[u])' = View(u, target[u])
      BY <1>3, <1>7, <2>1
    <2> QED
      BY <1>3, <2>1, <2>2 DEF ReadIsLast
  <1>10. ViewsExtend'
    <2> SUFFICES ASSUME NEW u \in Txns, NEW c \in Chains
                 PROVE  Log!Extends(LastHash(table[c]), LastHash(View(u, c)'))
      BY <1>4 DEF ViewsExtend
    <2>1. LastHash(table[c]) \in Hash
      BY LastHashType DEF TypeOK
    <2> QED
      BY <1>7, <2>1, ExtendsRefl DEF ViewsExtend
  <1> QED
    BY <1>1, <1>5, <1>6, <1>8, <1>9, <1>10

(* COMMIT preserves the invariant: the rows that become visible extend a   *)
(* chain in which, by the advisory lock, nobody else has pending rows.     *)
LEMMA CommitIInv ==
    ASSUME IInv, NEW t \in Txns, Commit(t)
    PROVE  IInv'
PROOF
  <1> USE DEF IInv
  <1>1. TypeOK'
    BY ViewType, ChainAssumption DEF TypeOK, Commit, ReleaseLocks, NoRows
  <1>2. \A u \in Txns : u # t => \A k \in LockKeys : lock[k] = u => lock'[k] = u
    BY ChainAssumption DEF Commit, ReleaseLocks, TypeOK
  <1>3. \A u \in Txns : u # t => /\ pc'[u] = pc[u] /\ target'[u] = target[u]
                                 /\ prev'[u] = prev[u] /\ pending'[u] = pending[u]
    BY DEF Commit, TypeOK
  <1>4. /\ pc'[t] = "idle"
        /\ \A c \in Chains : pending'[t][c] = <<>> /\ table'[c] = View(t, c)
    BY DEF Commit, TypeOK, NoRows
  <1>5. LockedWhileAppending'
    <2> SUFFICES ASSUME NEW u \in Txns, pc'[u] \in {"locked", "read"}
                 PROVE  lock'[LockKeyOf[target'[u]]] = u
      BY DEF LockedWhileAppending
    <2>1. u # t /\ pc[u] \in {"locked", "read"} /\ target'[u] = target[u]
      BY <1>3, <1>4
    <2>2. lock[LockKeyOf[target[u]]] = u /\ LockKeyOf[target[u]] \in LockKeys
      BY <2>1, ChainAssumption DEF LockedWhileAppending, TypeOK
    <2> QED
      BY <1>2, <2>1, <2>2
  <1>6. LockedWhilePending'
    BY <1>2, <1>3, <1>4, ChainAssumption DEF LockedWhilePending
  (* Two transactions never have rows in the same chain, so publishing     *)
  (* those of t changes the view of u only where u has none.               *)
  <1>7. \A u \in Txns, c \in Chains :
            u # t => \/ View(u, c)' = View(u, c) /\ pending[t][c] = <<>>
                     \/ View(u, c)' = View(t, c) /\ lock[LockKeyOf[c]] = t
    <2> SUFFICES ASSUME NEW u \in Txns, NEW c \in Chains, u # t
                 PROVE  \/ View(u, c)' = View(u, c) /\ pending[t][c] = <<>>
                        \/ View(u, c)' = View(t, c) /\ lock[LockKeyOf[c]] = t
      OBVIOUS
    <2>1. View(u, c)' = View(t, c) \o pending[u][c]
      BY <1>3, <1>4 DEF View
    <2>2. CASE pending[t][c] = <<>>
      <3>1. View(t, c) = table[c]
        BY <2>2, ConcatEmpty DEF View, TypeOK
      <3> QED
        BY <2>1, <2>2, <3>1 DEF View
    <2>3. CASE pending[t][c] # <<>>
      <3>1. lock[LockKeyOf[c]] = t /\ pending[u][c] = <<>>
        BY <2>3 DEF LockedWhilePending
      <3> QED
        BY <2>1, <3>1, ViewType, ConcatEmpty
    <2> QED
      BY <2>2, <2>3
  <1>8. \A c \in Chains : View(t, c)' = View(t, c)
    BY <1>4, ViewType, ConcatEmpty DEF View
  <1>9. ViewsLinear'
    BY <1>4, <1>7, <1>8 DEF ViewsLinear
  <1>10. ReadIsLast'
    <2> SUFFICES ASSUME NEW u \in Txns, pc'[u] = "read"
                 PROVE  prev'[u] = LastHash(View(u, target[u])')
      BY <1>3, <1>4 DEF ReadIsLast
    <2>1. u # t /\ pc[u] = "read" /\ target[u] \in Chains
      BY <1>3, <1>4 DEF TypeOK
    <2>2. lock[LockKeyOf[target[u]]] = u
      BY <2>1 DEF LockedWhileAppending
    <2>3. View(u, target[u])' = View(u, target[u])
      BY <1>3, <1>7, <2>1, <2>2
    <2> QED
      BY <1>3, <2>1, <2>3 DEF ReadIsLast
  <1>11. ViewsExtend'
    <2> SUFFICES ASSUME NEW u \in Txns, NEW c \in Chains
                 PROVE  Log!Extends(LastHash(View(t, c)), LastHash(View(u, c)'))
      BY <1>4 DEF ViewsExtend
    <2>1. LastHash(View(t, c)) \in Hash
      BY LastHashType, ViewType
    <2>2. CASE u = t \/ View(u, c)' = View(t, c)
      BY <1>8, <2>1, <2>2, ExtendsRefl
    <2>3. CASE u # t /\ View(u, c)' = View(u, c) /\ pending[t][c] = <<>>
      <3>1. View(t, c) = table[c]
        BY <2>3, ConcatEmpty DEF View, TypeOK
      <3> QED
        BY <2>3, <3>1 DEF ViewsExtend
    <2> QED
      BY <1>7, <2>2, <2>3
  <1> QED
    BY <1>1, <1>5, <1>6, <1>9, <1>10, <1>11

(* The INSERT of a row preserves the invariant: the previous_hash it stores*)
(* is still that of the last row its transaction sees.                     *)
LEMMA InsertRowIInv ==
    ASSUME IInv, NEW t \in Txns, NEW d \in Data, NEW now \in Times,
           NEW audited \in BOOLEAN, InsertRow(t, d, now, audited)
    PROVE  IInv'
PROOF
  <1> USE DEF IInv
  <1> DEFINE c0 == target[t]
             row == [data |-> d, previous_hash |-> prev[t],
                     chain_hash |-> compute_chain_hash(d, prev[t]), created_at |-> now]
  <1>1. row \in Row /\ c0 \in Chains
    BY HashOfRow DEF Row, TypeOK
  <1>2. pc[t] = "read" /\ lock[LockKeyOf[c0]] = t
    BY DEF InsertRow, LockedWhileAppending
  <1>3. pending' = [pending EXCEPT ![t][c0] = Append(@, row)]
    BY DEF InsertRow
  <1>4. /\ table' = table /\ lock' = lock
        /\ pc' = [pc EXCEPT ![t] = IF audited THEN "waiting" ELSE "active"]
        /\ target' = [target EXCEPT ![t] = AuditChain]
        /\ prev' = [prev EXCEPT ![t] = GENESIS_HASH]
    BY DEF InsertRow
  <1>5. \A u \in Txns, c \in Chains :
            pending'[u][c] = IF u = t /\ c = c0 THEN Append(pending[t][c0], row)
                             ELSE pending[u][c]
    BY <1>1, <1>3 DEF TypeOK
  <1>6. TypeOK'
    <2>1. pending' \in [Txns -> [Chains -> Seq(Row)]]
      <3>1. Append(pending[t][c0], row) \in Seq(Row)
        BY <1>1 DEF TypeOK
      <3> QED
        BY <1>1, <1>3, <3>1 DEF TypeOK
    <2>2. GENESIS_HASH \in Hash /\ AuditChain \in Chains
      BY ChainAssumption DEF GENESIS_HASH, Hash
    <2>3. pc' \in [Txns -> {"idle", "active", "waiting", "locked", "read"}]
      BY <1>4 DEF TypeOK
    <2> QED
      BY <1>4, <2>1, <2>2, <2>3 DEF TypeOK
  <1>7. \A u \in Txns : u # t => /\ pc'[u] = pc[u] /\ target'[u] = target[u]
                                 /\ prev'[u] = prev[u]
    BY <1>4 DEF TypeOK
  <1>8. pc'[t] \notin {"locked", "read"}
    BY <1>4 DEF TypeOK
  <1>9. LockedWhileAppending'
    <2> SUFFICES ASSUME NEW u \in Txns, pc'[u] \in {"locked", "read"}
                 PROVE  lock'[LockKeyOf[target'[u]]] = u
      BY DEF LockedWhileAppending
    <2> QED
      BY <1>4, <1>7, <1>8 DEF LockedWhileAppending
  <1>10. LockedWhilePending'
    BY <1>2, <1>4, <1>5 DEF LockedWhilePending
  <1>11. \A u \in Txns, c \in Chains :
            View(u, c)' = IF u = t /\ c = c0 THEN Append(View(t, c0), row)
                          ELSE View(u, c)
    <2> SUFFICES ASSUME NEW u \in Txns, NEW c \in Chains
                 PROVE  View(u, c)' = IF u = t /\ c = c0 THEN Append(View(t, c0), row)
                                      ELSE View(u, c)
      OBVIOUS
    <2>1. table[c0] \o Append(pending[t][c0], row) = Append(table[c0] \o pending[t][c0], row)
      BY <1>1, ConcatAppend DEF TypeOK
    <2>2. CASE u = t /\ c = c0
      BY <1>4, <1>5, <2>1, <2>2 DEF View
    <2>3. CASE ~(u = t /\ c = c0)
      BY <1>4, <1>5, <2>3 DEF View
    <2> QED
      BY <2>2, <2>3
  <1>12. Linear(Append(View(t, c0), row))
    <2>1. row.previous_hash = LastHash(View(t, c0))
      BY <1>2 DEF ReadIsLast
    <2>2. row.chain_hash = compute_chain_hash(row.data, row.previous_hash)
      OBVIOUS
    <2> QED
      BY <1>1, <2>1, <2>2, ViewType, AppendLinear DEF ViewsLinear
  <1>13. ViewsLinear'
    BY <1>4, <1>11, <1>12 DEF ViewsLinear
  <1>14. ReadIsLast'
    <2> SUFFICES ASSUME NEW u \in Txns, pc'[u] = "read"
                 PROVE  prev'[u] = LastHash(View(u, target[u])')
      BY <1>7, <1>8 DEF ReadIsLast
    <2>1. u # t /\ pc[u] = "read" /\ target[u] \in Chains
      BY <1>7, <1>8 DEF TypeOK
    <2>2. View(u, target[u])' = View(u, target[u])
      BY <1>7, <1>11, <2>1
    <2> QED
      BY <1>7, <2>1, <2>2 DEF ReadIsLast
  <1>15. ViewsExtend'
    <2> SUFFICES ASSUME NEW u \in Txns, NEW c \in Chains
                 PROVE  Log!Extends(LastHash(table[c]), LastHash(View(u, c)'))
      BY <1>4 DEF ViewsExtend
    <2>1. CASE u = t /\ c = c0
      <3>1. View(t, c0) \in Seq(Row) /\ table[c0] \in Seq(Row)
        BY <1>1, ViewType DEF TypeOK
      <3>2. LastHash(Append(View(t, c0), row)) = compute_chain_hash(d, prev[t])
        BY <1>1, <3>1 DEF LastHash
      <3>3. prev[t] = LastHash(View(t, c0)) /\ prev[t] \in Hash
        BY <1>2 DEF ReadIsLast, TypeOK
      <3>4. LastHash(table[c0]) \in Hash
        BY <3>1, LastHashType
      <3> QED
        BY <1>1, <1>11, <2>1, <3>2, <3>3, <3>4, ExtendsAppend DEF ViewsExtend
    <2>2. CASE ~(u = t /\ c = c0)
      BY <1>11, <2>2 DEF ViewsExtend
    <2> QED
      BY <2>1, <2>2
  <1> QED
    BY <1>6, <1>9, <1>10, <1>13, <1>14, <1>15

(* The tail query preserves the invariant.                                 *)
LEMMA ReadTailIInv ==
    ASSUME IInv, NEW t \in Txns, ReadTail(t)
    PROVE  IInv'
PROOF
  <1> USE DEF IInv
  <1>1. /\ pc[t] = "locked" /\ target[t] \in Chains
        /\ UNCHANGED <<table, pending, lock, target>>
        /\ pc' = [pc EXCEPT ![t] = "read"]
    BY DEF ReadTail, TypeOK
  <1>2. prev' = [prev EXCEPT ![t] = LastHash(View(t, target[t]))]
    BY <1>1, ViewType, TailOfLinear DEF ReadTail, ViewsLinear
  <1>3. LastHash(View(t, target[t])) \in Hash
    BY <1>1, ViewType, LastHashType
  <1>4. TypeOK'
    BY <1>1, <1>2, <1>3 DEF TypeOK
  <1>5. LockedWhileAppending' /\ LockedWhilePending'
    BY <1>1 DEF LockedWhileAppending, LockedWhilePending, TypeOK
  <1>6. \A u \in Txns, c \in Chains : View(u, c)' = View(u, c)
    BY <1>1 DEF View
  <1>7. ViewsLinear'
    BY <1>1, <1>6 DEF ViewsLinear
  <1>8. ReadIsLast'
    <2> SUFFICES ASSUME NEW u \in Txns, pc'[u] = "read"
                 PROVE  prev'[u] = LastHash(View(u, target[u]))
      BY <1>1, <1>6 DEF ReadIsLast, TypeOK
    <2>1. CASE u = t
      BY <1>2, <2>1 DEF TypeOK
    <2>2. CASE u # t
      BY <1>1, <1>2, <2>2 DEF ReadIsLast, TypeOK
    <2> QED
      BY <2>1, <2>2
  <1>9. ViewsExtend'
    BY <1>1, <1>6 DEF ViewsExtend
  <1> QED
    BY <1>4, <1>5, <1>7, <1>8, <1>9

(* Begin, RequestLock and GrantLock leave every chain and every view alone. *)
LEMMA LockStepIInv ==
    ASSUME IInv, NEW t \in Txns,
           Begin(t) \/ (\E c \in Chains : RequestLock(t, c)) \/ GrantLock(t)
    PROVE  IInv'
PROOF
  <1> USE DEF IInv
  <1>1. UNCHANGED <<table, pending, prev>>
    BY DEF Begin, RequestLock, GrantLock
  <1>2. TypeOK'
    <2>1. CASE Begin(t)
      BY <2>1 DEF Begin, TypeOK
    <2>2. CASE \E c \in Chains : RequestLock(t, c)
      BY <2>2 DEF RequestLock, TypeOK
    <2>3. CASE GrantLock(t)
      BY <2>3, ChainAssumption DEF GrantLock, TypeOK
    <2> QED
      BY <2>1, <2>2, <2>3
  <1>3. \A k \in LockKeys, u \in Txns : lock[k] = u => lock'[k] = u
    BY ChainAssumption DEF Begin, RequestLock, GrantLock, TypeOK
  <1>4. \A u \in Txns : u # t => pc'[u] = pc[u] /\ target'[u] = target[u]
    BY DEF Begin, RequestLock, GrantLock, TypeOK
  <1>5. \/ pc'[t] \in {"active", "waiting"}
        \/ pc'[t] = "locked" /\ target'[t] = target[t] /\ lock'[LockKeyOf[target[t]]] = t
    BY ChainAssumption DEF Begin, RequestLock, GrantLock, TypeOK
  <1>6. LockedWhileAppending'
    <2> SUFFICES ASSUME NEW u \in Txns, pc'[u] \in {"locked", "read"}
                 PROVE  lock'[LockKeyOf[target'[u]]] = u
      BY DEF LockedWhileAppending
    <2>1. CASE u = t
      BY <1>5, <2>1
    <2>2. CASE u # t
      BY <1>3, <1>4, <2>2, ChainAssumption DEF LockedWhileAppending, TypeOK
    <2> QED
      BY <2>1, <2>2
  <1>7. LockedWhilePending'
    BY <1>1, <1>3, ChainAssumption DEF LockedWhilePending
  <1>8. \A u \in Txns, c \in Chains : View(u, c)' = View(u, c)
    BY <1>1 DEF View
  <1>9. ViewsLinear'
    BY <1>1, <1>8 DEF ViewsLinear
  <1>10. ReadIsLast'
    <2>1. \A u \in Txns : pc'[u] = "read" =>
              /\ u # t /\ pc[u] = "read" /\ target'[u] = target[u] /\ target[u] \in Chains
              /\ prev'[u] = prev[u]
      BY <1>1, <1>4, <1>5 DEF TypeOK
    <2>2. \A u \in Txns : pc'[u] = "read" =>
              /\ prev[u] = LastHash(View(u, target[u]))
              /\ View(u, target[u])' = View(u, target[u])
      BY <1>8, <2>1 DEF ReadIsLast
    <2> QED
      BY <2>1, <2>2 DEF ReadIsLast
  <1>11. ViewsExtend'
    BY <1>1, <1>8 DEF ViewsExtend
  <1> QED
    BY <1>2, <1>6, <1>7, <1>9, <1>10, <1>11

(* Every step of the ledger preserves the invariant.                       *)
LEMMA NextIInv == IInv /\ [Next]_vars => IInv'
PROOF
  <1> SUFFICES ASSUME IInv, [Next]_vars PROVE IInv'
    OBVIOUS
  <1>1. CASE UNCHANGED vars
    BY <1>1 DEF vars, IInv, TypeOK, LockedWhileAppending, LockedWhilePending,
                ViewsLinear, ReadIsLast, ViewsExtend, View
  <1>2. ASSUME NEW t \in Txns, Step(t) PROVE IInv'
    <2>1. CASE Begin(t) \/ (\E c \in Chains : RequestLock(t, c)) \/ GrantLock(t)
      BY <2>1, LockStepIInv
    <2>2. CASE ReadTail(t)
      BY <2>2, ReadTailIInv
    <2>3. CASE \E d \in Data, now \in Times, audited \in BOOLEAN : InsertRow(t, d, now, audited)
      BY <2>3, InsertRowIInv
    <2>4. CASE Commit(t)
      BY <2>4, CommitIInv
    <2>5. CASE Fail(t) \/ DeadlockAbort(t)
      BY <2>5, RollbackIInv DEF Fail, DeadlockAbort
    <2> QED
      BY <1>2, <2>1, <2>2, <2>3, <2>4, <2>5 DEF Step
  <1> QED
    BY <1>1, <1>2 DEF Next

(* The inductive invariant holds in every reachable state of the ledger.   *)
THEOREM LedgerInvariant == Spec => []IInv
  BY InitIInv, NextIInv, PTL DEF Spec

(* Every reachable state of the ledger (table, locks, open transactions)   *)
(* is well typed.                                                          *)
THEOREM LedgerTypeOK == Spec => []TypeOK
PROOF
  <1>1. IInv => TypeOK
    BY DEF IInv
  <1> QED
    BY <1>1, LedgerInvariant, PTL

(* The previous_hash of a row of a linear chain commits to the rows before *)
(* it.                                                                     *)
LEMMA PreviousLength ==
    ASSUME NEW rows \in Seq(Row), Linear(rows), NEW k \in DOMAIN rows
    PROVE  Len(rows[k].previous_hash) = k - 1
PROOF
  <1>1. rows[k].previous_hash \in Hash /\ rows[k].data \in Data
    BY RowOfSeq DEF Row
  <1>2. Len(rows[k].chain_hash) = Len(rows[k].previous_hash) + 1
    BY <1>1, HashOfRow DEF Linear, verify_chain
  <1>3. Len(rows[k].previous_hash) \in Nat /\ k \in Nat
    BY <1>1 DEF Hash
  <1> QED
    BY <1>2, <1>3 DEF Linear

(* get_previous_hash_locked keeps every committed chain free of forks, for *)
(* any number of concurrent transactions and any clock readings.           *)
THEOREM LedgerNoFork == Spec => []NoFork
PROOF
  <1>1. IInv => NoFork
    <2> SUFFICES ASSUME IInv, NEW c \in Chains, NEW i \in DOMAIN table[c],
                        NEW j \in DOMAIN table[c],
                        table[c][i].previous_hash = table[c][j].previous_hash
                 PROVE  i = j
      BY DEF NoFork
    <2>1. table[c] \in Seq(Row) /\ Linear(table[c])
      BY DEF IInv, TypeOK, ViewsLinear
    <2>2. \A k \in DOMAIN table[c] : Len(table[c][k].previous_hash) = k - 1
      BY <2>1, PreviousLength
    <2>3. i \in Nat /\ j \in Nat
      BY <2>1
    <2> QED
      BY <2>2, <2>3
  <1> QED
    BY <1>1, LedgerInvariant, PTL

(* Committed rows in commit order always pass verify_chain.                *)
THEOREM LedgerVerifies == Spec => []CommittedChainVerifies
PROOF
  <1>1. IInv => CommittedChainVerifies
    BY DEF IInv, ViewsLinear, Linear, CommittedChainVerifies
  <1> QED
    BY <1>1, LedgerInvariant, PTL

------------------------------------------------------------------------------
(* A set of numbers that is not empty has a least element.                 *)
LEMMA LeastNumber ==
    ASSUME NEW T, T \subseteq Nat, T # {}
    PROVE  \E n \in T : \A m \in T : ~(m < n)
PROOF
  <1> DEFINE R == OpToRel(<, Nat)
  <1>1. IsWellFoundedOn(R, Nat)
    BY NatLessThanWellFounded
  <1>2. \A m, n \in Nat : m < n => <<m, n>> \in R
    BY DEF OpToRel
  <1> HIDE DEF R
  <1>3. PICK n \in T : \A m \in T : ~(<<m, n>> \in R)
    BY <1>1, WFMin
  <1> QED
    BY <1>2, <1>3

(* The first n rows of a chain.                                            *)
FirstRows(rows, n) == [i \in 1..n |-> rows[i]]

(* In a linear chain the row after the first n has the only previous_hash  *)
(* that leads on from them.                                                *)
LEMMA FollowLinear ==
    ASSUME NEW rows \in Seq(Row), Linear(rows), NEW n \in Nat, n + 1 \in DOMAIN rows
    PROVE  Follow(rows, FirstRows(rows, n)) = FirstRows(rows, n + 1)
PROOF
  <1> DEFINE ordered == FirstRows(rows, n)
             h == IF ordered = <<>> THEN GENESIS_HASH ELSE ordered[Len(ordered)].chain_hash
  <1>1. n \in Nat /\ Len(rows) \in Nat /\ DOMAIN rows = 1..Len(rows) /\ n + 1 \in DOMAIN rows
    OBVIOUS
  <1>2. ordered \in Seq(Row) /\ Len(ordered) = n /\ DOMAIN ordered = 1..n
    <2>1. \A i \in 1..n : rows[i] \in Row
      BY <1>1
    <2> QED
      BY <1>1, <2>1 DEF FirstRows
  <1>3. \A i \in 1..n : ordered[i] = rows[i]
    BY DEF FirstRows
  <1>4. \A i \in DOMAIN rows : rows[i].previous_hash \in Hash /\ rows[i].chain_hash \in Hash
    BY RowOfSeq
  <1>5. \A i \in DOMAIN rows : Len(rows[i].previous_hash) = i - 1
    BY PreviousLength
  <1> HIDE DEF ordered
  <1>6. h = rows[n + 1].previous_hash
    <2>1. CASE n = 0
      <3>1. ordered = <<>>
        BY <1>2, <2>1
      <3> QED
        BY <1>1, <2>1, <3>1 DEF Linear, verify_chain
    <2>2. CASE n # 0
      <3>1. ordered # <<>> /\ n \in 1..n
        BY <1>1, <1>2, <2>2
      <3>2. h = rows[n].chain_hash
        BY <1>2, <1>3, <3>1
      <3>3. n + 1 # 1 /\ (n + 1) - 1 = n
        BY <1>1, <2>2
      <3> QED
        BY <1>1, <3>2, <3>3 DEF Linear, verify_chain
    <2> QED
      BY <2>1, <2>2
  <1> HIDE DEF h
  <1>7. Successors(rows, h) = {n + 1}
    <2>1. ASSUME NEW i \in DOMAIN rows, rows[i].previous_hash = h PROVE i = n + 1
      <3>1. i - 1 = (n + 1) - 1
        BY <1>1, <1>5, <1>6, <2>1
      <3> QED
        BY <1>1, <3>1
    <2> QED
      BY <1>1, <1>6, <2>1 DEF Successors
  <1>8. Cardinality(Successors(rows, h)) = 1 /\ (CHOOSE i \in Successors(rows, h) : TRUE) = n + 1
    BY <1>7, FS_Singleton
  <1>9. \A i \in DOMAIN ordered : ordered[i].chain_hash # rows[n + 1].chain_hash
    <2> SUFFICES ASSUME NEW i \in 1..n, rows[i].chain_hash = rows[n + 1].chain_hash PROVE FALSE
      BY <1>2, <1>3
    <2>1. Len(rows[i].chain_hash) = i /\ Len(rows[n + 1].chain_hash) = n + 1
      BY <1>1 DEF Linear
    <2> QED
      BY <1>1, <2>1
  <1>10. Follow(rows, ordered) = Append(ordered, rows[n + 1])
    BY <1>8, <1>9 DEF Follow, h
  <1>11. Append(ordered, rows[n + 1]) = FirstRows(rows, n + 1)
    <2>1. /\ Append(ordered, rows[n + 1]) \in Seq(Row) /\ Len(Append(ordered, rows[n + 1])) = n + 1
          /\ \A i \in 1..(n + 1) : Append(ordered, rows[n + 1])[i] = rows[i]
      BY <1>1, <1>2, <1>3
    <2> QED
      BY <1>1, <2>1 DEF FirstRows
  <1> QED
    BY <1>10, <1>11 DEF ordered

(* The walk from the genesis hash visits the rows of a linear chain in     *)
(* their order: the first n after n steps.  The equation of the walk has a *)
(* solution, which is this one, and no other: the least number of steps    *)
(* after which another one differed would contradict FollowLinear.         *)
LEMMA WalkOfLinear ==
    ASSUME NEW rows \in Seq(Row), Linear(rows)
    PROVE  WalkFrom(rows) = rows
PROOF
  <1> DEFINE D == 0..Len(rows)
             Solves(f) == f = [n \in D |-> IF n = 0 THEN <<>> ELSE Follow(rows, f[n - 1])]
             firsts == [n \in D |-> FirstRows(rows, n)]
  <1>1. Len(rows) \in Nat /\ DOMAIN rows = 1..Len(rows)
    OBVIOUS
  <1>2. \A n \in D : firsts[n] = IF n = 0 THEN <<>> ELSE Follow(rows, firsts[n - 1])
    <2> SUFFICES ASSUME NEW n \in D
                 PROVE  firsts[n] = IF n = 0 THEN <<>> ELSE Follow(rows, firsts[n - 1])
      OBVIOUS
    <2>1. CASE n = 0
      <3>1. FirstRows(rows, 0) = <<>>
        BY DEF FirstRows
      <3> QED
        BY <2>1, <3>1
    <2>2. CASE n # 0
      <3>1. n - 1 \in D /\ n - 1 \in Nat /\ n \in DOMAIN rows /\ (n - 1) + 1 = n
        BY <1>1, <2>2
      <3>2. Follow(rows, FirstRows(rows, n - 1)) = FirstRows(rows, n)
        BY <3>1, FollowLinear
      <3> QED
        BY <2>2, <3>1, <3>2
    <2> QED
      BY <2>1, <2>2
  <1>3. Solves(firsts)
    BY <1>2
  <1> DEFINE walk == CHOOSE f : Solves(f)
  <1>4. Solves(walk)
    BY <1>3
  <1>5. WalkFrom(rows) = walk[Len(rows)]
    BY DEF WalkFrom
  <1> HIDE DEF walk
  <1>6. /\ \A n \in D : walk[n] = IF n = 0 THEN <<>> ELSE Follow(rows, walk[n - 1])
    BY <1>4
  <1>7. \A n \in D : walk[n] = firsts[n]
    <2> DEFINE T == {n \in D : walk[n] # firsts[n]}
    <2> SUFFICES ASSUME T # {} PROVE FALSE
      OBVIOUS
    <2>1. T \subseteq Nat
      BY <1>1
    <2>2. PICK n \in T : \A m \in T : ~(m < n)
      BY <2>1, LeastNumber
    <2>3. n # 0
      BY <1>2, <1>6
    <2>4. n - 1 \in D /\ n - 1 < n
      BY <1>1, <2>3
    <2>5. walk[n - 1] = firsts[n - 1]
      BY <2>2, <2>4
    <2> QED
      BY <1>2, <1>6, <2>3, <2>5
  <1>8. walk[Len(rows)] = FirstRows(rows, Len(rows))
    BY <1>1, <1>7
  <1>9. FirstRows(rows, Len(rows)) = rows
    BY <1>1 DEF FirstRows
  <1> QED
    BY <1>5, <1>8, <1>9

(* An auditor who runs verify_tenant_chain at any moment finds every       *)
(* committed row and the chain intact.                                     *)
THEOREM LedgerAuditorFindsChainIntact == Spec => []AuditorFindsChainIntact
PROOF
  <1>1. IInv => AuditorFindsChainIntact
    <2> SUFFICES ASSUME IInv, NEW c \in Chains PROVE verify_tenant_chain(table[c])
      BY DEF AuditorFindsChainIntact
    <2>1. table[c] \in Seq(Row) /\ Linear(table[c])
      BY DEF IInv, TypeOK, ViewsLinear
    <2>2. WalkFrom(table[c]) = table[c]
      BY <2>1, WalkOfLinear
    <2> QED
      BY <2>1, <2>2 DEF verify_tenant_chain, Linear
  <1> QED
    BY <1>1, LedgerInvariant, PTL

------------------------------------------------------------------------------
(* The previous_hash between tail query and INSERT is never stale.         *)
THEOREM LedgerTailStillCurrent == Spec => []TailStillCurrent
PROOF
  <1>1. IInv => TailStillCurrent
    <2> SUFFICES ASSUME IInv, NEW t \in Txns, pc[t] = "read"
                 PROVE  prev[t] = TailHash(View(t, target[t]))
      BY DEF TailStillCurrent
    <2>1. target[t] \in Chains /\ TypeOK
      BY DEF IInv, TypeOK
    <2>2. TailHash(View(t, target[t])) = LastHash(View(t, target[t]))
      BY <2>1, ViewType, TailOfLinear DEF IInv, ViewsLinear
    <2> QED
      BY <2>2 DEF IInv, ReadIsLast
  <1> QED
    BY <1>1, LedgerInvariant, PTL

(* The tail hash of the committed rows is the hash of the last one.        *)
LEMMA CommittedTail ==
    ASSUME IInv, NEW c \in Chains
    PROVE  TailHash(table[c]) = LastHash(table[c]) /\ TailHash(table[c]) \in Hash
  BY TailOfLinear, LastHashType DEF IInv, TypeOK, ViewsLinear

(* The ledger of concurrent transactions implements a list that only grows *)
(* at its end: a tail hash once committed stays a prefix of every later one.*)
THEOREM LedgerRefinesLog == Spec => TailHashesExtendHistory
PROOF
  <1> DEFINE tails == [c \in Chains |-> TailHash(table[c])]
  <1>1. Init => Log!Init
    <2>1. ASSUME Init, NEW c \in Chains PROVE TailHash(table[c]) = <<>>
      <3>1. table[c] = <<>>
        BY <2>1 DEF Init, NoRows
      <3>2. Tails(table[c]) = {}
        BY <3>1 DEF Tails
      <3> QED
        BY <3>2 DEF TailHash, GENESIS_HASH
    <2> QED
      BY <2>1 DEF Log!Init
  <1>2. IInv /\ IInv' /\ [Next]_vars => [Log!Append_]_tails
    <2> SUFFICES ASSUME IInv, IInv', [Next]_vars PROVE [Log!Append_]_tails
      OBVIOUS
    <2>1. CASE table' = table
      BY <2>1
    <2>2. ASSUME NEW t \in Txns, Commit(t) PROVE Log!Append_
      <3> SUFFICES ASSUME NEW c \in Chains
                   PROVE  /\ TailHash(table'[c]) \in Seq(Data)
                          /\ Log!Extends(TailHash(table[c]), TailHash(table'[c]))
        BY DEF Log!Append_
      <3>1. table'[c] \in Seq(Row) /\ Linear(table'[c])
        BY DEF IInv, TypeOK, ViewsLinear
      <3>2. TailHash(table'[c]) = LastHash(table'[c]) /\ LastHash(table'[c]) \in Seq(Data)
        BY <3>1, TailOfLinear, LastHashType DEF Hash
      <3>3. TailHash(table[c]) = LastHash(table[c]) /\ table'[c] = View(t, c)
        BY <2>2, CommittedTail DEF Commit
      <3> QED
        BY <3>2, <3>3 DEF IInv, ViewsExtend
    <2> QED
      BY <2>1, <2>2 DEF Next, Step, Begin, RequestLock, GrantLock, ReadTail, InsertRow,
                        Fail, DeadlockAbort, Rollback, vars
  <1> QED
    BY <1>1, <1>2, LedgerInvariant, PTL DEF Spec, TailHashesExtendHistory, Log!Spec

==============================================================================
