-------------------------- MODULE CreditLedgerProofs --------------------------
(***************************************************************************)
(* Proofs about CreditLedger, for every set of sessions, reservation ids   *)
(* and amounts and any length of the ledger.                               *)
(***************************************************************************)
EXTENDS CreditLedger, FiniteSetTheorems, TLAPS

Settling(t) == call[t].op \in {"confirm", "release"}

(* t has written its credit_transactions row and not yet committed.        *)
Written(t) == pc[t] = "active" /\ call[t].op \in {"add", "confirm", "release"}

(* Which call a session is in and which rows it holds at each statement.   *)
Phase(t) ==
    /\ pc[t] = "idle" => HoldsNothing(t)
    /\ pc[t] = "read_balance" => call[t].op = "get" /\ HoldsNothing(t)
    /\ pc[t] = "lock_reservation" =>
            Settling(t) /\ (HoldsNothing(t) \/ holder[call[t].id] = t)
    /\ pc[t] = "lock_balance" => call[t].op \in {"reserve", "add", "confirm", "release"}
    /\ pc[t] = "insert_balance" => holder["balance"] # t /\ call[t].op # "none"
    /\ pc[t] = "apply" => holder["balance"] = t /\ call[t].op \notin {"none", "get"}
    /\ pc[t] \in {"lock_balance", "insert_balance", "apply"} /\ Settling(t)
            => holder[call[t].id] = t
    /\ Written(t) => holder["balance"] = t
    /\ Written(t) /\ Settling(t) => holder[call[t].id] = t

(* The reservations a transaction holds are pending, but for the one it    *)
(* has just settled.                                                       *)
HeldPending(t) ==
    \A r \in ReservationIds : holder[r] = t =>
        /\ reservations[r].status \in {"none", "pending"}
        /\ reservations[r].status = "pending" =>
                mine[t].reservations[r].amount = reservations[r].amount
        /\ \/ mine[t].reservations[r].status = "pending"
           \/ Written(t) /\ Settling(t) /\ r = call[t].id

(* The holder of the balance row works on its latest committed version.    *)
HeldBalance(t) ==
    holder["balance"] = t =>
        /\ mine[t].account.exists
        /\ mine[t].account.reserved <= mine[t].account.balance

(* What a transaction has written so far.                                  *)
Work(t) ==
    IF Written(t)
    THEN LET e == mine[t].entries[1] IN
            /\ Len(mine[t].entries) = 1
            /\ e.balance_before = account.balance
            /\ e.balance_after = e.balance_before + Movement(e)
            /\ mine[t].account.balance = e.balance_after
            /\ IF Settling(t)
               THEN /\ e.reservation = call[t].id
                    /\ e.kind = mine[t].reservations[call[t].id].status
                    /\ e.kind \in {"confirmed", "released"}
                    /\ e.amount = mine[t].reservations[call[t].id].amount
               ELSE e.reservation = "none"
    ELSE /\ mine[t].entries = <<>>
         /\ holder["balance"] = t => mine[t].account.balance = account.balance

TxnOK(t) == Phase(t) /\ HeldPending(t) /\ HeldBalance(t) /\ Work(t)

(* A tenant without a balance row has no credits.                          *)
NoRowNoCredits == ~account.exists => account.balance = 0 /\ account.reserved = 0

(* SettledOnce, entry by entry.                                            *)
EntriesMatch ==
    /\ \A i \in DOMAIN ledger :
            ledger[i].reservation # "none" =>
                /\ reservations[ledger[i].reservation].status = ledger[i].kind
                /\ reservations[ledger[i].reservation].amount = ledger[i].amount
                /\ ledger[i].kind \in {"confirmed", "released"}
    /\ \A i, j \in DOMAIN ledger :
            ledger[i].reservation = ledger[j].reservation /\ ledger[i].reservation # "none"
                => i = j
    /\ \A r \in ReservationIds :
            reservations[r].status \in {"confirmed", "released"} =>
                \E i \in DOMAIN ledger : ledger[i].reservation = r

Books == NoRowNoCredits /\ NoOverdraft /\ LedgerExplainsBalance /\ EntriesMatch

IInv == TypeOK /\ Books /\ \A t \in Txns : TxnOK(t)

-------------------------------------------------------------------------------
(* The arguments of a service call are what its operation needs.           *)
LEMMA CallFields ==
    ASSUME TypeOK, NEW t \in Txns
    PROVE  /\ call[t].op \in {"none", "get", "reserve", "add", "confirm", "release"}
           /\ call[t].op \in {"reserve", "add"} => call[t].amount \in Nat
           /\ Settling(t) => call[t].id \in ReservationIds
  <1> DEFINE c == call[t]
  <1>1. c \in Calls
    BY DEF TypeOK
  <1> HIDE DEF c
  <1>2. CASE c \in {NoCall, [op |-> "get"]}
    <2>1. c.op \in {"none", "get"}
      BY <1>2 DEF NoCall
    <2> QED
      BY <2>1 DEF c, Settling
  <1>3. CASE c \in [op : {"reserve", "add"}, amount : Amounts]
    <2>1. c.op \in {"reserve", "add"} /\ c.amount \in Nat
      BY <1>3, CreditAssumption
    <2> QED
      BY <2>1 DEF c, Settling
  <1>4. CASE c \in [op : {"confirm", "release"}, id : ReservationIds]
    <2>1. c.op \in {"confirm", "release"} /\ c.id \in ReservationIds
      BY <1>4
    <2> QED
      BY <2>1 DEF c, Settling
  <1> QED
    BY <1>1, <1>2, <1>3, <1>4 DEF Calls

(* What a transaction has written, and what it therefore sees, is well     *)
(* typed.                                                                  *)
LEMMA MineFields ==
    ASSUME TypeOK, NEW t \in Txns
    PROVE  /\ mine[t].account \in Account
           /\ mine[t].account.balance \in Int
           /\ mine[t].account.reserved \in Int
           /\ \A r \in ReservationIds :
                /\ mine[t].reservations[r] \in Reservation
                /\ mine[t].reservations[r].amount \in Nat
                /\ ReservationSeen(t, r) \in Reservation
           /\ mine[t].entries \in Seq(Entries)
           /\ AccountSeen(t) \in Account
           /\ NoTxn # t
  BY CreditAssumption
  DEF TypeOK, Account, Reservation, AccountSeen, ReservationSeen

(* A transaction that has written nothing is well typed.                   *)
LEMMA CleanType ==
    Clean \in [account : Account, reservations : [ReservationIds -> Reservation],
               entries : Seq(Entries)]
  BY DEF Clean, Account, Reservation, NoAccount, NoReservation

(* A transaction is not disturbed by a step that leaves its session, its   *)
(* rows and the committed versions of them alone.                          *)
LEMMA Undisturbed ==
    ASSUME NEW u \in Txns, TxnOK(u), TypeOK,
           pc'[u] = pc[u], call'[u] = call[u], mine'[u] = mine[u],
           \A row \in Rows : holder'[row] = u <=> holder[row] = u,
           account'.balance = account.balance \/ (holder["balance"] # u /\ ~Written(u)),
           \A r \in ReservationIds : holder[r] = u => reservations'[r] = reservations[r]
    PROVE  TxnOK(u)'
  <1>1. "balance" \in Rows /\ \A r \in ReservationIds : r \in Rows
    BY DEF Rows
  <1>2. Settling(u) => call[u].id \in ReservationIds
    BY CallFields
  <1>3. Written(u)' = Written(u) /\ Settling(u)' = Settling(u)
    BY DEF Written, Settling
  <1>4. HoldsNothing(u)' = HoldsNothing(u)
    BY DEF HoldsNothing
  <1>5. Phase(u)'
    BY <1>1, <1>2, <1>3, <1>4 DEF TxnOK, Phase
  <1>6. HeldPending(u)'
    BY <1>1, <1>3 DEF TxnOK, HeldPending
  <1>7. HeldBalance(u)'
    BY <1>1 DEF TxnOK, HeldBalance
  <1>8. Work(u)'
    <2>1. CASE Written(u)
      BY <1>3, <2>1 DEF TxnOK, Work, Phase
    <2>2. CASE ~Written(u)
      BY <1>1, <1>3, <2>2 DEF TxnOK, Work
    <2> QED
      BY <2>1, <2>2
  <1> QED
    BY <1>5, <1>6, <1>7, <1>8 DEF TxnOK

(* A step of t that commits nothing and takes only free rows.              *)
Private(t) ==
    /\ UNCHANGED <<account, reservations, ledger>>
    /\ \A u \in Txns \ {t} :
        /\ pc'[u] = pc[u] /\ call'[u] = call[u] /\ mine'[u] = mine[u]
        /\ \A row \in Rows : holder'[row] = u <=> holder[row] = u

(* A step that changes only the session of t preserves the invariant if it *)
(* keeps the types and what holds of t.                                    *)
LEMMA PrivateStep ==
    ASSUME IInv, NEW t \in Txns, Private(t), TypeOK', TxnOK(t)'
    PROVE  IInv'
  <1>1. Books'
    BY DEF IInv, Private, Books, NoRowNoCredits, NoOverdraft, LedgerExplainsBalance,
           EntriesMatch
  <1>2. ASSUME NEW u \in Txns, u # t PROVE TxnOK(u)'
    BY <1>2, Undisturbed DEF IInv, Private
  <1> QED
    BY <1>1, <1>2 DEF IInv

(* The end of a transaction frees its rows and no others, and leaves an    *)
(* idle session.                                                           *)
LEMMA ForgetsAll ==
    ASSUME IInv, NEW t \in Txns, Forget(t)
    PROVE  /\ holder' \in [Rows -> Txns \cup {NoTxn}]
           /\ pc' \in [Txns -> {"idle", "read_balance", "lock_reservation", "lock_balance",
                                "insert_balance", "apply", "active"}]
           /\ call' \in [Txns -> Calls]
           /\ mine' \in [Txns -> [account : Account,
                                  reservations : [ReservationIds -> Reservation],
                                  entries : Seq(Entries)]]
           /\ TxnOK(t)'
           /\ \A u \in Txns \ {t} :
                /\ pc'[u] = pc[u] /\ call'[u] = call[u] /\ mine'[u] = mine[u]
                /\ \A row \in Rows : holder'[row] = u <=> holder[row] = u
  <1> USE DEF IInv
  <1>1. \A row \in Rows : holder'[row] # t
    BY CreditAssumption DEF Forget, TypeOK
  <1>2. pc'[t] = "idle" /\ call'[t] = NoCall /\ mine'[t] = Clean
    BY DEF Forget, TypeOK
  <1>3. TxnOK(t)'
    <2>1. ~Written(t)' /\ ~Settling(t)'
      BY <1>2 DEF Written, Settling, NoCall
    <2>2. HoldsNothing(t)' /\ holder'["balance"] # t
           /\ \A r \in ReservationIds : holder'[r] # t
      BY <1>1 DEF HoldsNothing, Rows
    <2> QED
      BY <1>2, <2>1, <2>2 DEF TxnOK, Phase, HeldPending, HeldBalance, Work, Clean
  <1>4. /\ holder' \in [Rows -> Txns \cup {NoTxn}]
        /\ \A u \in Txns \ {t} : \A row \in Rows : holder'[row] = u <=> holder[row] = u
    BY CreditAssumption DEF Forget, TypeOK
  <1>5. /\ pc' \in [Txns -> {"idle", "read_balance", "lock_reservation", "lock_balance",
                             "insert_balance", "apply", "active"}]
        /\ \A u \in Txns \ {t} : pc'[u] = pc[u]
    BY DEF Forget, TypeOK
  <1>6. /\ call' \in [Txns -> Calls]
        /\ \A u \in Txns \ {t} : call'[u] = call[u]
    BY DEF Forget, TypeOK, Calls
  <1>7. /\ mine' \in [Txns -> [account : Account,
                               reservations : [ReservationIds -> Reservation],
                               entries : Seq(Entries)]]
        /\ \A u \in Txns \ {t} : mine'[u] = mine[u]
    BY CleanType DEF Forget, TypeOK
  <1> QED
    BY <1>3, <1>4, <1>5, <1>6, <1>7

(* A rollback preserves the invariant.                                     *)
LEMMA RollbackStep ==
    ASSUME IInv, NEW t \in Txns, Rollback(t)
    PROVE  IInv'
  <1>1. Forget(t)
    BY DEF Rollback
  <1>2. Private(t) /\ TxnOK(t)' /\ TypeOK'
    BY <1>1, ForgetsAll DEF Rollback, Private, IInv, TypeOK
  <1> QED
    BY <1>2, PrivateStep

(* The start of a service call preserves the invariant.                    *)
LEMMA BeginStep ==
    ASSUME IInv, NEW t \in Txns, NEW c \in Calls, NEW where, Begin(t, c, where),
           \/ where = "read_balance" /\ c.op = "get"
           \/ where = "lock_balance" /\ c.op \in {"reserve", "add"}
           \/ where = "lock_reservation" /\ c.op \in {"confirm", "release"}
    PROVE  IInv'
  <1>1. Private(t) /\ TypeOK'
    BY DEF Begin, Private, IInv, TypeOK
  <1>2. HoldsNothing(t)' /\ HoldsNothing(t)
    BY DEF Begin, IInv, TxnOK, Phase, HoldsNothing
  <1>3. pc'[t] = where /\ call'[t] = c /\ mine'[t] = mine[t]
    BY DEF Begin, IInv, TypeOK
  <1>4. ~Written(t) /\ ~Written(t)'
    BY <1>3 DEF Begin, Written
  <1>5. holder'["balance"] # t /\ \A r \in ReservationIds : holder'[r] # t
    BY <1>2 DEF HoldsNothing, Rows
  <1>6. mine[t].entries = <<>>
    BY <1>4 DEF IInv, TxnOK, Work
  <1>7. Phase(t)'
    BY <1>2, <1>3, <1>4, <1>5 DEF Phase, Settling
  <1>8. TxnOK(t)'
    BY <1>3, <1>4, <1>5, <1>6, <1>7 DEF TxnOK, HeldPending, HeldBalance, Work
  <1> QED
    BY <1>1, <1>8, PrivateStep

(* Confirming a reservation of the own transaction preserves the invariant.*)
LEMMA ConfirmOwnStep ==
    ASSUME IInv, NEW t \in Txns, NEW r \in ReservationIds, ConfirmOwn(t, r)
    PROVE  IInv'
  <1>1. [op |-> "confirm", id |-> r] \in Calls
    BY DEF Calls
  <1>2. Private(t) /\ TypeOK'
    BY <1>1 DEF ConfirmOwn, Private, IInv, TypeOK
  <1>3. /\ pc'[t] = "lock_reservation" /\ mine'[t] = mine[t] /\ holder' = holder
        /\ call'[t].op = "confirm" /\ call'[t].id = r
    BY DEF ConfirmOwn, IInv, TypeOK
  <1>4. ~Written(t) /\ ~Written(t)'
    BY <1>3 DEF ConfirmOwn, Written
  <1>5. Phase(t)'
    BY <1>3, <1>4 DEF ConfirmOwn, Phase, Settling
  <1>6. HeldPending(t)' /\ HeldBalance(t)' /\ Work(t)'
    BY <1>2, <1>3, <1>4 DEF IInv, TxnOK, HeldPending, HeldBalance, Work, Private
  <1> QED
    BY <1>2, <1>5, <1>6, PrivateStep DEF TxnOK

(* The unlocked read of get_balance preserves the invariant.               *)
LEMMA ReadBalanceStep ==
    ASSUME IInv, NEW t \in Txns, ReadBalance(t)
    PROVE  IInv'
  <1>1. Private(t) /\ TypeOK'
    BY DEF ReadBalance, Private, IInv, TypeOK
  <1>2. /\ pc'[t] \in {"active", "insert_balance"} /\ mine'[t] = mine[t] /\ holder' = holder
        /\ call'[t] = call[t] /\ call[t].op = "get" /\ holder["balance"] # t
    BY DEF ReadBalance, IInv, TypeOK, TxnOK, Phase, HoldsNothing, Rows
  <1>3. ~Written(t) /\ ~Written(t)'
    BY <1>2 DEF Written
  <1>4. Phase(t)'
    BY <1>2, <1>3 DEF Phase, Settling
  <1>5. HeldPending(t)' /\ HeldBalance(t)' /\ Work(t)'
    BY <1>1, <1>2, <1>3 DEF IInv, TxnOK, HeldPending, HeldBalance, Work, Private
  <1> QED
    BY <1>1, <1>4, <1>5, PrivateStep DEF TxnOK

(* SELECT ... FOR UPDATE of the reservation preserves the invariant: it is *)
(* granted only when nobody holds the row, and then shows the committed,   *)
(* pending reservation.                                                    *)
LEMMA LockReservationStep ==
    ASSUME IInv, NEW t \in Txns, LockReservation(t)
    PROVE  IInv'
  <1> DEFINE r == call[t].id
  <1>1. pc[t] = "lock_reservation" /\ Settling(t) /\ r \in ReservationIds /\ r # "balance"
    BY CallFields, CreditAssumption DEF LockReservation, IInv, TxnOK, Phase
  <1>2. CASE Rollback(t)
    BY <1>2, RollbackStep
  <1>3. CASE /\ ReservationSeen(t, r).status = "pending"
             /\ holder' = [holder EXCEPT ![r] = t]
             /\ mine' = [mine EXCEPT ![t].reservations[r] = ReservationSeen(t, r)]
             /\ pc' = [pc EXCEPT ![t] = "lock_balance"]
             /\ UNCHANGED <<account, reservations, ledger, call>>
    <2>1. ReservationSeen(t, r) \in Reservation
      BY <1>1, MineFields DEF IInv
    <2>2. holder[r] \in {NoTxn, t}
      BY DEF LockReservation
    <2>3. TypeOK'
      <3> DEFINE X == [mine[t] EXCEPT !.reservations[r] = ReservationSeen(t, r)]
      <3>1. X \in [account : Account, reservations : [ReservationIds -> Reservation],
                   entries : Seq(Entries)]
        BY <1>1, <2>1 DEF IInv, TypeOK
      <3>2. mine' = [mine EXCEPT ![t] = X]
        BY <1>3
      <3> HIDE DEF X
      <3>3. mine' \in [Txns -> [account : Account,
                                reservations : [ReservationIds -> Reservation],
                                entries : Seq(Entries)]]
        BY <3>1, <3>2 DEF IInv, TypeOK
      <3> QED
        BY <1>1, <1>3, <3>3 DEF IInv, TypeOK, Rows
    <2>4. Private(t)
      BY <1>1, <1>3, <2>2, CreditAssumption DEF IInv, TypeOK, Private, Rows
    <2>5. /\ pc'[t] = "lock_balance" /\ call'[t] = call[t]
          /\ mine'[t].account = mine[t].account /\ mine'[t].entries = mine[t].entries
          /\ mine'[t].reservations[r] = ReservationSeen(t, r)
          /\ \A x \in ReservationIds \ {r} :
                mine'[t].reservations[x] = mine[t].reservations[x]
          /\ holder'[r] = t
          /\ \A row \in Rows \ {r} : holder'[row] = holder[row]
      BY <1>1, <1>3 DEF IInv, TypeOK, Rows
    <2>6. ~Written(t) /\ ~Written(t)' /\ Settling(t)'
      BY <1>1, <2>5 DEF Written, Settling
    <2>7. Phase(t)'
      BY <1>1, <2>5, <2>6 DEF Phase, Settling
    <2>8. HeldPending(t)'
      <3> SUFFICES ASSUME NEW x \in ReservationIds, holder'[x] = t
                   PROVE  /\ reservations[x].status \in {"none", "pending"}
                          /\ reservations[x].status = "pending" =>
                                mine'[t].reservations[x].amount = reservations[x].amount
                          /\ mine'[t].reservations[x].status = "pending"
        BY <1>3 DEF HeldPending
      <3>1. CASE x = r /\ holder[r] = t
        BY <1>3, <2>5, <2>6, <3>1 DEF IInv, TxnOK, HeldPending, ReservationSeen
      <3>2. CASE x = r /\ holder[r] # t
        BY <1>3, <2>5, <3>2 DEF ReservationSeen
      <3>3. CASE x # r
        <4>1. holder[x] = t /\ mine'[t].reservations[x] = mine[t].reservations[x]
          BY <2>5, <3>3 DEF Rows
        <4> QED
          BY <2>6, <4>1 DEF IInv, TxnOK, HeldPending
      <3> QED
        BY <3>1, <3>2, <3>3
    <2>9. HeldBalance(t)' /\ Work(t)'
      BY <1>1, <1>3, <2>5, <2>6 DEF IInv, TxnOK, HeldBalance, Work, Rows
    <2> QED
      BY <2>3, <2>4, <2>7, <2>8, <2>9, PrivateStep DEF TxnOK
  <1> QED
    BY <1>2, <1>3 DEF LockReservation

(* SELECT ... FOR UPDATE of the balance row preserves the invariant.       *)
LEMMA LockBalanceStep ==
    ASSUME IInv, NEW t \in Txns, LockBalance(t)
    PROVE  IInv'
  <1>1. /\ pc[t] = "lock_balance" /\ ~Written(t)
        /\ Settling(t) => call[t].id \in ReservationIds
        /\ call[t].op \in {"reserve", "add", "confirm", "release"}
    BY CallFields DEF LockBalance, Written, IInv, TxnOK, Phase
  <1>2. CASE AccountSeen(t).exists
    <2>1. /\ holder["balance"] \in {NoTxn, t}
          /\ holder' = [holder EXCEPT !["balance"] = t]
          /\ mine' = [mine EXCEPT ![t].account = AccountSeen(t)]
          /\ pc' = [pc EXCEPT ![t] = "apply"]
          /\ UNCHANGED <<account, reservations, ledger, call>>
      BY <1>2 DEF LockBalance
    <2>2. TypeOK'
      <3> DEFINE X == [mine[t] EXCEPT !.account = AccountSeen(t)]
      <3>1. AccountSeen(t) \in Account
        BY MineFields DEF IInv
      <3>2. X \in [account : Account, reservations : [ReservationIds -> Reservation],
                   entries : Seq(Entries)]
        BY <3>1 DEF IInv, TypeOK
      <3>3. mine' = [mine EXCEPT ![t] = X]
        BY <2>1
      <3> HIDE DEF X
      <3>4. mine' \in [Txns -> [account : Account,
                                reservations : [ReservationIds -> Reservation],
                                entries : Seq(Entries)]]
        BY <3>2, <3>3 DEF IInv, TypeOK
      <3> QED
        BY <2>1, <3>4 DEF IInv, TypeOK, Rows
    <2>3. Private(t)
      BY <2>1, CreditAssumption DEF IInv, TypeOK, Private, Rows
    <2>4. /\ pc'[t] = "apply" /\ call'[t] = call[t]
          /\ mine'[t].account = AccountSeen(t) /\ mine'[t].entries = mine[t].entries
          /\ mine'[t].reservations = mine[t].reservations
          /\ holder'["balance"] = t
          /\ \A r \in ReservationIds : holder'[r] = holder[r]
      BY <2>1, CreditAssumption DEF IInv, TypeOK, Rows
    <2>5. ~Written(t)'
      BY <2>4 DEF Written
    <2>6. Phase(t)'
      BY <1>1, <2>4, <2>5 DEF IInv, TxnOK, Phase, Settling
    <2>7. HeldPending(t)'
      BY <1>1, <2>1, <2>4, <2>5 DEF IInv, TxnOK, HeldPending
    <2>8. HeldBalance(t)'
      BY <1>2, <2>4 DEF IInv, TxnOK, HeldBalance, AccountSeen, Books, NoOverdraft
    <2>9. Work(t)'
      BY <1>1, <2>1, <2>4, <2>5 DEF IInv, TxnOK, Work, AccountSeen
    <2> QED
      BY <2>2, <2>3, <2>6, <2>7, <2>8, <2>9, PrivateStep DEF TxnOK
  <1>3. CASE ~AccountSeen(t).exists
    <2>1. /\ pc' = [pc EXCEPT ![t] = "insert_balance"]
          /\ UNCHANGED <<account, reservations, ledger, call, holder, mine>>
      BY <1>3 DEF LockBalance
    <2>2. TypeOK' /\ Private(t)
      BY <2>1 DEF IInv, TypeOK, Private
    <2>3. pc'[t] = "insert_balance" /\ ~Written(t)'
      BY <2>1 DEF IInv, TypeOK, Written
    <2>4. holder["balance"] # t
      BY <1>3 DEF IInv, TxnOK, HeldBalance, AccountSeen
    <2>5. Phase(t)'
      BY <1>1, <2>1, <2>3, <2>4 DEF IInv, TxnOK, Phase, Settling
    <2>6. HeldPending(t)' /\ HeldBalance(t)' /\ Work(t)'
      BY <1>1, <2>1, <2>3 DEF IInv, TxnOK, HeldPending, HeldBalance, Work
    <2> QED
      BY <2>2, <2>5, <2>6, PrivateStep DEF TxnOK
  <1> QED
    BY <1>2, <1>3

(* The first balance row of a tenant preserves the invariant: the unique   *)
(* index lets one transaction at a time insert it.                         *)
LEMMA InsertBalanceStep ==
    ASSUME IInv, NEW t \in Txns, InsertBalance(t)
    PROVE  IInv'
  <1>1. pc[t] = "insert_balance" /\ ~Written(t) /\ holder["balance"] # t /\ call[t].op # "none"
    BY DEF InsertBalance, Written, IInv, TxnOK, Phase
  <1>2. CASE Rollback(t)
    BY <1>2, RollbackStep
  <1>3. CASE /\ ~account.exists
             /\ holder["balance"] = NoTxn
             /\ holder' = [holder EXCEPT !["balance"] = t]
             /\ mine' = [mine EXCEPT ![t].account = ZeroAccount]
             /\ pc' = [pc EXCEPT ![t] = IF call[t].op = "get" THEN "active" ELSE "apply"]
             /\ UNCHANGED <<account, reservations, ledger, call>>
    <2>1. ZeroAccount \in Account
      BY DEF ZeroAccount, Account
    <2>2. TypeOK'
      <3> DEFINE X == [mine[t] EXCEPT !.account = ZeroAccount]
      <3>1. X \in [account : Account, reservations : [ReservationIds -> Reservation],
                   entries : Seq(Entries)]
        BY <2>1 DEF IInv, TypeOK
      <3>2. mine' = [mine EXCEPT ![t] = X]
        BY <1>3
      <3> HIDE DEF X
      <3>3. mine' \in [Txns -> [account : Account,
                                reservations : [ReservationIds -> Reservation],
                                entries : Seq(Entries)]]
        BY <3>1, <3>2 DEF IInv, TypeOK
      <3> QED
        BY <1>3, <3>3 DEF IInv, TypeOK, Rows
    <2>3. Private(t)
      BY <1>3, CreditAssumption DEF IInv, TypeOK, Private, Rows
    <2>4. /\ pc'[t] = (IF call[t].op = "get" THEN "active" ELSE "apply")
          /\ call'[t] = call[t]
          /\ mine'[t].account = ZeroAccount /\ mine'[t].entries = mine[t].entries
          /\ mine'[t].reservations = mine[t].reservations
          /\ holder'["balance"] = t
          /\ \A r \in ReservationIds : holder'[r] = holder[r]
      BY <1>3, CreditAssumption DEF IInv, TypeOK, Rows
    <2>5. ~Written(t)'
      BY <2>4 DEF Written
    <2>6. Phase(t)'
      BY <1>1, <2>4, <2>5, CallFields DEF IInv, TxnOK, Phase, Settling
    <2>7. HeldPending(t)'
      BY <1>1, <1>3, <2>4, <2>5 DEF IInv, TxnOK, HeldPending
    <2>8. HeldBalance(t)'
      BY <2>4 DEF HeldBalance, ZeroAccount
    <2>9. Work(t)'
      BY <1>1, <1>3, <2>4, <2>5 DEF IInv, TxnOK, Work, Books, NoRowNoCredits, ZeroAccount
    <2> QED
      BY <2>2, <2>3, <2>6, <2>7, <2>8, <2>9, PrivateStep DEF TxnOK
  <1> QED
    BY <1>2, <1>3 DEF InsertBalance

(* reserve_credits preserves the invariant: what it adds to the reserved   *)
(* credits was available.                                                  *)
LEMMA ReserveStep ==
    ASSUME IInv, NEW t \in Txns, NEW r \in ReservationIds, Reserve(t, r)
    PROVE  IInv'
  <1> DEFINE new == [status |-> "pending", amount |-> call[t].amount]
             acc == mine[t].account
  <1>1. /\ pc[t] = "apply" /\ call[t].op = "reserve" /\ call[t].amount \in Nat
        /\ ~Written(t) /\ holder["balance"] = t /\ Unused(r) /\ r # "balance"
        /\ acc.balance - acc.reserved >= call[t].amount
    BY CallFields, CreditAssumption DEF Reserve, Written, IInv, TxnOK, Phase, Available
  <1>2. /\ holder' = [holder EXCEPT ![r] = t]
        /\ mine' = [mine EXCEPT ![t].account.reserved = @ + call[t].amount,
                                ![t].reservations[r] = new]
        /\ pc' = [pc EXCEPT ![t] = "active"]
        /\ UNCHANGED <<account, reservations, ledger, call>>
    BY DEF Reserve
  <1>3. new \in Reservation /\ acc \in Account /\ acc.balance \in Int /\ acc.reserved \in Int
    BY <1>1, MineFields DEF Reservation, IInv
  <1>4. TypeOK'
    <2> DEFINE X == [mine[t] EXCEPT !.account.reserved = @ + call[t].amount,
                                    !.reservations[r] = new]
    <2>1. [acc EXCEPT !.reserved = @ + call[t].amount] \in Account
      BY <1>1, <1>3 DEF Account
    <2>2. X \in [account : Account, reservations : [ReservationIds -> Reservation],
                 entries : Seq(Entries)]
      BY <1>3, <2>1 DEF IInv, TypeOK
    <2>3. mine' = [mine EXCEPT ![t] = X]
      BY <1>2
    <2> HIDE DEF X, new
    <2>4. mine' \in [Txns -> [account : Account, reservations : [ReservationIds -> Reservation],
                              entries : Seq(Entries)]]
      BY <2>2, <2>3 DEF IInv, TypeOK
    <2> QED
      BY <1>2, <2>4 DEF IInv, TypeOK, Rows
  <1>5. Private(t)
    BY <1>1, <1>2, CreditAssumption DEF IInv, TypeOK, Private, Rows, Unused
  <1>6. /\ pc'[t] = "active" /\ call'[t] = call[t]
        /\ mine'[t].account.exists = acc.exists
        /\ mine'[t].account.balance = acc.balance
        /\ mine'[t].account.reserved = acc.reserved + call[t].amount
        /\ mine'[t].entries = mine[t].entries
        /\ mine'[t].reservations[r] = new
        /\ \A x \in ReservationIds \ {r} : mine'[t].reservations[x] = mine[t].reservations[x]
        /\ holder'[r] = t
        /\ \A row \in Rows \ {r} : holder'[row] = holder[row]
    BY <1>1, <1>2, <1>3 DEF IInv, TypeOK, Rows, Account
  <1>7. ~Written(t)'
    BY <1>1, <1>6 DEF Written
  <1>8. Phase(t)'
    BY <1>1, <1>6, <1>7 DEF Phase, Settling
  <1>9. HeldPending(t)'
    <2> SUFFICES ASSUME NEW x \in ReservationIds, holder'[x] = t
                 PROVE  /\ reservations[x].status \in {"none", "pending"}
                        /\ reservations[x].status = "pending" =>
                              mine'[t].reservations[x].amount = reservations[x].amount
                        /\ mine'[t].reservations[x].status = "pending"
      BY <1>2 DEF HeldPending
    <2>1. CASE x = r
      BY <1>1, <1>6, <2>1 DEF Unused, NoReservation
    <2>2. CASE x # r
      <3>1. holder[x] = t /\ mine'[t].reservations[x] = mine[t].reservations[x]
        BY <1>6, <2>2 DEF Rows
      <3> QED
        BY <1>1, <3>1 DEF IInv, TxnOK, HeldPending
    <2> QED
      BY <2>1, <2>2
  <1>10. HeldBalance(t)'
    BY <1>1, <1>3, <1>6 DEF IInv, TxnOK, HeldBalance
  <1>11. Work(t)'
    BY <1>1, <1>2, <1>6, <1>7 DEF IInv, TxnOK, Work
  <1> QED
    BY <1>4, <1>5, <1>8, <1>9, <1>10, <1>11, PrivateStep DEF TxnOK

(* The end of a call that appends a credit_transactions row.               *)
LEMMA WriteEntry ==
    ASSUME IInv, NEW t \in Txns, NEW acc \in Account, NEW e \in Entries,
           NEW held \in [ReservationIds -> Reservation],
           pc[t] = "apply", call[t].op \in {"add", "confirm", "release"},
           mine' = [mine EXCEPT ![t] = [account |-> acc, reservations |-> held,
                                        entries |-> Append(mine[t].entries, e)]],
           pc' = [pc EXCEPT ![t] = "active"],
           UNCHANGED <<account, reservations, ledger, holder, call>>,
           acc.exists, acc.reserved <= acc.balance,
           e.balance_before = mine[t].account.balance,
           e.balance_after = e.balance_before + Movement(e),
           acc.balance = e.balance_after,
           \A r \in ReservationIds :
                /\ held[r].amount = mine[t].reservations[r].amount
                /\ ~Settling(t) \/ r # call[t].id => held[r] = mine[t].reservations[r],
           Settling(t) => /\ e.reservation = call[t].id
                          /\ e.kind = held[call[t].id].status
                          /\ e.kind \in {"confirmed", "released"}
                          /\ e.amount = held[call[t].id].amount,
           ~Settling(t) => e.reservation = "none"
    PROVE  IInv'
  <1>1. ~Written(t) /\ mine[t].entries = <<>>
    BY DEF Written, IInv, TxnOK, Work
  <1>2. Append(mine[t].entries, e) = <<e>> /\ <<e>> \in Seq(Entries) /\ Len(<<e>>) = 1 /\ <<e>>[1] = e
    BY <1>1
  <1>3. mine'[t] = [account |-> acc, reservations |-> held, entries |-> <<e>>]
    BY <1>2 DEF IInv, TypeOK
  <1>4. mine' \in [Txns -> [account : Account, reservations : [ReservationIds -> Reservation],
                            entries : Seq(Entries)]]
    <2>1. [account |-> acc, reservations |-> held, entries |-> <<e>>]
            \in [account : Account, reservations : [ReservationIds -> Reservation],
                 entries : Seq(Entries)]
      BY <1>2
    <2> QED
      BY <1>2, <2>1 DEF IInv, TypeOK
  <1>5. TypeOK' /\ Private(t)
    BY <1>4 DEF IInv, TypeOK, Private
  <1>6. pc'[t] = "active" /\ call'[t] = call[t] /\ Written(t)' /\ Settling(t)' = Settling(t)
    BY DEF IInv, TypeOK, Written, Settling
  <1>7. /\ holder["balance"] = t
        /\ Settling(t) => holder[call[t].id] = t
        /\ mine[t].account.balance = account.balance
    BY <1>1 DEF IInv, TxnOK, Phase, Work
  <1>8. Phase(t)'
    BY <1>6, <1>7 DEF Phase
  <1>9. HeldPending(t)'
    BY <1>1, <1>3, <1>6 DEF IInv, TxnOK, HeldPending
  <1>10. HeldBalance(t)'
    BY <1>3 DEF HeldBalance
  <1>11. Work(t)'
    BY <1>2, <1>3, <1>6, <1>7 DEF Work
  <1> QED
    BY <1>5, <1>8, <1>9, <1>10, <1>11, PrivateStep DEF TxnOK

(* The common part of confirm_credits and release_credits preserves the    *)
(* invariant.                                                              *)
LEMMA SettleStep ==
    ASSUME IInv, NEW t \in Txns, NEW op \in {"confirm", "release"},
           NEW status \in {"confirmed", "released"}, NEW new \in Account,
           Settle(t, op, status, new), new.exists, new.reserved <= new.balance,
           new.balance = mine[t].account.balance
                            + (IF status = "confirmed" THEN -ReservedAmount(t) ELSE 0)
    PROVE  IInv'
  <1> DEFINE r == call[t].id
             held == [mine[t].reservations EXCEPT
                        ![r] = [status |-> status, amount |-> mine[t].reservations[r].amount]]
             e == Entry(status, r, mine[t].reservations[r].amount,
                        mine[t].account.balance, new.balance)
  <1>1. Settling(t) /\ r \in ReservationIds /\ pc[t] = "apply" /\ ReservedAmount(t) \in Nat
    BY CallFields, MineFields DEF Settle, Settling, IInv, ReservedAmount
  <1>2. held \in [ReservationIds -> Reservation]
    <2>1. [status |-> status, amount |-> mine[t].reservations[r].amount] \in Reservation
      BY <1>1 DEF Reservation, ReservedAmount
    <2> QED
      BY <1>1, <2>1 DEF IInv, TypeOK
  <1>3. e \in Entries /\ e.kind = status /\ e.reservation = r /\ e.amount = ReservedAmount(t)
        /\ e.balance_before = mine[t].account.balance /\ e.balance_after = new.balance
    BY <1>1, MineFields DEF Entry, Entries, IInv, Account, ReservedAmount
  <1>4. mine[t].account.balance \in Int
    BY MineFields DEF IInv
  <1>5. e.balance_after = e.balance_before + Movement(e)
    <2> HIDE DEF e
    <2> QED
      BY <1>1, <1>3, <1>4 DEF Movement
  <1>6. \A x \in ReservationIds :
            /\ held[x].amount = mine[t].reservations[x].amount
            /\ x # r => held[x] = mine[t].reservations[x]
    BY <1>1 DEF IInv, TypeOK, Reservation
  <1>7. held[r].status = status
    BY <1>1 DEF IInv, TypeOK, Reservation
  <1>8. mine' = [mine EXCEPT ![t] = [account |-> new, reservations |-> held,
                                     entries |-> Append(mine[t].entries, e)]]
    BY DEF Settle
  <1>9. /\ pc' = [pc EXCEPT ![t] = "active"]
        /\ UNCHANGED <<account, reservations, ledger, holder, call>>
    BY DEF Settle
  <1>10. e.amount = held[r].amount
    BY <1>1, <1>3, <1>6 DEF ReservedAmount
  <1>11. call[t].op \in {"add", "confirm", "release"}
    BY <1>1 DEF Settling
  <1> HIDE DEF e, held
  <1>12. \A x \in ReservationIds :
            /\ held[x].amount = mine[t].reservations[x].amount
            /\ ~Settling(t) \/ x # call[t].id => held[x] = mine[t].reservations[x]
    BY <1>1, <1>6
  <1>13. Settling(t) => /\ e.reservation = call[t].id
                        /\ e.kind = held[call[t].id].status
                        /\ e.kind \in {"confirmed", "released"}
                        /\ e.amount = held[call[t].id].amount
    BY <1>3, <1>7, <1>10
  <1>14. e.balance_before = mine[t].account.balance /\ new.balance = e.balance_after
    BY <1>3
  <1> QED
    BY <1>1, <1>2, <1>3, <1>5, <1>8, <1>9, <1>11, <1>12, <1>13, <1>14, WriteEntry

(* confirm_credits preserves the invariant.                                *)
LEMMA ConfirmStep ==
    ASSUME IInv, NEW t \in Txns, Confirm(t)
    PROVE  IInv'
  <1> DEFINE new == Confirmed(mine[t].account, ReservedAmount(t))
  <1>1. /\ call[t].id \in ReservationIds /\ holder["balance"] = t
        /\ mine[t].account \in Account /\ ReservedAmount(t) \in Nat
    BY CallFields, MineFields
    DEF Confirm, Settle, Settling, IInv, TxnOK, Phase, ReservedAmount
  <1>2. /\ new \in Account
        /\ new.exists = mine[t].account.exists
        /\ new.balance = mine[t].account.balance - ReservedAmount(t)
        /\ new.reserved = mine[t].account.reserved - ReservedAmount(t)
    BY <1>1 DEF Confirmed, Account
  <1>3. new.exists /\ new.reserved <= new.balance
    BY <1>1, <1>2 DEF IInv, TxnOK, HeldBalance, Account
  <1>4. Settle(t, "confirm", "confirmed", new)
    BY DEF Confirm
  <1>5. new.balance = mine[t].account.balance + (IF "confirmed" = "confirmed" THEN -ReservedAmount(t) ELSE 0)
    BY <1>1, <1>2 DEF Account
  <1> HIDE DEF new
  <1> QED
    BY <1>2, <1>3, <1>4, <1>5, SettleStep

(* release_credits preserves the invariant.                                *)
LEMMA ReleaseStep ==
    ASSUME IInv, NEW t \in Txns, Release(t)
    PROVE  IInv'
  <1> DEFINE new == Released(mine[t].account, ReservedAmount(t))
  <1>1. /\ call[t].id \in ReservationIds /\ holder["balance"] = t
        /\ mine[t].account \in Account /\ ReservedAmount(t) \in Nat
    BY CallFields, MineFields
    DEF Release, Settle, Settling, IInv, TxnOK, Phase, ReservedAmount
  <1>2. /\ new \in Account
        /\ new.exists = mine[t].account.exists
        /\ new.balance = mine[t].account.balance
        /\ new.reserved = mine[t].account.reserved - ReservedAmount(t)
    BY <1>1 DEF Released, Account
  <1>3. new.exists /\ new.reserved <= new.balance
    BY <1>1, <1>2 DEF IInv, TxnOK, HeldBalance, Account
  <1>4. Settle(t, "release", "released", new)
    BY DEF Release
  <1>5. new.balance = mine[t].account.balance + (IF "released" = "confirmed" THEN -ReservedAmount(t) ELSE 0)
    BY <1>1, <1>2 DEF Account
  <1> HIDE DEF new
  <1> QED
    BY <1>2, <1>3, <1>4, <1>5, SettleStep

(* add_credits preserves the invariant.                                    *)
LEMMA AddStep ==
    ASSUME IInv, NEW t \in Txns, Add(t)
    PROVE  IInv'
  <1> DEFINE acc == mine[t].account
             a == call[t].amount
             new == [acc EXCEPT !.balance = @ + a]
             e == Entry("added", "none", a, acc.balance, acc.balance + a)
  <1>1. /\ pc[t] = "apply" /\ call[t].op = "add" /\ ~Settling(t) /\ a \in Nat
        /\ holder["balance"] = t /\ acc \in Account /\ acc.balance \in Int
    BY CallFields, MineFields DEF Add, Settling, IInv, TxnOK, Phase
  <1>2. new \in Account /\ new.exists = acc.exists /\ new.balance = acc.balance + a
        /\ new.reserved = acc.reserved
    BY <1>1 DEF Account
  <1>3. new.exists /\ new.reserved <= new.balance
    BY <1>1, <1>2 DEF IInv, TxnOK, HeldBalance, Account
  <1>4. /\ e \in Entries /\ e.kind = "added" /\ e.reservation = "none" /\ e.amount = a
        /\ e.balance_before = acc.balance /\ e.balance_after = acc.balance + a
    BY <1>1 DEF Entry, Entries
  <1>5. e.balance_after = e.balance_before + Movement(e)
    <2> HIDE DEF e
    <2> QED
      BY <1>4 DEF Movement
  <1>6. mine[t].reservations \in [ReservationIds -> Reservation]
    BY DEF IInv, TypeOK
  <1>7. mine' = [mine EXCEPT ![t] = [account |-> new, reservations |-> mine[t].reservations,
                                     entries |-> Append(mine[t].entries, e)]]
    BY DEF Add
  <1>8. /\ pc' = [pc EXCEPT ![t] = "active"]
        /\ UNCHANGED <<account, reservations, ledger, holder, call>>
    BY DEF Add
  <1> HIDE DEF e, new
  <1> QED
    BY <1>1, <1>2, <1>3, <1>4, <1>5, <1>6, <1>7, <1>8, WriteEntry

(* A gapless ledger stays gapless when an entry is appended that starts    *)
(* where the ledger ends.                                                  *)
LEMMA ContinuesAppend ==
    ASSUME NEW entries \in Seq(Entries), NEW from, NEW e \in Entries,
           Continues(entries, from), e.balance_before = EndBalance(entries, from),
           e.balance_after = e.balance_before + Movement(e)
    PROVE  /\ Continues(Append(entries, e), from)
           /\ EndBalance(Append(entries, e), from) = e.balance_after
  <1> DEFINE n == Len(entries)
             new == Append(entries, e)
  <1>1. /\ new \in Seq(Entries) /\ Len(new) = n + 1 /\ new[n + 1] = e
        /\ \A i \in 1..n : new[i] = entries[i]
        /\ DOMAIN new = 1..(n + 1) /\ DOMAIN entries = 1..n /\ n \in Nat
    OBVIOUS
  <1>2. EndBalance(new, from) = e.balance_after
    BY <1>1 DEF EndBalance
  <1>3. Continues(new, from)
    <2> SUFFICES ASSUME NEW i \in 1..(n + 1)
                 PROVE  /\ new[i].balance_before =
                                (IF i = 1 THEN from ELSE new[i - 1].balance_after)
                        /\ new[i].balance_after = new[i].balance_before + Movement(new[i])
      BY <1>1 DEF Continues
    <2>1. CASE i \in 1..n
      <3>1. new[i] = entries[i] /\ (i # 1 => new[i - 1] = entries[i - 1])
        BY <1>1, <2>1
      <3> QED
        BY <1>1, <2>1, <3>1 DEF Continues
    <2>2. CASE i = n + 1
      <3>1. CASE n = 0
        BY <1>1, <2>2, <3>1 DEF EndBalance
      <3>2. CASE n # 0
        <4>1. entries # <<>> /\ new[i - 1] = entries[n] /\ i # 1
          <5>1. i - 1 = n /\ n \in 1..n /\ i # 1
            BY <1>1, <2>2, <3>2
          <5>2. entries # <<>>
            BY <3>2
          <5> HIDE DEF n, new
          <5> QED
            BY <1>1, <5>1, <5>2
        <4> QED
          BY <1>1, <2>2, <4>1 DEF EndBalance
      <3> QED
        BY <3>1, <3>2
    <2> QED
      BY <2>1, <2>2
  <1> QED
    BY <1>2, <1>3

(* An entry of the ledger names a reservation or none.                     *)
LEMMA LedgerReservations ==
    ASSUME TypeOK
    PROVE  \A i \in DOMAIN ledger : ledger[i].reservation \in ReservationIds \cup {"none"}
  <1>1. ASSUME NEW i \in DOMAIN ledger PROVE ledger[i].reservation \in ReservationIds \cup {"none"}
    <2>1. ledger[i] \in Entries
      BY DEF TypeOK
    <2> QED
      BY <2>1 DEF Entries
  <1> QED
    BY <1>1

(* COMMIT preserves the invariant: the rows it publishes were locked since *)
(* they were read, so the published balance, reservations and entries still*)
(* belong together.                                                        *)
LEMMA CommitStep ==
    ASSUME IInv, NEW t \in Txns, Commit(t)
    PROVE  IInv'
  <1> DEFINE rsv == [r \in ReservationIds |-> ReservationSeen(t, r)]
  <1>1. /\ account' = AccountSeen(t) /\ reservations' = rsv
        /\ ledger' = ledger \o mine[t].entries /\ Forget(t) /\ pc[t] = "active"
    BY DEF Commit
  <1>2. TypeOK'
    <2>1. /\ account' \in Account /\ reservations' \in [ReservationIds -> Reservation]
          /\ ledger' \in Seq(Entries)
      BY <1>1, MineFields DEF IInv, TypeOK
    <2> QED
      BY <1>1, <2>1, ForgetsAll DEF TypeOK
  <1>3. ASSUME NEW u \in Txns, u # t PROVE TxnOK(u)'
    <2>1. /\ pc'[u] = pc[u] /\ call'[u] = call[u] /\ mine'[u] = mine[u]
          /\ \A row \in Rows : holder'[row] = u <=> holder[row] = u
      BY <1>1, <1>3, ForgetsAll
    <2>2. account'.balance = account.balance \/ (holder["balance"] # u /\ ~Written(u))
      BY <1>1, <1>3 DEF AccountSeen, IInv, TxnOK, Phase
    <2>3. \A r \in ReservationIds : holder[r] = u => reservations'[r] = reservations[r]
      BY <1>1, <1>3 DEF ReservationSeen
    <2>4. TxnOK(u) /\ TypeOK
      BY DEF IInv
    <2> QED
      BY <2>1, <2>2, <2>3, <2>4, Undisturbed
  <1>4. TxnOK(t)'
    BY <1>1, ForgetsAll
  <1>5. NoRowNoCredits' /\ NoOverdraft'
    BY <1>1 DEF AccountSeen, IInv, TxnOK, HeldBalance, Books, NoRowNoCredits, NoOverdraft
  <1>6. \A r \in ReservationIds :
            /\ holder[r] # t => reservations'[r] = reservations[r]
            /\ holder[r] = t => /\ reservations'[r] = mine[t].reservations[r]
                                /\ reservations[r].status \in {"none", "pending"}
                                /\ \A i \in DOMAIN ledger : ledger[i].reservation # r
    <2> SUFFICES ASSUME NEW r \in ReservationIds
                 PROVE  /\ holder[r] # t => reservations'[r] = reservations[r]
                        /\ holder[r] = t =>
                                /\ reservations'[r] = mine[t].reservations[r]
                                /\ reservations[r].status \in {"none", "pending"}
                                /\ \A i \in DOMAIN ledger : ledger[i].reservation # r
      OBVIOUS
    <2>1. reservations'[r] = ReservationSeen(t, r)
      BY <1>1
    <2>2. CASE holder[r] = t
      <3>1. reservations[r].status \in {"none", "pending"}
        BY <2>2 DEF IInv, TxnOK, HeldPending
      <3>2. r # "none"
        BY CreditAssumption
      <3> QED
        BY <2>1, <2>2, <3>1, <3>2 DEF ReservationSeen, IInv, Books, EntriesMatch
    <2>3. CASE holder[r] # t
      BY <2>1, <2>3 DEF ReservationSeen
    <2> QED
      BY <2>2, <2>3
  <1>7. CASE Written(t)
    <2> DEFINE e == mine[t].entries[1]
               n == Len(ledger)
               k == call[t].id
    <2>1. /\ mine[t].entries \in Seq(Entries) /\ Len(mine[t].entries) = 1
          /\ e.balance_before = account.balance
          /\ e.balance_after = e.balance_before + Movement(e)
          /\ mine[t].account.balance = e.balance_after
          /\ holder["balance"] = t
      BY <1>7 DEF IInv, TypeOK, TxnOK, Work, Phase
    <2>2. e \in Entries /\ ledger \in Seq(Entries)
      BY <2>1 DEF IInv, TypeOK
    <2>3. ledger' = Append(ledger, e)
      <3>1. mine[t].entries = <<e>>
        BY <2>1
      <3> HIDE DEF e
      <3>2. ledger \o <<e>> = Append(ledger, e)
        BY <2>2
      <3> QED
        BY <1>1, <3>1, <3>2
    <2>4. LedgerExplainsBalance'
      <3>1. account'.balance = e.balance_after
        BY <1>1, <2>1 DEF AccountSeen
      <3>2. Continues(ledger, 0) /\ e.balance_before = EndBalance(ledger, 0)
        BY <2>1 DEF IInv, Books, LedgerExplainsBalance
      <3> HIDE DEF e
      <3>3. Continues(Append(ledger, e), 0) /\ EndBalance(Append(ledger, e), 0) = e.balance_after
        BY <2>1, <2>2, <3>2, ContinuesAppend
      <3> QED
        BY <2>3, <3>1, <3>3 DEF LedgerExplainsBalance
    <2>5. /\ DOMAIN ledger = 1..n /\ DOMAIN ledger' = 1..(n + 1) /\ n \in Nat
          /\ \A i \in 1..n : ledger'[i] = ledger[i]
          /\ ledger'[n + 1] = e
      BY <2>2, <2>3
    <2>6. CASE Settling(t)
      <3>1. /\ k \in ReservationIds /\ holder[k] = t
            /\ e.reservation = k /\ e.kind = mine[t].reservations[k].status
            /\ e.kind \in {"confirmed", "released"}
            /\ e.amount = mine[t].reservations[k].amount
        BY <1>7, <2>6, CallFields DEF IInv, TxnOK, Work, Phase
      <3> HIDE DEF e
      <3>2. \A r \in ReservationIds \ {k} :
                \/ reservations'[r] = reservations[r]
                \/ /\ reservations'[r].status = "pending"
                   /\ \A i \in DOMAIN ledger : ledger[i].reservation # r
        BY <1>6 DEF IInv, TxnOK, HeldPending
      <3>3. reservations'[k] = mine[t].reservations[k]
            /\ \A i \in DOMAIN ledger : ledger[i].reservation # k
        BY <1>6, <3>1
      <3>4. \A i \in DOMAIN ledger : ledger[i].reservation \in ReservationIds \cup {"none"}
        BY LedgerReservations DEF IInv
      <3>5. EntriesMatch
        BY DEF IInv, Books
      <3>6. EntriesMatch'
        <4>1. ASSUME NEW i \in DOMAIN ledger', ledger'[i].reservation # "none"
              PROVE  /\ reservations'[ledger'[i].reservation].status = ledger'[i].kind
                     /\ reservations'[ledger'[i].reservation].amount = ledger'[i].amount
                     /\ ledger'[i].kind \in {"confirmed", "released"}
          <5>1. CASE i \in 1..n
            <6>1. ledger'[i] = ledger[i] /\ ledger[i].reservation \in ReservationIds \ {k}
              BY <2>5, <3>3, <3>4, <4>1, <5>1
            <6>2. reservations'[ledger[i].reservation] = reservations[ledger[i].reservation]
              BY <2>5, <3>2, <5>1, <6>1
            <6> QED
              BY <2>5, <3>5, <4>1, <5>1, <6>1, <6>2 DEF EntriesMatch
          <5>2. CASE i = n + 1
            BY <2>5, <3>1, <3>3, <5>2
          <5> QED
            BY <2>5, <5>1, <5>2
        <4>2. ASSUME NEW i \in DOMAIN ledger', NEW j \in DOMAIN ledger',
                     ledger'[i].reservation = ledger'[j].reservation,
                     ledger'[i].reservation # "none"
              PROVE  i = j
          <5>1. CASE i \in 1..n /\ j \in 1..n
            BY <2>5, <3>5, <4>2, <5>1 DEF EntriesMatch
          <5>2. CASE i = n + 1 /\ j \in 1..n
            BY <2>5, <3>1, <3>3, <4>2, <5>2
          <5>3. CASE i \in 1..n /\ j = n + 1
            BY <2>5, <3>1, <3>3, <4>2, <5>3
          <5> QED
            BY <2>5, <5>1, <5>2, <5>3
        <4>3. ASSUME NEW r \in ReservationIds,
                     reservations'[r].status \in {"confirmed", "released"}
              PROVE  \E i \in DOMAIN ledger' : ledger'[i].reservation = r
          <5>1. CASE r = k
            BY <2>5, <3>1, <5>1
          <5>2. CASE r # k
            <6>1. reservations'[r] = reservations[r]
              BY <3>2, <4>3, <5>2
            <6>2. PICK i \in DOMAIN ledger : ledger[i].reservation = r
              BY <3>5, <4>3, <6>1 DEF EntriesMatch
            <6> QED
              BY <2>5, <6>2
          <5> QED
            BY <5>1, <5>2
        <4> QED
          BY <4>1, <4>2, <4>3 DEF EntriesMatch
      <3> QED
        BY <1>2, <1>3, <1>4, <1>5, <2>4, <3>6 DEF IInv, Books
    <2>7. CASE ~Settling(t)
      <3>1. e.reservation = "none"
        BY <1>7, <2>7 DEF IInv, TxnOK, Work
      <3> HIDE DEF e
      <3>2. \A r \in ReservationIds :
                \/ reservations'[r] = reservations[r]
                \/ /\ reservations'[r].status = "pending"
                   /\ \A i \in DOMAIN ledger : ledger[i].reservation # r
        BY <1>6, <2>7 DEF IInv, TxnOK, HeldPending
      <3>3. \A i \in DOMAIN ledger : ledger[i].reservation \in ReservationIds \cup {"none"}
        BY LedgerReservations DEF IInv
      <3>4. EntriesMatch
        BY DEF IInv, Books
      <3>5. EntriesMatch'
        <4>1. ASSUME NEW i \in DOMAIN ledger', ledger'[i].reservation # "none"
              PROVE  /\ i \in 1..n /\ ledger'[i] = ledger[i]
                     /\ reservations'[ledger[i].reservation] = reservations[ledger[i].reservation]
          <5>1. i \in 1..n /\ ledger'[i] = ledger[i]
            BY <2>5, <3>1, <4>1
          <5>2. ledger[i].reservation \in ReservationIds
            BY <2>5, <3>3, <4>1, <5>1
          <5> QED
            BY <2>5, <3>2, <5>1, <5>2
        <4>2. ASSUME NEW r \in ReservationIds,
                     reservations'[r].status \in {"confirmed", "released"}
              PROVE  \E i \in DOMAIN ledger' : ledger'[i].reservation = r
          <5>1. PICK i \in DOMAIN ledger : ledger[i].reservation = r
            BY <3>2, <3>4, <4>2 DEF EntriesMatch
          <5> QED
            BY <2>5, <5>1
        <4> QED
          BY <2>5, <3>4, <4>1, <4>2 DEF EntriesMatch
      <3> QED
        BY <1>2, <1>3, <1>4, <1>5, <2>4, <3>5 DEF IInv, Books
    <2> QED
      BY <2>6, <2>7
  <1>8. CASE ~Written(t)
    <2>1. mine[t].entries = <<>> /\ (holder["balance"] = t => mine[t].account.balance = account.balance)
      BY <1>8 DEF IInv, TxnOK, Work
    <2>2. ledger' = ledger /\ account'.balance = account.balance
      BY <1>1, <2>1 DEF IInv, TypeOK, AccountSeen
    <2>3. LedgerExplainsBalance'
      BY <2>2 DEF IInv, Books, LedgerExplainsBalance
    <2>4. \A r \in ReservationIds :
                \/ reservations'[r] = reservations[r]
                \/ /\ reservations'[r].status = "pending"
                   /\ \A i \in DOMAIN ledger : ledger[i].reservation # r
      BY <1>6, <1>8 DEF IInv, TxnOK, HeldPending
    <2>5. \A i \in DOMAIN ledger : ledger[i].reservation \in ReservationIds \cup {"none"}
      BY LedgerReservations DEF IInv
    <2>6. EntriesMatch'
      <3>1. \A i \in DOMAIN ledger : ledger[i].reservation # "none" =>
                reservations'[ledger[i].reservation] = reservations[ledger[i].reservation]
        BY <2>4, <2>5
      <3>2. EntriesMatch
        BY DEF IInv, Books
      <3> QED
        BY <2>2, <2>4, <3>1, <3>2 DEF EntriesMatch
    <2> QED
      BY <1>2, <1>3, <1>4, <1>5, <2>3, <2>6 DEF IInv, Books
  <1> QED
    BY <1>7, <1>8

(* A tenant without a balance row satisfies the inductive invariant.       *)
LEMMA InitIInv == Init => IInv
  <1> SUFFICES ASSUME Init PROVE IInv
    OBVIOUS
  <1>1. TypeOK
    <2>1. account \in Account /\ ledger \in Seq(Entries)
      BY DEF Init, NoAccount, Account
    <2>2. reservations \in [ReservationIds -> Reservation]
      BY DEF Init, NoReservation, Reservation
    <2>3. call \in [Txns -> Calls]
      BY DEF Init, Calls
    <2>4. mine \in [Txns -> [account : Account, reservations : [ReservationIds -> Reservation],
                             entries : Seq(Entries)]]
      BY CleanType DEF Init
    <2>5. holder \in [Rows -> Txns \cup {NoTxn}]
          /\ pc \in [Txns -> {"idle", "read_balance", "lock_reservation", "lock_balance",
                              "insert_balance", "apply", "active"}]
      BY DEF Init
    <2> QED
      BY <2>1, <2>2, <2>3, <2>4, <2>5 DEF TypeOK
  <1>2. Books
    <2>1. DOMAIN ledger = {}
      BY DEF Init
    <2>2. \A r \in ReservationIds : reservations[r].status = "none"
      BY DEF Init, NoReservation
    <2>3. account.balance = 0 /\ account.reserved = 0
      BY DEF Init, NoAccount
    <2>4. LedgerExplainsBalance
      BY <2>1, <2>3 DEF Init, LedgerExplainsBalance, Continues, EndBalance
    <2> QED
      BY <2>1, <2>2, <2>3, <2>4 DEF Books, NoRowNoCredits, NoOverdraft, EntriesMatch
  <1>3. ASSUME NEW t \in Txns PROVE TxnOK(t)
    <2>1. pc[t] = "idle" /\ mine[t] = Clean /\ \A row \in Rows : holder[row] # t
      BY CreditAssumption DEF Init
    <2>2. HoldsNothing(t) /\ ~Written(t) /\ holder["balance"] # t
          /\ \A r \in ReservationIds : holder[r] # t
      BY <2>1 DEF HoldsNothing, Written, Rows
    <2> QED
      BY <2>1, <2>2 DEF TxnOK, Phase, HeldPending, HeldBalance, Work, Clean
  <1> QED
    BY <1>1, <1>2, <1>3 DEF IInv

(* Every step of a transaction preserves the invariant.                    *)
LEMMA StepIInv ==
    ASSUME IInv, NEW t \in Txns, Step(t)
    PROVE  IInv'
  <1>1. CASE CallGetBalance(t)
    <2>1. [op |-> "get"] \in Calls
      BY DEF Calls
    <2> QED
      BY <1>1, <2>1, BeginStep DEF CallGetBalance
  <1>2. ASSUME NEW a \in Amounts, CallReserve(t, a) PROVE IInv'
    <2> DEFINE c == [op |-> "reserve", amount |-> a]
    <2>1. c \in Calls /\ c.op = "reserve"
      BY DEF Calls
    <2>2. Begin(t, c, "lock_balance")
      BY <1>2 DEF CallReserve
    <2> HIDE DEF c
    <2> QED
      BY <2>1, <2>2, BeginStep
  <1>3. ASSUME NEW a \in Amounts, CallAdd(t, a) PROVE IInv'
    <2> DEFINE c == [op |-> "add", amount |-> a]
    <2>1. c \in Calls /\ c.op = "add"
      BY DEF Calls
    <2>2. Begin(t, c, "lock_balance")
      BY <1>3 DEF CallAdd
    <2> HIDE DEF c
    <2> QED
      BY <2>1, <2>2, BeginStep
  <1>4. ASSUME NEW r \in ReservationIds, NEW op \in {"confirm", "release"}, CallSettle(t, op, r)
        PROVE IInv'
    <2> DEFINE c == [op |-> op, id |-> r]
    <2>1. c \in Calls /\ c.op = op
      BY DEF Calls
    <2>2. Begin(t, c, "lock_reservation")
      BY <1>4 DEF CallSettle
    <2> HIDE DEF c
    <2> QED
      BY <2>1, <2>2, BeginStep
  <1>5. ASSUME NEW r \in ReservationIds, ConfirmOwn(t, r) \/ Reserve(t, r) PROVE IInv'
    BY <1>5, ConfirmOwnStep, ReserveStep
  <1>6. CASE ReadBalance(t)
    BY <1>6, ReadBalanceStep
  <1>7. CASE LockReservation(t)
    BY <1>7, LockReservationStep
  <1>8. CASE LockBalance(t)
    BY <1>8, LockBalanceStep
  <1>9. CASE InsertBalance(t)
    BY <1>9, InsertBalanceStep
  <1>10. CASE RefuseReserve(t)
    BY <1>10, RollbackStep DEF RefuseReserve
  <1>11. CASE Confirm(t)
    BY <1>11, ConfirmStep
  <1>12. CASE Release(t)
    BY <1>12, ReleaseStep
  <1>13. CASE Add(t)
    BY <1>13, AddStep
  <1>14. CASE Commit(t)
    BY <1>14, CommitStep
  <1>15. CASE Fail(t)
    BY <1>15, RollbackStep DEF Fail
  <1> QED
    BY <1>1, <1>2, <1>3, <1>4, <1>5, <1>6, <1>7, <1>8, <1>9, <1>10, <1>11, <1>12, <1>13,
       <1>14, <1>15 DEF Step

(* A stuttering step preserves the invariant.                              *)
LEMMA StutterIInv ==
    ASSUME IInv, UNCHANGED vars
    PROVE  IInv'
  <1>1. TypeOK' /\ Books'
    BY DEF vars, IInv, TypeOK, Books, NoRowNoCredits, NoOverdraft, LedgerExplainsBalance,
           EntriesMatch
  <1>2. ASSUME NEW u \in Txns PROVE TxnOK(u)'
    BY Undisturbed DEF vars, IInv
  <1> QED
    BY <1>1, <1>2 DEF IInv

(* The inductive invariant: whoever holds the balance row works on its     *)
(* latest committed version and has written at most one transaction row.   *)
THEOREM CreditInvariant == Spec => []IInv
  <1>1. IInv /\ [Next]_vars => IInv'
    BY StepIInv, StutterIInv DEF Next
  <1> QED
    BY <1>1, InitIInv, PTL DEF Spec

(* The state of the credit service stays well typed.                       *)
THEOREM CreditTypeOK == Spec => []TypeOK
  BY CreditInvariant, PTL DEF IInv

(* Concurrent reserve_credits calls never promise more than the balance.   *)
THEOREM CreditNoOverdraft == Spec => []NoOverdraft
  <1>1. IInv => NoOverdraft
    BY DEF IInv, Books
  <1> QED
    BY <1>1, CreditInvariant, PTL

(* The credit_transactions always add up to the balance row.               *)
THEOREM CreditLedgerExplainsBalance == Spec => []LedgerExplainsBalance
  <1>1. IInv => LedgerExplainsBalance
    BY DEF IInv, Books
  <1> QED
    BY <1>1, CreditInvariant, PTL

(* confirm_credits and release_credits settle a reservation exactly once.  *)
THEOREM CreditSettledOnce == Spec => []SettledOnce
  <1>1. IInv => SettledOnce
    <2> SUFFICES ASSUME IInv, NEW r \in ReservationIds
                 PROVE  LET settling == {i \in DOMAIN ledger : ledger[i].reservation = r} IN
                        IF reservations[r].status \in {"confirmed", "released"}
                        THEN \E i \in settling : /\ settling = {i}
                                                 /\ ledger[i].kind = reservations[r].status
                                                 /\ ledger[i].amount = reservations[r].amount
                        ELSE settling = {}
      BY DEF SettledOnce
    <2> DEFINE settling == {i \in DOMAIN ledger : ledger[i].reservation = r}
    <2>1. r # "none" /\ EntriesMatch
      BY CreditAssumption DEF IInv, Books
    <2>2. CASE reservations[r].status \in {"confirmed", "released"}
      <3>1. PICK i \in DOMAIN ledger : ledger[i].reservation = r
        BY <2>1, <2>2 DEF EntriesMatch
      <3>2. settling = {i}
        BY <2>1, <3>1 DEF EntriesMatch
      <3> QED
        BY <2>1, <2>2, <3>1, <3>2 DEF EntriesMatch
    <2>3. CASE reservations[r].status \notin {"confirmed", "released"}
      BY <2>1, <2>3 DEF EntriesMatch
    <2> QED
      BY <2>2, <2>3
  <1> QED
    BY <1>1, CreditInvariant, PTL

(* Reservation before balance: the service cannot deadlock.                *)
THEOREM CreditLockOrder == Spec => []LockOrder
  <1>1. IInv => LockOrder
    <2> SUFFICES ASSUME IInv, NEW t \in Txns, NEW row \in Rows, WaitsFor(t, row)
                 PROVE  /\ holder["balance"] # t
                        /\ row # "balance" => HoldsNothing(t)
      BY DEF LockOrder
    <2>1. CASE pc[t] = "lock_reservation" /\ row = call[t].id
      BY <2>1 DEF WaitsFor, IInv, TxnOK, Phase, HoldsNothing, Rows
    <2>2. CASE row = "balance"
      BY <2>2 DEF WaitsFor
    <2> QED
      BY <2>1, <2>2 DEF WaitsFor
  <1> QED
    BY <1>1, CreditInvariant, PTL

(* A settled reservation is never changed again, nor the amount of one.    *)
THEOREM CreditSettledIsFinal == Spec => SettledIsFinal
  <1> DEFINE Final ==
        \A r \in ReservationIds :
            reservations[r].status # "none" =>
                /\ reservations'[r].amount = reservations[r].amount
                /\ reservations[r].status # "pending" => reservations'[r] = reservations[r]
  <1>1. ASSUME IInv, [Next]_vars PROVE [Final]_vars
    <2>1. CASE UNCHANGED reservations
      BY <2>1
    <2>2. ASSUME NEW t \in Txns, Commit(t) PROVE Final
      <3>1. reservations' = [r \in ReservationIds |-> ReservationSeen(t, r)]
        BY <2>2 DEF Commit
      <3>2. HeldPending(t)
        BY <1>1 DEF IInv, TxnOK
      <3>3. \A r \in ReservationIds : reservations[r].status = "pending" \/ holder[r] # t
                                        \/ reservations[r].status = "none"
        BY <3>2 DEF HeldPending
      <3> QED
        BY <3>1, <3>2, <3>3 DEF HeldPending, ReservationSeen
    <2>3. ASSUME NEW t \in Txns, Step(t), ~Commit(t) PROVE UNCHANGED reservations
      BY <2>3 DEF Step, CallGetBalance, CallReserve, CallAdd, CallSettle, Begin, ConfirmOwn,
           Reserve, ReadBalance, LockReservation, LockBalance, InsertBalance, RefuseReserve,
           Confirm, Release, Settle, Add, Fail, Rollback
    <2> QED
      BY <1>1, <2>1, <2>2, <2>3 DEF Next, vars
  <1>2. SettledIsFinal <=> [][Final]_vars
    BY DEF SettledIsFinal
  <1> QED
    BY <1>1, <1>2, CreditInvariant, PTL DEF Spec

-------------------------------------------------------------------------------
(***************************************************************************)
(* The reserved column and the refinement of CreditAccount.  A transaction *)
(* holds one reservation at most, and what it has done to that one row     *)
(* goes with what it has done to the two columns of the balance row; at    *)
(* its commit this is one call of the sequential account.                  *)
(***************************************************************************)

NoneHeld(t) == \A r \in ReservationIds : holder[r] # t
OnlyHolds(t, r) == \A x \in ReservationIds \ {r} : holder[x] # t

(* The holder of the balance row has moved its columns by this much.       *)
Moved(t, spent, reserved) ==
    /\ holder["balance"] = t
    /\ mine[t].account.balance = account.balance - spent
    /\ mine[t].account.reserved = account.reserved + reserved

(* t has written nothing.                                                  *)
Looking(t) == holder["balance"] = t => Moved(t, 0, 0)

(* t has found the committed reservation r, or will.                       *)
Found(t, r) ==
    /\ OnlyHolds(t, r)
    /\ holder[r] = t => mine[t].reservations[r] = reservations[r]
    /\ Looking(t)

(* t has inserted the reservation r of that many credits.                  *)
Inserted(t, r, status, amount) ==
    /\ OnlyHolds(t, r)
    /\ holder[r] = t
    /\ reservations[r] = NoReservation
    /\ mine[t].reservations[r] = [status |-> status, amount |-> amount]
    /\ amount \in Amounts
    /\ amount <= account.balance - account.reserved

ReservedOne(t, r) == \E a \in Amounts : Inserted(t, r, "pending", a) /\ Moved(t, 0, a)
PaidOne(t, r) == \E a \in Amounts : Inserted(t, r, "confirmed", a) /\ Moved(t, a, 0)

(* t has confirmed or released the committed reservation r.                *)
SettledOne(t, r) ==
    /\ OnlyHolds(t, r)
    /\ holder[r] = t
    /\ reservations[r].status = "pending"
    /\ mine[t].reservations[r].amount = reservations[r].amount
    /\ \/ /\ mine[t].reservations[r].status = "confirmed"
          /\ Moved(t, reservations[r].amount, -reservations[r].amount)
       \/ /\ mine[t].reservations[r].status = "released"
          /\ Moved(t, 0, -reservations[r].amount)

AddedSome(t) == NoneHeld(t) /\ \E a \in Amounts : Moved(t, -a, 0)

HasReserved(t) == pc[t] = "active" /\ call[t].op = "reserve"

(* What t has done so far.                                                 *)
Deed(t) ==
    /\ HasReserved(t) => \E r \in ReservationIds : ReservedOne(t, r)
    /\ Written(t) /\ ~Settling(t) => AddedSome(t)
    /\ Written(t) /\ Settling(t) => SettledOne(t, call[t].id) \/ PaidOne(t, call[t].id)
    /\ ~Written(t) /\ Settling(t) =>
            \/ Found(t, call[t].id)
            \/ call[t].op = "confirm" /\ ReservedOne(t, call[t].id)
    /\ ~Written(t) /\ ~Settling(t) /\ ~HasReserved(t) => NoneHeld(t) /\ Looking(t)

PendingIn(h) == {r \in ReservationIds : h[r].status = "pending"}
PendingTotal(h) == Total([r \in PendingIn(h) |-> h[r].amount])

Sums == account.reserved = PendingTotal(reservations) /\ \A t \in Txns : Deed(t)

-------------------------------------------------------------------------------
(* Sums of credits.                                                        *)

LEMMA CreditsOfOne ==
    ASSUME NEW x, NEW n \in Nat
    PROVE  IsFiniteSet({x} \X (1 .. n)) /\ Cardinality({x} \X (1 .. n)) = n
<1>1. IsFiniteSet({x}) /\ Cardinality({x}) = 1
  BY FS_Singleton
<1>2. IsFiniteSet(1 .. n) /\ Cardinality(1 .. n) = n
  BY FS_Interval
<1>3. /\ IsFiniteSet({x} \X (1 .. n))
      /\ Cardinality({x} \X (1 .. n)) = Cardinality({x}) * Cardinality(1 .. n)
  BY <1>1, <1>2, FS_Product
<1>. QED
  BY <1>1, <1>2, <1>3

LEMMA TotalType ==
    ASSUME NEW S, IsFiniteSet(S), NEW amount \in [S -> Nat]
    PROVE  IsFiniteSet(Credits(amount)) /\ Total(amount) \in Nat
<1> DEFINE f == [x \in S |-> {x} \X (1 .. amount[x])]
           T == {{x} \X (1 .. amount[x]) : x \in DOMAIN amount}
<1>1. f \in Surjection(S, T)
  BY DEF Surjection
<1>2. IsFiniteSet(T)
  BY <1>1, FS_Surjection
<1>3. ASSUME NEW u \in T PROVE IsFiniteSet(u)
  <2>1. PICK x \in S : u = {x} \X (1 .. amount[x])
    OBVIOUS
  <2>2. amount[x] \in Nat
    OBVIOUS
  <2>. QED
    BY <2>1, <2>2, CreditsOfOne
<1>4. IsFiniteSet(UNION T)
  BY <1>2, <1>3, FS_UNION
<1>. QED
  BY <1>4, FS_CardinalityType DEF Total, Credits

LEMMA TotalOfNothing ==
    ASSUME NEW amount, DOMAIN amount = {}
    PROVE  Total(amount) = 0
<1>1. Credits(amount) = {}
  BY DEF Credits
<1>. QED
  BY <1>1, FS_EmptySet DEF Total

(* One more amount.                                                        *)
LEMMA TotalOfMore ==
    ASSUME NEW S, IsFiniteSet(S), NEW x, x \notin S,
           NEW a \in [S -> Nat], NEW b \in [S \cup {x} -> Nat],
           \A y \in S : b[y] = a[y]
    PROVE  Total(b) = Total(a) + b[x]
<1> DEFINE C == {x} \X (1 .. b[x])
<1>1. Credits(b) = Credits(a) \cup C
  <2>1. ASSUME NEW u \in Credits(b) PROVE u \in Credits(a) \cup C
    <3>1. PICK y \in S \cup {x} : u \in {y} \X (1 .. b[y])
      BY <2>1 DEF Credits
    <3>2. CASE y = x
      BY <3>1, <3>2
    <3>3. CASE y \in S
      BY <3>1, <3>3 DEF Credits
    <3>. QED
      BY <3>1, <3>2, <3>3
  <2>2. ASSUME NEW u \in Credits(a) PROVE u \in Credits(b)
    <3>1. PICK y \in S : u \in {y} \X (1 .. a[y])
      BY <2>2 DEF Credits
    <3>. QED
      BY <3>1 DEF Credits
  <2>3. C \subseteq Credits(b)
    BY DEF Credits
  <2>. QED
    BY <2>1, <2>2, <2>3
<1>2. Credits(a) \cap C = {}
  BY DEF Credits
<1>3. b[x] \in Nat
  OBVIOUS
<1>4. IsFiniteSet(C) /\ Cardinality(C) = b[x]
  BY <1>3, CreditsOfOne
<1>5. IsFiniteSet(Credits(a)) /\ Total(a) \in Nat
  BY TotalType
<1>. HIDE DEF C
<1>6. Cardinality(Credits(a) \cup C)
        = Cardinality(Credits(a)) + Cardinality(C) - Cardinality(Credits(a) \cap C)
  BY <1>4, <1>5, FS_Union
<1>7. Cardinality(Credits(a) \cap C) = 0
  BY <1>2, FS_EmptySet
<1>8. Total(b) = Cardinality(Credits(a) \cup C) /\ Total(a) = Cardinality(Credits(a))
  BY <1>1 DEF Total
<1>. QED
  BY <1>3, <1>4, <1>5, <1>6, <1>7, <1>8

LEMMA PendingTypes ==
    ASSUME NEW h \in [ReservationIds -> Reservation]
    PROVE  /\ IsFiniteSet(PendingIn(h))
           /\ PendingTotal(h) \in Nat
           /\ [r \in PendingIn(h) |-> h[r].amount] \in [PendingIn(h) -> Nat]
<1>1. PendingIn(h) \subseteq ReservationIds
  BY DEF PendingIn
<1>2. IsFiniteSet(PendingIn(h))
  BY <1>1, CreditAssumption, FS_Subset
<1>3. [r \in PendingIn(h) |-> h[r].amount] \in [PendingIn(h) -> Nat]
  BY <1>1 DEF Reservation
<1>. QED
  BY <1>2, <1>3, TotalType DEF PendingTotal

(* A reservation more is pending, ...                                      *)
LEMMA PendingMore ==
    ASSUME NEW h \in [ReservationIds -> Reservation], NEW r \in ReservationIds,
           NEW g \in [ReservationIds -> Reservation],
           h[r].status # "pending", g[r].status = "pending",
           \A x \in ReservationIds \ {r} : g[x] = h[x]
    PROVE  PendingTotal(g) = PendingTotal(h) + g[r].amount
<1>1. PendingIn(g) = PendingIn(h) \cup {r} /\ r \notin PendingIn(h)
  BY DEF PendingIn
<1>2. \A x \in PendingIn(h) : g[x] = h[x]
  BY <1>1 DEF PendingIn
<1> DEFINE a == [x \in PendingIn(h) |-> h[x].amount]
           b == [x \in PendingIn(g) |-> g[x].amount]
<1>3. a \in [PendingIn(h) -> Nat] /\ b \in [PendingIn(h) \cup {r} -> Nat]
  <2>1. b \in [PendingIn(g) -> Nat]
    BY PendingTypes
  <2>. QED
    BY <2>1, <1>1, PendingTypes
<1>4. (\A x \in PendingIn(h) : b[x] = a[x]) /\ b[r] = g[r].amount
  BY <1>1, <1>2
<1>5. Total(a) = PendingTotal(h) /\ Total(b) = PendingTotal(g)
  BY DEF PendingTotal
<1>6. IsFiniteSet(PendingIn(h))
  BY PendingTypes
<1>. HIDE DEF a, b
<1>7. Total(b) = Total(a) + b[r]
  BY <1>1, <1>3, <1>4, <1>6, TotalOfMore
<1>. QED
  BY <1>4, <1>5, <1>7

(* ... or a reservation that is not pending changes.                       *)
LEMMA PendingSame ==
    ASSUME NEW h, NEW g, NEW r \in ReservationIds,
           h[r].status # "pending", g[r].status # "pending",
           \A x \in ReservationIds \ {r} : g[x] = h[x]
    PROVE  PendingTotal(g) = PendingTotal(h)
<1>1. PendingIn(g) = PendingIn(h) /\ r \notin PendingIn(h)
  BY DEF PendingIn
<1>2. \A x \in PendingIn(h) : g[x] = h[x]
  BY <1>1 DEF PendingIn
<1>3. [x \in PendingIn(h) |-> h[x].amount] = [x \in PendingIn(g) |-> g[x].amount]
  BY <1>1, <1>2
<1>. QED
  BY <1>3 DEF PendingTotal

-------------------------------------------------------------------------------
(* What a transaction has done stays done while others step.               *)

LEMMA DeedKept ==
    ASSUME TypeOK, NEW u \in Txns, Deed(u),
           pc'[u] = pc[u], call'[u] = call[u], mine'[u] = mine[u],
           \A row \in Rows : holder'[row] = u <=> holder[row] = u,
           account' = account \/ holder["balance"] # u,
           \A r \in ReservationIds : holder[r] = u => reservations'[r] = reservations[r]
    PROVE  Deed(u)'
  <1>1. /\ Written(u)' = Written(u) /\ Settling(u)' = Settling(u)
        /\ HasReserved(u)' = HasReserved(u)
    BY DEF Written, Settling, HasReserved
  <1>2. /\ holder'["balance"] = u <=> holder["balance"] = u
        /\ \A r \in ReservationIds : holder'[r] = u <=> holder[r] = u
    BY DEF Rows
  <1>3. Settling(u) => call[u].id \in ReservationIds
    BY CallFields
  <1>4. NoneHeld(u) => NoneHeld(u)'
    BY <1>2 DEF NoneHeld
  <1>5. \A r \in ReservationIds : OnlyHolds(u, r) => OnlyHolds(u, r)'
    BY <1>2 DEF OnlyHolds
  <1>6. ASSUME NEW a, NEW b, Moved(u, a, b) PROVE Moved(u, a, b)' /\ account' = account
    BY <1>2, <1>6 DEF Moved
  <1>7. Looking(u) => Looking(u)'
    BY <1>2, <1>6 DEF Looking
  <1>8. ASSUME NEW r \in ReservationIds, Found(u, r) PROVE Found(u, r)'
    BY <1>2, <1>5, <1>7, <1>8 DEF Found
  <1>9. ASSUME NEW r \in ReservationIds, NEW status, NEW a,
               Inserted(u, r, status, a), account' = account
        PROVE  Inserted(u, r, status, a)'
    BY <1>2, <1>5, <1>9 DEF Inserted
  <1>10. ASSUME NEW r \in ReservationIds, ReservedOne(u, r) PROVE ReservedOne(u, r)'
    <2>1. PICK a \in Amounts : Inserted(u, r, "pending", a) /\ Moved(u, 0, a)
      BY <1>10 DEF ReservedOne
    <2>2. Inserted(u, r, "pending", a)' /\ Moved(u, 0, a)'
      BY <1>6, <1>9, <2>1
    <2> QED
      BY <2>2 DEF ReservedOne
  <1>11. ASSUME NEW r \in ReservationIds, PaidOne(u, r) PROVE PaidOne(u, r)'
    <2>1. PICK a \in Amounts : Inserted(u, r, "confirmed", a) /\ Moved(u, a, 0)
      BY <1>11 DEF PaidOne
    <2>2. Inserted(u, r, "confirmed", a)' /\ Moved(u, a, 0)'
      BY <1>6, <1>9, <2>1
    <2> QED
      BY <2>2 DEF PaidOne
  <1>12. ASSUME NEW r \in ReservationIds, SettledOne(u, r) PROVE SettledOne(u, r)'
    <2>1. /\ OnlyHolds(u, r)' /\ holder'[r] = u /\ reservations'[r] = reservations[r]
          /\ reservations[r].status = "pending"
          /\ mine[u].reservations[r].amount = reservations[r].amount
      BY <1>2, <1>5, <1>12 DEF SettledOne
    <2>2. CASE /\ mine[u].reservations[r].status = "confirmed"
               /\ Moved(u, reservations[r].amount, -reservations[r].amount)
      <3>1. Moved(u, reservations[r].amount, -reservations[r].amount)'
        <4>1. account' = account /\ holder'["balance"] = u
          BY <1>2, <2>2 DEF Moved
        <4> QED
          BY <2>1, <2>2, <4>1 DEF Moved
      <3> QED
        BY <2>1, <2>2, <3>1 DEF SettledOne
    <2>3. CASE /\ mine[u].reservations[r].status = "released"
               /\ Moved(u, 0, -reservations[r].amount)
      <3>1. Moved(u, 0, -reservations[r].amount)'
        <4>1. account' = account /\ holder'["balance"] = u
          BY <1>2, <2>3 DEF Moved
        <4> QED
          BY <2>1, <2>3, <4>1 DEF Moved
      <3> QED
        BY <2>1, <2>3, <3>1 DEF SettledOne
    <2> QED
      BY <1>12, <2>2, <2>3 DEF SettledOne
  <1>13. AddedSome(u) => AddedSome(u)'
    BY <1>4, <1>6 DEF AddedSome
  <1> QED
    BY <1>1, <1>3, <1>4, <1>7, <1>8, <1>10, <1>11, <1>12, <1>13 DEF Deed

LEMMA PrivateDeed ==
    ASSUME IInv, Sums, NEW t \in Txns, Private(t), Deed(t)'
    PROVE  Sums'
  <1>1. ASSUME NEW u \in Txns, u # t PROVE Deed(u)'
    BY <1>1, DeedKept DEF Sums, IInv, Private
  <1>2. (account.reserved = PendingTotal(reservations))'
    BY DEF Sums, Private
  <1> QED
    BY <1>1, <1>2 DEF Sums

LEMMA ForgetDeed ==
    ASSUME IInv, NEW t \in Txns, Forget(t)
    PROVE  Deed(t)'
  <1>1. pc'[t] = "idle" /\ call'[t] = NoCall
    BY DEF Forget, IInv, TypeOK
  <1>2. ~Written(t)' /\ ~Settling(t)' /\ ~HasReserved(t)'
    BY <1>1 DEF Written, Settling, HasReserved, NoCall
  <1>3. \A row \in Rows : holder'[row] # t
    BY CreditAssumption DEF Forget, IInv, TypeOK
  <1>4. NoneHeld(t)' /\ Looking(t)'
    BY <1>3 DEF NoneHeld, Looking, Rows
  <1> QED
    BY <1>2, <1>4 DEF Deed

LEMMA RollbackDeed ==
    ASSUME IInv, Sums, NEW t \in Txns, Rollback(t)
    PROVE  Sums'
  <1>1. Private(t)
    BY ForgetsAll DEF Rollback, Private
  <1> QED
    BY <1>1, ForgetDeed, PrivateDeed DEF Rollback

LEMMA BeginDeed ==
    ASSUME IInv, Sums, NEW t \in Txns, NEW c, NEW where, Begin(t, c, where), where # "active",
           c.op \in {"confirm", "release"} => c.id \in ReservationIds
    PROVE  Sums'
  <1>1. Private(t)
    BY DEF Begin, Private, IInv, TypeOK
  <1>2. pc'[t] = where /\ holder' = holder
    BY DEF Begin, IInv, TypeOK
  <1>3. ~Written(t)' /\ ~HasReserved(t)'
    BY <1>2 DEF Written, HasReserved
  <1>4. \A row \in Rows : holder'[row] # t
    BY <1>2 DEF Begin, IInv, TxnOK, Phase, HoldsNothing
  <1>5. NoneHeld(t)' /\ Looking(t)'
    BY <1>4 DEF NoneHeld, Looking, Rows
  <1>6. Settling(t)' => Found(t, call[t].id)'
    <2>1. call'[t] = c
      BY DEF Begin, IInv, TypeOK
    <2> QED
      BY <1>5, <2>1 DEF Found, OnlyHolds, NoneHeld, Settling
  <1> QED
    BY <1>1, <1>3, <1>5, <1>6, PrivateDeed DEF Deed

(* The balance row of t and its versions of the reservations are the same. *)
LEMMA DeedCarried ==
    ASSUME NEW t \in Txns, UNCHANGED <<account, reservations>>,
           mine'[t].account = mine[t].account, mine'[t].reservations = mine[t].reservations,
           \A row \in Rows : holder'[row] = t <=> holder[row] = t
    PROVE  /\ NoneHeld(t) => NoneHeld(t)'
           /\ Looking(t) => Looking(t)'
           /\ \A r \in ReservationIds : /\ Found(t, r) => Found(t, r)'
                                        /\ ReservedOne(t, r) => ReservedOne(t, r)'
  <1>1. /\ holder'["balance"] = t <=> holder["balance"] = t
        /\ \A r \in ReservationIds : holder'[r] = t <=> holder[r] = t
    BY DEF Rows
  <1>2. NoneHeld(t) => NoneHeld(t)'
    BY <1>1 DEF NoneHeld
  <1>3. Looking(t) => Looking(t)'
    BY <1>1 DEF Looking, Moved
  <1>4. ASSUME NEW r \in ReservationIds, Found(t, r) PROVE Found(t, r)'
    BY <1>1, <1>3, <1>4 DEF Found, OnlyHolds
  <1>5. ASSUME NEW r \in ReservationIds, ReservedOne(t, r) PROVE ReservedOne(t, r)'
    <2>1. PICK a \in Amounts : Inserted(t, r, "pending", a) /\ Moved(t, 0, a)
      BY <1>5 DEF ReservedOne
    <2>2. Inserted(t, r, "pending", a)'
      BY <1>1, <2>1 DEF Inserted, OnlyHolds
    <2>3. Moved(t, 0, a)'
      BY <1>1, <2>1 DEF Moved
    <2> QED
      BY <2>2, <2>3 DEF ReservedOne
  <1> QED
    BY <1>2, <1>3, <1>4, <1>5

LEMMA ConfirmOwnDeed ==
    ASSUME IInv, Sums, NEW t \in Txns, NEW r \in ReservationIds, ConfirmOwn(t, r)
    PROVE  Sums'
  <1>1. /\ pc'[t] = "lock_reservation" /\ mine' = mine /\ holder' = holder
        /\ UNCHANGED <<account, reservations>>
        /\ call'[t].op = "confirm" /\ call'[t].id = r /\ Private(t)
        /\ HasReserved(t) /\ holder[r] = t
    BY DEF ConfirmOwn, IInv, TypeOK, Private, HasReserved
  <1>2. PICK x \in ReservationIds : ReservedOne(t, x)
    BY <1>1 DEF Sums, Deed
  <1>3. x = r
    BY <1>1, <1>2 DEF ReservedOne, Inserted, OnlyHolds
  <1>4. ReservedOne(t, r)'
    BY <1>1, <1>2, <1>3, DeedCarried
  <1>5. ~Written(t)' /\ Settling(t)' /\ ~HasReserved(t)'
    BY <1>1 DEF Written, Settling, HasReserved
  <1>6. ReservedOne(t, call[t].id)'
    BY <1>1, <1>4
  <1>7. Deed(t)'
    BY <1>1, <1>5, <1>6 DEF Deed
  <1> QED
    BY <1>1, <1>7, PrivateDeed

LEMMA ReadBalanceDeed ==
    ASSUME IInv, Sums, NEW t \in Txns, ReadBalance(t)
    PROVE  Sums'
  <1>1. /\ pc'[t] \in {"active", "insert_balance"} /\ mine' = mine /\ holder' = holder
        /\ UNCHANGED <<account, reservations>>
        /\ call'[t] = call[t] /\ call[t].op = "get" /\ Private(t)
    BY DEF ReadBalance, IInv, TypeOK, Private, TxnOK, Phase
  <1>2. /\ ~Written(t) /\ ~Settling(t) /\ ~HasReserved(t)
        /\ ~Written(t)' /\ ~Settling(t)' /\ ~HasReserved(t)'
    BY <1>1 DEF Written, Settling, HasReserved
  <1>3. NoneHeld(t)' /\ Looking(t)'
    BY <1>1, <1>2, DeedCarried DEF Sums, Deed
  <1>4. Deed(t)'
    BY <1>2, <1>3 DEF Deed
  <1> QED
    BY <1>1, <1>4, PrivateDeed

LEMMA LockReservationDeed ==
    ASSUME IInv, Sums, NEW t \in Txns, LockReservation(t)
    PROVE  Sums'
  <1> DEFINE r == call[t].id
  <1>1. CASE Rollback(t)
    BY <1>1, RollbackDeed
  <1>2. CASE ~Rollback(t)
    <2>1. /\ pc[t] = "lock_reservation" /\ holder[r] \in {NoTxn, t}
          /\ holder' = [holder EXCEPT ![r] = t]
          /\ mine' = [mine EXCEPT ![t].reservations[r] = ReservationSeen(t, r)]
          /\ pc' = [pc EXCEPT ![t] = "lock_balance"]
          /\ UNCHANGED <<account, reservations, ledger, call>>
      BY <1>2 DEF LockReservation
    <2>2. Settling(t) /\ r \in ReservationIds /\ r \in Rows /\ r # "balance"
      BY <2>1, CallFields, CreditAssumption DEF IInv, TxnOK, Phase, Rows
    <2>3. Private(t)
      BY <2>1, <2>2, CreditAssumption DEF IInv, TypeOK, Private
    <2>4. /\ pc'[t] = "lock_balance" /\ call' = call
          /\ holder'[r] = t /\ \A row \in Rows \ {r} : holder'[row] = holder[row]
      BY <2>1, <2>2 DEF IInv, TypeOK
    <2>5. /\ mine'[t].account = mine[t].account
          /\ mine'[t].reservations = [mine[t].reservations EXCEPT ![r] = ReservationSeen(t, r)]
      BY <2>1 DEF IInv, TypeOK
    <2>6. mine'[t].reservations[r] = ReservationSeen(t, r)
      BY <2>2, <2>5 DEF IInv, TypeOK
    <2>7. /\ ~Written(t) /\ ~Written(t)' /\ Settling(t)' /\ ~HasReserved(t)'
      BY <2>1, <2>2, <2>4 DEF Written, Settling, HasReserved
    <2>8. CASE Found(t, r)
      <3>1. ReservationSeen(t, r) = reservations[r]
        BY <2>8 DEF Found, ReservationSeen
      <3>2. Looking(t)'
        <4>1. holder'["balance"] = holder["balance"]
          BY <2>2, <2>4 DEF Rows
        <4> QED
          BY <2>1, <2>5, <2>8, <4>1 DEF Found, Looking, Moved
      <3>3. OnlyHolds(t, r)'
        BY <2>4, <2>8 DEF Found, OnlyHolds, Rows
      <3>4. Found(t, call[t].id)'
        BY <2>1, <2>4, <2>6, <3>1, <3>2, <3>3 DEF Found
      <3>5. Deed(t)'
        BY <2>4, <2>7, <3>4 DEF Deed
      <3> QED
        BY <2>3, <3>5, PrivateDeed
    <2>9. CASE call[t].op = "confirm" /\ ReservedOne(t, r)
      <3>1. holder[r] = t
        BY <2>9 DEF ReservedOne, Inserted
      <3>2. mine'[t].reservations = mine[t].reservations
        BY <2>5, <3>1 DEF ReservationSeen, IInv, TypeOK
      <3>3. \A row \in Rows : holder'[row] = t <=> holder[row] = t
        BY <2>4, <3>1
      <3>4. ReservedOne(t, r)'
        BY <2>1, <2>2, <2>5, <2>9, <3>2, <3>3, DeedCarried
      <3>5. ReservedOne(t, call[t].id)'
        BY <2>4, <3>4
      <3>6. Deed(t)'
        BY <2>4, <2>7, <2>9, <3>5 DEF Deed
      <3> QED
        BY <2>3, <3>6, PrivateDeed
    <2> QED
      BY <2>2, <2>7, <2>8, <2>9 DEF Sums, Deed
  <1> QED
    BY <1>1, <1>2

(* Taking the balance row moves nothing.                                   *)
LEMMA TakeBalance ==
    ASSUME IInv, Sums, NEW t \in Txns, ~Written(t), ~HasReserved(t), Private(t),
           call' = call, ~Written(t)', ~HasReserved(t)',
           \A r \in ReservationIds : holder'[r] = t <=> holder[r] = t,
           mine'[t].reservations = mine[t].reservations,
           holder'["balance"] = t,
           IF holder["balance"] = t THEN mine'[t].account = mine[t].account
           ELSE /\ mine'[t].account.balance = account.balance
                /\ mine'[t].account.reserved = account.reserved
    PROVE  Sums'
  <1>1. UNCHANGED <<account, reservations>>
    BY DEF Private
  <1>2. account.balance \in Int /\ account.reserved \in Int
    BY DEF IInv, TypeOK, Account
  <1>3. CASE holder["balance"] = t
    <2>1. mine'[t].account = mine[t].account
      BY <1>3
    <2>2. \A row \in Rows : holder'[row] = t <=> holder[row] = t
      BY <1>3 DEF Rows
    <2>3. Settling(t) => call[t].id \in ReservationIds
      BY CallFields DEF IInv
    <2>4. /\ NoneHeld(t) => NoneHeld(t)'
          /\ Looking(t) => Looking(t)'
          /\ \A r \in ReservationIds : /\ Found(t, r) => Found(t, r)'
                                       /\ ReservedOne(t, r) => ReservedOne(t, r)'
      BY <1>1, <2>1, <2>2, DeedCarried
    <2>5. Settling(t)' = Settling(t) /\ call'[t] = call[t]
      BY DEF Settling
    <2>6. Deed(t)'
      BY <2>3, <2>4, <2>5 DEF Sums, Deed
    <2> QED
      BY <2>6, PrivateDeed
  <1>4. CASE holder["balance"] # t
    <2>1. Looking(t)'
      BY <1>1, <1>2, <1>4 DEF Looking, Moved
    <2>2. NoneHeld(t) => NoneHeld(t)'
      BY DEF NoneHeld
    <2>3. ASSUME NEW r \in ReservationIds, Found(t, r) PROVE Found(t, r)'
      BY <1>1, <2>1, <2>3 DEF Found, OnlyHolds
    <2>4. \A r \in ReservationIds : ~ReservedOne(t, r)
      BY <1>4 DEF ReservedOne, Moved
    <2>5. Settling(t) => call[t].id \in ReservationIds
      BY CallFields DEF IInv
    <2>6. Settling(t)' = Settling(t) /\ call'[t] = call[t]
      BY DEF Settling
    <2>7. Deed(t)'
      BY <2>1, <2>2, <2>3, <2>4, <2>5, <2>6 DEF Sums, Deed
    <2> QED
      BY <2>7, PrivateDeed
  <1> QED
    BY <1>3, <1>4

LEMMA LockBalanceDeed ==
    ASSUME IInv, Sums, NEW t \in Txns, LockBalance(t)
    PROVE  Sums'
  <1>1. pc[t] = "lock_balance" /\ ~Written(t) /\ ~HasReserved(t) /\ call' = call
    BY DEF LockBalance, Written, HasReserved
  <1>2. CASE AccountSeen(t).exists
    <2>1. /\ holder["balance"] \in {NoTxn, t}
          /\ holder' = [holder EXCEPT !["balance"] = t]
          /\ mine' = [mine EXCEPT ![t].account = AccountSeen(t)]
          /\ pc' = [pc EXCEPT ![t] = "apply"]
          /\ UNCHANGED <<account, reservations, ledger, call>>
      BY <1>2 DEF LockBalance
    <2>2. Private(t)
      BY <2>1, CreditAssumption DEF IInv, TypeOK, Private, Rows
    <2>3. ~Written(t)' /\ ~HasReserved(t)'
      BY <2>1 DEF IInv, TypeOK, Written, HasReserved
    <2>4. /\ holder'["balance"] = t
          /\ \A r \in ReservationIds : holder'[r] = t <=> holder[r] = t
      BY <2>1, CreditAssumption DEF IInv, TypeOK, Rows
    <2>5. mine'[t].reservations = mine[t].reservations /\ mine'[t].account = AccountSeen(t)
      BY <2>1 DEF IInv, TypeOK
    <2>6. IF holder["balance"] = t THEN mine'[t].account = mine[t].account
          ELSE /\ mine'[t].account.balance = account.balance
               /\ mine'[t].account.reserved = account.reserved
      BY <2>5 DEF AccountSeen
    <2> QED
      BY <1>1, <2>2, <2>3, <2>4, <2>5, <2>6, TakeBalance
  <1>3. CASE ~AccountSeen(t).exists
    <2>1. /\ pc' = [pc EXCEPT ![t] = "insert_balance"]
          /\ UNCHANGED <<account, reservations, ledger, holder, call, mine>>
      BY <1>3 DEF LockBalance
    <2>2. Private(t)
      BY <2>1 DEF IInv, TypeOK, Private
    <2>3. ~Written(t)' /\ ~HasReserved(t)'
      BY <2>1 DEF IInv, TypeOK, Written, HasReserved
    <2>4. /\ NoneHeld(t) => NoneHeld(t)'
          /\ Looking(t) => Looking(t)'
          /\ \A r \in ReservationIds : /\ Found(t, r) => Found(t, r)'
                                       /\ ReservedOne(t, r) => ReservedOne(t, r)'
      BY <2>1, DeedCarried
    <2>5. Settling(t)' = Settling(t) /\ call'[t] = call[t]
      BY <2>1 DEF Settling
    <2>6. Settling(t) => call[t].id \in ReservationIds
      BY CallFields DEF IInv
    <2>7. Deed(t)'
      BY <1>1, <2>3, <2>4, <2>5, <2>6 DEF Sums, Deed
    <2> QED
      BY <2>2, <2>7, PrivateDeed
  <1> QED
    BY <1>2, <1>3

LEMMA InsertBalanceDeed ==
    ASSUME IInv, Sums, NEW t \in Txns, InsertBalance(t)
    PROVE  Sums'
  <1>1. /\ pc[t] = "insert_balance" /\ ~Written(t) /\ ~HasReserved(t)
        /\ holder["balance"] # t
    BY DEF InsertBalance, Written, HasReserved, IInv, TxnOK, Phase
  <1>2. CASE Rollback(t)
    BY <1>2, RollbackDeed
  <1>3. CASE ~Rollback(t)
    <2>1. /\ ~account.exists /\ holder["balance"] = NoTxn
          /\ holder' = [holder EXCEPT !["balance"] = t]
          /\ mine' = [mine EXCEPT ![t].account = ZeroAccount]
          /\ pc' = [pc EXCEPT ![t] = IF call[t].op = "get" THEN "active" ELSE "apply"]
          /\ UNCHANGED <<account, reservations, ledger, call>>
      BY <1>3 DEF InsertBalance
    <2>2. Private(t)
      BY <2>1, CreditAssumption DEF IInv, TypeOK, Private, Rows
    <2>3. ~Written(t)' /\ ~HasReserved(t)'
      <3>1. call' = call /\ (pc'[t] = "apply" \/ call[t].op = "get")
        BY <2>1 DEF IInv, TypeOK
      <3> QED
        BY <3>1 DEF Written, HasReserved
    <2>4. /\ holder'["balance"] = t
          /\ \A r \in ReservationIds : holder'[r] = t <=> holder[r] = t
      BY <2>1, CreditAssumption DEF IInv, TypeOK, Rows
    <2>5. mine'[t].reservations = mine[t].reservations /\ mine'[t].account = ZeroAccount
      BY <2>1 DEF IInv, TypeOK
    <2>6. /\ mine'[t].account.balance = account.balance
          /\ mine'[t].account.reserved = account.reserved
      BY <2>1, <2>5 DEF ZeroAccount, IInv, Books, NoRowNoCredits
    <2> QED
      BY <1>1, <2>1, <2>2, <2>3, <2>4, <2>5, <2>6, TakeBalance
  <1> QED
    BY <1>2, <1>3

LEMMA ReserveDeed ==
    ASSUME IInv, Sums, NEW t \in Txns, NEW r \in ReservationIds, Reserve(t, r)
    PROVE  Sums'
  <1> DEFINE a == call[t].amount
             acc == mine[t].account
             new == [status |-> "pending", amount |-> a]
  <1>1. /\ pc[t] = "apply" /\ call[t].op = "reserve"
        /\ acc.balance - acc.reserved >= a /\ Unused(r)
        /\ holder' = [holder EXCEPT ![r] = t]
        /\ mine' = [mine EXCEPT ![t].account.reserved = @ + a, ![t].reservations[r] = new]
        /\ pc' = [pc EXCEPT ![t] = "active"]
        /\ UNCHANGED <<account, reservations, ledger, call>>
    BY DEF Reserve, Available
  <1>2. /\ ~Written(t) /\ ~Settling(t) /\ ~HasReserved(t) /\ holder["balance"] = t
        /\ r \in Rows /\ r # "balance" /\ "balance" \in Rows
    BY <1>1, CreditAssumption DEF Written, Settling, HasReserved, IInv, TxnOK, Phase, Rows
  <1>3. NoneHeld(t) /\ Moved(t, 0, 0)
    BY <1>2 DEF Sums, Deed, Looking
  <1>4. a \in Amounts /\ a \in Nat
    <2>1. call[t] \in Calls
      BY DEF IInv, TypeOK
    <2>2. call[t] \in [op : {"reserve", "add"}, amount : Amounts]
      BY <1>1, <2>1 DEF Calls, NoCall
    <2> QED
      BY <2>2, CreditAssumption
  <1>5. acc \in Account /\ acc.balance \in Int /\ acc.reserved \in Int
        /\ account.balance \in Int /\ account.reserved \in Int
    BY MineFields DEF IInv, TypeOK, Account
  <1>6. acc.balance = account.balance /\ acc.reserved = account.reserved
    BY <1>3, <1>5 DEF Moved
  <1>7. Private(t)
    BY <1>1, <1>2, CreditAssumption DEF IInv, TypeOK, Private, Rows, Unused
  <1>8. /\ holder'[r] = t /\ holder'["balance"] = t
        /\ \A x \in ReservationIds \ {r} : holder'[x] = holder[x]
        /\ pc'[t] = "active" /\ call'[t] = call[t]
    BY <1>1, <1>2 DEF IInv, TypeOK, Rows
  <1>9. /\ mine'[t].account.balance = acc.balance
        /\ mine'[t].account.reserved = acc.reserved + a
        /\ mine'[t].reservations[r] = new
    BY <1>1, <1>5 DEF IInv, TypeOK, Account
  <1>10. Moved(t, 0, a)'
    BY <1>1, <1>4, <1>5, <1>6, <1>8, <1>9 DEF Moved
  <1>11. Inserted(t, r, "pending", a)'
    <2>1. OnlyHolds(t, r)'
      BY <1>3, <1>8 DEF OnlyHolds, NoneHeld
    <2>2. reservations'[r] = NoReservation
      BY <1>1 DEF Unused
    <2>3. a <= account'.balance - account'.reserved
      BY <1>1, <1>4, <1>5, <1>6
    <2>4. call'[t].amount = a /\ mine'[t].reservations[r] = [status |-> "pending", amount |-> a]
      BY <1>8, <1>9
    <2> HIDE DEF a, new
    <2> QED
      BY <1>4, <1>8, <2>1, <2>2, <2>3, <2>4 DEF Inserted, a
  <1>12. ReservedOne(t, r)'
    BY <1>4, <1>8, <1>10, <1>11 DEF ReservedOne
  <1>13. HasReserved(t)' /\ ~Written(t)' /\ ~Settling(t)'
    BY <1>1, <1>8 DEF HasReserved, Written, Settling
  <1>14. Deed(t)'
    BY <1>12, <1>13 DEF Deed
  <1> QED
    BY <1>7, <1>14, PrivateDeed

(* Settling the reservation a transaction holds, as confirm_credits does   *)
(* to any pending one and release_credits to a committed one.              *)
LEMMA SettleDeed ==
    ASSUME IInv, Sums, NEW t \in Txns,
           NEW op \in {"confirm", "release"}, NEW status \in {"confirmed", "released"},
           NEW new \in Account, Settle(t, op, status, new),
           op = "confirm" <=> status = "confirmed",
           new.balance = mine[t].account.balance
                            - (IF status = "confirmed" THEN ReservedAmount(t) ELSE 0),
           new.reserved = mine[t].account.reserved - ReservedAmount(t)
    PROVE  Sums'
  <1> DEFINE r == call[t].id
             old == mine[t].reservations[r]
             a == mine[t].reservations[r].amount
  <1>1. /\ pc[t] = "apply" /\ call[t].op = op
        /\ pc' = [pc EXCEPT ![t] = "active"]
        /\ UNCHANGED <<account, reservations, ledger, holder, call>>
    BY DEF Settle
  <1>2. /\ ~Written(t) /\ Settling(t) /\ r \in ReservationIds /\ holder["balance"] = t
        /\ holder[r] = t
    BY <1>1, CallFields DEF Written, Settling, IInv, TxnOK, Phase
  <1>3. /\ a \in Nat /\ old \in Reservation /\ old.status = "pending"
        /\ mine[t].account.balance \in Int /\ mine[t].account.reserved \in Int
        /\ account.balance \in Int /\ account.reserved \in Int
        /\ new.balance \in Int /\ new.reserved \in Int
    BY <1>2, MineFields DEF IInv, TypeOK, TxnOK, HeldPending, Account
  <1>4. /\ mine'[t].account = new
        /\ mine'[t].reservations[r] = [status |-> status, amount |-> a]
        /\ Private(t)
    <2> DEFINE X == [account |-> new,
                     reservations |->
                        [mine[t].reservations EXCEPT ![r] = [status |-> status, amount |-> a]],
                     entries |-> Append(mine[t].entries,
                                        Entry(status, r, a, mine[t].account.balance, new.balance))]
    <2>1. mine' = [mine EXCEPT ![t] = X]
      BY DEF Settle
    <2>2. X.account = new /\ X.reservations[r] = [status |-> status, amount |-> a]
      BY <1>2 DEF IInv, TypeOK
    <2> HIDE DEF X
    <2>3. mine'[t] = X /\ \A u \in Txns \ {t} : mine'[u] = mine[u]
      BY <2>1 DEF IInv, TypeOK
    <2> QED
      BY <1>1, <2>2, <2>3 DEF Private, IInv, TypeOK
  <1>5. /\ pc'[t] = "active" /\ call' = call /\ holder' = holder
        /\ account' = account /\ reservations' = reservations
    BY <1>1 DEF IInv, TypeOK
  <1>6. Written(t)' /\ Settling(t)' /\ ~HasReserved(t)'
    BY <1>1, <1>5 DEF Written, Settling, HasReserved
  <1>7. mine'[t].reservations[r].status = status /\ mine'[t].reservations[r].amount = a
    BY <1>4
  <1>8. CASE Found(t, r)
    <2>1. old = reservations[r] /\ OnlyHolds(t, r) /\ Moved(t, 0, 0)
      BY <1>2, <1>8 DEF Found, Looking
    <2>2. reservations[r].status = "pending" /\ reservations[r].amount = a
      BY <1>3, <2>1
    <2>3. /\ mine'[t].account.balance = account.balance - (IF status = "confirmed" THEN a ELSE 0)
          /\ mine'[t].account.reserved = account.reserved - a
      BY <1>3, <1>4, <2>1 DEF Moved, ReservedAmount
    <2>4. OnlyHolds(t, r)'
      BY <1>5, <2>1 DEF OnlyHolds
    <2>5. status = "confirmed" => Moved(t, reservations[r].amount, -reservations[r].amount)'
      <3>1. reservations'[call'[t].id].amount = a
        BY <1>5, <2>2
      <3> HIDE DEF a
      <3> QED
        BY <1>2, <1>3, <1>5, <2>3, <3>1 DEF Moved
    <2>6. status = "released" => Moved(t, 0, -reservations[r].amount)'
      <3>1. reservations'[call'[t].id].amount = a
        BY <1>5, <2>2
      <3> HIDE DEF a
      <3> QED
        BY <1>2, <1>3, <1>5, <2>3, <3>1 DEF Moved
    <2>7. SettledOne(t, call[t].id)'
      BY <1>2, <1>5, <1>7, <2>2, <2>4, <2>5, <2>6 DEF SettledOne
    <2>8. Deed(t)'
      BY <1>5, <1>6, <2>7 DEF Deed
    <2> QED
      BY <1>4, <2>8, PrivateDeed
  <1>9. CASE call[t].op = "confirm" /\ ReservedOne(t, r)
    <2>1. PICK b \in Amounts : Inserted(t, r, "pending", b) /\ Moved(t, 0, b)
      BY <1>9 DEF ReservedOne
    <2>2. old = [status |-> "pending", amount |-> b] /\ b \in Nat
      BY <2>1, CreditAssumption DEF Inserted
    <2>3. b = a /\ status = "confirmed"
      BY <1>1, <1>9, <2>2
    <2>4. /\ mine'[t].account.balance = account.balance - b
          /\ mine'[t].account.reserved = account.reserved
      BY <1>3, <1>4, <2>1, <2>2, <2>3 DEF Moved, ReservedAmount
    <2>5. Moved(t, b, 0)'
      BY <1>2, <1>3, <1>5, <2>4 DEF Moved
    <2>6. Inserted(t, r, "confirmed", b)'
      BY <1>4, <1>5, <2>1, <2>3 DEF Inserted, OnlyHolds
    <2>7. PaidOne(t, call[t].id)'
      BY <2>5, <2>6 DEF PaidOne
    <2>8. Deed(t)'
      BY <1>5, <1>6, <2>7 DEF Deed
    <2> QED
      BY <1>4, <2>8, PrivateDeed
  <1> QED
    BY <1>2, <1>8, <1>9 DEF Sums, Deed

LEMMA ConfirmDeed ==
    ASSUME IInv, Sums, NEW t \in Txns, Confirm(t)
    PROVE  Sums'
  <1> DEFINE new == Confirmed(mine[t].account, ReservedAmount(t))
  <1>1. Settle(t, "confirm", "confirmed", new)
    BY DEF Confirm
  <1>2. call[t].id \in ReservationIds /\ mine[t].account \in Account /\ ReservedAmount(t) \in Nat
    BY CallFields, MineFields DEF Confirm, Settle, Settling, IInv, ReservedAmount
  <1>3. /\ new \in Account
        /\ new.balance = mine[t].account.balance - ReservedAmount(t)
        /\ new.reserved = mine[t].account.reserved - ReservedAmount(t)
    BY <1>2 DEF Confirmed, Account
  <1> HIDE DEF new
  <1>4. new.balance = mine[t].account.balance
                        - (IF "confirmed" = "confirmed" THEN ReservedAmount(t) ELSE 0)
    BY <1>3
  <1> QED
    BY <1>1, <1>3, <1>4, SettleDeed

LEMMA ReleaseDeed ==
    ASSUME IInv, Sums, NEW t \in Txns, Release(t)
    PROVE  Sums'
  <1> DEFINE new == Released(mine[t].account, ReservedAmount(t))
  <1>1. Settle(t, "release", "released", new)
    BY DEF Release
  <1>2. call[t].id \in ReservationIds /\ mine[t].account \in Account /\ ReservedAmount(t) \in Nat
    BY CallFields, MineFields DEF Release, Settle, Settling, IInv, ReservedAmount
  <1>3. /\ new \in Account
        /\ new.balance = mine[t].account.balance
        /\ new.reserved = mine[t].account.reserved - ReservedAmount(t)
    BY <1>2 DEF Released, Account
  <1>4. mine[t].account.balance \in Int
    BY <1>2 DEF Account
  <1> HIDE DEF new
  <1>5. new.balance = mine[t].account.balance
                        - (IF "released" = "confirmed" THEN ReservedAmount(t) ELSE 0)
    BY <1>3, <1>4
  <1> QED
    BY <1>1, <1>3, <1>5, SettleDeed

LEMMA AddDeed ==
    ASSUME IInv, Sums, NEW t \in Txns, Add(t)
    PROVE  Sums'
  <1> DEFINE a == call[t].amount
             acc == mine[t].account
             X == [account |-> [acc EXCEPT !.balance = @ + a],
                   reservations |-> mine[t].reservations,
                   entries |-> Append(mine[t].entries,
                                      Entry("added", "none", a, acc.balance, acc.balance + a))]
  <1>1. /\ pc[t] = "apply" /\ call[t].op = "add"
        /\ mine' = [mine EXCEPT ![t] = X]
        /\ pc' = [pc EXCEPT ![t] = "active"]
        /\ UNCHANGED <<account, reservations, ledger, holder, call>>
    BY DEF Add
  <1>2. ~Written(t) /\ ~Settling(t) /\ ~HasReserved(t) /\ holder["balance"] = t
    BY <1>1 DEF Written, Settling, HasReserved, IInv, TxnOK, Phase
  <1>3. NoneHeld(t) /\ Moved(t, 0, 0)
    BY <1>2 DEF Sums, Deed, Looking
  <1>4. a \in Amounts /\ a \in Nat
    <2>1. call[t] \in Calls
      BY DEF IInv, TypeOK
    <2>2. call[t] \in [op : {"reserve", "add"}, amount : Amounts]
      BY <1>1, <2>1 DEF Calls, NoCall
    <2> QED
      BY <2>2, CreditAssumption
  <1>5. acc \in Account /\ acc.balance \in Int /\ acc.reserved \in Int
        /\ account.balance \in Int /\ account.reserved \in Int
    BY MineFields DEF IInv, TypeOK, Account
  <1>6. X.account.balance = acc.balance + a /\ X.account.reserved = acc.reserved
    BY <1>5 DEF Account
  <1> HIDE DEF X
  <1>7. mine'[t] = X /\ Private(t)
    BY <1>1 DEF IInv, TypeOK, Private
  <1>8. pc'[t] = "active" /\ call' = call /\ holder' = holder /\ account' = account
    BY <1>1 DEF IInv, TypeOK
  <1>9. \E b \in Amounts : Moved(t, -b, 0)'
    <2>1. /\ mine'[t].account.balance = account.balance - (-a)
          /\ mine'[t].account.reserved = account.reserved + 0
      BY <1>3, <1>4, <1>5, <1>6, <1>7 DEF Moved
    <2>2. PICK b \in Amounts : b = a
      BY <1>4
    <2>3. Moved(t, -b, 0)'
      BY <1>2, <1>8, <2>1, <2>2 DEF Moved
    <2> QED
      BY <2>3
  <1>10. AddedSome(t)'
    BY <1>3, <1>8, <1>9 DEF AddedSome, NoneHeld
  <1>11. Written(t)' /\ ~Settling(t)' /\ ~HasReserved(t)'
    BY <1>1, <1>8 DEF Written, Settling, HasReserved
  <1>12. Deed(t)'
    BY <1>10, <1>11 DEF Deed
  <1> QED
    BY <1>7, <1>12, PrivateDeed

-------------------------------------------------------------------------------
(* What a commit publishes: one row of credit_reservations at most, and    *)
(* the two columns of the balance row moved to match.                      *)

Published(r, new, spent, reserved) ==
    /\ reservations' = [reservations EXCEPT ![r] = new]
    /\ account'.balance = account.balance - spent
    /\ account'.reserved = account.reserved + reserved

NewRow(r, a) ==
    /\ reservations[r] = NoReservation
    /\ a <= account.balance - account.reserved
    /\ \/ Published(r, [status |-> "pending", amount |-> a], 0, a)
       \/ Published(r, [status |-> "confirmed", amount |-> a], a, 0)

SettledRow(r) ==
    LET a == reservations[r].amount IN
    /\ reservations[r].status = "pending"
    /\ \/ Published(r, [status |-> "confirmed", amount |-> a], a, -a)
       \/ Published(r, [status |-> "released", amount |-> a], 0, -a)

NoRow ==
    /\ reservations' = reservations
    /\ account'.reserved = account.reserved
    /\ \/ account'.balance = account.balance
       \/ \E a \in Amounts : account'.balance = account.balance + a

LEMMA CommitPublishes ==
    ASSUME IInv, Sums, NEW t \in Txns, Commit(t)
    PROVE  \/ NoRow
           \/ \E r \in ReservationIds, a \in Amounts : NewRow(r, a)
           \/ \E r \in ReservationIds : SettledRow(r)
  <1>1. /\ pc[t] = "active" /\ account' = AccountSeen(t)
        /\ reservations' = [r \in ReservationIds |-> ReservationSeen(t, r)]
    BY DEF Commit
  <1>2. /\ reservations \in [ReservationIds -> Reservation]
        /\ account.balance \in Int /\ account.reserved \in Int
        /\ Deed(t) /\ HeldPending(t)
    BY DEF IInv, TypeOK, Account, Sums, TxnOK
  <1>3. Settling(t) => Written(t) /\ call[t].id \in ReservationIds
    BY <1>1, CallFields DEF Settling, Written, IInv
  <1>4. ASSUME NoneHeld(t) PROVE reservations' = reservations
    BY <1>1, <1>2, <1>4 DEF NoneHeld, ReservationSeen
  <1>5. ASSUME NEW r \in ReservationIds, OnlyHolds(t, r), holder[r] = t
        PROVE  reservations' = [reservations EXCEPT ![r] = mine[t].reservations[r]]
    BY <1>1, <1>2, <1>5 DEF OnlyHolds, ReservationSeen
  <1>6. ASSUME NEW spent, NEW reserved, Moved(t, spent, reserved)
        PROVE  /\ account'.balance = account.balance - spent
               /\ account'.reserved = account.reserved + reserved
    BY <1>1, <1>6 DEF Moved, AccountSeen
  <1>7. CASE HasReserved(t)
    <2>1. PICK r \in ReservationIds : ReservedOne(t, r)
      BY <1>2, <1>7 DEF Deed
    <2>2. PICK a \in Amounts : Inserted(t, r, "pending", a) /\ Moved(t, 0, a)
      BY <2>1 DEF ReservedOne
    <2>3. Published(r, [status |-> "pending", amount |-> a], 0, a)
      BY <1>5, <1>6, <2>2 DEF Published, Inserted
    <2>4. NewRow(r, a)
      BY <2>2, <2>3 DEF NewRow, Inserted
    <2> QED
      BY <2>4
  <1>8. CASE Written(t) /\ ~Settling(t)
    <2>1. NoneHeld(t)
      BY <1>2, <1>8 DEF Deed, AddedSome
    <2>2. PICK a \in Amounts : Moved(t, -a, 0)
      BY <1>2, <1>8 DEF Deed, AddedSome
    <2>3. account'.balance = account.balance - (-a) /\ account'.reserved = account.reserved + 0
      BY <1>6, <2>2
    <2>4. account'.balance = account.balance + a /\ account'.reserved = account.reserved
      BY <1>2, <2>3, CreditAssumption
    <2> QED
      BY <1>4, <2>1, <2>4 DEF NoRow
  <1>9. CASE Written(t) /\ Settling(t)
    <2> DEFINE r == call[t].id
    <2>1. r \in ReservationIds /\ (SettledOne(t, r) \/ PaidOne(t, r))
      BY <1>2, <1>3, <1>9 DEF Deed
    <2> HIDE DEF r
    <2>2. CASE SettledOne(t, r)
      <3> DEFINE a == reservations[r].amount
      <3>1. /\ reservations[r].status = "pending"
            /\ reservations' = [reservations EXCEPT ![r] = mine[t].reservations[r]]
            /\ mine[t].reservations[r].amount = a
            /\ mine[t].reservations[r] \in Reservation
        BY <1>5, <2>1, <2>2, MineFields DEF SettledOne, IInv
      <3>2. CASE mine[t].reservations[r].status = "confirmed" /\ Moved(t, a, -a)
        <4>1. mine[t].reservations[r] = [status |-> "confirmed", amount |-> a]
          BY <3>1, <3>2 DEF Reservation
        <4>2. account'.balance = account.balance - a /\ account'.reserved = account.reserved + (-a)
          BY <1>1, <3>2 DEF Moved, AccountSeen
        <4>3. Published(r, [status |-> "confirmed", amount |-> a], a, -a)
          BY <3>1, <4>1, <4>2 DEF Published
        <4> QED
          BY <2>1, <3>1, <4>3 DEF SettledRow
      <3>3. CASE mine[t].reservations[r].status = "released" /\ Moved(t, 0, -a)
        <4>1. mine[t].reservations[r] = [status |-> "released", amount |-> a]
          BY <3>1, <3>3 DEF Reservation
        <4>2. account'.balance = account.balance - 0 /\ account'.reserved = account.reserved + (-a)
          BY <1>1, <3>3 DEF Moved, AccountSeen
        <4>3. Published(r, [status |-> "released", amount |-> a], 0, -a)
          BY <3>1, <4>1, <4>2 DEF Published
        <4> QED
          BY <2>1, <3>1, <4>3 DEF SettledRow
      <3> QED
        BY <2>2, <3>2, <3>3 DEF SettledOne
    <2>3. CASE PaidOne(t, r)
      <3>1. PICK a \in Amounts : Inserted(t, r, "confirmed", a) /\ Moved(t, a, 0)
        BY <2>3 DEF PaidOne
      <3>2. Published(r, [status |-> "confirmed", amount |-> a], a, 0)
        BY <1>5, <1>6, <2>1, <3>1 DEF Published, Inserted
      <3>3. NewRow(r, a)
        BY <3>1, <3>2 DEF NewRow, Inserted
      <3> QED
        BY <2>1, <3>3
    <2> QED
      BY <2>1, <2>2, <2>3
  <1>10. CASE ~Written(t) /\ ~Settling(t) /\ ~HasReserved(t)
    <2>1. NoneHeld(t) /\ Looking(t)
      BY <1>2, <1>10 DEF Deed
    <2>2. account'.balance = account.balance /\ account'.reserved = account.reserved
      BY <1>1, <1>2, <2>1 DEF Looking, Moved, AccountSeen
    <2> QED
      BY <1>4, <2>1, <2>2 DEF NoRow
  <1> QED
    BY <1>3, <1>7, <1>8, <1>9, <1>10

(* The reserved column follows the pending reservations.                   *)
LEMMA CommitDeed ==
    ASSUME IInv, Sums, NEW t \in Txns, Commit(t)
    PROVE  Sums'
  <1>1. /\ account' = AccountSeen(t) /\ Forget(t)
        /\ reservations' = [r \in ReservationIds |-> ReservationSeen(t, r)]
    BY DEF Commit
  <1>2. Deed(t)'
    BY <1>1, ForgetDeed
  <1>3. ASSUME NEW u \in Txns, u # t PROVE Deed(u)'
    <2>1. /\ pc'[u] = pc[u] /\ call'[u] = call[u] /\ mine'[u] = mine[u]
          /\ \A row \in Rows : holder'[row] = u <=> holder[row] = u
      BY <1>1, <1>3, ForgetsAll
    <2>2. account' = account \/ holder["balance"] # u
      BY <1>1, <1>3 DEF AccountSeen
    <2>3. \A r \in ReservationIds : holder[r] = u => reservations'[r] = reservations[r]
      BY <1>1, <1>3 DEF ReservationSeen
    <2>4. TypeOK /\ Deed(u)
      BY DEF IInv, Sums
    <2> QED
      BY <2>1, <2>2, <2>3, <2>4, DeedKept
  <1>4. /\ reservations \in [ReservationIds -> Reservation] /\ account.reserved \in Int
        /\ account.reserved = PendingTotal(reservations)
        /\ reservations' \in [ReservationIds -> Reservation]
    BY <1>1, MineFields DEF IInv, TypeOK, Account, Sums
  <1>5. account'.reserved = PendingTotal(reservations')
    <2>1. CASE NoRow
      BY <1>4, <2>1 DEF NoRow
    <2>2. ASSUME NEW r \in ReservationIds, NEW a \in Amounts, NewRow(r, a)
          PROVE  account'.reserved = PendingTotal(reservations')
      <3>1. /\ reservations[r].status # "pending"
            /\ \A x \in ReservationIds \ {r} : reservations'[x] = reservations[x]
        BY <1>4, <2>2 DEF NewRow, NoReservation, Published
      <3>2. CASE Published(r, [status |-> "pending", amount |-> a], 0, a)
        <4>1. reservations'[r].status = "pending" /\ reservations'[r].amount = a
          BY <1>4, <3>2 DEF Published
        <4>2. PendingTotal(reservations') = PendingTotal(reservations) + a
          BY <1>4, <3>1, <4>1, PendingMore
        <4> QED
          BY <1>4, <3>2, <4>2 DEF Published
      <3>3. CASE Published(r, [status |-> "confirmed", amount |-> a], a, 0)
        <4>1. reservations'[r].status # "pending"
          BY <1>4, <3>3 DEF Published
        <4>2. PendingTotal(reservations') = PendingTotal(reservations)
          BY <3>1, <4>1, PendingSame
        <4> QED
          BY <1>4, <3>3, <4>2 DEF Published
      <3> QED
        BY <2>2, <3>2, <3>3 DEF NewRow
    <2>3. ASSUME NEW r \in ReservationIds, SettledRow(r)
          PROVE  account'.reserved = PendingTotal(reservations')
      <3>1. /\ reservations[r].status = "pending" /\ reservations[r].amount \in Nat
            /\ reservations'[r].status # "pending"
            /\ \A x \in ReservationIds \ {r} : reservations'[x] = reservations[x]
            /\ account'.reserved = account.reserved + (-reservations[r].amount)
        BY <1>4, <2>3 DEF SettledRow, Published, Reservation
      <3>2. PendingTotal(reservations) = PendingTotal(reservations') + reservations[r].amount
        <4>1. \A x \in ReservationIds \ {r} : reservations[x] = reservations'[x]
          BY <3>1
        <4> QED
          BY <1>4, <3>1, <4>1, PendingMore
      <3>3. PendingTotal(reservations') \in Nat
        BY <1>4, PendingTypes
      <3> QED
        BY <1>4, <3>1, <3>2, <3>3
    <2> QED
      BY <2>1, <2>2, <2>3, CommitPublishes
  <1> QED
    BY <1>2, <1>3, <1>5 DEF Sums

-------------------------------------------------------------------------------
LEMMA InitSums == Init => Sums
  <1> SUFFICES ASSUME Init PROVE Sums
    OBVIOUS
  <1>1. account.reserved = PendingTotal(reservations)
    <2>1. PendingIn(reservations) = {}
      BY DEF Init, PendingIn, NoReservation
    <2>2. PendingTotal(reservations) = 0
      BY <2>1, TotalOfNothing DEF PendingTotal
    <2> QED
      BY <2>2 DEF Init, NoAccount
  <1>2. ASSUME NEW t \in Txns PROVE Deed(t)
    <2>1. ~Written(t) /\ ~Settling(t) /\ ~HasReserved(t)
      BY DEF Init, Written, Settling, HasReserved, NoCall
    <2>2. NoneHeld(t) /\ Looking(t)
      BY CreditAssumption DEF Init, NoneHeld, Looking, Rows
    <2> QED
      BY <2>1, <2>2 DEF Deed
  <1> QED
    BY <1>1, <1>2 DEF Sums

LEMMA StepSums ==
    ASSUME IInv, Sums, NEW t \in Txns, Step(t)
    PROVE  Sums'
  <1>1. CASE CallGetBalance(t)
    <2> DEFINE c == [op |-> "get"]
    <2>1. c.op = "get" /\ Begin(t, c, "read_balance")
      BY <1>1 DEF CallGetBalance
    <2> HIDE DEF c
    <2> QED
      BY <2>1, BeginDeed
  <1>2. ASSUME NEW a \in Amounts, CallReserve(t, a) PROVE Sums'
    <2> DEFINE c == [op |-> "reserve", amount |-> a]
    <2>1. c.op = "reserve" /\ Begin(t, c, "lock_balance")
      BY <1>2 DEF CallReserve
    <2> HIDE DEF c
    <2> QED
      BY <2>1, BeginDeed
  <1>3. ASSUME NEW a \in Amounts, CallAdd(t, a) PROVE Sums'
    <2> DEFINE c == [op |-> "add", amount |-> a]
    <2>1. c.op = "add" /\ Begin(t, c, "lock_balance")
      BY <1>3 DEF CallAdd
    <2> HIDE DEF c
    <2> QED
      BY <2>1, BeginDeed
  <1>4. ASSUME NEW r \in ReservationIds, NEW op \in {"confirm", "release"}, CallSettle(t, op, r)
        PROVE Sums'
    <2> DEFINE c == [op |-> op, id |-> r]
    <2>1. c.id \in ReservationIds /\ Begin(t, c, "lock_reservation")
      BY <1>4 DEF CallSettle
    <2> HIDE DEF c
    <2> QED
      BY <2>1, BeginDeed
  <1>5. ASSUME NEW r \in ReservationIds, ConfirmOwn(t, r) \/ Reserve(t, r) PROVE Sums'
    BY <1>5, ConfirmOwnDeed, ReserveDeed
  <1>6. CASE ReadBalance(t)
    BY <1>6, ReadBalanceDeed
  <1>7. CASE LockReservation(t)
    BY <1>7, LockReservationDeed
  <1>8. CASE LockBalance(t)
    BY <1>8, LockBalanceDeed
  <1>9. CASE InsertBalance(t)
    BY <1>9, InsertBalanceDeed
  <1>10. CASE RefuseReserve(t) \/ Fail(t)
    BY <1>10, RollbackDeed DEF RefuseReserve, Fail
  <1>11. CASE Confirm(t)
    BY <1>11, ConfirmDeed
  <1>12. CASE Release(t)
    BY <1>12, ReleaseDeed
  <1>13. CASE Add(t)
    BY <1>13, AddDeed
  <1>14. CASE Commit(t)
    BY <1>14, CommitDeed
  <1> QED
    BY <1>1, <1>2, <1>3, <1>4, <1>5, <1>6, <1>7, <1>8, <1>9, <1>10, <1>11, <1>12, <1>13,
       <1>14 DEF Step

LEMMA StutterSums ==
    ASSUME IInv, Sums, UNCHANGED vars
    PROVE  Sums'
  <1>1. ASSUME NEW u \in Txns PROVE Deed(u)'
    BY DeedKept DEF vars, Sums, IInv
  <1> QED
    BY <1>1 DEF vars, Sums

(* What every transaction has done so far, and the reserved column.        *)
THEOREM CreditSums == Spec => []Sums
  <1>1. IInv /\ Sums /\ [Next]_vars => Sums'
    BY StepSums, StutterSums DEF Next
  <1> QED
    BY <1>1, InitSums, CreditInvariant, PTL DEF Spec

(* The reserved column is always the sum of the pending reservations, for  *)
(* any number of sessions and reservations.                                *)
THEOREM CreditReservedIsPending == Spec => []ReservedIsPending
  <1>1. Sums => ReservedIsPending
    BY DEF Sums, ReservedIsPending, PendingTotal, PendingIn
  <1> QED
    BY <1>1, CreditSums, PTL

-------------------------------------------------------------------------------
(* The refinement: a commit is a call of the account, and everything else  *)
(* leaves the committed rows alone.                                        *)

LEMMA SameCount == \A S : Committed!Cardinality(S) = Cardinality(S)
  BY DEF Committed!Cardinality, Cardinality, Committed!IsFiniteSet, IsFiniteSet

LEMMA AvailableIs == Committed!Available = account.balance - PendingTotal(reservations)
  BY SameCount DEF Committed!Available, Committed!Pending, Committed!Total, Committed!Credits,
     PendingTotal, PendingIn, Total, Credits

LEMMA CommitIsCall ==
    ASSUME IInv, Sums, NEW t \in Txns, Commit(t)
    PROVE  Committed!Next \/ UNCHANGED <<account.balance, reservations>>
  <1>1. /\ reservations \in [ReservationIds -> Reservation]
        /\ account.balance \in Int /\ account.reserved \in Int
        /\ account.reserved = PendingTotal(reservations)
    BY DEF IInv, TypeOK, Account, Sums
  <1>2. CASE NoRow
    <2>1. CASE account'.balance = account.balance
      BY <1>2, <2>1 DEF NoRow
    <2>2. CASE \E a \in Amounts : account'.balance = account.balance + a
      BY <1>2, <2>2 DEF NoRow, Committed!Next, Committed!Add
    <2> QED
      BY <1>2, <2>1, <2>2 DEF NoRow
  <1>3. ASSUME NEW r \in ReservationIds, NEW a \in Amounts, NewRow(r, a)
        PROVE  Committed!Next
    <2>1. /\ reservations[r] = Committed!NoReservation
          /\ a <= Committed!Available
      BY <1>1, <1>3, AvailableIs DEF NewRow, NoReservation, Committed!NoReservation
    <2>2. CASE Published(r, [status |-> "pending", amount |-> a], 0, a)
      <3>1. account'.balance = account.balance
        BY <1>1, <2>2 DEF Published
      <3>2. Committed!Reserve(r, a)
        BY <2>1, <2>2, <3>1 DEF Published, Committed!Reserve, Committed!Becomes
      <3> QED
        BY <3>2 DEF Committed!Next
    <2>3. CASE Published(r, [status |-> "confirmed", amount |-> a], a, 0)
      <3>1. Committed!Pay(r, a)
        BY <2>1, <2>3 DEF Published, Committed!Pay, Committed!Becomes
      <3> QED
        BY <3>1 DEF Committed!Next
    <2> QED
      BY <1>3, <2>2, <2>3 DEF NewRow
  <1>4. ASSUME NEW r \in ReservationIds, SettledRow(r)
        PROVE  Committed!Next
    <2> DEFINE a == reservations[r].amount
    <2>1. reservations[r].status = "pending"
      BY <1>4 DEF SettledRow
    <2>2. CASE Published(r, [status |-> "confirmed", amount |-> a], a, -a)
      <3>1. Committed!Confirm(r)
        BY <2>1, <2>2 DEF Published, Committed!Confirm, Committed!Becomes
      <3> QED
        BY <3>1 DEF Committed!Next
    <2>3. CASE Published(r, [status |-> "released", amount |-> a], 0, -a)
      <3>1. account'.balance = account.balance
        BY <1>1, <2>3 DEF Published
      <3>2. Committed!Release(r)
        BY <2>1, <2>3, <3>1 DEF Published, Committed!Release, Committed!Becomes
      <3> QED
        BY <3>2 DEF Committed!Next
    <2> QED
      BY <1>4, <2>2, <2>3 DEF SettledRow
  <1> QED
    BY <1>2, <1>3, <1>4, CommitPublishes

(* credit_service.py implements the sequential credit account: its callers *)
(* never see a half-done or a lost call, however the sessions interleave.  *)
THEOREM CreditImplementsAccount == Spec => ImplementsAccount
  <1>1. Init => Committed!Init
    BY DEF Init, NoAccount, NoReservation, Committed!Init, Committed!NoReservation
  <1>2. ASSUME IInv, Sums, [Next]_vars
        PROVE  [Committed!Next]_<<account.balance, reservations>>
    <2>1. CASE UNCHANGED <<account, reservations>>
      BY <2>1
    <2>2. ASSUME NEW t \in Txns, Commit(t)
          PROVE  [Committed!Next]_<<account.balance, reservations>>
      BY <1>2, <2>2, CommitIsCall
    <2>3. ASSUME NEW t \in Txns, Step(t), ~Commit(t) PROVE UNCHANGED <<account, reservations>>
      BY <2>3 DEF Step, CallGetBalance, CallReserve, CallAdd, CallSettle, Begin, ConfirmOwn,
           Reserve, ReadBalance, LockReservation, LockBalance, InsertBalance, RefuseReserve,
           Confirm, Release, Settle, Add, Fail, Rollback
    <2> QED
      BY <1>2, <2>1, <2>2, <2>3 DEF Next, vars
  <1> QED
    BY <1>1, <1>2, CreditInvariant, CreditSums, PTL DEF Spec, ImplementsAccount, Committed!Spec

===============================================================================
