------------------------------ MODULE CreditLedger ------------------------------
(***************************************************************************)
(* The prepaid credits of one tenant (services/credit_service.py): one     *)
(* credit_balances row, the credit_reservations of running tasks and the   *)
(* immutable credit_transactions.  Requests and Celery workers call the    *)
(* service in transactions of their own at READ COMMITTED; SELECT ... FOR   *)
(* UPDATE on the reservation and on the balance row is all that orders     *)
(* them.  One action per statement that can wait, fail or be overtaken.    *)
(*                                                                         *)
(* The advisory lock on the credit_transactions chain is always taken by   *)
(* the holder of the balance row (ChainLedger is about that lock).         *)
(***************************************************************************)
EXTENDS Sequences, Totals

CONSTANTS
    Txns,            \* database sessions
    ReservationIds,  \* ids that uuid4 may hand out
    Amounts,         \* credits asked for or added, positive in every caller
    NoTxn,           \* "no transaction holds the row"
    MaxEntries       \* bound on the credit_transactions

ASSUME CreditAssumption ==
    /\ NoTxn \notin Txns
    /\ IsFiniteSet(ReservationIds)
    /\ Amounts \subseteq Nat \ {0}
    /\ MaxEntries \in Nat
    /\ {"balance", "none"} \cap ReservationIds = {}

Rows == {"balance"} \cup ReservationIds

VARIABLES
    account,       \* the committed credit_balances row
    reservations,  \* committed credit_reservations
    ledger,        \* committed credit_transactions, in chain order
    holder,        \* which transaction holds the lock on each row
    pc,            \* the statement a session executes next
    call,          \* the service call in progress
    mine           \* rows a transaction has locked or written, as it sees them

vars == <<account, reservations, ledger, holder, pc, call, mine>>

--------------------------------------------------------------------------------
NoAccount == [exists |-> FALSE, balance |-> 0, reserved |-> 0]
ZeroAccount == [exists |-> TRUE, balance |-> 0, reserved |-> 0]
NoReservation == [status |-> "none", amount |-> 0]
NoCall == [op |-> "none"]
Clean == [account |-> NoAccount,
          reservations |-> [r \in ReservationIds |-> NoReservation],
          entries |-> <<>>]

Available(acc) == acc.balance - acc.reserved

(* What a statement of t sees of a row: its own version when it holds it,  *)
(* the last committed one otherwise.                                       *)
AccountSeen(t) == IF holder["balance"] = t THEN mine[t].account ELSE account
ReservationSeen(t, r) ==
    IF holder[r] = t THEN mine[t].reservations[r] ELSE reservations[r]

(* No row of r's id exists, committed or not.                              *)
Unused(r) == reservations[r] = NoReservation /\ holder[r] = NoTxn

(* Bounds: an open transaction adds at most one credit_transactions row    *)
(* and at most one reservation.                                            *)
RoomForEntry ==
    Len(ledger) + Cardinality({t \in Txns : call[t].op \notin {"none", "get"}}) < MaxEntries
RoomForReservation ==
    Cardinality({t \in Txns : call[t].op = "reserve"})
        < Cardinality({r \in ReservationIds : Unused(r)})

HoldsNothing(t) == \A row \in Rows : holder[row] # t

(* A row of credit_transactions.                                           *)
Entry(kind, r, amount, before, after) ==
    [kind |-> kind, reservation |-> r, amount |-> amount,
     balance_before |-> before, balance_after |-> after]

Init ==
    /\ account = NoAccount
    /\ reservations = [r \in ReservationIds |-> NoReservation]
    /\ ledger = <<>>
    /\ holder = [row \in Rows |-> NoTxn]
    /\ pc = [t \in Txns |-> "idle"]
    /\ call = [t \in Txns |-> NoCall]
    /\ mine = [t \in Txns |-> Clean]

(* The end of a transaction frees its rows.                                *)
Forget(t) ==
    /\ holder' = [row \in Rows |-> IF holder[row] = t THEN NoTxn ELSE holder[row]]
    /\ pc' = [pc EXCEPT ![t] = "idle"]
    /\ call' = [call EXCEPT ![t] = NoCall]
    /\ mine' = [mine EXCEPT ![t] = Clean]

(* An exception leaves the handler and its session rolls back.             *)
Rollback(t) ==
    /\ Forget(t)
    /\ UNCHANGED <<account, reservations, ledger>>

--------------------------------------------------------------------------------
(* A transaction starts with one service call ...                          *)
Begin(t, c, where) ==
    /\ pc[t] = "idle"
    /\ pc' = [pc EXCEPT ![t] = where]
    /\ call' = [call EXCEPT ![t] = c]
    /\ UNCHANGED <<account, reservations, ledger, holder, mine>>

CallGetBalance(t) == Begin(t, [op |-> "get"], "read_balance")
CallReserve(t, a) ==
    /\ RoomForEntry
    /\ RoomForReservation
    /\ Begin(t, [op |-> "reserve", amount |-> a], "lock_balance")
CallAdd(t, a) ==
    /\ RoomForEntry
    /\ Begin(t, [op |-> "add", amount |-> a], "lock_balance")

CallSettle(t, op, r) ==
    /\ RoomForEntry
    /\ reservations[r] # NoReservation
    /\ Begin(t, [op |-> op, id |-> r], "lock_reservation")

(* Fault: a transaction that has reserved goes on to confirm a reservation *)
(* of another one.                                                         *)
ConfirmAny(t, r) ==
    /\ pc[t] = "active"
    /\ call[t].op = "reserve"
    /\ reservations[r] # NoReservation
    /\ pc' = [pc EXCEPT ![t] = "lock_reservation"]
    /\ call' = [call EXCEPT ![t] = [op |-> "confirm", id |-> r]]
    /\ UNCHANGED <<account, reservations, ledger, holder, mine>>

(* ... and create_workspace and purchase_template confirm what they have   *)
(* just reserved.                                                          *)
ConfirmOwn(t, r) ==
    /\ pc[t] = "active"
    /\ call[t].op = "reserve"
    /\ holder[r] = t
    /\ pc' = [pc EXCEPT ![t] = "lock_reservation"]
    /\ call' = [call EXCEPT ![t] = [op |-> "confirm", id |-> r]]
    /\ UNCHANGED <<account, reservations, ledger, holder, mine>>

(* get_balance reads the row without a lock.                               *)
ReadBalance(t) ==
    /\ pc[t] = "read_balance"
    /\ pc' = [pc EXCEPT ![t] = IF account.exists THEN "active" ELSE "insert_balance"]
    /\ UNCHANGED <<account, reservations, ledger, holder, call, mine>>

(* Fault: the status filter is missing from the query.                     *)
LockReservationAnyStatus(t) ==
    LET r == call[t].id IN
    /\ pc[t] = "lock_reservation"
    /\ holder[r] \in {NoTxn, t}
    /\ holder' = [holder EXCEPT ![r] = t]
    /\ mine' = [mine EXCEPT ![t].reservations[r] = ReservationSeen(t, r)]
    /\ pc' = [pc EXCEPT ![t] = "lock_balance"]
    /\ UNCHANGED <<account, reservations, ledger, call>>

(* SELECT the pending reservation FOR UPDATE: a waiter re-evaluates the    *)
(* status filter on the row its predecessor committed, and raises          *)
(* ValueError when the reservation is no longer pending.                   *)
LockReservation(t) ==
    LET r == call[t].id IN
    /\ pc[t] = "lock_reservation"
    /\ holder[r] \in {NoTxn, t}
    /\ \/ /\ ReservationSeen(t, r).status = "pending"
          /\ holder' = [holder EXCEPT ![r] = t]
          /\ mine' = [mine EXCEPT ![t].reservations[r] = ReservationSeen(t, r)]
          /\ pc' = [pc EXCEPT ![t] = "lock_balance"]
          /\ UNCHANGED <<account, reservations, ledger, call>>
       \/ /\ ReservationSeen(t, r).status # "pending"
          /\ Rollback(t)

(* Fault: the balance row is read without FOR UPDATE.                      *)
LockBalanceNoWait(t) ==
    /\ pc[t] = "lock_balance"
    /\ IF AccountSeen(t).exists
       THEN /\ holder' = [holder EXCEPT !["balance"] = t]
            /\ mine' = [mine EXCEPT ![t].account = AccountSeen(t)]
            /\ pc' = [pc EXCEPT ![t] = "apply"]
       ELSE /\ pc' = [pc EXCEPT ![t] = "insert_balance"]
            /\ UNCHANGED <<holder, mine>>
    /\ UNCHANGED <<account, reservations, ledger, call>>

(* SELECT the balance row FOR UPDATE.  It waits for the holder of a row    *)
(* that exists; a row that is missing or not yet committed is not seen, and *)
(* only reserve and add can miss it: a reservation implies the row.        *)
LockBalance(t) ==
    /\ pc[t] = "lock_balance"
    /\ IF AccountSeen(t).exists
       THEN /\ holder["balance"] \in {NoTxn, t}
            /\ holder' = [holder EXCEPT !["balance"] = t]
            /\ mine' = [mine EXCEPT ![t].account = AccountSeen(t)]
            /\ pc' = [pc EXCEPT ![t] = "apply"]
       ELSE /\ pc' = [pc EXCEPT ![t] = "insert_balance"]
            /\ UNCHANGED <<holder, mine>>
    /\ UNCHANGED <<account, reservations, ledger, call>>

(* INSERT of the zero balance row.  The unique index on tenant_id makes it *)
(* wait for an uncommitted INSERT and fail once the row is there.  The     *)
(* re-fetch that follows finds the new row locked by this transaction.     *)
InsertBalance(t) ==
    /\ pc[t] = "insert_balance"
    /\ \/ /\ account.exists
          /\ Rollback(t)
       \/ /\ ~account.exists
          /\ holder["balance"] = NoTxn
          /\ holder' = [holder EXCEPT !["balance"] = t]
          /\ mine' = [mine EXCEPT ![t].account = ZeroAccount]
          /\ pc' = [pc EXCEPT ![t] = IF call[t].op = "get" THEN "active" ELSE "apply"]
          /\ UNCHANGED <<account, reservations, ledger, call>>

(* Fault: the balance and not the available credits is compared.           *)
ReserveAgainstBalance(t, r) ==
    LET acc == mine[t].account
        amount == call[t].amount
    IN
    /\ pc[t] = "apply"
    /\ call[t].op = "reserve"
    /\ acc.balance >= amount
    /\ Unused(r)
    /\ holder' = [holder EXCEPT ![r] = t]
    /\ mine' = [mine EXCEPT ![t].account.reserved = @ + amount,
                            ![t].reservations[r] = [status |-> "pending", amount |-> amount]]
    /\ pc' = [pc EXCEPT ![t] = "active"]
    /\ UNCHANGED <<account, reservations, ledger, call>>

(* The rest of reserve_credits.                                            *)
Reserve(t, r) ==
    LET acc == mine[t].account
        amount == call[t].amount
    IN
    /\ pc[t] = "apply"
    /\ call[t].op = "reserve"
    /\ Available(acc) >= amount
    /\ Unused(r)
    /\ holder' = [holder EXCEPT ![r] = t]
    /\ mine' = [mine EXCEPT ![t].account.reserved = @ + amount,
                            ![t].reservations[r] = [status |-> "pending", amount |-> amount]]
    /\ pc' = [pc EXCEPT ![t] = "active"]
    /\ UNCHANGED <<account, reservations, ledger, call>>

(* InsufficientCreditsError.                                               *)
RefuseReserve(t) ==
    /\ pc[t] = "apply"
    /\ call[t].op = "reserve"
    /\ Available(mine[t].account) < call[t].amount
    /\ Rollback(t)

(* Fault: confirming a reservation leaves it in the reserved total.        *)
ConfirmKeepsReserved(acc, amount) == [acc EXCEPT !.balance = @ - amount]

Confirmed(acc, amount) ==
    [exists |-> acc.exists, balance |-> acc.balance - amount,
     reserved |-> acc.reserved - amount]

(* Fault: releasing a reservation gives its credits back a second time.    *)
ReleaseRefunds(acc, amount) ==
    [acc EXCEPT !.balance = @ + amount, !.reserved = @ - amount]

Released(acc, amount) == [acc EXCEPT !.reserved = @ - amount]

(* The rest of confirm_credits and release_credits: the new balance, the   *)
(* final status and the credit_transactions row.                           *)
Settle(t, op, status, new) ==
    LET r == call[t].id
        amount == mine[t].reservations[r].amount
        entry == Entry(status, r, amount, mine[t].account.balance, new.balance)
    IN
    /\ pc[t] = "apply"
    /\ call[t].op = op
    /\ mine' = [mine EXCEPT ![t] =
                    [account |-> new,
                     reservations |->
                        [@.reservations EXCEPT ![r] = [status |-> status, amount |-> amount]],
                     entries |-> Append(@.entries, entry)]]
    /\ pc' = [pc EXCEPT ![t] = "active"]
    /\ UNCHANGED <<account, reservations, ledger, holder, call>>

ReservedAmount(t) == mine[t].reservations[call[t].id].amount

Confirm(t) ==
    Settle(t, "confirm", "confirmed", Confirmed(mine[t].account, ReservedAmount(t)))

Release(t) ==
    Settle(t, "release", "released", Released(mine[t].account, ReservedAmount(t)))

(* The rest of add_credits.                                                *)
Add(t) ==
    LET acc == mine[t].account
        amount == call[t].amount
    IN
    /\ pc[t] = "apply"
    /\ call[t].op = "add"
    /\ mine' = [mine EXCEPT ![t] =
                    [account |-> [acc EXCEPT !.balance = @ + amount],
                     reservations |-> @.reservations,
                     entries |-> Append(@.entries, Entry("added", "none", amount, acc.balance,
                                                         acc.balance + amount))]]
    /\ pc' = [pc EXCEPT ![t] = "active"]
    /\ UNCHANGED <<account, reservations, ledger, holder, call>>

(* The request's or the task's session commits.                            *)
Commit(t) ==
    /\ pc[t] = "active"
    /\ account' = AccountSeen(t)
    /\ reservations' = [r \in ReservationIds |-> ReservationSeen(t, r)]
    /\ ledger' = ledger \o mine[t].entries
    /\ Forget(t)

(* An exception elsewhere in the handler, or a lost connection.            *)
Fail(t) ==
    /\ pc[t] # "idle"
    /\ Rollback(t)

--------------------------------------------------------------------------------
Step(t) ==
    \/ CallGetBalance(t)
    \/ \E a \in Amounts : CallReserve(t, a) \/ CallAdd(t, a)
    \/ \E r \in ReservationIds, op \in {"confirm", "release"} : CallSettle(t, op, r)
    \/ \E r \in ReservationIds : ConfirmOwn(t, r) \/ Reserve(t, r)
    \/ ReadBalance(t)
    \/ LockReservation(t)
    \/ LockBalance(t)
    \/ InsertBalance(t)
    \/ RefuseReserve(t)
    \/ Confirm(t)
    \/ Release(t)
    \/ Add(t)
    \/ Commit(t)
    \/ Fail(t)

Next == \E t \in Txns : Step(t)

Spec == Init /\ [][Next]_vars

--------------------------------------------------------------------------------
Account == [exists : BOOLEAN, balance : Int, reserved : Int]
Reservation == [status : {"none", "pending", "confirmed", "released"}, amount : Nat]
Entries == [kind : {"added", "confirmed", "released"},
            reservation : ReservationIds \cup {"none"},
            amount : Nat, balance_before : Int, balance_after : Int]
Calls ==
    {NoCall, [op |-> "get"]}
    \cup [op : {"reserve", "add"}, amount : Amounts]
    \cup [op : {"confirm", "release"}, id : ReservationIds]

(* The state of the credit service is well typed.                          *)
TypeOK ==
    /\ account \in Account
    /\ reservations \in [ReservationIds -> Reservation]
    /\ ledger \in Seq(Entries)
    /\ holder \in [Rows -> Txns \cup {NoTxn}]
    /\ pc \in [Txns -> {"idle", "read_balance", "lock_reservation", "lock_balance",
                        "insert_balance", "apply", "active"}]
    /\ call \in [Txns -> Calls]
    /\ mine \in [Txns -> [account : Account,
                          reservations : [ReservationIds -> Reservation],
                          entries : Seq(Entries)]]

(* No interleaving of reservations, settlements and top-ups promises more  *)
(* credits than the tenant has (reserve_credits: "prevent concurrent       *)
(* overdraw").                                                             *)
NoOverdraft == account.reserved <= account.balance

(* The reserved column is the sum of the pending reservations: no credits  *)
(* stay blocked by a settled task and none are freed under a running one.  *)
ReservedIsPending ==
    account.reserved =
        Total([r \in {r \in ReservationIds : reservations[r].status = "pending"}
                    |-> reservations[r].amount])

(* What a row of credit_transactions says it did to the balance.           *)
Movement(e) ==
    CASE e.kind = "added" -> e.amount
      [] e.kind = "confirmed" -> -e.amount
      [] e.kind = "released" -> 0

(* The entries lead from one balance to the next without a gap.            *)
Continues(entries, from) ==
    \A i \in DOMAIN entries :
        /\ entries[i].balance_before = (IF i = 1 THEN from ELSE entries[i - 1].balance_after)
        /\ entries[i].balance_after = entries[i].balance_before + Movement(entries[i])

EndBalance(entries, from) ==
    IF entries = <<>> THEN from ELSE entries[Len(entries)].balance_after

(* The immutable credit_transactions explain the mutable balance row: each *)
(* starts from the balance its predecessor left, moves it by what its kind *)
(* says, and the last one ends at the current balance.                     *)
LedgerExplainsBalance ==
    /\ Continues(ledger, 0)
    /\ account.balance = EndBalance(ledger, 0)

(* A reservation is settled once: concurrent or repeated confirm_credits   *)
(* and release_credits write one transaction for it, of the kind of its    *)
(* final status.                                                           *)
SettledOnce ==
    \A r \in ReservationIds :
        LET settling == {i \in DOMAIN ledger : ledger[i].reservation = r} IN
        IF reservations[r].status \in {"confirmed", "released"}
        THEN \E i \in settling : /\ settling = {i}
                                 /\ ledger[i].kind = reservations[r].status
                                 /\ ledger[i].amount = reservations[r].amount
        ELSE settling = {}

(* Confirmed and released are final, and a reservation never changes its   *)
(* amount.                                                                 *)
SettledIsFinal ==
    [][\A r \in ReservationIds :
            reservations[r].status # "none" =>
                /\ reservations'[r].amount = reservations[r].amount
                /\ reservations[r].status # "pending" => reservations'[r] = reservations[r]]_vars

(* The statement of t that waits for a row another transaction holds.      *)
WaitsFor(t, row) ==
    /\ holder[row] \notin {NoTxn, t}
    /\ \/ pc[t] = "lock_reservation" /\ row = call[t].id
       \/ pc[t] = "lock_balance" /\ row = "balance" /\ account.exists
       \/ pc[t] = "insert_balance" /\ row = "balance" /\ ~account.exists

(* Reservation before balance is a lock order: whoever holds the balance   *)
(* row waits for nobody, and who waits for a reservation holds no row, so  *)
(* the transactions never wait for each other in a cycle.                  *)
LockOrder ==
    \A t \in Txns, row \in Rows :
        WaitsFor(t, row) =>
            /\ holder["balance"] # t
            /\ row # "balance" => HoldsNothing(t)

(* The account the callers see: the committed rows.                        *)
Committed == INSTANCE CreditAccount WITH balance <- account.balance, held <- reservations

(* However the sessions' statements interleave, wait and fail, each commit *)
(* is one call of the sequential account, or a reservation spent at once,  *)
(* and nothing else ever changes it (credit_service.py).                   *)
ImplementsAccount == Committed!Spec

================================================================================
