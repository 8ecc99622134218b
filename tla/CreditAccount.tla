---------------------------- MODULE CreditAccount ----------------------------
(***************************************************************************)
(* What the credit service promises its callers                            *)
(* (services/credit_service.py): an account whose credits are reserved,    *)
(* spent, given back and added one call at a time.  CreditLedger, with its *)
(* row locks and concurrent sessions, implements it; PaidServices uses it. *)
(***************************************************************************)
EXTENDS Totals

CONSTANTS
    ReservationIds,
    Amounts

VARIABLES
    balance,  \* credits the tenant has paid for and not spent
    held      \* the reservations

NoReservation == [status |-> "none", amount |-> 0]

Pending == {r \in ReservationIds : held[r].status = "pending"}
Available == balance - Total([r \in Pending |-> held[r].amount])

Init ==
    /\ balance = 0
    /\ held = [r \in ReservationIds |-> NoReservation]

Becomes(r, status, amount) ==
    held' = [held EXCEPT ![r] = [status |-> status, amount |-> amount]]

Reserve(r, amount) ==
    /\ held[r] = NoReservation
    /\ amount <= Available
    /\ Becomes(r, "pending", amount)
    /\ UNCHANGED balance

Confirm(r) ==
    /\ held[r].status = "pending"
    /\ Becomes(r, "confirmed", held[r].amount)
    /\ balance' = balance - held[r].amount

Release(r) ==
    /\ held[r].status = "pending"
    /\ Becomes(r, "released", held[r].amount)
    /\ UNCHANGED balance

(* Reserve and confirm in one transaction.                                 *)
Pay(r, amount) ==
    /\ held[r] = NoReservation
    /\ amount <= Available
    /\ Becomes(r, "confirmed", amount)
    /\ balance' = balance - amount

Add(amount) ==
    /\ balance' = balance + amount
    /\ UNCHANGED held

Next ==
    \/ \E r \in ReservationIds :
        \/ \E amount \in Amounts : Reserve(r, amount) \/ Pay(r, amount)
        \/ Confirm(r)
        \/ Release(r)
    \/ \E amount \in Amounts : Add(amount)

Spec == Init /\ [][Next]_<<balance, held>>

================================================================================
