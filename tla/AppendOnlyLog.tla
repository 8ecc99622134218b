----------------------------- MODULE AppendOnlyLog -----------------------------
(***************************************************************************)
(* What a FinanceOps ledger promises: per (table, tenant) one list of      *)
(* payloads that only ever grows at its end, whatever transactions ran and *)
(* whichever of them failed.                                               *)
(***************************************************************************)
EXTENDS Naturals, Sequences

CONSTANTS Chains, Data

VARIABLE log

Init == log = [c \in Chains |-> <<>>]

Extends(old, new) ==
    /\ Len(old) <= Len(new)
    /\ \A i \in 1..Len(old) : new[i] = old[i]

(* One committed transaction appends to any number of the logs.            *)
Append_ ==
    /\ log' \in [Chains -> Seq(Data)]
    /\ \A c \in Chains : Extends(log[c], log'[c])

Spec == Init /\ [][Append_]_log

================================================================================
