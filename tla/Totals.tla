------------------------------- MODULE Totals --------------------------------
(***************************************************************************)
(* Sums of amounts of credits.  A sum is the number of single credits in   *)
(* it, the first, second, ... of each amount, so that proofs about it      *)
(* count and need no recursion.                                            *)
(***************************************************************************)
EXTENDS Integers, FiniteSets

Credits(amount) == UNION {{x} \X (1 .. amount[x]) : x \in DOMAIN amount}

(* The sum of all values of the function amount.                           *)
Total(amount) == Cardinality(Credits(amount))

================================================================================
