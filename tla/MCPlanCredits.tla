---------------------------- MODULE MCPlanCredits ----------------------------
(* A purchase sent twice under one key, a consumption under the same key   *)
(* and another one.                                                        *)
EXTENDS PlanCredits

CONSTANTS buy1, buy2, use1, use2, k1, k2

MCRequests == {buy1, buy2, use1, use2}
MCKeyOf == (buy1 :> k1) @@ (buy2 :> k1) @@ (use1 :> k1) @@ (use2 :> k2)
MCOp == (buy1 :> "top_up") @@ (buy2 :> "top_up") @@ (use1 :> "consume") @@ (use2 :> "consume")
MCAmount == (buy1 :> 2) @@ (buy2 :> 2) @@ (use1 :> 2) @@ (use2 :> 1)

MCSymmetry == Permutations({buy1, buy2})

================================================================================
