--------------------------- MODULE MCPaidServices ----------------------------
(* A small instance of PaidServices: two engagements, an allocation, a     *)
(* workspace, a template with a price and a free one.                      *)
EXTENDS PaidServices, TLC

CONSTANTS e1, e2, ppa, ma, s1, s2, priced, free

CostOf == (e1 :> 3) @@ (e2 :> 2) @@ (ppa :> 2) @@ (ma :> 1)
PriceOf == (priced :> 2) @@ (free :> 0)

================================================================================
