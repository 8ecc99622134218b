---------------------------- MODULE MCCreditLedger ----------------------------
(* Small instances of CreditLedger for TLC.                                *)
EXTENDS CreditLedger, TLC

CONSTANTS t1, t2, r1, r2

MCTxns2 == {t1, t2}
MCIds == {r1, r2}

MCSymmetry2 == Permutations(MCTxns2) \cup Permutations(MCIds)
===============================================================================
