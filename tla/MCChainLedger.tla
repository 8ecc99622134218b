---------------------------- MODULE MCChainLedger ----------------------------
(* Small instances of ChainLedger for TLC.                                 *)
EXTENDS ChainLedger, TLC

CONSTANTS t1, t2, audit, journal, k1, k2

MCTxns == {t1, t2}
MCChains == {audit, journal}
MCLockKeyOf == (audit :> k1) @@ (journal :> k2)
MCTimes == {1, 2}

==============================================================================
