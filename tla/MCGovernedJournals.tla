-------------------------- MODULE MCGovernedJournals --------------------------
(* Small instances of GovernedJournals: an operator who prepares journals  *)
(* and an approver who approves, posts, reverses and closes periods.       *)
EXTENDS GovernedJournals, TLC

CONSTANTS olga, amir

MCRoleOf == (olga :> "operator") @@ (amir :> "approver")
OnePeriod == 1..1
TwoPeriods == 1..2

================================================================================
