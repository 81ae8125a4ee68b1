----------------------------- MODULE MCRetryManager -----------------------------
(***************************************************************************)
(* Instances of RetryManager for TLC.                                      *)
(***************************************************************************)
EXTENDS RetryManager

CONSTANTS o1

\* RETRY_MAX_ATTEMPTS was changed between the two rows.
BudgetOfRows == [o \in Ops |-> IF o = o1 THEN 1 ELSE 3]
SameBudget   == [o \in Ops |-> 2]
=============================================================================
