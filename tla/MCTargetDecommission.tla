-------------------------- MODULE MCTargetDecommission --------------------------
(***************************************************************************)
(* Instances of TargetDecommission for TLC.                                *)
(***************************************************************************)
EXTENDS TargetDecommission

CONSTANTS t1, t2

\* Every account is on the first target: the second stands for the others.
FirstTarget == [a \in Accounts |-> t1]

\* One kind of fault at a time, or none; deletions that are refused or fail are
\* two of a kind; and the operator's retries of those that failed.
OneKind == {{}} \cup {{f} : f \in FaultKinds \ {"race", "target", "reject", "retry"}}
               \cup {{"target", "reject"}, {"target", "retry"}}
Late    == {{"late"}, {"race"}}

\* The second target, begun before, is there when nothing goes wrong.
Both == [f \in FaultSets |-> IF f = {} THEN {t1, t2} ELSE {t1}]

\* Two operations: the first one of the account and its deletion.  A third one
\* where it matters which of them is the latest, or which deletion counts.
Some == [f \in FaultSets |->
            IF f \in {{"api"}, {"double"}, {"readd"}, {"target", "reject"}}
            THEN 3 ELSE 2]
=============================================================================
