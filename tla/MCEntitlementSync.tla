--------------------------- MODULE MCEntitlementSync ---------------------------
(***************************************************************************)
(* Instances of EntitlementSync for TLC.                                   *)
(***************************************************************************)
EXTENDS EntitlementSync

CONSTANTS k1, k2, l1

\* One kind of fault at a time, or none.
OneKind  == {{}} \cup {{f} : f \in FaultKinds}
NoFaults == {{}}

\* Changes of the target and renewals: an entitlement may go, come back and go
\* again; fewer where calls overlap, which takes many more states.
Changes == [f \in FaultSets |-> IF "deploy" \in f THEN 0
                                ELSE IF {"abandon", "double"} \cap f # {} THEN 1
                                ELSE IF f = {} THEN 3 ELSE 2]
AllRoles   == {[u \in Users |-> Keys]}
ReplacedBy == [l \in Legacy |-> k1]
=============================================================================
