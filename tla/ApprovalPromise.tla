---------------------------- MODULE ApprovalPromise ----------------------------
(***************************************************************************)
(* What the approval workflow promises for each operation: approvers sign  *)
(* in the order of their levels, one refusal ends it, and the target is    *)
(* called at most once, only after the last level signed.                  *)
(***************************************************************************)
EXTENDS Naturals

CONSTANT Ops

VARIABLES levels,  \* how many approvers must sign; it never changes
          signed,  \* the levels whose approver said yes
          verdict, \* "none", "approved" or "rejected"
          calls    \* calls of the target's connector

promiseVars == <<levels, signed, verdict, calls>>

Init ==
    /\ levels  \in Nat
    /\ signed  = [o \in Ops |-> {}]
    /\ \/ verdict = [o \in Ops |-> "none"]
       \/ verdict = [o \in Ops |-> "approved"]  \* approval is disabled
    /\ calls   = [o \in Ops |-> 0]

\* The approver of the first level that has not signed says yes.
Sign(o) ==
    \E l \in 0 .. levels - 1 :
        /\ signed[o] = 0 .. l - 1 /\ verdict[o] = "none"
        /\ signed' = [signed EXCEPT ![o] = 0 .. l]
        /\ UNCHANGED <<levels, verdict, calls>>

\* All levels signed, or the approver of the next level said no.
Conclude(o) ==
    /\ verdict[o] = "none"
    /\ verdict' = [verdict EXCEPT ![o] =
                    IF signed[o] = 0 .. levels - 1 THEN "approved" ELSE "rejected"]
    /\ UNCHANGED <<levels, signed, calls>>

Provision(o) ==
    /\ verdict[o] = "approved" /\ calls[o] = 0
    /\ calls' = [calls EXCEPT ![o] = 1]
    /\ UNCHANGED <<levels, signed, verdict>>

Next == \E o \in Ops : Sign(o) \/ Conclude(o) \/ Provision(o)

Spec == Init /\ [][Next]_promiseVars

=============================================================================
