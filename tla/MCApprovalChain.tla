----------------------------- MODULE MCApprovalChain -----------------------------
(***************************************************************************)
(* Instances of ApprovalChain for TLC.                                     *)
(***************************************************************************)
EXTENDS ApprovalChain, TLC

\* Operations, user data and deciders are only compared for equality.  (Used
\* by the runs without liveness properties.)
Symmetry == Permutations(Ops) \cup Permutations(Data) \cup Permutations(Deciders)

\* Nothing goes wrong; the target refuses; nothing but the processes and the
\* database can be trusted; nothing can.
FaultsToMeet == {{}, {"target"}, {"target", "redis", "email", "expiry"}, FaultKinds}
NoFaults     == {{}}
=============================================================================
