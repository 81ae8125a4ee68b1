------------------------- MODULE ApprovalProgressProofs -------------------------
(***************************************************************************)
(* How far an operation has come, for any numbers of operations,           *)
(* coroutines and levels.  In deployments that do not use the              *)
(* approve-callback endpoint beside the links: links and chains agree, an  *)
(* operation that waits for approval can still be decided, statuses only   *)
(* move forward, and the chain implements the abstract ApprovalPromise.    *)
(* With or without it, for decisions taken one at a time: the snapshots    *)
(* tell the truth about the target.                                        *)
(*                                                                         *)
(* The argument follows the coroutines: EdgeTaken lists what each of their *)
(* steps does to the place they are at and to the status of their          *)
(* operation; what the steps change besides that is small.                 *)
(***************************************************************************)
EXTENDS ApprovalChainProofs

-----------------------------------------------------------------------------
(* The course of a coroutine *)

From(w, steps) == co[w].pc \in steps
To(w, steps)   == co'[w].pc \in steps

Keeps(w)     == UNCHANGED status
Becomes(w, s) == SetStatus(co[w].op, s)

\* The steps of process_message.
MessageEdge(w) ==
    \/ From(w, {"wasRejected", "wasDeleted"}) /\ To(w, {"wasDeleted", "create"}) /\ Keeps(w)
    \/ At(w, "create")         /\ To(w, {"recheck"}) /\ Becomes(w, "PENDING")
    \/ At(w, "recheck")        /\ To(w, {"skipDelete", "diff", "validate"}) /\ Keeps(w)
    \/ At(w, "skipDelete")     /\ To(w, {"clearSkipped"}) /\ Becomes(w, "SUCCESS")
    \/ From(w, {"diff", "duplicate"}) /\ To(w, {"idle"}) /\ Becomes(w, "SUCCESS")
    \/ From(w, {"diff", "duplicate"}) /\ To(w, {"duplicate", "validate"}) /\ Keeps(w)
    \/ At(w, "validate")       /\ To(w, {"provision", "approvalStatus"}) /\ Becomes(w, "VALIDATED")
    \/ At(w, "approvalStatus") /\ To(w, {"approvalPending"}) /\ Becomes(w, "APPROVAL_PENDING")
    \/ At(w, "approvalPending") /\ To(w, {"approvalSend"}) /\ Keeps(w)
    \/ At(w, "approvalFail")   /\ To(w, {"messageFail"}) /\ Becomes(w, "FAILED")
    \/ At(w, "messageFail")    /\ To(w, {"idle"}) /\ Becomes(w, "FAILED")
    \/ From(w, {"clearSkipped", "approvalId"}) /\ To(w, {"idle"}) /\ Keeps(w)

\* The steps of _provision_to_target, but for the call of the target.
ProvisionEdge(w) ==
    \/ At(w, "provision") /\ To(w, {"execute"}) /\ Becomes(w, "PROCESSING")
    \/ At(w, "succeed")   /\ To(w, {"audited"}) /\ Becomes(w, "SUCCESS")
    \/ At(w, "audited")   /\ Keeps(w)
         /\ To(w, {"return", "clearRejected", "storeState", "dropState"})

MarkerSteps == {"storeRejected", "clearRejected", "clearDeleted", "storeState", "dropState",
                "markDeleted"}

\* The steps of process_approval_response.
DecisionEdge(w) ==
    \/ At(w, "check")  /\ Keeps(w)
         /\ IF status[co[w].op] = "APPROVAL_PENDING" THEN To(w, {"record"})
                                                     ELSE To(w, {"decisionFail"})
    \/ At(w, "record") /\ To(w, {IF co[w].yes THEN "processing" ELSE "reject"}) /\ Keeps(w)
    \/ At(w, "processing") /\ To(w, {"unpend"}) /\ Becomes(w, "PROCESSING")
    \/ At(w, "reject") /\ To(w, {"unpend"}) /\ Becomes(w, "FAILED")
    \/ At(w, "unpend") /\ co[w].yes  /\ To(w, {"provision"}) /\ Keeps(w)
    \/ At(w, "unpend") /\ ~co[w].yes /\ To(w, {"storeRejected", "return"}) /\ Keeps(w)
    \/ From(w, MarkerSteps) /\ Keeps(w)
         /\ To(w, {"return", "clearDeleted", "storeState", "markDeleted"})
    \/ At(w, "decisionFail") /\ Keeps(w)
         /\ IF status[co[w].op] = "PROCESSING" THEN To(w, {"fail"}) ELSE To(w, {"idle"})
    \/ At(w, "fail")   /\ To(w, {"idle"}) /\ Becomes(w, "FAILED")

\* A coroutine moves and the others do not.
Moves(w) ==
    /\ ~At(w, "idle") /\ co[w].op \in Ops /\ co[w].op # None
    /\ \A v \in Workers : v # w => co'[v] = co[v]
    /\ \/ co'[w] = Idle
       \/ /\ co'[w].op = co[w].op /\ co'[w].by = co[w].by /\ co'[w].yes = co[w].yes
          /\ ~To(w, {"idle"})

LEMMA SafeTyped == Safe => TypeInv
BY DEF Safe

LEMMA RunsAnOperation ==
    ASSUME TypeInv, NEW w \in Workers, ~At(w, "idle")
    PROVE  co[w].op \in Ops /\ co[w].op # None
BY Memory, OrchestratorAssumption DEF At

LEMMA WalkMoves ==
    ASSUME TypeInv, NEW w \in Workers, ~At(w, "idle"), NEW step, Goto(w, step), step # "idle"
    PROVE  Moves(w) /\ co'[w].pc = step
BY RunsAnOperation, Walks DEF Moves, To

LEMMA EndMoves ==
    ASSUME TypeInv, NEW w \in Workers, ~At(w, "idle"), Finish(w)
    PROVE  Moves(w) /\ co'[w].pc = "idle"
BY RunsAnOperation DEF Moves, Finish, TypeInv, WorkersOK, Idle

LEMMA MessageMoves ==
    ASSUME TypeInv, NEW w \in Workers, ~At(w, "idle"), NEW step \in Steps \ {"idle"},
           NEW m \in Messages \cup {None}, GotoWith(w, step, m)
    PROVE  Moves(w) /\ co'[w].pc = step
<1>1. PICK r \in Coroutines : /\ co' = [co EXCEPT ![w] = r]
                              /\ r.pc = step /\ r.op = co[w].op
                              /\ r.by = co[w].by /\ r.yes = co[w].yes
  BY MessageUpdate DEF TypeInv
<1>2. co'[w] = r /\ \A v \in Workers : v # w => co'[v] = co[v]
  BY <1>1 DEF TypeInv, WorkersOK
<1> QED BY <1>1, <1>2, RunsAnOperation DEF Moves, To

LEMMA ConversionMoves ==
    ASSUME TypeInv, NEW w \in Workers, NEW step \in {"create", "validate"}, Converts(w, step),
           co[w].pc \in MessageSteps
    PROVE  Moves(w) /\ co'[w].pc = step
<1>1. step \in Steps \ {"idle"} /\ ~At(w, "idle")
  BY DEF Steps, DbSteps, At, MessageSteps
<1>2. PICK m \in Messages : GotoWith(w, step, m)
  BY Conversion DEF TypeInv
<1> QED BY <1>1, <1>2, MessageMoves

LEMMA MessageEdgeTaken ==
    ASSUME TypeInv, NEW w \in Workers, MessageStep(w), ~StartAutoApproval(w)
    PROVE  Moves(w) /\ MessageEdge(w) /\ UNCHANGED <<response, calls, tasks, mode, faults>>
<1>u. UNCHANGED <<response, calls, tasks, mode, faults>>
  BY DEF MessageStep, ConvertRejected, ConvertDeleted, ConvertUpdate, CreateOperation,
         RecheckRejected, SkipDelete, ClearSkippedMarker, CheckDiff, CheckDuplicate,
         MarkValidated, SetApprovalPending, AddPendingApproval, StoreRequestId,
         ApprovalRequestFailed, HandleError, db, target, setup
<1>r. ~At(w, "idle")
  BY DEF MessageStep, ConvertRejected, ConvertDeleted, ConvertUpdate, CreateOperation,
         RecheckRejected, SkipDelete, ClearSkippedMarker, CheckDiff, CheckDuplicate,
         MarkValidated, SetApprovalPending, AddPendingApproval, StoreRequestId,
         ApprovalRequestFailed, HandleError, At
<1>w. ASSUME NEW step, Goto(w, step), step # "idle" PROVE Moves(w) /\ To(w, {step})
  BY <1>r, <1>w, WalkMoves DEF To
<1>e. ASSUME Finish(w) PROVE Moves(w) /\ To(w, {"idle"})
  BY <1>r, <1>e, EndMoves DEF To
<1>1. CASE ConvertRejected(w) \/ ConvertDeleted(w)
  <2>1. From(w, {"wasRejected", "wasDeleted"}) /\ Keeps(w)
    BY <1>1 DEF ConvertRejected, ConvertDeleted, ConvertUpdate, At, From, Keeps, db
  <2>2. \/ \E step \in {"create", "validate"} : step = "create" /\ Converts(w, step)
        \/ Goto(w, "wasDeleted") \/ Goto(w, "create")
    BY <1>1 DEF ConvertRejected, ConvertDeleted, ConvertUpdate, Converts
  <2>3. Moves(w) /\ To(w, {"wasDeleted", "create"})
    BY <2>1, <2>2, <1>w, ConversionMoves DEF To, From, MessageSteps
  <2> QED BY <1>u, <2>1, <2>3 DEF MessageEdge
<1>2. CASE RecheckRejected(w)
  <2>1. At(w, "recheck") /\ Keeps(w)
    BY <1>2 DEF RecheckRejected, Keeps, db
  <2>2. \/ \E step \in {"create", "validate"} : step = "validate" /\ Converts(w, step)
        \/ Goto(w, "skipDelete") \/ Goto(w, "diff") \/ Goto(w, "validate")
    BY <1>2 DEF RecheckRejected, Converts
  <2>3. Moves(w) /\ To(w, {"skipDelete", "diff", "validate"})
    BY <2>1, <2>2, <1>w, ConversionMoves DEF To, At, MessageSteps
  <2> QED BY <1>u, <2>1, <2>3 DEF MessageEdge
<1>3. CASE CreateOperation(w) \/ SkipDelete(w) \/ SetApprovalPending(w) \/ ApprovalRequestFailed(w)
  <2>1. \/ At(w, "create") /\ Goto(w, "recheck") /\ Becomes(w, "PENDING")
        \/ At(w, "skipDelete") /\ Goto(w, "clearSkipped") /\ Becomes(w, "SUCCESS")
        \/ At(w, "approvalStatus") /\ Goto(w, "approvalPending") /\ Becomes(w, "APPROVAL_PENDING")
        \/ At(w, "approvalFail") /\ Goto(w, "messageFail") /\ Becomes(w, "FAILED")
    BY <1>3 DEF CreateOperation, SkipDelete, SetApprovalPending, ApprovalRequestFailed, Becomes
  <2> QED BY <1>u, <1>w, <2>1 DEF MessageEdge
<1>4. CASE CheckDiff(w) \/ CheckDuplicate(w)
  <2>1. /\ From(w, {"diff", "duplicate"})
        /\ \/ Finish(w) /\ Becomes(w, "SUCCESS")
           \/ Goto(w, "duplicate") /\ Keeps(w)
           \/ Goto(w, "validate") /\ Keeps(w)
    BY <1>4 DEF CheckDiff, CheckDuplicate, At, From, Becomes, Keeps
  <2>2. \/ Moves(w) /\ To(w, {"idle"}) /\ Becomes(w, "SUCCESS")
        \/ Moves(w) /\ To(w, {"duplicate", "validate"}) /\ Keeps(w)
    BY <1>w, <1>e, <2>1 DEF To
  <2> QED BY <1>u, <2>1, <2>2 DEF MessageEdge
<1>5. CASE MarkValidated(w)
  <2>1. /\ At(w, "validate") /\ Becomes(w, "VALIDATED")
        /\ Goto(w, "provision") \/ Goto(w, "approvalStatus")
    BY <1>5 DEF MarkValidated, Becomes
  <2>2. Moves(w) /\ To(w, {"provision", "approvalStatus"})
    BY <1>w, <2>1 DEF To
  <2> QED BY <1>u, <2>1, <2>2 DEF MessageEdge
<1>6. CASE AddPendingApproval(w)
  <2>1. At(w, "approvalPending") /\ Keeps(w) /\ Goto(w, "approvalSend")
    BY <1>6 DEF AddPendingApproval, Keeps, db
  <2> QED BY <1>u, <1>w, <2>1 DEF MessageEdge
<1>7. CASE HandleError(w) \/ ClearSkippedMarker(w) \/ StoreRequestId(w)
  <2>1. \/ At(w, "messageFail") /\ Finish(w) /\ Becomes(w, "FAILED")
        \/ From(w, {"clearSkipped", "approvalId"}) /\ Finish(w) /\ Keeps(w)
    BY <1>7 DEF HandleError, ClearSkippedMarker, StoreRequestId, At, From, Becomes, Keeps, db
  <2> QED BY <1>u, <1>e, <2>1 DEF MessageEdge
<1> QED BY <1>1, <1>2, <1>3, <1>4, <1>5, <1>6, <1>7 DEF MessageStep

LEMMA ProvisionEdgeTaken ==
    ASSUME TypeInv, NEW w \in Workers, ProvisionStep(w), ~Execute(w)
    PROVE  Moves(w) /\ ProvisionEdge(w) /\ UNCHANGED <<response, calls, tasks, mode, faults>>
<1>u. UNCHANGED <<response, calls, tasks, mode, faults>> /\ ~At(w, "idle")
  BY DEF ProvisionStep, SetProcessing, SetSuccess, AfterProvisioning, db, target, setup, At
<1>w. ASSUME NEW step, Goto(w, step), step # "idle" PROVE Moves(w) /\ To(w, {step})
  BY <1>u, <1>w, WalkMoves DEF To
<1>1. co[w].pc = "audited" => orig[co[w].op].type \in OperationTypes
  BY Memory DEF RowSteps, Messages
<1>2. \/ At(w, "provision") /\ Goto(w, "execute") /\ Becomes(w, "PROCESSING")
      \/ At(w, "succeed") /\ Goto(w, "audited") /\ Becomes(w, "SUCCESS")
      \/ At(w, "audited") /\ Keeps(w)
           /\ \E step \in {"return", "clearRejected", "storeState", "dropState"} : Goto(w, step)
  BY <1>1 DEF ProvisionStep, SetProcessing, SetSuccess, AfterProvisioning, OperationTypes, At,
              Becomes, Keeps, db
<1>3. (\E step \in {"return", "clearRejected", "storeState", "dropState"} : Goto(w, step))
        => Moves(w) /\ To(w, {"return", "clearRejected", "storeState", "dropState"})
  BY <1>w DEF To
<1> QED BY <1>u, <1>w, <1>2, <1>3 DEF ProvisionEdge

LEMMA DecisionEdgeTaken ==
    ASSUME TypeInv, NEW w \in Workers, DecisionStep(w)
    PROVE  Moves(w) /\ DecisionEdge(w) /\ UNCHANGED <<calls, tasks, mode, faults>>
<1>u. UNCHANGED <<calls, tasks, mode, faults>> /\ ~At(w, "idle")
  BY DEF DecisionStep, CheckStatus, StoreResponse, SetApproved, SetRejected, RemovePending,
         StoreRejectedCreate, ClearRejectedCreate, ClearUserDeleted, StoreUserState,
         DeleteUserState, MarkUserDeleted, DecisionFailed, SetFailed, target, setup, At
<1>w. ASSUME NEW step, Goto(w, step), step # "idle" PROVE Moves(w) /\ To(w, {step})
  BY <1>u, <1>w, WalkMoves DEF To
<1>e. ASSUME Finish(w) PROVE Moves(w) /\ To(w, {"idle"})
  BY <1>u, <1>e, EndMoves DEF To
<1>1. CASE CheckStatus(w) \/ StoreResponse(w)
  <2>1. \/ At(w, "check") /\ Keeps(w)
             /\ IF status[co[w].op] = "APPROVAL_PENDING" THEN Goto(w, "record")
                                                         ELSE Goto(w, "decisionFail")
        \/ At(w, "record") /\ Keeps(w) /\ Goto(w, IF co[w].yes THEN "processing" ELSE "reject")
    BY <1>1 DEF CheckStatus, StoreResponse, Keeps, db
  <2> QED BY <1>u, <1>w, <2>1 DEF DecisionEdge
<1>2. CASE SetApproved(w) \/ SetRejected(w)
  <2>1. \/ At(w, "processing") /\ Goto(w, "unpend") /\ Becomes(w, "PROCESSING")
        \/ At(w, "reject") /\ Goto(w, "unpend") /\ Becomes(w, "FAILED")
    BY <1>2 DEF SetApproved, SetRejected, Becomes
  <2> QED BY <1>u, <1>w, <2>1 DEF DecisionEdge
<1>3. CASE RemovePending(w)
  <2>1. orig[co[w].op] \in Messages /\ co[w].op \in Ops /\ co[w].yes \in BOOLEAN
        /\ pending' \in [Ops -> Messages \cup {None}]
    BY <1>3, Memory DEF RemovePending, At, RowSteps, TypeInv, RedisOK, Writes, Coroutines
  <2>2. PICK step \in {"provision", "storeRejected", "return"}, m \in Messages \cup {None} :
          /\ GotoWith(w, step, m)
          /\ IF co[w].yes THEN step = "provision" ELSE step # "provision"
    BY <1>3, <2>1 DEF RemovePending, GotoWith
  <2>3. step \in Steps \ {"idle"} /\ At(w, "unpend") /\ Keeps(w)
    BY <1>3 DEF Steps, DbSteps, RemovePending, Keeps, db
  <2>4. Moves(w) /\ To(w, {step})
    BY <1>u, <2>2, <2>3, MessageMoves DEF To
  <2>5. CASE co[w].yes
    BY <1>u, <2>2, <2>3, <2>4, <2>5 DEF DecisionEdge
  <2>6. CASE ~co[w].yes
    <3>1. To(w, {"storeRejected", "return"})
      BY <2>2, <2>4, <2>6 DEF To
    <3> QED BY <1>u, <2>3, <2>4, <2>6, <3>1 DEF DecisionEdge
  <2> QED BY <2>5, <2>6
<1>4. CASE \/ StoreRejectedCreate(w) \/ ClearRejectedCreate(w) \/ ClearUserDeleted(w)
           \/ StoreUserState(w) \/ DeleteUserState(w) \/ MarkUserDeleted(w)
  <2>1. /\ From(w, MarkerSteps) /\ Keeps(w)
        /\ \E step \in {"return", "clearDeleted", "storeState", "markDeleted"} : Goto(w, step)
    BY <1>4 DEF StoreRejectedCreate, ClearRejectedCreate, ClearUserDeleted, StoreUserState,
                DeleteUserState, MarkUserDeleted, MarkerSteps, At, From, Keeps, db
  <2>2. Moves(w) /\ To(w, {"return", "clearDeleted", "storeState", "markDeleted"})
    BY <1>w, <2>1 DEF To
  <2> QED BY <1>u, <2>1, <2>2 DEF DecisionEdge
<1>5. CASE DecisionFailed(w) \/ SetFailed(w)
  <2>1. \/ At(w, "decisionFail") /\ Keeps(w)
             /\ IF status[co[w].op] = "PROCESSING" THEN Goto(w, "fail") ELSE Finish(w)
        \/ At(w, "fail") /\ Finish(w) /\ Becomes(w, "FAILED")
    BY <1>5 DEF DecisionFailed, SetFailed, Keeps, Becomes, db
  <2> QED BY <1>u, <1>w, <1>e, <2>1 DEF DecisionEdge
<1> QED BY <1>1, <1>2, <1>3, <1>4, <1>5 DEF DecisionStep

\* The steps of a coroutine outside the chain of emails lead to none of it.
ChainSteps == {"storeToken", "sendEmail", "readChain", "nextLevel"}

LEMMA WorkerMoves ==
    ASSUME TypeInv, NEW w \in Workers, WorkerStep(w)
    PROVE  /\ Moves(w) /\ UNCHANGED <<mode, faults>>
           /\ ~From(w, ChainSteps \cup {"cleanup"}) /\ ~To(w, ChainSteps \cup {"cleanup"})
<1>1. CASE StartAutoApproval(w)
  <2>1. Goto(w, "approvalId") /\ At(w, "approvalSend") /\ UNCHANGED <<mode, faults>>
    BY <1>1 DEF StartAutoApproval, setup
  <2> QED BY <2>1, WalkMoves DEF At, From, To, ChainSteps
<1>2. CASE Execute(w)
  <2>1. /\ At(w, "execute") /\ UNCHANGED <<mode, faults>>
        /\ \E step \in {"succeed", "messageFail", "decisionFail"} : Goto(w, step)
    BY <1>2 DEF Execute, Failing, setup
  <2> QED BY <2>1, WalkMoves DEF At, From, To, ChainSteps
<1>3. CASE MessageStep(w) /\ ~StartAutoApproval(w)
  BY <1>3, MessageEdgeTaken DEF MessageEdge, From, To, At, ChainSteps
<1>4. CASE ProvisionStep(w) /\ ~Execute(w)
  BY <1>4, ProvisionEdgeTaken DEF ProvisionEdge, From, To, At, ChainSteps
<1>5. CASE DecisionStep(w)
  BY <1>5, DecisionEdgeTaken DEF DecisionEdge, MarkerSteps, From, To, At, ChainSteps
<1> QED BY <1>1, <1>2, <1>3, <1>4, <1>5 DEF WorkerStep

-----------------------------------------------------------------------------
(* Links and chains agree *)

Durable == faults \cap {"redis", "expiry"} = {}

\* A live link is the one its chain waits for, and a link is only made live when
\* its chain is stored.
LinksStored  == \A t \in tokens : chain[t[1]] # None /\ chain[t[1]].token = t
ChainsStored ==
    \A w \in Workers : At(w, "storeToken") =>
        chain[co[w].op] # None /\ chain[co[w].op].token = local[w].token

Linked == LinksStored /\ ChainsStored

\* Who has authority over an operation does not share it with a link.
LEMMA PowerWithoutLink ==
    ASSUME Safe, LinksStored, NEW w \in Workers, NEW p \in Ops, HasPower(w, p)
    PROVE  \A t \in tokens : t[1] # p
BY NobodyElse DEF LinksStored, LiveLink

LEMMA WorkerStepLinked ==
    ASSUME Safe, Linked, NEW w \in Workers, WorkerStep(w), UNCHANGED chainVars
    PROVE  Linked'
<1>1. /\ \A v \in Workers : v # w => co'[v] = co[v]
      /\ co'[w].pc # "storeToken"
  BY SafeTyped, WorkerMoves DEF Moves, To, ChainSteps
<1> QED BY <1>1 DEF Linked, LinksStored, ChainsStored, At, chainVars

\* What a coroutine stores when it asks a level.
NewChain(w) ==
    [index |-> IF At(w, "approvalSend") THEN 0 ELSE local[w].index + 1,
     token |-> <<co[w].op, minted[co[w].op] + 1>>]

LEMMA StoreChainFacts ==
    ASSUME Safe, NEW w \in Workers, StoreChain(w)
    PROVE  /\ HasPower(w, co[w].op) /\ Moves(w) /\ To(w, {"storeToken"})
           /\ From(w, {"approvalSend", "nextLevel"})
           /\ NewChain(w) \in Chains /\ NewChain(w) # None
           /\ chain' \in {[chain EXCEPT ![co[w].op] = NewChain(w)], chain}
           /\ Durable => chain' = [chain EXCEPT ![co[w].op] = NewChain(w)]
           /\ local' = [local EXCEPT ![w] = NewChain(w)]
           /\ minted' = [minted EXCEPT ![co[w].op] = @ + 1]
           /\ UNCHANGED <<db, redis, target, tasks, setup, tokens, mailed, signed>>
<1>1. co[w].pc \in {"approvalSend", "nextLevel"} /\ co[w].op \in Ops /\ minted[co[w].op] \in Nat
  BY Memory DEF StoreChain, At, Safe, TypeInv, KeysOK
<1>2. (IF At(w, "approvalSend") THEN 0 ELSE local[w].index + 1) \in Indexes
  BY <1>1, Memory, ChainAssumption DEF At, Safe, Indexes
<1>3. NewChain(w) \in Chains /\ NewChain(w) # None
  BY <1>1, <1>2, ChainAssumption DEF NewChain, Chains, Tokens
<1>4. Goto(w, "storeToken") /\ ~At(w, "idle")
  BY <1>1 DEF StoreChain, At
<1>5. HasPower(w, co[w].op)
  BY <1>1 DEF HasPower, PowerSteps, AskSteps
<1> QED BY <1>1, <1>3, <1>4, <1>5, SafeTyped, WalkMoves
        DEF StoreChain, NewChain, Writes, Durable, From, To

LEMMA StoreTokenFacts ==
    ASSUME Safe, NEW w \in Workers, StoreDecisionToken(w)
    PROVE  /\ HasPower(w, co[w].op) /\ Moves(w) /\ At(w, "storeToken") /\ To(w, {"sendEmail"})
           /\ local[w].token \in Tokens /\ local[w].token[1] = co[w].op
           /\ tokens' \in {tokens \cup {local[w].token}, tokens}
           /\ Durable => tokens' = tokens \cup {local[w].token}
           /\ UNCHANGED <<db, redis, target, tasks, setup, chain, minted, mailed, local, signed>>
<1>1. At(w, "storeToken") /\ ~At(w, "idle") /\ Goto(w, "sendEmail")
  BY DEF StoreDecisionToken, At
<1>2. HasPower(w, co[w].op) /\ local[w].token[1] = co[w].op /\ local[w].token \in Tokens
  BY <1>1, Facts, Memory DEF Safe, HasPower, PowerSteps, At, StepSafe, HoldingSteps, Chains
<1> QED BY <1>1, <1>2, SafeTyped, WalkMoves DEF StoreDecisionToken, Writes, Durable, To

LEMMA CleanupFacts ==
    ASSUME Safe, NEW w \in Workers, Cleanup(w)
    PROVE  /\ HasPower(w, co[w].op) /\ Moves(w) /\ At(w, "cleanup") /\ To(w, {"check"})
           /\ local[w].token[1] = co[w].op
           /\ chain' \in {[chain EXCEPT ![co[w].op] = None], chain}
           /\ tokens' \in {tokens \ {local[w].token}, tokens}
           /\ Durable => /\ chain' = [chain EXCEPT ![co[w].op] = None]
                         /\ tokens' = tokens \ {local[w].token}
           /\ local' = [local EXCEPT ![w] = None]
           /\ UNCHANGED <<db, redis, target, tasks, setup, minted, mailed, signed>>
<1>1. At(w, "cleanup") /\ ~At(w, "idle") /\ Goto(w, "check")
  BY DEF Cleanup, At
<1>2. HasPower(w, co[w].op) /\ local[w].token[1] = co[w].op
  BY <1>1, Facts DEF HasPower, PowerSteps, VerdictSteps, At, StepSafe
<1> QED BY <1>1, <1>2, SafeTyped, WalkMoves DEF Cleanup, Writes, Durable, To

\* The other steps change neither links nor chains, nor go to the step that
\* makes a link live.
LEMMA SendEmailFacts ==
    ASSUME Safe, NEW w \in Workers, SendEmail(w)
    PROVE  /\ Moves(w) /\ At(w, "sendEmail") /\ To(w, {"idle", "approvalId", "approvalFail"})
           /\ local' = [local EXCEPT ![w] = None]
           /\ UNCHANGED <<db, redis, target, tasks, setup, chain, tokens, minted, signed>>
<1>1. /\ At(w, "sendEmail") /\ ~At(w, "idle")
      /\ Finish(w) \/ Goto(w, "approvalId") \/ Goto(w, "approvalFail")
  BY DEF SendEmail, At
<1> QED BY <1>1, SafeTyped, WalkMoves, EndMoves DEF SendEmail, To

LEMMA ReadChainFacts ==
    ASSUME Safe, NEW w \in Workers, ReadChain(w)
    PROVE  /\ Moves(w) /\ At(w, "readChain") /\ To(w, {"idle", "nextLevel", "cleanup"})
           /\ \A v \in Workers : v # w => local'[v] = local[v]
           /\ HoldsLink(w) /\ Durable => To(w, {"nextLevel", "cleanup"})
           /\ To(w, {"nextLevel", "cleanup"}) => HoldsLink(w) /\ local'[w] = chain[co[w].op]
           /\ UNCHANGED <<db, redis, target, tasks, setup, chain, tokens, minted, mailed>>
<1>1. At(w, "readChain") /\ ~At(w, "idle")
  BY DEF ReadChain, At
<1>2. \A v \in Workers : v # w => local'[v] = local[v]
  BY DEF ReadChain, Safe, TypeInv, WorkersOK
<1>3. \/ ~(HoldsLink(w) /\ Durable) /\ Finish(w)
      \/ /\ HoldsLink(w) /\ local' = [local EXCEPT ![w] = chain[co[w].op]]
         /\ Goto(w, "nextLevel") \/ Goto(w, "cleanup")
  BY DEF ReadChain, HoldsLink, Reads, Durable, AfterSignature
<1>4. local' = [local EXCEPT ![w] = chain[co[w].op]] => local'[w] = chain[co[w].op]
  BY DEF Safe, TypeInv, WorkersOK
<1> QED BY <1>1, <1>2, <1>3, <1>4, SafeTyped, WalkMoves, EndMoves DEF ReadChain, To

LEMMA ReturnFacts ==
    ASSUME Safe, NEW w \in Workers, ReturnFromDecision(w)
    PROVE  /\ Moves(w) /\ At(w, "return") /\ To(w, {"idle"})
           /\ UNCHANGED <<db, redis, target, tasks, setup, chainVars>>
<1>1. At(w, "return") /\ ~At(w, "idle") /\ co[w].by # "callback"
  BY Facts DEF ReturnFromDecision, At, StepSafe
<1> QED BY <1>1, SafeTyped, EndMoves DEF ReturnFromDecision, To

\* Only the approve-callback endpoint looks for the chain of a decided operation.
LEMMA ChainStepCases ==
    ASSUME Safe, NEW w \in Workers, ChainStep(w)
    PROVE  \/ StoreChain(w) \/ StoreDecisionToken(w) \/ SendEmail(w)
           \/ ReadChain(w) \/ Cleanup(w) \/ ReturnFromDecision(w)
BY Facts DEF ChainStep, FindChain, DropToken, DropChain, At, StepSafe

LEMMA ChainStepLinked ==
    ASSUME Safe, Durable, Linked, NEW w \in Workers, ChainStep(w)
    PROVE  Linked'
<1>t. /\ chain \in [Ops -> Chains \cup {None}] /\ tokens \subseteq Ops \X Nat
      /\ local \in [Workers -> Chains \cup {None}]
  BY DEF Safe, TypeInv, KeysOK, WorkersOK, Tokens
<1> DEFINE p == co[w].op
<1>o. ASSUME HasPower(w, p), NEW v \in Workers, v # w, At(v, "storeToken")
      PROVE  co[v].op \in Ops \ {p}
  <2>1. co[v].op \in Ops /\ HasPower(v, co[v].op)
    BY <1>o, Facts DEF At, HasPower, PowerSteps
  <2> QED BY <1>o, <2>1, NobodyElse
<1>1. CASE StoreChain(w)
  <2>1. /\ HasPower(w, p) /\ p \in Ops /\ NewChain(w) # None
        /\ chain' = [chain EXCEPT ![p] = NewChain(w)] /\ UNCHANGED tokens
        /\ local' = [local EXCEPT ![w] = NewChain(w)]
        /\ \A v \in Workers : v # w => co'[v] = co[v]
        /\ co'[w].pc = "storeToken" /\ co'[w].op = p
    BY <1>1, StoreChainFacts, IdleValue DEF Moves, To
  <2>2. \A t \in tokens : t[1] # p
    BY <2>1, PowerWithoutLink DEF Linked
  <2>3. LinksStored'
    BY <1>t, <2>1, <2>2 DEF Linked, LinksStored
  <2>4. ASSUME NEW v \in Workers, At(v, "storeToken")'
        PROVE  chain'[co'[v].op] # None /\ chain'[co'[v].op].token = local'[v].token
    <3>1. CASE v = w
      BY <1>t, <2>1, <3>1
    <3>2. CASE v # w
      <4>1. At(v, "storeToken") /\ co'[v] = co[v] /\ local'[v] = local[v]
        BY <1>t, <2>1, <2>4, <3>2 DEF At
      <4>2. co[v].op \in Ops \ {p}
        BY <1>o, <2>1, <3>2, <4>1
      <4> QED BY <1>t, <2>1, <4>1, <4>2 DEF Linked, ChainsStored
    <3> QED BY <3>1, <3>2
  <2> QED BY <2>3, <2>4 DEF Linked, ChainsStored
<1>2. CASE StoreDecisionToken(w)
  <2>1. /\ local[w].token[1] = p /\ tokens' = tokens \cup {local[w].token}
        /\ UNCHANGED <<chain, local>> /\ At(w, "storeToken")
        /\ \A v \in Workers : v # w => co'[v] = co[v]
        /\ co'[w].pc = "sendEmail"
    BY <1>2, StoreTokenFacts DEF Moves, To
  <2>2. LinksStored'
    BY <2>1 DEF Linked, LinksStored, ChainsStored
  <2> QED BY <2>1, <2>2 DEF Linked, ChainsStored, At
<1>3. CASE Cleanup(w)
  <2>1. /\ HasPower(w, p) /\ p \in Ops
        /\ chain' = [chain EXCEPT ![p] = None] /\ tokens' = tokens \ {local[w].token}
        /\ local' = [local EXCEPT ![w] = None]
        /\ \A v \in Workers : v # w => co'[v] = co[v]
        /\ co'[w].pc = "check"
    BY <1>3, CleanupFacts DEF Moves, To
  <2>2. \A t \in tokens : t[1] # p
    BY <2>1, PowerWithoutLink DEF Linked
  <2>3. LinksStored'
    BY <1>t, <2>1, <2>2 DEF Linked, LinksStored
  <2>4. ASSUME NEW v \in Workers, At(v, "storeToken")'
        PROVE  chain'[co'[v].op] # None /\ chain'[co'[v].op].token = local'[v].token
    <3>1. v # w /\ At(v, "storeToken") /\ co'[v] = co[v] /\ local'[v] = local[v]
      BY <1>t, <2>1, <2>4 DEF At
    <3>2. co[v].op \in Ops \ {p}
      BY <1>o, <2>1, <3>1
    <3> QED BY <1>t, <2>1, <3>1, <3>2 DEF Linked, ChainsStored
  <2> QED BY <2>3, <2>4 DEF Linked, ChainsStored
<1>4. CASE SendEmail(w) \/ ReadChain(w) \/ ReturnFromDecision(w)
  <2>1. /\ UNCHANGED <<chain, tokens>> /\ co'[w].pc # "storeToken"
        /\ \A v \in Workers : v # w => co'[v] = co[v] /\ local'[v] = local[v]
    BY <1>4, <1>t, SendEmailFacts, ReadChainFacts, ReturnFacts DEF Moves, To, chainVars
  <2> QED BY <2>1 DEF Linked, LinksStored, ChainsStored, At
<1> QED BY <1>1, <1>2, <1>3, <1>4, ChainStepCases

\* A coroutine that starts does not start by making a link live.
LEMMA StartLinked ==
    ASSUME Safe, Linked, NEW w \in Workers, At(w, "idle"),
           \A v \in Workers : v # w => co'[v] = co[v] /\ local'[v] = local[v],
           co'[w].pc # "storeToken", tokens' \subseteq tokens, UNCHANGED chain
    PROVE  Linked'
BY DEF Linked, LinksStored, ChainsStored, At

LEMMA FaultLinked ==
    ASSUME Safe, Linked, OrchestratorFault
    PROVE  Linked'
<1>1. /\ UNCHANGED <<chain, tokens>>
      /\ \A v \in Workers : co'[v] = Idle \/ local'[v] = local[v]
  BY DEF OrchestratorFault, ForgetLocal
<1>2. ASSUME NEW v \in Workers PROVE co'[v] = co[v] \/ co'[v].pc # "storeToken"
  <2>1. ASSUME NEW w \in Workers, DbError(w) PROVE co'[v] = co[v] \/ co'[v].pc # "storeToken"
    <3>1. CASE Finish(w)
      BY <3>1, IdleValue DEF Finish, Safe, TypeInv, WorkersOK
    <3>2. ASSUME NEW step, step = AfterDbError(co[w].pc, co[w].by), Goto(w, step)
          PROVE  co'[v] = co[v] \/ co'[v].pc # "storeToken"
      <4>1. step # "storeToken"
        BY <3>2 DEF AfterDbError
      <4> QED BY <3>2, <4>1, Walks DEF Safe
    <3> QED BY <2>1, <3>1, <3>2 DEF DbError
  <2>2. CASE ConsumerCrash \/ ApiCrash
    BY <2>2, IdleValue DEF ConsumerCrash, ApiCrash
  <2>3. CASE \E o \in Ops : PendingExpires(o)
    BY <2>3 DEF PendingExpires
  <2> QED BY <2>1, <2>2, <2>3 DEF OrchestratorFault, FaultStep
<1> QED BY <1>1, <1>2, IdleValue DEF Linked, LinksStored, ChainsStored, At

\* No step changes the faults of the deployment.
LEMMA SameSetup == [ChainNext]_vars => UNCHANGED <<mode, faults>>
<1> SUFFICES ASSUME [ChainNext]_vars PROVE UNCHANGED setup
  BY DEF setup
<1>1. ASSUME NEW w \in Workers, ChainWorkerStep(w) PROVE UNCHANGED setup
  <2>1. CASE ChainStep(w)
    BY <2>1 DEF ChainStep, StoreChain, StoreDecisionToken, SendEmail, ReadChain, Cleanup,
       ReturnFromDecision, FindChain, DropToken, DropChain
  <2>2. CASE MessageStep(w)
    BY <2>2 DEF MessageStep, ConvertRejected, ConvertDeleted, ConvertUpdate, CreateOperation,
         RecheckRejected, SkipDelete, ClearSkippedMarker, CheckDiff, CheckDuplicate,
         MarkValidated, SetApprovalPending, AddPendingApproval, StoreRequestId,
         StartAutoApproval, ApprovalRequestFailed, HandleError
  <2>3. CASE ProvisionStep(w) \/ DecisionStep(w)
    BY <2>3 DEF ProvisionStep, SetProcessing, Execute, SetSuccess, AfterProvisioning,
         DecisionStep, CheckStatus, StoreResponse, SetApproved, SetRejected, RemovePending,
         StoreRejectedCreate, ClearRejectedCreate, ClearUserDeleted, StoreUserState,
         DeleteUserState, MarkUserDeleted, DecisionFailed, SetFailed
  <2> QED BY <1>1, <2>1, <2>2, <2>3 DEF ChainWorkerStep, WorkerStep
<1>2. ASSUME NEW o \in Ops, AutoApproval(o) PROVE UNCHANGED setup
  BY <1>2 DEF AutoApproval, AutoApprove
<1>3. OrchestratorFault => UNCHANGED setup
  BY DEF OrchestratorFault, FaultStep, DbError, ConsumerCrash, ApiCrash, PendingExpires
<1>4. ASSUME \/ \E w \in Workers, o \in Ops, m \in Messages :
                  Receive(w, o, m) /\ UNCHANGED chainVars
             \/ \E w \in Workers, t \in tokens, yes \in BOOLEAN : Click(w, t, yes)
             \/ \E w \in Workers, o \in Ops, yes \in BOOLEAN : ApproveCallback(w, o, yes)
             \/ \E o \in Ops : ChainExpires(o)
             \/ \E t \in tokens : TokenExpires(t)
             \/ UNCHANGED vars
      PROVE  UNCHANGED setup
  BY <1>4 DEF Receive, Click, ApproveCallback, ChainExpires, TokenExpires, vars, orchVars
<1> QED BY <1>1, <1>2, <1>3, <1>4 DEF ChainNext

LEMMA NextLinked ==
    ASSUME ~Callbacks, Safe, Durable, Linked, [ChainNext]_vars
    PROVE  Linked'
<1>t. /\ co \in [Workers -> Coroutines] /\ local \in [Workers -> Chains \cup {None}]
  BY DEF Safe, TypeInv, WorkersOK
<1>1. ASSUME NEW w \in Workers, NEW o \in Ops, NEW m \in Messages,
             Receive(w, o, m), UNCHANGED chainVars
      PROVE  Linked'
  <2>1. /\ At(w, "idle") /\ \A v \in Workers : v # w => co'[v] = co[v]
        /\ co'[w].pc # "storeToken"
    BY <1>t, <1>1 DEF Receive
  <2> QED BY <1>1, <2>1, StartLinked DEF chainVars
<1>2. ASSUME NEW w \in Workers, ChainWorkerStep(w) PROVE Linked'
  BY <1>2, ChainStepLinked, WorkerStepLinked DEF ChainWorkerStep
<1>3. ASSUME NEW o \in Ops, AutoApproval(o) PROVE Linked'
  <2>1. PICK w \in Workers : AutoApprove(w, o) /\ UNCHANGED chainVars
    BY <1>3 DEF AutoApproval
  <2>2. /\ At(w, "idle") /\ \A v \in Workers : v # w => co'[v] = co[v]
        /\ co'[w].pc # "storeToken"
    BY <1>t, <2>1 DEF AutoApprove, Decide
  <2> QED BY <2>1, <2>2, StartLinked DEF chainVars
<1>4. ASSUME NEW w \in Workers, NEW t \in tokens, NEW yes \in BOOLEAN, Click(w, t, yes)
      PROVE  Linked'
  <2>1. /\ At(w, "idle") /\ co'[w].pc # "storeToken" /\ UNCHANGED chain /\ tokens' \subseteq tokens
        /\ \A v \in Workers : v # w => co'[v] = co[v] /\ local'[v] = local[v]
    BY <1>t, <1>4 DEF Click
  <2> QED BY <2>1, StartLinked
<1>5. CASE OrchestratorFault
  BY <1>5, FaultLinked
<1>6. ~((\E o \in Ops : ChainExpires(o)) \/ (\E t \in tokens : TokenExpires(t)))
  BY DEF ChainExpires, TokenExpires, Durable
<1>7. CASE UNCHANGED vars
  BY <1>7 DEF vars, orchVars, chainVars, Linked, LinksStored, ChainsStored, At
<1> QED BY <1>1, <1>2, <1>3, <1>4, <1>5, <1>6, <1>7 DEF ChainNext

LEMMA InitialLinked == ChainInit => Linked
BY IdleValue DEF ChainInit, Init, Linked, LinksStored, ChainsStored, At

LEMMA AlwaysLinked ==
    ASSUME ~Callbacks
    PROVE  ChainSpec => [](Durable => Linked)
<1>1. Safe /\ (Durable => Linked) /\ [ChainNext]_vars => (Durable => Linked)'
  BY NextLinked, SameSetup DEF Durable
<1>2. ChainInit => (Durable => Linked)
  BY InitialLinked
<1> QED BY <1>1, <1>2, AlwaysSafe, PTL DEF ChainSpec

\* In a deployment that does not use approve-callback beside the links, as long
\* as Redis answers and keeps its keys, a live link is one that its stored chain
\* waits for, whatever else fails: _send_level_email never leaves "a token
\* without chain state", and nobody deletes a chain whose link is live.
THEOREM LinksHaveTheirChains ==
    ASSUME ~Callbacks
    PROVE  ChainSpec => []LinkHasItsChain
<1>1. (Durable => Linked) => LinkHasItsChain
  BY DEF Durable, Linked, LinksStored, LinkHasItsChain
<1> QED BY <1>1, AlwaysLinked, PTL

-----------------------------------------------------------------------------
(* An operation that waits can be decided *)

Undisturbed == faults \subseteq {"target"}

\* The steps of a coroutine after which somebody still decides its operation.
DecidingSteps == {"approvalPending", "approvalSend", "storeToken", "sendEmail", "readChain",
                  "nextLevel", "cleanup", "check", "record", "processing", "reject"}

Deciding(w, o) == co[w].op = o /\ co[w].pc \in DecidingSteps

Waits(o) ==
    status[o] = "APPROVAL_PENDING" =>
        \/ \E t \in mailed \cap tokens : t[1] = o
        \/ o \in tasks
        \/ \E w \in Workers : Deciding(w, o)

\* A link that is not emailed yet is new, then live; one that was followed is the
\* chain's.
LinkSafe(w) ==
    /\ At(w, "storeToken") => local[w].token \notin mailed
    /\ At(w, "sendEmail")  => local[w].token \in tokens \ mailed /\ local[w].token[1] = co[w].op
    /\ At(w, "readChain")  => HoldsLink(w)

\* Nobody follows a link before it was emailed, and only one is emailed at a time.
Mailing ==
    /\ \A t \in mailed : t[2] <= minted[t[1]]
    /\ \A w \in Workers : LinkSafe(w)
    /\ \A v, w \in Workers :
         At(v, "sendEmail") /\ At(w, "sendEmail") /\ co[v].op = co[w].op => v = w

Awaited == \A o \in Ops : Waits(o)

\* The link that is being emailed is live, so nobody has authority.
LEMMA SendingHasNoPower ==
    ASSUME Safe, Linked, Mailing, NEW v \in Workers, At(v, "sendEmail")
    PROVE  /\ co[v].op \in Ops
           /\ \A w \in Workers : ~HasPower(w, co[v].op)
<1>1. co[v].op \in Ops
  BY Facts DEF At
<1>2. local[v].token \in tokens /\ local[v].token[1] = co[v].op
  BY DEF Mailing, LinkSafe
<1>3. LiveLink(co[v].op)
  BY <1>1, <1>2 DEF Linked, LinksStored, LiveLink
<1> QED BY <1>1, <1>3, NobodyElse

\* The links of the other coroutines, when w keeps links and mailboxes.
LEMMA OthersMailing ==
    ASSUME Safe, Mailing, NEW w \in Workers,
           \A v \in Workers : v # w => co'[v] = co[v] /\ local'[v] = local[v],
           UNCHANGED <<chain, tokens, mailed, minted>>,
           ~To(w, {"storeToken", "sendEmail"}), At(w, "readChain")' => HoldsLink(w)'
    PROVE  Mailing'
<1>1. ASSUME NEW v \in Workers PROVE LinkSafe(v)'
  <2>1. LinkSafe(v)
    BY DEF Mailing
  <2> QED BY <2>1 DEF LinkSafe, HoldsLink, At, To
<1> QED BY <1>1 DEF Mailing, At, To

LEMMA WorkerStepMailing ==
    ASSUME Safe, Mailing, NEW w \in Workers, WorkerStep(w), UNCHANGED chainVars
    PROVE  Mailing'
<1>1. /\ \A v \in Workers : v # w => co'[v] = co[v] /\ local'[v] = local[v]
      /\ ~To(w, ChainSteps)
  BY SafeTyped, WorkerMoves DEF Moves, To, chainVars
<1> QED BY <1>1, OthersMailing DEF chainVars, To, ChainSteps, At

LEMMA ChainStepMailing ==
    ASSUME Safe, TypeInv', Undisturbed, Linked, Mailing, NEW w \in Workers, ChainStep(w)
    PROVE  Mailing'
<1>t. /\ local \in [Workers -> Chains \cup {None}] /\ minted \in [Ops -> Nat]
      /\ mailed \subseteq Tokens /\ chain \in [Ops -> Chains \cup {None}]
  BY DEF Safe, TypeInv, KeysOK, WorkersOK
<1>d. Durable
  BY DEF Undisturbed, Durable
<1> DEFINE p == co[w].op
\* Nobody else is at a step of the operation that reads or emails a link.
<1>o. ASSUME HasPower(w, p), NEW v \in Workers, v # w,
             At(v, "storeToken") \/ At(v, "sendEmail") \/ At(v, "readChain")
      PROVE  co[v].op \in Ops \ {p}
  <2>1. co[v].op \in Ops
    BY <1>o, Facts DEF At
  <2>2. CASE At(v, "sendEmail")
    BY <1>o, <2>1, <2>2, SendingHasNoPower
  <2>3. CASE At(v, "storeToken") \/ At(v, "readChain")
    <3>1. HasPower(v, co[v].op)
      BY <2>3 DEF HasPower, PowerSteps, At, Mailing, LinkSafe
    <3> QED BY <1>o, <2>1, <3>1, NobodyElse
  <2> QED BY <1>o, <2>2, <2>3
<1>1. CASE StoreChain(w)
  <2>1. /\ HasPower(w, p) /\ p \in Ops
        /\ chain' = [chain EXCEPT ![p] = NewChain(w)]
        /\ minted' = [minted EXCEPT ![p] = @ + 1]
        /\ local' = [local EXCEPT ![w] = NewChain(w)] /\ UNCHANGED <<tokens, mailed>>
        /\ \A v \in Workers : v # w => co'[v] = co[v]
        /\ co'[w].pc = "storeToken"
    BY <1>1, <1>d, StoreChainFacts, IdleValue DEF Moves, To
  <2>2. NewChain(w).token = <<p, minted[p] + 1>>
    BY DEF NewChain
  <2>3. \A t \in mailed : t[2] \in Nat /\ t[1] \in Ops /\ t[2] <= minted[t[1]]
    BY <1>t DEF Tokens, Mailing
  <2>4. NewChain(w).token \notin mailed
    BY <1>t, <2>1, <2>2, <2>3
  <2>5. \A t \in mailed : t[2] <= minted'[t[1]]
    BY <1>t, <2>1, <2>3
  <2>6. ASSUME NEW v \in Workers PROVE LinkSafe(v)'
    <3>1. CASE v = w
      BY <1>t, <2>1, <2>4, <3>1 DEF LinkSafe, At
    <3>2. CASE v # w
      <4>1. LinkSafe(v) /\ co'[v] = co[v] /\ local'[v] = local[v]
        BY <1>t, <2>1, <3>2 DEF Mailing
      <4>2. At(v, "readChain") => chain'[co[v].op] = chain[co[v].op]
        BY <1>t, <1>o, <2>1, <3>2
      <4> QED BY <2>1, <4>1, <4>2 DEF LinkSafe, HoldsLink, At
    <3> QED BY <3>1, <3>2
  <2> QED BY <2>1, <2>5, <2>6 DEF Mailing, At
<1>2. CASE StoreDecisionToken(w)
  <2>1. /\ HasPower(w, p) /\ p \in Ops /\ At(w, "storeToken")
        /\ local[w].token[1] = p /\ tokens' = tokens \cup {local[w].token}
        /\ UNCHANGED <<chain, minted, mailed, local>>
        /\ \A v \in Workers : v # w => co'[v] = co[v]
        /\ co'[w].pc = "sendEmail" /\ co'[w].op = p
    BY <1>2, <1>d, StoreTokenFacts, IdleValue DEF Moves, To
  <2>2. ASSUME NEW v \in Workers PROVE LinkSafe(v)'
    <3>1. LinkSafe(v) /\ LinkSafe(w)
      BY DEF Mailing
    <3>2. CASE v = w
      BY <2>1, <3>1, <3>2 DEF LinkSafe, At
    <3>3. CASE v # w
      BY <2>1, <3>1, <3>3 DEF LinkSafe, At, HoldsLink
    <3> QED BY <3>2, <3>3
  <2>3. ASSUME NEW v \in Workers, v # w, At(v, "sendEmail")' PROVE co'[v].op # p
    BY <1>o, <2>1, <2>3 DEF At
  <2> QED BY <2>1, <2>2, <2>3 DEF Mailing, At
<1>3. CASE SendEmail(w)
  <2>1. /\ At(w, "sendEmail") /\ mailed' = mailed \cup {local[w].token}
        /\ local' = [local EXCEPT ![w] = None]
        /\ UNCHANGED <<chain, minted, tokens>>
        /\ \A v \in Workers : v # w => co'[v] = co[v]
        /\ co'[w].pc \in {"idle", "approvalId", "approvalFail"}
    BY <1>3, SendEmailFacts DEF SendEmail, Moves, To, Undisturbed
  <2>2. local[w].token \in tokens /\ local[w].token[1] = p /\ p \in Ops
    BY <2>1, SendingHasNoPower DEF Mailing, LinkSafe
  <2>3. local[w].token[2] <= minted[p]
    BY <2>2 DEF Safe, OpSafe, RecordsSafe
  <2>4. ASSUME NEW v \in Workers PROVE LinkSafe(v)'
    <3>1. CASE v = w
      BY <2>1, <3>1 DEF LinkSafe, At
    <3>2. CASE v # w
      <4>1. LinkSafe(v) /\ co'[v] = co[v] /\ local'[v] = local[v]
        BY <1>t, <2>1, <3>2 DEF Mailing
      <4>2. At(v, "storeToken") => co[v].op # p /\ local[v].token[1] = co[v].op
        <5>1. At(v, "storeToken") => HasPower(v, co[v].op) /\ StepSafe(v, co[v].op)
          BY Facts DEF At, HasPower, PowerSteps
        <5> QED BY <2>1, <5>1, SendingHasNoPower DEF StepSafe
      <4>3. At(v, "sendEmail") => co[v].op # p
        BY <2>1, <3>2 DEF Mailing
      <4> QED BY <2>1, <2>2, <4>1, <4>2, <4>3 DEF LinkSafe, HoldsLink, At
    <3> QED BY <3>1, <3>2
  <2>5. \A t \in mailed' : t[2] <= minted'[t[1]]
    BY <2>1, <2>2, <2>3 DEF Mailing
  <2> QED BY <2>1, <2>4, <2>5 DEF Mailing, At
<1>4. CASE Cleanup(w)
  <2>1. /\ HasPower(w, p) /\ p \in Ops /\ local[w].token[1] = p
        /\ chain' = [chain EXCEPT ![p] = None]
        /\ tokens' = tokens \ {local[w].token}
        /\ local' = [local EXCEPT ![w] = None] /\ UNCHANGED <<minted, mailed>>
        /\ \A v \in Workers : v # w => co'[v] = co[v]
        /\ co'[w].pc = "check"
    BY <1>4, <1>d, CleanupFacts, IdleValue DEF Moves, To, At
  <2>2. ASSUME NEW v \in Workers PROVE LinkSafe(v)'
    <3>1. CASE v = w
      BY <2>1, <3>1 DEF LinkSafe, At
    <3>2. CASE v # w
      <4>1. LinkSafe(v) /\ co'[v] = co[v] /\ local'[v] = local[v]
        BY <1>t, <2>1, <3>2 DEF Mailing
      <4>2. At(v, "readChain") \/ At(v, "sendEmail") => co[v].op # p /\ co[v].op \in Ops
        BY <1>o, <2>1, <3>2
      <4> QED BY <1>t, <2>1, <4>1, <4>2 DEF LinkSafe, HoldsLink, At
    <3> QED BY <3>1, <3>2
  <2> QED BY <2>1, <2>2 DEF Mailing, At
<1>5. CASE ReadChain(w)
  <2>1. /\ \A v \in Workers : v # w => co'[v] = co[v] /\ local'[v] = local[v]
        /\ UNCHANGED <<chain, tokens, mailed, minted>>
        /\ co'[w].pc \in {"idle", "nextLevel", "cleanup"}
    BY <1>5, ReadChainFacts DEF Moves, To
  <2> QED BY <2>1, OthersMailing DEF To, At
<1>6. CASE ReturnFromDecision(w)
  <2>1. /\ \A v \in Workers : v # w => co'[v] = co[v] /\ local'[v] = local[v]
        /\ UNCHANGED <<chain, tokens, mailed, minted>> /\ co'[w].pc = "idle"
    BY <1>6, ReturnFacts DEF Moves, To, chainVars
  <2> QED BY <2>1, OthersMailing DEF To, At
<1> QED BY <1>1, <1>2, <1>3, <1>4, <1>5, <1>6, ChainStepCases

LEMMA ClickMailing ==
    ASSUME Safe, Linked, Mailing, NEW w \in Workers, NEW t \in tokens, NEW yes \in BOOLEAN,
           Click(w, t, yes)
    PROVE  Mailing'
<1>1. /\ At(w, "idle") /\ tokens' = tokens \ {t} /\ t \in mailed
      /\ UNCHANGED <<chain, minted, mailed>>
      /\ \A v \in Workers : v # w => co'[v] = co[v] /\ local'[v] = local[v]
      /\ co'[w].pc = "readChain" /\ co'[w].op = t[1] /\ local'[w].token = t
  BY DEF Click, Safe, TypeInv, WorkersOK
<1>2. ASSUME NEW v \in Workers PROVE LinkSafe(v)'
  <2>1. LinkSafe(v)
    BY DEF Mailing
  <2>2. CASE v = w
    BY <1>1, <2>2 DEF LinkSafe, HoldsLink, At, Linked, LinksStored
  <2>3. CASE v # w
    BY <1>1, <2>1, <2>3 DEF LinkSafe, HoldsLink, At
  <2> QED BY <2>2, <2>3
<1> QED BY <1>1, <1>2 DEF Mailing, At

\* A coroutine that starts without following a link.
LEMMA StartMailing ==
    ASSUME Safe, Mailing, NEW w \in Workers,
           \A v \in Workers : v # w => co'[v] = co[v],
           UNCHANGED chainVars, ~To(w, {"storeToken", "sendEmail", "readChain"})
    PROVE  Mailing'
BY OthersMailing DEF chainVars, At, To

-----------------------------------------------------------------------------

\* A step of w for operation p leaves the other operations as they are.
LEMMA OthersAwaited ==
    ASSUME Awaited, NEW w \in Workers, NEW p \in Ops, co[w].op \in {p, None},
           \A v \in Workers : v # w => co'[v] = co[v],
           \A o \in Ops : o # p => status'[o] = status[o] /\ (o \in tasks => o \in tasks'),
           \A t \in mailed \cap tokens : t[1] # p => t \in mailed' \cap tokens',
           Waits(p)'
    PROVE  Awaited'
<1> SUFFICES ASSUME NEW o \in Ops, o # p PROVE Waits(o)'
  BY DEF Awaited
<1>1. Waits(o) /\ o # None
  BY OrchestratorAssumption DEF Awaited
<1>2. ASSUME NEW v \in Workers, Deciding(v, o) PROVE Deciding(v, o)'
  BY <1>1, <1>2 DEF Deciding
<1> QED BY <1>1, <1>2 DEF Waits

LEMMA WorkerStepAwaited ==
    ASSUME Safe, Awaited, NEW w \in Workers, WorkerStep(w), UNCHANGED chainVars
    PROVE  Awaited'
<1>p. PICK p \in Ops : p = co[w].op
  BY SafeTyped, WorkerMoves DEF Moves
<1>1. /\ \A v \in Workers : v # w => co'[v] = co[v]
      /\ UNCHANGED <<mailed, tokens>>
  BY SafeTyped, WorkerMoves DEF Moves, chainVars
<1>2. status \in [Ops -> Statuses \cup {"none"}] /\ Waits(p)
  BY <1>1 DEF Safe, TypeInv, DbOK, Awaited
\* Whoever decides goes on deciding, or writes that the operation does not wait.
<1>3. ASSUME \A o \in Ops : o # p => status'[o] = status[o], tasks \subseteq tasks',
             \/ status'[p] # "APPROVAL_PENDING"
             \/ Deciding(w, p)'
             \/ p \in tasks'
             \/ status'[p] = status[p] /\ ~Deciding(w, p)
      PROVE  Awaited'
  <2>1. Waits(p)'
    <3>1. \A v \in Workers : v # w => (Deciding(v, p) => Deciding(v, p)')
      BY <1>1 DEF Deciding
    <3> QED BY <1>p, <1>1, <1>2, <1>3, <3>1 DEF Waits
  <2> QED BY <1>p, <1>1, <1>3, <2>1, OthersAwaited
<1>4. CASE StartAutoApproval(w)
  BY <1>p, <1>3, <1>4 DEF StartAutoApproval, db
<1>5. CASE Execute(w)
  BY <1>p, <1>3, <1>5 DEF Execute, db, Deciding, DecidingSteps, At
<1>6. CASE MessageStep(w) /\ ~StartAutoApproval(w)
  <2>1. Moves(w) /\ MessageEdge(w) /\ UNCHANGED tasks
    BY <1>6, SafeTyped, MessageEdgeTaken
  <2>2. \A s : Becomes(w, s) => /\ status'[p] = s
                                /\ \A o \in Ops : o # p => status'[o] = status[o]
    BY <1>p, <1>2 DEF Becomes, SetStatus
  <2>3. CASE At(w, "approvalPending") /\ To(w, {"approvalSend"}) /\ Keeps(w)
    BY <1>p, <1>3, <2>1, <2>3, IdleValue DEF Keeps, Deciding, DecidingSteps, To, Moves
  <2>4. CASE At(w, "approvalStatus") /\ To(w, {"approvalPending"}) /\ Becomes(w, "APPROVAL_PENDING")
    BY <1>p, <1>3, <2>1, <2>2, <2>4, IdleValue DEF Deciding, DecidingSteps, To, Moves
  <2>5. CASE Keeps(w) /\ ~At(w, "approvalPending")
    BY <1>p, <1>3, <2>1, <2>5 DEF MessageEdge, Keeps, Becomes, Deciding, DecidingSteps, From, At
  <2>6. CASE \E s \in {"PENDING", "SUCCESS", "VALIDATED", "FAILED"} : Becomes(w, s)
    BY <1>p, <1>3, <2>1, <2>2, <2>6
  <2> QED BY <2>1, <2>3, <2>4, <2>5, <2>6 DEF MessageEdge, From, At
<1>7. CASE ProvisionStep(w) /\ ~Execute(w)
  <2>1. Moves(w) /\ ProvisionEdge(w) /\ UNCHANGED tasks
    BY <1>7, SafeTyped, ProvisionEdgeTaken
  <2> QED BY <1>p, <1>1, <1>2, <1>3, <2>1
          DEF ProvisionEdge, Keeps, Becomes, SetStatus, Deciding, DecidingSteps, At
<1>8. CASE DecisionStep(w)
  <2>1. Moves(w) /\ DecisionEdge(w) /\ UNCHANGED tasks
    BY <1>8, SafeTyped, DecisionEdgeTaken
  <2>2. CASE \E s \in {"PROCESSING", "FAILED"} : Becomes(w, s)
    BY <1>p, <1>1, <1>2, <1>3, <2>1, <2>2 DEF Becomes, SetStatus
  <2>3. CASE Keeps(w) /\ co[w].pc \notin DecidingSteps
    BY <1>p, <1>3, <2>1, <2>3 DEF Keeps, Deciding
  <2>4. CASE Keeps(w) /\ (To(w, {"record", "processing", "reject"}) \/ status[p] # "APPROVAL_PENDING")
    BY <1>p, <1>3, <2>1, <2>4, IdleValue DEF Keeps, Deciding, DecidingSteps, To, Moves
  <2> QED BY <1>p, <2>1, <2>2, <2>3, <2>4
          DEF DecisionEdge, MarkerSteps, DecidingSteps, From, To, At
<1> QED BY <1>4, <1>5, <1>6, <1>7, <1>8 DEF WorkerStep

LEMMA ChainStepAwaited ==
    ASSUME Safe, Undisturbed, Linked, Mailing, Awaited, NEW w \in Workers, ChainStep(w)
    PROVE  Awaited'
<1>d. Durable
  BY DEF Undisturbed, Durable
<1>p. PICK p \in Ops : p = co[w].op
  BY ChainStepCases, Facts DEF StoreChain, StoreDecisionToken, SendEmail, ReadChain, Cleanup,
     ReturnFromDecision, At
<1>m. ASSUME Moves(w), status' = status, tasks' = tasks,
             \A t \in mailed \cap tokens : t[1] # p => t \in mailed' \cap tokens', Waits(p)'
      PROVE  Awaited'
  BY <1>p, <1>m, OthersAwaited DEF Moves
<1>1. CASE StoreChain(w) \/ StoreDecisionToken(w) \/ ReadChain(w) \/ Cleanup(w)
  <2>1. CASE StoreChain(w)
    <3>1. Moves(w) /\ To(w, {"storeToken"}) /\ UNCHANGED <<status, tasks, mailed, tokens>>
      BY <1>d, <2>1, StoreChainFacts DEF db
    <3> QED BY <1>p, <1>m, <3>1, IdleValue DEF Waits, Deciding, DecidingSteps, To, Moves
  <2>2. CASE StoreDecisionToken(w)
    <3>1. /\ Moves(w) /\ To(w, {"sendEmail"}) /\ UNCHANGED <<status, tasks, mailed>>
          /\ tokens \subseteq tokens'
      BY <1>d, <2>2, StoreTokenFacts DEF db
    <3> QED BY <1>p, <1>m, <3>1, IdleValue DEF Waits, Deciding, DecidingSteps, To, Moves
  <2>3. CASE ReadChain(w)
    <3>1. Moves(w) /\ At(w, "readChain") /\ UNCHANGED <<status, tasks, mailed, tokens>>
      BY <2>3, ReadChainFacts DEF db
    <3>2. To(w, {"nextLevel", "cleanup"})
      BY <1>d, <2>3, <3>1, ReadChainFacts DEF Mailing, LinkSafe
    <3> QED BY <1>p, <1>m, <3>1, <3>2, IdleValue DEF Waits, Deciding, DecidingSteps, To, Moves
  <2>4. CASE Cleanup(w)
    <3>1. /\ Moves(w) /\ To(w, {"check"}) /\ UNCHANGED <<status, tasks, mailed>>
          /\ local[w].token[1] = p /\ tokens' = tokens \ {local[w].token}
      BY <1>p, <1>d, <2>4, CleanupFacts DEF db
    <3> QED BY <1>p, <1>m, <3>1, IdleValue DEF Waits, Deciding, DecidingSteps, To, Moves
  <2> QED BY <1>1, <2>1, <2>2, <2>3, <2>4
<1>2. CASE SendEmail(w)
  <2>1. /\ Moves(w) /\ At(w, "sendEmail") /\ UNCHANGED <<status, tasks, tokens>>
        /\ mailed' = mailed \cup {local[w].token}
    BY <1>2, SendEmailFacts DEF SendEmail, Undisturbed, db
  <2>2. local[w].token \in tokens /\ local[w].token[1] = p
    BY <1>p, <2>1 DEF Mailing, LinkSafe
  <2> QED BY <1>p, <1>m, <2>1, <2>2 DEF Waits
<1>3. CASE ReturnFromDecision(w)
  <2>1. /\ Moves(w) /\ At(w, "return") /\ UNCHANGED <<status, tasks, tokens, mailed>>
    BY <1>3, ReturnFacts DEF chainVars, db
  <2>2. ~Deciding(w, p) /\ Waits(p)
    BY <2>1 DEF Deciding, DecidingSteps, At, Moves, Awaited
  <2>3. \A v \in Workers : v # w => (Deciding(v, p) => Deciding(v, p)')
    BY <2>1 DEF Moves, Deciding
  <2> QED BY <1>p, <1>m, <2>1, <2>2, <2>3 DEF Waits
<1> QED BY <1>1, <1>2, <1>3, ChainStepCases

LEMMA NextWaiting ==
    ASSUME ~Callbacks, Safe, Undisturbed, Linked, Mailing, Awaited, [ChainNext]_vars
    PROVE  Mailing' /\ Awaited'
<1>t. /\ co \in [Workers -> Coroutines] /\ TypeInv'
  BY NextTypes DEF Safe, TypeInv, WorkersOK
<1>1. ASSUME NEW w \in Workers, NEW o \in Ops, NEW m \in Messages,
             Receive(w, o, m), UNCHANGED chainVars
      PROVE  Mailing' /\ Awaited'
  <2>1. /\ At(w, "idle") /\ \A v \in Workers : v # w => co'[v] = co[v]
        /\ co'[w].pc \in {"wasRejected", "create"}
        /\ UNCHANGED <<status, tasks, tokens, mailed>>
    BY <1>t, <1>1 DEF Receive, db, chainVars
  <2>2. Mailing'
    BY <1>1, <2>1, StartMailing DEF To
  <2>3. \A v \in Workers, q \in Ops : Deciding(v, q) => Deciding(v, q)'
    BY <2>1 DEF Deciding, DecidingSteps, At
  <2> QED BY <2>1, <2>2, <2>3 DEF Awaited, Waits
<1>2. ASSUME NEW w \in Workers, ChainWorkerStep(w) PROVE Mailing' /\ Awaited'
  BY <1>t, <1>2, ChainStepMailing, WorkerStepMailing, ChainStepAwaited, WorkerStepAwaited
     DEF ChainWorkerStep
<1>3. ASSUME NEW o \in Ops, AutoApproval(o) PROVE Mailing' /\ Awaited'
  <2>1. PICK w \in Workers : AutoApprove(w, o) /\ UNCHANGED chainVars
    BY <1>3 DEF AutoApproval
  <2>2. /\ At(w, "idle") /\ \A v \in Workers : v # w => co'[v] = co[v]
        /\ co'[w].pc = "check" /\ co'[w].op = o /\ tasks' = tasks \ {o}
        /\ UNCHANGED <<status, tokens, mailed>>
    BY <1>t, <2>1 DEF AutoApprove, Decide, db, chainVars
  <2>3. Mailing'
    BY <2>1, <2>2, StartMailing DEF To
  <2>4. Waits(o)'
    BY <2>2 DEF Waits, Deciding, DecidingSteps
  <2> QED BY <2>2, <2>3, <2>4, IdleHasNone, OthersAwaited
<1>4. ASSUME NEW w \in Workers, NEW t \in tokens, NEW yes \in BOOLEAN, Click(w, t, yes)
      PROVE  Mailing' /\ Awaited'
  <2>1. /\ At(w, "idle") /\ \A v \in Workers : v # w => co'[v] = co[v]
        /\ co'[w].pc = "readChain" /\ co'[w].op = t[1] /\ tokens' = tokens \ {t}
        /\ UNCHANGED <<status, tasks, mailed>> /\ t[1] \in Ops
    BY <1>t, <1>4 DEF Click, db, Safe, TypeInv, KeysOK, Tokens
  <2>2. Waits(t[1])'
    BY <2>1 DEF Waits, Deciding, DecidingSteps
  <2>3. Awaited'
    BY <2>1, <2>2, IdleHasNone, OthersAwaited
  <2> QED BY <1>4, <2>3, ClickMailing
<1>5. /\ ~OrchestratorFault
      /\ ~((\E o \in Ops : ChainExpires(o)) \/ (\E t \in tokens : TokenExpires(t)))
  BY DEF ChainExpires, TokenExpires, Undisturbed, OrchestratorFault, FaultStep, DbError,
         ConsumerCrash, ApiCrash, PendingExpires
<1>6. CASE UNCHANGED vars
  <2>1. UNCHANGED <<status, tasks, co, chain, tokens, minted, mailed, local>>
    BY <1>6 DEF vars, orchVars, chainVars, db
  <2> QED BY <2>1 DEF Mailing, LinkSafe, HoldsLink, At, Awaited, Waits, Deciding
<1> QED BY <1>1, <1>2, <1>3, <1>4, <1>5, <1>6 DEF ChainNext

LEMMA InitialWaiting == ChainInit => Mailing /\ Awaited
BY IdleValue DEF ChainInit, Init, Mailing, LinkSafe, HoldsLink, At, Awaited, Waits

LEMMA AlwaysWaiting ==
    ASSUME ~Callbacks
    PROVE  ChainSpec => [](Undisturbed => Mailing /\ Awaited)
<1>1. /\ Safe /\ (Durable => Linked) /\ (Undisturbed => Mailing /\ Awaited)
      /\ [ChainNext]_vars
      => (Undisturbed => Mailing /\ Awaited)'
  <2>1. Undisturbed => Durable
    BY DEF Undisturbed, Durable
  <2> QED BY <2>1, NextWaiting, SameSetup DEF Undisturbed
<1>2. ChainInit => (Undisturbed => Mailing /\ Awaited)
  BY InitialWaiting
<1> QED BY <1>1, <1>2, AlwaysSafe, AlwaysLinked, PTL DEF ChainSpec

\* In a deployment that does not use approve-callback beside the links, and where
\* nothing but the target fails, an operation that waits for approval can always
\* be decided: its link is in a mailbox, its task sleeps, or a coroutine is at a
\* step that leads to one of these or to the decision.
THEOREM WaitingIsDecided ==
    ASSUME ~Callbacks
    PROVE  ChainSpec => []WaitingCanBeDecided
<1>1. (Undisturbed => Mailing /\ Awaited) => WaitingCanBeDecided
  BY DEF Undisturbed, Awaited, Waits, Deciding, WaitingCanBeDecided
<1> QED BY <1>1, AlwaysWaiting, PTL

-----------------------------------------------------------------------------
(* Statuses move forward *)

Steady == faults \cap {"db", "email"} = {}

\* The coroutine that called the target has the outcome to write.
EndSteps   == {"succeed", "messageFail", "decisionFail", "fail"}
Ends(w, o) == co[w].op = o /\ co[w].pc \in EndSteps

Engaged(w, o) == HasPower(w, o) \/ Ends(w, o)

\* What the step of a coroutine says of the status of its operation.
FreshSteps == {"recheck", "skipDelete", "diff", "duplicate", "validate"}
AskedSteps == {"approvalPending", "approvalSend", "storeToken", "nextLevel", "cleanup",
               "check", "record", "processing", "reject"}

StatusFits(w, o) ==
    co[w].op = o =>
      /\ co[w].pc \in EarlySteps => status[o] = "none"
      /\ co[w].pc \in FreshSteps => status[o] = "PENDING"
      /\ At(w, "approvalStatus") => status[o] = "VALIDATED"
      /\ co[w].pc \in AskedSteps \/ HoldsLink(w) => status[o] = "APPROVAL_PENDING"
      /\ At(w, "unpend") => status[o] = IF co[w].yes THEN "PROCESSING" ELSE "FAILED"
      /\ At(w, "provision") => status[o] \in {"VALIDATED", "PROCESSING"}
      /\ At(w, "execute")   => status[o] = "PROCESSING"
      /\ Ends(w, o) => status[o] = "PROCESSING" /\ calls[o] = 1
      /\ ~At(w, "approvalFail")

\* Who writes the status of an operation knows it: an operation whose decision
\* can come from a task or a link waits for approval, and one coroutine at most
\* is engaged in it.
OpCourse(o) ==
    /\ \A w \in Workers : StatusFits(w, o)
    /\ \A v, w \in Workers : Ends(v, o) /\ Ends(w, o) => v = w
    /\ o \in tasks \/ LiveLink(o) => status[o] = "APPROVAL_PENDING"

Course == \A o \in Ops : OpCourse(o)

\* Who is engaged in an operation is alone.
LEMMA EngagedAlone ==
    ASSUME Safe, Course, NEW w \in Workers, NEW p \in Ops, Engaged(w, p)
    PROVE  /\ \A v \in Workers : v # w => ~Engaged(v, p)
           /\ p \notin tasks /\ ~LiveLink(p)
<1>1. OneAuthority(p) /\ OpCourse(p)
  BY DEF Safe, OpSafe, Course
<1>2. \A v \in Workers : Ends(v, p) => calls[p] = 1
  BY <1>1 DEF OpCourse, StatusFits, Ends
<1> QED BY <1>1, <1>2 DEF Engaged, OneAuthority, OpCourse

\* A step of w for operation p, seen from the other operations.
Aside(w, p) ==
    /\ \A v \in Workers : v # w => co'[v] = co[v]
    /\ SameLocal(w)
    /\ co[w].op \in {p, None} /\ co'[w].op \in {p, None}
    /\ \A o \in Ops : o # p =>
         /\ status'[o] = status[o] /\ calls'[o] = calls[o] /\ chain'[o] = chain[o]
         /\ o \in tasks' => o \in tasks
         /\ \A t \in tokens' : t[1] = o => t \in tokens

LEMMA OthersCourse ==
    ASSUME Safe, Safe', Course, NEW w \in Workers, NEW p \in Ops, Aside(w, p),
           NEW o \in Ops, o # p
    PROVE  OpCourse(o)'
<1>1. OpCourse(o) /\ RecordsSafe(o)' /\ o # None /\ p # None
  BY OrchestratorAssumption DEF Course, Safe, OpSafe
<1>2. /\ status'[o] = status[o] /\ calls'[o] = calls[o] /\ chain'[o] = chain[o]
      /\ o \in tasks' => o \in tasks
  BY DEF Aside
<1>3. ASSUME NEW v \in Workers
      PROVE  co'[v].op # o \/ (co'[v] = co[v] /\ local'[v] = local[v])
  BY <1>1 DEF Aside, SameLocal
<1>4. ASSUME NEW v \in Workers PROVE StatusFits(v, o)' /\ (Ends(v, o)' => Ends(v, o))
  BY <1>1, <1>2, <1>3 DEF OpCourse, StatusFits, Ends, HoldsLink, At
<1>5. LiveLink(o)' => LiveLink(o)
  BY <1>1, <1>2 DEF LiveLink, RecordsSafe, Aside
<1> QED BY <1>1, <1>2, <1>4, <1>5 DEF OpCourse

\* A step of w for operation p: either nobody else is engaged in p, or w is not
\* and leaves its status alone.
LEMMA CourseStep ==
    ASSUME Safe, Safe', Course, NEW w \in Workers, NEW p \in Ops, Aside(w, p),
           \/ \A v \in Workers : v # w => ~Engaged(v, p)
           \/ status'[p] = status[p] /\ calls'[p] = calls[p] /\ ~Engaged(w, p)',
           chain'[p] = chain[p] \/ HasPower(w, p)',
           p \in tasks' \/ LiveLink(p)' =>
             \/ (p \in tasks \/ LiveLink(p)) /\ status'[p] = status[p]
             \/ status'[p] = "APPROVAL_PENDING"
             \/ HasPower(w, p)',
           StatusFits(w, p)'
    PROVE  Course'
<1>1. OpCourse(p) /\ OneAuthority(p)' /\ p # None
  BY OrchestratorAssumption DEF Course, Safe, OpSafe
<1>2. p \in tasks' \/ LiveLink(p)' => status'[p] = "APPROVAL_PENDING"
  BY <1>1 DEF OneAuthority, OpCourse
<1>3. ASSUME NEW v \in Workers, v # w
      PROVE  /\ co'[v] = co[v] /\ (co[v].op = p => local'[v] = local[v])
             /\ StatusFits(v, p)
  BY <1>1, <1>3 DEF Aside, SameLocal, OpCourse
<1>4. CASE \A v \in Workers : v # w => ~Engaged(v, p)
  <2>1. ASSUME NEW v \in Workers, v # w PROVE ~Ends(v, p)' /\ ~HasPower(v, p)'
    <3>1. ~Ends(v, p) /\ ~HasPower(v, p)
      BY <1>4, <2>1 DEF Engaged
    <3>2. CASE chain'[p] = chain[p]
      BY <1>3, <2>1, <3>1, <3>2 DEF Ends, HasPower, HoldsLink, At
    <3>3. CASE HasPower(w, p)'
      BY <1>1, <1>3, <2>1, <3>1, <3>3 DEF Ends, OneAuthority
    <3> QED BY <3>2, <3>3
  <2>2. ASSUME NEW v \in Workers, v # w PROVE StatusFits(v, p)'
    BY <1>3, <2>1, <2>2
       DEF StatusFits, HasPower, PowerSteps, AskSteps, EarlySteps, FreshSteps, AskedSteps,
           VerdictSteps, TargetSteps, At
  <2> QED BY <1>2, <2>1, <2>2, OthersCourse DEF Course, OpCourse
<1>5. CASE status'[p] = status[p] /\ calls'[p] = calls[p] /\ ~Engaged(w, p)'
  <2>1. chain'[p] = chain[p] /\ ~Ends(w, p)'
    BY <1>5 DEF Engaged
  <2>2. ASSUME NEW v \in Workers, v # w PROVE StatusFits(v, p)' /\ (Ends(v, p)' => Ends(v, p))
    BY <1>3, <1>5, <2>1, <2>2 DEF StatusFits, Ends, HoldsLink, At
  <2> QED BY <1>1, <1>2, <2>1, <2>2, OthersCourse DEF Course, OpCourse
<1> QED BY <1>4, <1>5

\* A step of a coroutine outside the chain of emails.
LEMMA WorkerStepCourse ==
    ASSUME Safe, Safe', Steady, Course, NEW w \in Workers, WorkerStep(w), UNCHANGED chainVars
    PROVE  Course'
<1>p. PICK p \in Ops : p = co[w].op /\ p # None
  BY SafeTyped, WorkerMoves DEF Moves
<1>1. /\ \A v \in Workers : v # w => co'[v] = co[v]
      /\ co'[w] = Idle \/ (co'[w].op = p /\ co'[w].yes = co[w].yes)
      /\ ~At(w, "readChain") /\ co'[w].pc # "readChain"
      /\ SameLocal(w) /\ UNCHANGED <<chain, tokens>>
  BY <1>p, SafeTyped, WorkerMoves DEF Moves, From, To, ChainSteps, At, SameLocal, chainVars
<1>2. /\ status \in [Ops -> Statuses \cup {"none"}] /\ calls \in [Ops -> Nat]
      /\ StatusFits(w, p) /\ Idle.op = None /\ Idle.pc = "idle"
  BY DEF Safe, TypeInv, DbOK, TargetOK, Course, OpCourse, Idle
<1>m. ASSUME \A o \in Ops : o # p =>
               status'[o] = status[o] /\ calls'[o] = calls[o] /\ (o \in tasks' => o \in tasks),
             \/ Engaged(w, p)
             \/ status'[p] = status[p] /\ calls'[p] = calls[p] /\ ~Engaged(w, p)',
             p \in tasks' => (p \in tasks /\ status'[p] = status[p]) \/ status'[p] = "APPROVAL_PENDING",
             StatusFits(w, p)'
      PROVE  Course'
  <2>1. Aside(w, p)
    BY <1>p, <1>1, <1>2, <1>m DEF Aside
  <2>2. LiveLink(p)' => LiveLink(p)
    BY <1>1 DEF LiveLink
  <2>3. CASE Engaged(w, p)
    <3>1. (\A v \in Workers : v # w => ~Engaged(v, p)) /\ ~LiveLink(p)
      BY <2>3, EngagedAlone
    <3> QED BY <1>1, <1>m, <2>1, <2>2, <3>1, CourseStep
  <2>4. CASE status'[p] = status[p] /\ calls'[p] = calls[p] /\ ~Engaged(w, p)'
    BY <1>1, <1>m, <2>1, <2>2, <2>4, CourseStep
  <2> QED BY <1>m, <2>3, <2>4
\* Only the call of the target changes calls, only StartAutoApproval tasks.
<1>e. ASSUME UNCHANGED <<calls, tasks>>, Keeps(w) \/ \E s \in Statuses : Becomes(w, s),
             Engaged(w, p) \/ (Keeps(w) /\ ~Engaged(w, p)'), StatusFits(w, p)'
      PROVE  Course'
  <2>1. \A o \in Ops : o # p => status'[o] = status[o]
    BY <1>p, <1>2, <1>e DEF Keeps, Becomes, SetStatus
  <2>2. CASE Engaged(w, p)
    <3>1. p \notin tasks
      BY <2>2, EngagedAlone
    <3> QED BY <1>m, <1>e, <2>1, <2>2, <3>1
  <2>3. CASE Keeps(w) /\ ~Engaged(w, p)'
    BY <1>m, <1>e, <2>1, <2>3 DEF Keeps
  <2> QED BY <1>e, <2>2, <2>3
<1>3. CASE StartAutoApproval(w)
  <2>1. /\ At(w, "approvalSend") /\ tasks' = tasks \cup {p} /\ Goto(w, "approvalId")
        /\ UNCHANGED <<status, calls>>
    BY <1>p, <1>3 DEF StartAutoApproval, db, target
  <2>2. co'[w].pc = "approvalId"
    BY <2>1, Walks DEF Safe
  <2>3. Engaged(w, p) /\ status[p] = "APPROVAL_PENDING" /\ StatusFits(w, p)'
    BY <1>p, <1>2, <2>1, <2>2
       DEF Engaged, HasPower, PowerSteps, AskSteps, StatusFits, EarlySteps, FreshSteps,
           AskedSteps, HoldsLink, Ends, EndSteps, At
  <2> QED BY <1>m, <2>1, <2>3
<1>4. CASE Execute(w)
  <2>1. /\ At(w, "execute") /\ UNCHANGED <<status, tasks>>
        /\ calls' = [calls EXCEPT ![p] = @ + 1]
        /\ \E step \in {"succeed", "messageFail", "decisionFail"} : Goto(w, step)
    BY <1>p, <1>4 DEF Execute, Failing, db
  <2>2. co'[w].pc \in {"succeed", "messageFail", "decisionFail"}
    BY <2>1, Walks DEF Safe
  <2>3. HasPower(w, p)
    BY <1>p, <2>1 DEF HasPower, PowerSteps, TargetSteps, At
  <2>4. calls'[p] = 1 /\ \A o \in Ops : o # p => calls'[o] = calls[o]
    <3>1. calls[p] = 0
      BY <2>3, NobodyElse
    <3> QED BY <1>2, <2>1, <3>1
  <2>5. StatusFits(w, p)'
    BY <1>p, <1>2, <2>1, <2>2, <2>4
       DEF StatusFits, EarlySteps, FreshSteps, AskedSteps, HoldsLink, At
  <2>6. p \notin tasks
    BY <2>3, EngagedAlone DEF Engaged
  <2> QED BY <1>m, <2>1, <2>3, <2>4, <2>5, <2>6 DEF Engaged
<1>5. CASE MessageStep(w) /\ ~StartAutoApproval(w)
  <2>1. MessageEdge(w) /\ UNCHANGED <<calls, tasks>>
    BY <1>5, SafeTyped, MessageEdgeTaken
  <2>2. /\ Keeps(w) \/ \E s \in Statuses : Becomes(w, s)
        /\ Engaged(w, p) \/ (Keeps(w) /\ ~Engaged(w, p)')
    BY <1>p, <1>1, <1>2, <2>1
       DEF MessageEdge, Statuses, Engaged, HasPower, Ends, PowerSteps, AskSteps, EarlySteps,
           VerdictSteps, TargetSteps, EndSteps, StatusFits, HoldsLink, From, To, At
  <2>3. StatusFits(w, p)'
    BY <1>p, <1>1, <1>2, <2>1
       DEF MessageEdge, StatusFits, EarlySteps, FreshSteps, AskedSteps, HoldsLink, Ends, EndSteps,
           Keeps, Becomes, SetStatus, From, To, At
  <2> QED BY <1>e, <2>1, <2>2, <2>3
<1>6. CASE ProvisionStep(w) /\ ~Execute(w)
  <2>1. ProvisionEdge(w) /\ UNCHANGED <<calls, tasks>>
    BY <1>6, SafeTyped, ProvisionEdgeTaken
  <2>2. /\ Keeps(w) \/ \E s \in Statuses : Becomes(w, s)
        /\ Engaged(w, p) \/ (Keeps(w) /\ ~Engaged(w, p)')
    BY <1>p, <1>1, <1>2, <2>1
       DEF ProvisionEdge, Statuses, Engaged, HasPower, Ends, PowerSteps, AskSteps, EarlySteps,
           VerdictSteps, TargetSteps, EndSteps, HoldsLink, From, To, At
  <2>3. StatusFits(w, p)'
    BY <1>p, <1>1, <1>2, <2>1
       DEF ProvisionEdge, StatusFits, EarlySteps, FreshSteps, AskedSteps, HoldsLink, Ends, EndSteps,
           Keeps, Becomes, SetStatus, From, To, At
  <2> QED BY <1>e, <2>1, <2>2, <2>3
<1>7. CASE DecisionStep(w)
  <2>1. DecisionEdge(w) /\ UNCHANGED <<calls, tasks>>
    BY <1>7, SafeTyped, DecisionEdgeTaken
  <2>2. /\ Keeps(w) \/ \E s \in Statuses : Becomes(w, s)
        /\ Engaged(w, p) \/ (Keeps(w) /\ ~Engaged(w, p)')
    BY <1>p, <1>1, <1>2, <2>1
       DEF DecisionEdge, MarkerSteps, Statuses, Engaged, HasPower, Ends, PowerSteps, AskSteps,
           EarlySteps, VerdictSteps, TargetSteps, EndSteps, HoldsLink, From, To, At
  <2>s. (At(w, "processing") => co[w].yes) /\ (At(w, "reject") => ~co[w].yes)
    BY <1>p DEF Safe, OpSafe, StepSafe
  <2>3. StatusFits(w, p)'
    BY <1>p, <1>1, <1>2, <2>1, <2>s
       DEF DecisionEdge, MarkerSteps, StatusFits, EarlySteps, FreshSteps, AskedSteps, HoldsLink,
           Ends, EndSteps, Keeps, Becomes, SetStatus, From, To, At
  <2> QED BY <1>e, <2>1, <2>2, <2>3
<1> QED BY <1>3, <1>4, <1>5, <1>6, <1>7 DEF WorkerStep

LEMMA ChainStepCourse ==
    ASSUME Safe, Safe', Steady, Course, NEW w \in Workers, ChainStep(w)
    PROVE  Course'
<1>p. PICK p \in Ops : p = co[w].op /\ p # None
  BY ChainStepCases, Facts DEF StoreChain, StoreDecisionToken, SendEmail, ReadChain, Cleanup,
     ReturnFromDecision, At
<1>t. /\ chain \in [Ops -> Chains \cup {None}] /\ local \in [Workers -> Chains \cup {None}]
      /\ tokens \subseteq Tokens
      /\ StatusFits(w, p) /\ Idle.op = None /\ Idle.pc = "idle"
  BY DEF Safe, TypeInv, KeysOK, WorkersOK, Course, OpCourse, Idle
<1>m. ASSUME Moves(w), SameLocal(w), UNCHANGED <<status, calls, tasks>>,
             \A o \in Ops : o # p => chain'[o] = chain[o],
             \A t \in tokens' : t[1] # p => t \in tokens,
             \/ Engaged(w, p) /\ (chain'[p] = chain[p] \/ HasPower(w, p)')
             \/ ~Engaged(w, p)' /\ chain'[p] = chain[p],
             LiveLink(p)' => LiveLink(p) \/ status[p] = "APPROVAL_PENDING" \/ HasPower(w, p)',
             StatusFits(w, p)'
      PROVE  Course'
  <2>1. Aside(w, p)
    BY <1>p, <1>t, <1>m DEF Moves, Aside
  <2>2. (\A v \in Workers : v # w => ~Engaged(v, p)) \/ ~Engaged(w, p)'
    BY <1>m, EngagedAlone
  <2> QED BY <1>m, <2>1, <2>2, CourseStep
<1>1. CASE StoreChain(w)
  <2>1. /\ HasPower(w, p) /\ Moves(w) /\ To(w, {"storeToken"})
        /\ From(w, {"approvalSend", "nextLevel"})
        /\ UNCHANGED <<status, calls, tasks, tokens>>
        /\ chain' \in {[chain EXCEPT ![p] = NewChain(w)], chain}
        /\ local' = [local EXCEPT ![w] = NewChain(w)]
    BY <1>p, <1>1, StoreChainFacts DEF db, target
  <2>2. SameLocal(w) /\ \A o \in Ops : o # p => chain'[o] = chain[o]
    BY <1>t, <2>1 DEF SameLocal
  <2>3. co'[w].pc = "storeToken" /\ co'[w].op = p
    BY <1>p, <1>t, <2>1 DEF Moves, To
  <2>4. HasPower(w, p)' /\ StatusFits(w, p)'
    BY <1>p, <1>t, <2>1, <2>3
       DEF HasPower, PowerSteps, StatusFits, EarlySteps, FreshSteps, AskedSteps, HoldsLink,
           Ends, EndSteps, From, At
  <2> QED BY <1>m, <2>1, <2>2, <2>4 DEF Engaged
<1>2. CASE StoreDecisionToken(w)
  <2>1. /\ HasPower(w, p) /\ Moves(w) /\ At(w, "storeToken") /\ To(w, {"sendEmail"})
        /\ local[w].token[1] = p /\ tokens' \in {tokens \cup {local[w].token}, tokens}
        /\ UNCHANGED <<status, calls, tasks, chain, local>>
    BY <1>p, <1>2, StoreTokenFacts DEF db, target
  <2>2. co'[w].pc = "sendEmail" /\ co'[w].op = p
    BY <1>p, <1>t, <2>1 DEF Moves, To
  <2>3. StatusFits(w, p)' /\ status[p] = "APPROVAL_PENDING"
    BY <1>p, <1>t, <2>1, <2>2
       DEF StatusFits, EarlySteps, FreshSteps, AskedSteps, HoldsLink, Ends, EndSteps, At
  <2> QED BY <1>m, <2>1, <2>3 DEF SameLocal, Engaged
<1>3. CASE Cleanup(w)
  <2>1. /\ HasPower(w, p) /\ Moves(w) /\ At(w, "cleanup") /\ To(w, {"check"})
        /\ chain' \in {[chain EXCEPT ![p] = None], chain}
        /\ tokens' \in {tokens \ {local[w].token}, tokens}
        /\ local' = [local EXCEPT ![w] = None] /\ UNCHANGED <<status, calls, tasks>>
    BY <1>p, <1>3, CleanupFacts DEF db, target
  <2>2. SameLocal(w) /\ \A o \in Ops : o # p => chain'[o] = chain[o]
    BY <1>t, <2>1 DEF SameLocal
  <2>3. co'[w].pc = "check" /\ co'[w].op = p
    BY <1>p, <1>t, <2>1 DEF Moves, To
  <2>4. HasPower(w, p)' /\ StatusFits(w, p)'
    BY <1>p, <1>t, <2>1, <2>3
       DEF HasPower, PowerSteps, VerdictSteps, StatusFits, EarlySteps, FreshSteps, AskedSteps,
           HoldsLink, Ends, EndSteps, At
  <2> QED BY <1>m, <2>1, <2>2, <2>4 DEF Engaged
<1>4. CASE ReadChain(w)
  <2>1. /\ Moves(w) /\ At(w, "readChain") /\ To(w, {"idle", "nextLevel", "cleanup"})
        /\ \A v \in Workers : v # w => local'[v] = local[v]
        /\ To(w, {"nextLevel", "cleanup"}) => HoldsLink(w)
        /\ UNCHANGED <<status, calls, tasks, chain, tokens>>
    BY <1>4, ReadChainFacts DEF db, target
  <2>2. LiveLink(p)' => LiveLink(p)
    BY <2>1 DEF LiveLink
  <2>3. CASE HoldsLink(w)
    <3>1. Engaged(w, p) /\ status[p] = "APPROVAL_PENDING"
      BY <1>p, <1>t, <2>3 DEF Engaged, HasPower, StatusFits
    <3>2. StatusFits(w, p)'
      BY <1>p, <1>t, <2>1, <3>1
         DEF StatusFits, EarlySteps, FreshSteps, AskedSteps, HoldsLink, Ends, EndSteps, At, To
    <3> QED BY <1>m, <2>1, <2>2, <3>1, <3>2 DEF SameLocal
  <2>4. CASE ~HoldsLink(w)
    <3>1. co'[w] = Idle
      BY <1>t, <2>1, <2>4 DEF To, Moves
    <3>2. ~Engaged(w, p)' /\ StatusFits(w, p)'
      BY <1>p, <1>t, <3>1 DEF Engaged, HasPower, Ends, StatusFits
    <3> QED BY <1>m, <2>1, <2>2, <3>2 DEF SameLocal
  <2> QED BY <2>3, <2>4
<1>5. CASE SendEmail(w)
  <2>1. /\ Moves(w) /\ co'[w].pc \in {"idle", "approvalId"}
        /\ local' = [local EXCEPT ![w] = None]
        /\ UNCHANGED <<status, calls, tasks, chain, tokens>>
    <3>1. "email" \notin faults
      BY DEF Steady
    <3>2. Finish(w) \/ Goto(w, "approvalId")
      BY <1>5, <3>1 DEF SendEmail
    <3>3. co'[w].pc \in {"idle", "approvalId"}
      BY <1>5, <3>2, SafeTyped, WalkMoves, EndMoves DEF SendEmail, At
    <3> QED BY <1>5, <3>3, SendEmailFacts DEF db, target
  <2>2. ~Engaged(w, p)' /\ StatusFits(w, p)'
    BY <1>p, <2>1
       DEF Engaged, HasPower, HoldsLink, Ends, EndSteps, StatusFits, PowerSteps, AskSteps,
           EarlySteps, VerdictSteps, TargetSteps, FreshSteps, AskedSteps, At
  <2>3. SameLocal(w) /\ (LiveLink(p)' => LiveLink(p))
    BY <1>t, <2>1 DEF SameLocal, LiveLink
  <2> QED BY <1>m, <2>1, <2>2, <2>3
<1>6. CASE ReturnFromDecision(w)
  <2>1. /\ Moves(w) /\ co'[w].pc = "idle"
        /\ UNCHANGED <<status, calls, tasks, chain, tokens, local>>
    BY <1>6, ReturnFacts DEF db, target, chainVars, To
  <2>2. ~Engaged(w, p)' /\ StatusFits(w, p)'
    BY <1>p, <2>1
       DEF Engaged, HasPower, HoldsLink, Ends, EndSteps, StatusFits, PowerSteps, AskSteps,
           EarlySteps, VerdictSteps, TargetSteps, FreshSteps, AskedSteps, At
  <2>3. SameLocal(w) /\ (LiveLink(p)' => LiveLink(p))
    BY <2>1 DEF SameLocal, LiveLink
  <2> QED BY <1>m, <2>1, <2>2, <2>3
<1> QED BY <1>1, <1>2, <1>3, <1>4, <1>5, <1>6, ChainStepCases

LEMMA ReceiveCourse ==
    ASSUME Safe, Safe', Course, NEW w \in Workers, NEW p \in Ops, NEW m \in Messages,
           Receive(w, p, m), UNCHANGED chainVars
    PROVE  Course'
<1>1. /\ At(w, "idle") /\ status[p] = "none" /\ \A v \in Consumers : co[v].op # p
      /\ \A v \in Workers : v # w => co'[v] = co[v]
      /\ co'[w].op = p /\ co'[w].pc \in {"wasRejected", "create"}
      /\ UNCHANGED <<status, calls, tasks, chain, tokens, local>>
  BY DEF Receive, db, target, chainVars, Safe, TypeInv, WorkersOK
<1>2. Aside(w, p)
  BY <1>1, IdleHasNone DEF Aside, SameLocal
<1>3. ASSUME NEW v \in Workers, v # w PROVE ~Engaged(v, p)
  <2>1. StepSafe(v, p) /\ StatusFits(v, p)
    BY DEF Safe, OpSafe, Course, OpCourse
  <2> QED BY <1>1, <2>1
          DEF StepSafe, StatusFits, Engaged, HasPower, HoldsLink, Ends, EndSteps, EarlySteps, At
<1>4. StatusFits(w, p)'
  BY <1>1 DEF StatusFits, EarlySteps, FreshSteps, AskedSteps, HoldsLink, Ends, EndSteps, At
<1>5. LiveLink(p)' => LiveLink(p)
  BY <1>1 DEF LiveLink
<1> QED BY <1>1, <1>2, <1>3, <1>4, <1>5, CourseStep

LEMMA AutoApproveCourse ==
    ASSUME Safe, Safe', Course, NEW w \in Workers, NEW p \in Ops,
           AutoApprove(w, p), UNCHANGED chainVars
    PROVE  Course'
<1>1. /\ At(w, "idle") /\ p \in tasks /\ tasks' = tasks \ {p}
      /\ \A v \in Workers : v # w => co'[v] = co[v]
      /\ co'[w].op = p /\ co'[w].pc = "check"
      /\ UNCHANGED <<status, calls, chain, tokens, local>>
  BY DEF AutoApprove, Decide, db, target, chainVars, Safe, TypeInv, WorkersOK
<1>2. Aside(w, p)
  BY <1>1, IdleHasNone DEF Aside, SameLocal
<1>3. \A v \in Workers : ~Engaged(v, p)
  BY <1>1, EngagedAlone
<1>4. StatusFits(w, p)'
  BY <1>1 DEF Course, OpCourse, StatusFits, EarlySteps, FreshSteps, AskedSteps, HoldsLink, Ends,
              EndSteps, At
<1>5. HasPower(w, p)'
  BY <1>1 DEF HasPower, PowerSteps, VerdictSteps
<1> QED BY <1>1, <1>2, <1>3, <1>4, <1>5, CourseStep

LEMMA ClickCourse ==
    ASSUME Safe, Safe', Course, NEW w \in Workers, NEW t \in tokens, NEW yes \in BOOLEAN,
           Click(w, t, yes)
    PROVE  Course'
<1>1. PICK p \in Ops : p = t[1]
  BY DEF Safe, TypeInv, KeysOK, Tokens
<1>2. /\ At(w, "idle") /\ tokens' = tokens \ {t}
      /\ \A v \in Workers : v # w => co'[v] = co[v] /\ local'[v] = local[v]
      /\ co'[w].op = p /\ co'[w].pc = "readChain" /\ local'[w].token = t
      /\ UNCHANGED <<status, calls, tasks, chain>>
  BY <1>1 DEF Click, db, target, Safe, TypeInv, WorkersOK
<1>3. Aside(w, p)
  BY <1>2, IdleHasNone DEF Aside, SameLocal
<1>4. LiveLink(p)' => LiveLink(p)
  BY <1>2 DEF LiveLink
<1>5. CASE HoldsLink(w)'
  <2>1. LiveLink(p)
    BY <1>2, <1>5 DEF HoldsLink, LiveLink
  <2>2. \A v \in Workers : ~Engaged(v, p)
    BY <2>1, EngagedAlone
  <2>3. StatusFits(w, p)'
    BY <1>2, <2>1 DEF Course, OpCourse, StatusFits, EarlySteps, FreshSteps, AskedSteps, Ends,
                      EndSteps, At
  <2> QED BY <1>2, <1>3, <1>4, <2>2, <2>3, CourseStep
<1>6. CASE ~HoldsLink(w)'
  <2>1. ~Engaged(w, p)' /\ StatusFits(w, p)'
    BY <1>2, <1>6 DEF Engaged, HasPower, PowerSteps, AskSteps, EarlySteps, VerdictSteps,
                      TargetSteps, StatusFits, FreshSteps, AskedSteps, Ends, EndSteps, At
  <2> QED BY <1>2, <1>3, <1>4, <2>1, CourseStep
<1> QED BY <1>5, <1>6

\* Coroutines, tasks, links and chains that are lost leave the statuses alone.
LEMMA LossCourse ==
    ASSUME Safe, Course,
           \A v \in Workers : \/ co'[v] = Idle
                              \/ /\ co'[v] = co[v]
                                 /\ local'[v] = local[v] \/ co[v].op = None,
           tasks' \subseteq tasks, tokens' \subseteq tokens,
           \A o \in Ops : chain'[o] \in {chain[o], None},
           UNCHANGED <<status, calls>>
    PROVE  Course'
<1> SUFFICES ASSUME NEW o \in Ops PROVE OpCourse(o)'
  BY DEF Course
<1>1. OpCourse(o) /\ o # None
  BY OrchestratorAssumption DEF Course
<1>2. ASSUME NEW v \in Workers
      PROVE  co'[v].op # o \/ (co'[v] = co[v] /\ local'[v] = local[v])
  BY <1>1 DEF Idle
<1>3. ASSUME NEW v \in Workers PROVE StatusFits(v, o)' /\ (Ends(v, o)' => Ends(v, o))
  BY <1>1, <1>2 DEF OpCourse, StatusFits, HoldsLink, Ends, At
<1>4. LiveLink(o)' => LiveLink(o)
  BY DEF LiveLink
<1> QED BY <1>1, <1>3, <1>4 DEF OpCourse

LEMMA FaultCourse ==
    ASSUME Safe, Steady, Course, OrchestratorFault
    PROVE  Course'
<1>1. ForgetLocal /\ UNCHANGED <<chain, tokens>>
  BY DEF OrchestratorFault
<1>2. \A w \in Workers : ~DbError(w)
  BY DEF DbError, Steady
<1>3. ASSUME \A v \in Workers : co'[v] \in {Idle, co[v]} PROVE
        \A v \in Workers : \/ co'[v] = Idle
                           \/ /\ co'[v] = co[v]
                              /\ local'[v] = local[v] \/ co[v].op = None
  BY <1>1, <1>3 DEF ForgetLocal, Idle
<1>4. CASE ConsumerCrash \/ ApiCrash
  <2>1. /\ \A v \in Workers : co'[v] \in {Idle, co[v]}
        /\ tasks' \subseteq tasks /\ UNCHANGED <<db, target>>
    BY <1>4 DEF ConsumerCrash, ApiCrash
  <2> QED BY <1>1, <1>3, <2>1, LossCourse DEF db, target
<1>5. ASSUME NEW o \in Ops, PendingExpires(o) PROVE Course'
  <2>1. UNCHANGED <<db, target, tasks, co>>
    BY <1>5 DEF PendingExpires
  <2> QED BY <1>1, <1>3, <2>1, LossCourse DEF db, target
<1> QED BY <1>2, <1>4, <1>5 DEF OrchestratorFault, FaultStep

LEMMA NextCourse ==
    ASSUME ~Callbacks, Safe, Steady, Course, [ChainNext]_vars
    PROVE  Course'
<1>s. Safe'
  BY NextSafe
<1>1. ASSUME NEW w \in Workers, NEW o \in Ops, NEW m \in Messages,
             Receive(w, o, m), UNCHANGED chainVars
      PROVE  Course'
  BY <1>s, <1>1, ReceiveCourse
<1>2. ASSUME NEW w \in Workers, ChainWorkerStep(w) PROVE Course'
  BY <1>s, <1>2, ChainStepCourse, WorkerStepCourse DEF ChainWorkerStep
<1>3. ASSUME NEW o \in Ops, AutoApproval(o) PROVE Course'
  BY <1>s, <1>3, AutoApproveCourse DEF AutoApproval
<1>4. ASSUME NEW w \in Workers, NEW t \in tokens, NEW yes \in BOOLEAN, Click(w, t, yes)
      PROVE  Course'
  BY <1>s, <1>4, ClickCourse
<1>5. CASE OrchestratorFault
  BY <1>5, FaultCourse
<1>6. CASE (\E o \in Ops : ChainExpires(o)) \/ (\E t \in tokens : TokenExpires(t))
  <2>1. /\ UNCHANGED <<orchVars, local>> /\ tokens' \subseteq tokens
        /\ \A o \in Ops : chain'[o] \in {chain[o], None}
    BY <1>6 DEF ChainExpires, TokenExpires, Safe, TypeInv, KeysOK
  <2> QED BY <2>1, LossCourse DEF orchVars, db, target
<1>7. CASE UNCHANGED vars
  BY <1>7, LossCourse DEF vars, orchVars, chainVars, db, target
<1> QED BY <1>1, <1>2, <1>3, <1>4, <1>5, <1>6, <1>7 DEF ChainNext

LEMMA InitialCourse == ChainInit => Course
<1> SUFFICES ASSUME ChainInit, NEW o \in Ops PROVE OpCourse(o)
  BY DEF Course
<1>1. /\ tasks = {} /\ chain[o] = None /\ \A w \in Workers : co[w].op # o
  BY OrchestratorAssumption DEF ChainInit, Init, Idle
<1> QED BY <1>1 DEF OpCourse, StatusFits, Ends, LiveLink

LEMMA AlwaysCourse ==
    ASSUME ~Callbacks
    PROVE  ChainSpec => [](Steady => Course)
<1>1. Safe /\ (Steady => Course) /\ [ChainNext]_vars => (Steady => Course)'
  BY NextCourse, SameSetup DEF Steady
<1>2. ChainInit => (Steady => Course)
  BY InitialCourse
<1> QED BY <1>1, <1>2, AlwaysSafe, PTL DEF ChainSpec

\* A status is only written over an earlier one.
LEMMA WorkerStepForward ==
    ASSUME Safe, Course, NEW w \in Workers, WorkerStep(w),
           NEW o \in Ops, status'[o] # status[o]
    PROVE  Rank(status[o]) < Rank(status'[o])
<1>p. PICK p \in Ops : p = co[w].op
  BY SafeTyped, WorkerMoves DEF Moves
<1>1. status \in [Ops -> Statuses \cup {"none"}] /\ StatusFits(w, p)
  BY DEF Safe, TypeInv, DbOK, Course, OpCourse
<1>2. ASSUME NEW s, Becomes(w, s), Rank(status[p]) < Rank(s)
      PROVE  Rank(status[o]) < Rank(status'[o])
  BY <1>p, <1>1, <1>2 DEF Becomes, SetStatus
<1>r. /\ Rank("none") = 0 /\ Rank("PENDING") = 1 /\ Rank("VALIDATED") = 2
      /\ Rank("APPROVAL_PENDING") = 3 /\ Rank("PROCESSING") = 4
      /\ Rank("SUCCESS") = 5 /\ Rank("FAILED") = 5
  BY DEF Rank
<1>3. ~StartAutoApproval(w) /\ ~Execute(w)
  BY DEF StartAutoApproval, Execute, db
<1>4. CASE MessageStep(w)
  <2>1. MessageEdge(w) /\ ~Keeps(w)
    BY <1>3, <1>4, SafeTyped, MessageEdgeTaken DEF Keeps
  <2> QED BY <1>p, <1>1, <1>2, <1>r, <2>1
          DEF MessageEdge, StatusFits, EarlySteps, FreshSteps, AskedSteps, Ends, EndSteps, From, At
<1>5. CASE ProvisionStep(w)
  <2>1. ProvisionEdge(w) /\ ~Keeps(w)
    BY <1>3, <1>5, SafeTyped, ProvisionEdgeTaken DEF Keeps
  <2>2. At(w, "provision") => status[p] # "PROCESSING"
    BY <1>p, <1>1, <2>1 DEF ProvisionEdge, Becomes, SetStatus, Keeps, At
  <2> QED BY <1>p, <1>1, <1>2, <1>r, <2>1, <2>2
          DEF ProvisionEdge, StatusFits, Ends, EndSteps, At
<1>6. CASE DecisionStep(w)
  <2>1. DecisionEdge(w) /\ ~Keeps(w)
    BY <1>6, SafeTyped, DecisionEdgeTaken DEF Keeps
  <2> QED BY <1>p, <1>1, <1>2, <1>r, <2>1
          DEF DecisionEdge, StatusFits, AskedSteps, Ends, EndSteps, At
<1> QED BY <1>4, <1>5, <1>6 DEF WorkerStep

LEMMA NextForward ==
    ASSUME ~Callbacks, Safe, Steady => Course, [ChainNext]_vars
    PROVE  \A o \in Ops : status'[o] # status[o] /\ faults \cap {"db", "email"} = {}
                            => Rank(status[o]) < Rank(status'[o])
<1> SUFFICES ASSUME Steady, NEW o \in Ops, status'[o] # status[o]
             PROVE  Rank(status[o]) < Rank(status'[o])
  BY DEF Steady
<1>1. ASSUME NEW w \in Workers, ChainWorkerStep(w) PROVE WorkerStep(w)
  BY <1>1, ChainStepCases DEF ChainWorkerStep, StoreChain, StoreDecisionToken, SendEmail,
     ReadChain, Cleanup, ReturnFromDecision, db
<1>2. ASSUME NEW q \in Ops, AutoApproval(q) PROVE FALSE
  BY <1>2 DEF AutoApproval, AutoApprove, db
<1>3. ~OrchestratorFault
  BY DEF OrchestratorFault, FaultStep, DbError, ConsumerCrash, ApiCrash, PendingExpires, db
<1>4. ASSUME \/ \E w \in Workers, q \in Ops, m \in Messages :
                  Receive(w, q, m) /\ UNCHANGED chainVars
             \/ \E w \in Workers, t \in tokens, yes \in BOOLEAN : Click(w, t, yes)
             \/ \E q \in Ops : ChainExpires(q)
             \/ \E t \in tokens : TokenExpires(t)
             \/ UNCHANGED vars
      PROVE  FALSE
  BY <1>4 DEF Receive, Click, ChainExpires, TokenExpires, vars, orchVars, db
<1> QED BY <1>1, <1>2, <1>3, <1>4, WorkerStepForward DEF ChainNext

\* In a deployment that does not use approve-callback beside the links, and as
\* long as the database and the SMTP server answer, the statuses of an operation
\* are passed in the order of OperationStatus and the two final ones are final,
\* whatever happens to the target, Redis and the processes.
THEOREM StatusesMoveForward ==
    ASSUME ~Callbacks
    PROVE  ChainSpec => StatusMovesForward
<1>1. Safe /\ (Steady => Course) /\ [ChainNext]_vars =>
        [\A o \in Ops : status'[o] # status[o] /\ faults \cap {"db", "email"} = {}
                          => Rank(status[o]) < Rank(status'[o])]_orchVars
  BY NextForward
<1> QED BY <1>1, AlwaysSafe, AlwaysCourse, PTL DEF ChainSpec, StatusMovesForward
-----------------------------------------------------------------------------
(***************************************************************************)
(* The chain implements ApprovalPromise, under every fault.                *)
(*                                                                         *)
(* ApprovalChainProofs says where the authority to call the target lies.   *)
(* Here it is shown to be unspent until the decision is recorded: as long  *)
(* as somebody may still decide, the row holds no answer; and a coroutine  *)
(* that carries a refusal carries it while a level has not signed.         *)
(***************************************************************************)

\* The steps of a coroutine whose operation has no answer.
UnansweredSteps == AskSteps \cup {"storeToken", "nextLevel", "cleanup", "check", "record"}

\* The steps of a coroutine that carries an answer to the row.
CarryingSteps == {"cleanup", "check", "record"}

Asks(w, o) == co[w].op = o /\ (co[w].pc \in UnansweredSteps \/ HoldsLink(w))

\* An answer may still come.
Open(o) == status[o] = "none" \/ (\E w \in Workers : Asks(w, o)) \/ o \in tasks \/ LiveLink(o)

\* An answer on its way is that of a deployment with approvals; a refusal comes
\* before the last signature.
Carries(w, o) ==
    co[w].op = o /\ co[w].pc \in CarryingSteps =>
        mode # "off" /\ (~co[w].yes => signed[o] # 0 .. Required - 1)

OpUnspent(o) == (Open(o) => response[o] = "none") /\ \A w \in Workers : Carries(w, o)

Unspent == \A o \in Ops : OpUnspent(o)

-----------------------------------------------------------------------------
(* Steps that write no answer *)

\* A step of w for operation p opens no other operation.
LEMMA OtherUnspent ==
    ASSUME Safe, TypeInv', Unspent, NEW w \in Workers, NEW p \in Ops, OnlyTouches(w, p),
           Open(p)' => response'[p] = "none",
           \A v \in Workers : Carries(v, p)'
    PROVE  Unspent'
<1> SUFFICES ASSUME NEW o \in Ops, o # p PROVE OpUnspent(o)'
  BY DEF Unspent, OpUnspent
<1>1. OpUnspent(o) /\ o # None /\ Safe
  BY OrchestratorAssumption DEF Unspent
<1>2. /\ status'[o] = status[o] /\ response'[o] = response[o]
      /\ signed'[o] = signed[o] /\ chain'[o] = chain[o] /\ mode' = mode
      /\ o \in tasks' <=> o \in tasks
      /\ \A t \in Tokens : t[1] = o => (t \in tokens' <=> t \in tokens)
  BY DEF OnlyTouches
<1>3. ASSUME NEW v \in Workers
      PROVE  \/ co[v].op # o /\ co'[v].op # o
             \/ co'[v] = co[v] /\ local'[v] = local[v]
  BY <1>1 DEF OnlyTouches, SameLocal
<1>4. LiveLink(o)' <=> LiveLink(o)
  BY <1>1, <1>2 DEF LiveLink, OpSafe, RecordsSafe, Safe, TypeInv, KeysOK, Chains
<1>5. \A v \in Workers : Asks(v, o)' <=> Asks(v, o)
  BY <1>2, <1>3 DEF Asks, HoldsLink, At
<1>6. Open(o)' <=> Open(o)
  BY <1>2, <1>4, <1>5 DEF Open
<1>7. ASSUME NEW v \in Workers PROVE Carries(v, o)'
  BY <1>1, <1>2, <1>3 DEF OpUnspent, Carries, Required
<1> QED BY <1>1, <1>2, <1>6, <1>7 DEF OpUnspent

\* A step that only moves its coroutine and may write the status.
Plain(w) ==
    /\ SameLocal(w)
    /\ UNCHANGED <<chain, tokens, tasks, response, signed, mode>>
    /\ UNCHANGED status \/ \E s \in Statuses : SetStatus(co[w].op, s)

LEMMA MoveUnspent ==
    ASSUME Safe, TypeInv', Unspent, NEW w \in Workers, ~At(w, "idle"), Plain(w),
           \A v \in Workers : v # w => co'[v] = co[v],
           \/ co'[w] = Idle
           \/ /\ co'[w].op = co[w].op /\ co'[w].yes = co[w].yes
              /\ co'[w].pc # "readChain"
              /\ co'[w].pc \in UnansweredSteps => co[w].pc \in UnansweredSteps
              /\ co'[w].pc \in CarryingSteps => co[w].pc \in CarryingSteps
    PROVE  Unspent'
<1> SUFFICES ASSUME NEW o \in Ops PROVE OpUnspent(o)'
  BY DEF Unspent
<1>1. OpUnspent(o) /\ o # None /\ Idle.op = None /\ Required' = Required
  BY OrchestratorAssumption DEF Unspent, Idle, Plain, Required
<1>2. status'[o] = "none" => status[o] = "none"
  BY DEF Safe, TypeInv, DbOK, Plain, SetStatus, Statuses
<1>3. ASSUME NEW v \in Workers, Asks(v, o)' PROVE Asks(v, o)
  BY <1>1, <1>3 DEF Asks, HoldsLink, At, Plain, SameLocal
<1>4. Open(o)' => Open(o)
  BY <1>2, <1>3 DEF Open, LiveLink, Plain
<1>5. ASSUME NEW v \in Workers PROVE Carries(v, o)'
  BY <1>1 DEF OpUnspent, Carries, Plain
<1> QED BY <1>1, <1>4, <1>5 DEF OpUnspent, Plain

LEMMA EndUnspent ==
    ASSUME Safe, TypeInv', Unspent, NEW w \in Workers, ~At(w, "idle"), Plain(w), Finish(w)
    PROVE  Unspent'
<1>1. co'[w] = Idle /\ \A v \in Workers : v # w => co'[v] = co[v]
  BY DEF Finish, Safe, TypeInv, WorkersOK
<1> QED BY <1>1, MoveUnspent

LEMMA WalkUnspent ==
    ASSUME Safe, TypeInv', Unspent, NEW w \in Workers, ~At(w, "idle"), Plain(w),
           NEW step, Goto(w, step), step # "readChain",
           step \in UnansweredSteps => co[w].pc \in UnansweredSteps,
           step \in CarryingSteps => co[w].pc \in CarryingSteps
    PROVE  Unspent'
<1>1. /\ co'[w].pc = step /\ co'[w].op = co[w].op /\ co'[w].yes = co[w].yes
      /\ \A v \in Workers : v # w => co'[v] = co[v]
  BY Walks DEF Safe
<1> QED BY <1>1, MoveUnspent

\* A coroutine that goes to a step with another message.
LEMMA MessageUnspent ==
    ASSUME Safe, TypeInv', Unspent, NEW w \in Workers, ~At(w, "idle"), Plain(w),
           NEW step \in Steps, NEW m \in Messages \cup {None}, GotoWith(w, step, m),
           step # "readChain",
           step \in UnansweredSteps => co[w].pc \in UnansweredSteps,
           step \in CarryingSteps => co[w].pc \in CarryingSteps
    PROVE  Unspent'
<1>1. PICK r \in Coroutines : /\ co' = [co EXCEPT ![w] = r]
                              /\ r.pc = step /\ r.op = co[w].op /\ r.yes = co[w].yes
  BY MessageUpdate DEF Safe, TypeInv
<1>2. co'[w] = r /\ \A v \in Workers : v # w => co'[v] = co[v]
  BY <1>1 DEF Safe, TypeInv, WorkersOK
<1> QED BY <1>1, <1>2, MoveUnspent

-----------------------------------------------------------------------------
(* The steps of the orchestrator *)

\* A coroutine that goes on with process_message.
LEMMA ConversionUnspent ==
    ASSUME Safe, TypeInv', Unspent, NEW w \in Workers, Plain(w),
           NEW step \in {"create", "validate"}, Converts(w, step),
           co[w].pc \in AskSteps \cap MessageSteps
    PROVE  Unspent'
<1>1. /\ step \in Steps /\ step # "readChain" /\ step \notin CarryingSteps
      /\ co[w].pc \in UnansweredSteps /\ ~At(w, "idle")
  BY DEF Steps, DbSteps, CarryingSteps, UnansweredSteps, At, AskSteps, EarlySteps
<1>2. PICK m \in Messages : GotoWith(w, step, m)
  BY Conversion DEF Safe, TypeInv
<1> QED BY <1>1, <1>2, MessageUnspent

LEMMA MessageStepUnspent ==
    ASSUME Safe, TypeInv', Unspent, NEW w \in Workers, MessageStep(w), UNCHANGED chainVars
    PROVE  Unspent'
<1>u. SameLocal(w) /\ UNCHANGED <<local, chain, tokens, minted, signed>>
  BY DEF chainVars, SameLocal
<1>r. ~At(w, "idle")
  BY DEF MessageStep, ConvertRejected, ConvertDeleted, ConvertUpdate, CreateOperation,
         RecheckRejected, SkipDelete, ClearSkippedMarker, CheckDiff, CheckDuplicate,
         MarkValidated, SetApprovalPending, AddPendingApproval, StoreRequestId,
         StartAutoApproval, ApprovalRequestFailed, HandleError, At
<1>1. CASE StartAutoApproval(w)
  <2>1. PICK p \in Ops : p = co[w].op
    BY <1>r, Facts
  <2>2. /\ co[w].pc = "approvalSend" /\ tasks' = tasks \cup {p} /\ Goto(w, "approvalId")
        /\ UNCHANGED <<status, calls, response, skipped, mode>>
    BY <1>1, <2>1 DEF StartAutoApproval, At, db, target, setup
  <2>3. co'[w].op = p /\ co'[w].pc = "approvalId" /\ \A v \in Workers : v # w => co'[v] = co[v]
    BY <2>1, <2>2, Walks DEF Safe
  <2>4. OnlyTouches(w, p)
    BY <1>u, <2>1, <2>2, <2>3 DEF OnlyTouches
  <2>5. response'[p] = "none"
    BY <2>1, <2>2 DEF Unspent, OpUnspent, Open, Asks, UnansweredSteps, AskSteps
  <2>6. ASSUME NEW v \in Workers PROVE Carries(v, p)'
    BY <1>u, <2>2, <2>3 DEF Unspent, OpUnspent, Carries, CarryingSteps, Required
  <2> QED BY <2>4, <2>5, <2>6, OtherUnspent
<1>2. CASE ~StartAutoApproval(w)
  <2>1. Plain(w)
    BY <1>2, <1>u
       DEF MessageStep, ConvertRejected, ConvertDeleted, ConvertUpdate, CreateOperation,
           RecheckRejected, SkipDelete, ClearSkippedMarker, CheckDiff, CheckDuplicate,
           MarkValidated, SetApprovalPending, AddPendingApproval, StoreRequestId,
           ApprovalRequestFailed, HandleError, db, target, setup, Plain, Statuses
  <2>2. ASSUME NEW step \in {"create", "validate"}, Converts(w, step),
               co[w].pc \in AskSteps \cap MessageSteps
        PROVE  Unspent'
    BY <2>1, <2>2, ConversionUnspent
  <2>3. ASSUME NEW step, Goto(w, step), step # "readChain", step \notin CarryingSteps,
               step \in UnansweredSteps => co[w].pc \in AskSteps
        PROVE  Unspent'
    BY <1>r, <2>1, <2>3, WalkUnspent DEF UnansweredSteps
  <2>4. \/ Finish(w)
        \/ \E step \in {"create", "validate"} :
             Converts(w, step) /\ co[w].pc \in AskSteps \cap MessageSteps
        \/ \E step \in {"wasDeleted", "create", "recheck", "skipDelete", "diff", "duplicate",
                        "validate", "approvalStatus", "approvalPending", "approvalSend"} :
             Goto(w, step) /\ co[w].pc \in AskSteps
        \/ \E step \in {"clearSkipped", "provision", "messageFail"} : Goto(w, step)
    BY <1>2
       DEF MessageStep, ConvertRejected, ConvertDeleted, ConvertUpdate, CreateOperation,
           RecheckRejected, SkipDelete, ClearSkippedMarker, CheckDiff, CheckDuplicate,
           MarkValidated, SetApprovalPending, AddPendingApproval, StoreRequestId,
           ApprovalRequestFailed, HandleError, At, Converts, AskSteps, EarlySteps, MessageSteps
  <2> QED BY <1>r, <2>1, <2>2, <2>3, <2>4, EndUnspent
          DEF UnansweredSteps, AskSteps, EarlySteps, CarryingSteps
<1> QED BY <1>1, <1>2

LEMMA ProvisionStepUnspent ==
    ASSUME Safe, TypeInv', Unspent, NEW w \in Workers, ProvisionStep(w), UNCHANGED chainVars
    PROVE  Unspent'
<1>1. Plain(w) /\ ~At(w, "idle")
  BY DEF ProvisionStep, SetProcessing, Execute, SetSuccess, AfterProvisioning, At,
         Plain, SameLocal, chainVars, db, target, setup, Statuses
<1>2. co[w].pc = "audited" => orig[co[w].op].type \in OperationTypes
  BY Memory DEF Safe, RowSteps, Messages
<1>3. \E step \in {"execute", "succeed", "messageFail", "decisionFail", "audited", "return",
                   "clearRejected", "storeState", "dropState"} : Goto(w, step)
  BY <1>2 DEF ProvisionStep, SetProcessing, Execute, Failing, SetSuccess, AfterProvisioning,
              At, OperationTypes
<1> QED BY <1>1, <1>3, WalkUnspent DEF UnansweredSteps, AskSteps, EarlySteps, CarryingSteps

\* The answer is recorded, and no other is on its way.
LEMMA StoreResponseUnspent ==
    ASSUME Safe, TypeInv', Unspent, NEW w \in Workers, StoreResponse(w), UNCHANGED chainVars
    PROVE  Unspent'
<1>1. PICK p \in Ops : p = co[w].op /\ p # None /\ StepSafe(w, p)
  BY Facts DEF StoreResponse, At
<1>2. /\ co[w].pc = "record" /\ Goto(w, IF co[w].yes THEN "processing" ELSE "reject")
      /\ \A o \in Ops : o # p => response'[o] = response[o]
      /\ UNCHANGED <<status, calls, skipped, tasks, mode, local, chain, tokens, minted, signed>>
  BY <1>1 DEF StoreResponse, At, target, setup, chainVars, Safe, TypeInv, DbOK
<1>3. /\ co'[w].pc \in {"processing", "reject"} /\ co'[w].op = p
      /\ \A v \in Workers : v # w => co'[v] = co[v]
  BY <1>1, <1>2, Walks DEF Safe
<1>4. OnlyTouches(w, p)
  BY <1>1, <1>2, <1>3 DEF OnlyTouches, SameLocal
<1>5. HasPower(w, p) /\ status[p] # "none"
  BY <1>1, <1>2 DEF HasPower, PowerSteps, VerdictSteps, StepSafe, EarlySteps
<1>6. /\ p \notin tasks /\ ~LiveLink(p)
      /\ \A v \in Workers : v # w => ~HasPower(v, p)
  BY <1>5, NobodyElse
<1>7. ~Open(p)'
  BY <1>2, <1>3, <1>5, <1>6
     DEF Open, Asks, HoldsLink, LiveLink, HasPower, At, UnansweredSteps, PowerSteps,
         AskSteps, EarlySteps, VerdictSteps
<1>8. ASSUME NEW v \in Workers PROVE Carries(v, p)'
  BY <1>3, <1>6 DEF Carries, CarryingSteps, HasPower, PowerSteps, VerdictSteps
<1> QED BY <1>4, <1>7, <1>8, OtherUnspent

LEMMA DecisionStepUnspent ==
    ASSUME Safe, TypeInv', Unspent, NEW w \in Workers, DecisionStep(w), UNCHANGED chainVars
    PROVE  Unspent'
<1>1. CASE StoreResponse(w)
  BY <1>1, StoreResponseUnspent
<1>2. CASE ~StoreResponse(w)
  <2>1. Plain(w) /\ ~At(w, "idle")
    BY <1>2
       DEF DecisionStep, CheckStatus, SetApproved, SetRejected, RemovePending,
           StoreRejectedCreate, ClearRejectedCreate, ClearUserDeleted, StoreUserState,
           DeleteUserState, MarkUserDeleted, DecisionFailed, SetFailed, At,
           Plain, SameLocal, chainVars, db, target, setup, Statuses
  <2>2. CASE RemovePending(w)
    <3>1. orig[co[w].op] \in Messages /\ co[w].op \in Ops
          /\ pending' \in [Ops -> Messages \cup {None}]
      BY <2>2, Memory DEF Safe, RemovePending, At, RowSteps, TypeInv, RedisOK
    <3>2. PICK step \in {"provision", "storeRejected", "return"}, m \in Messages \cup {None} :
            GotoWith(w, step, m)
      BY <2>2, <3>1 DEF RemovePending, GotoWith
    <3>3. step \in Steps /\ step # "readChain" /\ step \notin UnansweredSteps \cup CarryingSteps
      BY DEF Steps, DbSteps, UnansweredSteps, AskSteps, EarlySteps, CarryingSteps
    <3> QED BY <2>1, <3>2, <3>3, MessageUnspent
  <2>3. \/ RemovePending(w) \/ Finish(w)
        \/ co[w].pc = "check" /\ Goto(w, "record")
        \/ \E step \in {"decisionFail", "unpend", "return", "clearDeleted", "storeState",
                        "markDeleted", "fail"} : Goto(w, step)
    BY <1>2
       DEF DecisionStep, CheckStatus, SetApproved, SetRejected,
           StoreRejectedCreate, ClearRejectedCreate, ClearUserDeleted, StoreUserState,
           DeleteUserState, MarkUserDeleted, DecisionFailed, SetFailed, At
  <2>4. CASE co[w].pc = "check" /\ Goto(w, "record")
    BY <2>1, <2>4, WalkUnspent DEF UnansweredSteps, CarryingSteps
  <2> QED BY <2>1, <2>2, <2>3, <2>4, EndUnspent, WalkUnspent
          DEF UnansweredSteps, AskSteps, EarlySteps, CarryingSteps
<1> QED BY <1>1, <1>2
-----------------------------------------------------------------------------
(* Coroutines that start *)

LEMMA ReceiveUnspent ==
    ASSUME Safe, TypeInv', Unspent, NEW w \in Workers, NEW p \in Ops, NEW m \in Messages,
           Receive(w, p, m), UNCHANGED chainVars
    PROVE  Unspent'
<1>1. /\ At(w, "idle") /\ status[p] = "none"
      /\ UNCHANGED <<status, calls, response, skipped, tasks, mode>>
      /\ UNCHANGED <<local, chain, tokens, minted, signed>>
  BY DEF Receive, chainVars, db, target, setup
<1>2. /\ co'[w].pc \in {"wasRejected", "create"} /\ co'[w].op = p
      /\ \A v \in Workers : v # w => co'[v] = co[v]
  BY DEF Receive, Safe, TypeInv, WorkersOK
<1>3. OnlyTouches(w, p)
  BY <1>1, <1>2, IdleHasNone DEF OnlyTouches, SameLocal
<1>4. OpUnspent(p) /\ Open(p)
  BY <1>1 DEF Unspent, Open
<1>5. ASSUME NEW v \in Workers PROVE Carries(v, p)'
  BY <1>1, <1>2, <1>4 DEF OpUnspent, Carries, CarryingSteps, Required
<1> QED BY <1>1, <1>3, <1>4, <1>5, OtherUnspent DEF OpUnspent

LEMMA AutoApproveUnspent ==
    ASSUME Safe, TypeInv', Unspent, NEW w \in Workers, NEW p \in Ops,
           AutoApprove(w, p), UNCHANGED chainVars
    PROVE  Unspent'
<1>1. /\ At(w, "idle") /\ p \in tasks /\ tasks' = tasks \ {p}
      /\ UNCHANGED <<status, calls, response, skipped, mode>>
      /\ UNCHANGED <<local, chain, tokens, minted, signed>>
  BY DEF AutoApprove, chainVars, db, target, setup
<1>2. /\ co'[w].pc = "check" /\ co'[w].op = p /\ co'[w].yes
      /\ \A v \in Workers : v # w => co'[v] = co[v]
  BY DEF AutoApprove, Decide, Safe, TypeInv, WorkersOK
<1>3. OnlyTouches(w, p)
  BY <1>1, <1>2, IdleHasNone DEF OnlyTouches, SameLocal
<1>4. OpUnspent(p) /\ Open(p) /\ mode = "auto"
  BY <1>1 DEF Unspent, Open, Safe, OpSafe, RecordsSafe
<1>5. ASSUME NEW v \in Workers PROVE Carries(v, p)'
  BY <1>1, <1>2, <1>4 DEF OpUnspent, Carries, Required
<1> QED BY <1>1, <1>3, <1>4, <1>5, OtherUnspent DEF OpUnspent

LEMMA ClickUnspent ==
    ASSUME Safe, TypeInv', Unspent, NEW w \in Workers, NEW t \in tokens, NEW yes \in BOOLEAN,
           Click(w, t, yes)
    PROVE  Unspent'
<1> DEFINE p == t[1]
<1>1. t \in Tokens /\ p \in Ops /\ tokens \subseteq Tokens
  BY DEF Safe, TypeInv, KeysOK, Tokens
<1>2. /\ At(w, "idle") /\ tokens' = tokens \ {t}
      /\ local'  = [local EXCEPT ![w] = [index |-> 0, token |-> t]]
      /\ co'     = [co EXCEPT ![w] = [pc |-> "readChain", op |-> p, msg |-> None,
                                      by |-> "chain", yes |-> yes]]
      /\ UNCHANGED <<status, calls, response, skipped, tasks, mode, chain, minted, signed>>
  BY DEF Click, db, target, setup
<1>3. /\ co'[w].pc = "readChain" /\ co'[w].op = p /\ local'[w].token = t
      /\ \A v \in Workers : v # w => co'[v] = co[v] /\ local'[v] = local[v]
  BY <1>2 DEF Safe, TypeInv, WorkersOK
<1>4. OnlyTouches(w, p)
  BY <1>2, <1>3, IdleHasNone DEF OnlyTouches, SameLocal
<1> HIDE DEF p
<1>5. OpUnspent(p)
  BY <1>1 DEF Unspent
<1>6. Open(p)' => Open(p)
  <2>1. HoldsLink(w)' => LiveLink(p)
    BY <1>2, <1>3 DEF HoldsLink, LiveLink, At
  <2>2. Asks(w, p)' => LiveLink(p)
    BY <1>3, <2>1 DEF Asks, UnansweredSteps, AskSteps, EarlySteps
  <2>3. \A v \in Workers : v # w => (Asks(v, p)' => Asks(v, p))
    BY <1>2, <1>3 DEF Asks, HoldsLink, At
  <2> QED BY <1>2, <2>2, <2>3 DEF Open, LiveLink
<1>7. ASSUME NEW v \in Workers PROVE Carries(v, p)'
  BY <1>2, <1>3, <1>5 DEF OpUnspent, Carries, CarryingSteps, Required
<1> QED BY <1>1, <1>2, <1>4, <1>5, <1>6, <1>7, OtherUnspent DEF OpUnspent

-----------------------------------------------------------------------------
(* Steps of the chain *)

\* A coroutine that asks, and stores the chain or its link: nothing is answered.
LEMMA AskingUnspent ==
    ASSUME Safe, TypeInv', Unspent, NEW w \in Workers, NEW p \in Ops, p = co[w].op,
           co[w].pc \in UnansweredSteps, OnlyTouches(w, p),
           UNCHANGED <<response, signed, mode>>, co'[w].yes = co[w].yes,
           co'[w].pc \in CarryingSteps => co[w].pc \in CarryingSteps
    PROVE  Unspent'
<1>1. OpUnspent(p) /\ Open(p) /\ p # None /\ Required' = Required
  BY OrchestratorAssumption DEF Unspent, Open, Asks, Required
<1>2. ASSUME NEW v \in Workers PROVE Carries(v, p)'
  BY <1>1 DEF OpUnspent, Carries, OnlyTouches
<1> QED BY <1>1, <1>2, OtherUnspent DEF OpUnspent

LEMMA StoreChainUnspent ==
    ASSUME Safe, TypeInv', Unspent, NEW w \in Workers, StoreChain(w)
    PROVE  Unspent'
<1>1. PICK p \in Ops : p = co[w].op
  BY Facts DEF StoreChain, At
<1>2. /\ co[w].pc \in {"approvalSend", "nextLevel"} /\ Goto(w, "storeToken")
      /\ \A v \in Workers : v # w => local'[v] = local[v]
      /\ \A o \in Ops : o # p => chain'[o] = chain[o] /\ minted'[o] = minted[o]
      /\ UNCHANGED <<status, response, skipped, calls, tasks, mode, tokens, signed>>
  BY <1>1 DEF StoreChain, At, Writes, db, target, setup, Safe, TypeInv, KeysOK, WorkersOK
<1>3. /\ co'[w].pc = "storeToken" /\ co'[w].op = p /\ co'[w].yes = co[w].yes
      /\ \A v \in Workers : v # w => co'[v] = co[v]
  BY <1>1, <1>2, Walks DEF Safe
<1>4. OnlyTouches(w, p)
  BY <1>1, <1>2, <1>3 DEF OnlyTouches, SameLocal
<1>5. co[w].pc \in UnansweredSteps /\ co'[w].pc \notin CarryingSteps
  BY <1>2, <1>3 DEF UnansweredSteps, AskSteps, CarryingSteps
<1> QED BY <1>1, <1>2, <1>3, <1>4, <1>5, AskingUnspent

LEMMA StoreDecisionTokenUnspent ==
    ASSUME Safe, TypeInv', Unspent, NEW w \in Workers, StoreDecisionToken(w)
    PROVE  Unspent'
<1>1. PICK p \in Ops : p = co[w].op /\ StepSafe(w, p)
  BY Facts DEF StoreDecisionToken, At
<1>2. /\ co[w].pc = "storeToken" /\ Goto(w, "sendEmail")
      /\ tokens' \in {tokens \cup {local[w].token}, tokens}
      /\ UNCHANGED <<status, response, skipped, calls, tasks, mode, chain, minted, local, signed>>
  BY DEF StoreDecisionToken, At, Writes, db, target, setup
<1>3. /\ co'[w].pc = "sendEmail" /\ co'[w].op = p /\ co'[w].yes = co[w].yes
      /\ \A v \in Workers : v # w => co'[v] = co[v]
  BY <1>1, <1>2, Walks DEF Safe
<1>4. local[w].token[1] = p
  BY <1>1, <1>2 DEF StepSafe, At
<1>5. OnlyTouches(w, p)
  <2>1. \A o \in Ops : o # p => \A t \in Tokens : t[1] = o => (t \in tokens' <=> t \in tokens)
    BY <1>2, <1>4
  <2> QED BY <1>1, <1>2, <1>3, <2>1 DEF OnlyTouches, SameLocal
<1>6. co[w].pc \in UnansweredSteps /\ co'[w].pc \notin CarryingSteps
  BY <1>2, <1>3 DEF UnansweredSteps, CarryingSteps
<1> QED BY <1>1, <1>2, <1>3, <1>5, <1>6, AskingUnspent

LEMMA CleanupUnspent ==
    ASSUME Safe, TypeInv', Unspent, NEW w \in Workers, Cleanup(w)
    PROVE  Unspent'
<1>1. PICK p \in Ops : p = co[w].op /\ StepSafe(w, p)
  BY Facts DEF Cleanup, At
<1>2. /\ co[w].pc = "cleanup" /\ Goto(w, "check")
      /\ \A o \in Ops : o # p => chain'[o] = chain[o]
      /\ tokens' \in {tokens \ {local[w].token}, tokens}
      /\ \A v \in Workers : v # w => local'[v] = local[v]
      /\ UNCHANGED <<status, response, skipped, calls, tasks, mode, minted, signed>>
  BY <1>1 DEF Cleanup, At, Writes, db, target, setup, Safe, TypeInv, KeysOK, WorkersOK
<1>3. /\ co'[w].pc = "check" /\ co'[w].op = p /\ co'[w].yes = co[w].yes
      /\ \A v \in Workers : v # w => co'[v] = co[v]
  BY <1>1, <1>2, Walks DEF Safe
<1>4. local[w].token[1] = p
  BY <1>1, <1>2 DEF StepSafe, At
<1>5. OnlyTouches(w, p)
  <2>1. \A o \in Ops : o # p => \A t \in Tokens : t[1] = o => (t \in tokens' <=> t \in tokens)
    BY <1>2, <1>4
  <2> QED BY <1>1, <1>2, <1>3, <2>1 DEF OnlyTouches, SameLocal
<1>6. co[w].pc \in UnansweredSteps /\ co[w].pc \in CarryingSteps
  BY <1>2 DEF UnansweredSteps, CarryingSteps
<1> QED BY <1>1, <1>2, <1>3, <1>5, <1>6, AskingUnspent

\* A valid link is followed: p is open, the levels before have signed, and the
\* step is the approver's signature or a refusal.
ValidRead(w, p, ch) ==
    /\ ch # None /\ ch.token = local[w].token
    /\ local'  = [local EXCEPT ![w] = ch]
    /\ signed' = IF co[w].yes THEN [signed EXCEPT ![p] = @ \cup {ch.index}] ELSE signed
    /\ Goto(w, AfterSignature(co[w].yes, ch.index))

LEMMA ReadCases ==
    ASSUME Safe, NEW w \in Workers, ReadChain(w), NEW p \in Ops, p = co[w].op
    PROVE  /\ UNCHANGED <<status, response, skipped, calls, tasks, mode>>
           /\ UNCHANGED <<chain, tokens, minted>>
           /\ ~At(w, "idle")
           /\ \/ /\ local' = [local EXCEPT ![w] = None] /\ Finish(w) /\ UNCHANGED signed
              \/ ValidRead(w, p, chain[p])
BY DEF ReadChain, Reads, ValidRead, At, db, target, setup

LEMMA ValidReadFacts ==
    ASSUME Safe, Unspent, NEW w \in Workers, ReadChain(w),
           NEW p \in Ops, p = co[w].op, ValidRead(w, p, chain[p])
    PROVE  /\ HasPower(w, p) /\ Open(p) /\ response[p] = "none"
           /\ mode = "email" /\ Required = Levels
           /\ chain[p].index \in 0 .. Levels - 1
           /\ signed[p] = 0 .. chain[p].index - 1
           /\ signed' = IF co[w].yes THEN [signed EXCEPT ![p] = 0 .. chain[p].index] ELSE signed
<1>1. HoldsLink(w)
  BY DEF HoldsLink, ReadChain, ValidRead, At
<1>2. HasPower(w, p) /\ Asks(w, p)
  BY <1>1 DEF HasPower, Asks
<1>3. /\ chain[p] \in Chains /\ signed \in [Ops -> SUBSET Indexes] /\ chain[p] # None
  BY DEF Safe, TypeInv, KeysOK, ValidRead
<1>4. signed[p] = 0 .. chain[p].index - 1 /\ mode = "email"
  BY <1>1, <1>3 DEF Safe, OpSafe, StepSafe, RecordsSafe
<1>5. chain[p].index \in 0 .. Levels - 1 /\ Required = Levels
  BY <1>3, <1>4 DEF Chains, Indexes, Required
<1>6. (0 .. chain[p].index - 1) \cup {chain[p].index} = 0 .. chain[p].index
  BY <1>5, ChainAssumption
<1>7. Open(p) /\ response[p] = "none"
  BY <1>2 DEF Open, Unspent, OpUnspent
<1> QED BY <1>2, <1>3, <1>4, <1>5, <1>6, <1>7 DEF ValidRead

LEMMA ReadChainUnspent ==
    ASSUME Safe, TypeInv', Unspent, NEW w \in Workers, ReadChain(w)
    PROVE  Unspent'
<1>1. PICK p \in Ops : p = co[w].op
  BY Facts DEF ReadChain, At
<1>2. /\ UNCHANGED <<status, response, skipped, calls, tasks, mode>>
      /\ UNCHANGED <<chain, tokens, minted>> /\ ~At(w, "idle")
  BY <1>1, ReadCases
<1>3. CASE local' = [local EXCEPT ![w] = None] /\ Finish(w) /\ UNCHANGED signed
  <2>1. Plain(w)
    BY <1>2, <1>3 DEF Plain, SameLocal, Safe, TypeInv, WorkersOK
  <2> QED BY <1>2, <1>3, <2>1, EndUnspent
<1>4. CASE ValidRead(w, p, chain[p])
  <2>1. /\ HasPower(w, p) /\ response[p] = "none" /\ mode = "email" /\ Required = Levels
        /\ chain[p].index \in 0 .. Levels - 1 /\ signed[p] = 0 .. chain[p].index - 1
        /\ signed' = IF co[w].yes THEN [signed EXCEPT ![p] = 0 .. chain[p].index] ELSE signed
    BY <1>1, <1>4, ValidReadFacts
  <2>2. \A v \in Workers : v # w => ~HasPower(v, p)
    BY <2>1, NobodyElse
  <2>3. /\ \A v \in Workers : v # w => co'[v] = co[v] /\ local'[v] = local[v]
        /\ co'[w].op = p /\ co'[w].yes = co[w].yes
    BY <1>1, <1>4, Walks DEF ValidRead, Safe, TypeInv, WorkersOK
  <2>4. OnlyTouches(w, p)
    BY <1>1, <1>2, <2>1, <2>3 DEF OnlyTouches, SameLocal, Safe, TypeInv, KeysOK
  <2>5. ASSUME NEW v \in Workers PROVE Carries(v, p)'
    <3>1. CASE v # w
      BY <2>2, <2>3, <3>1 DEF Carries, CarryingSteps, HasPower, PowerSteps, VerdictSteps
    <3>2. CASE v = w
      <4>1. chain[p].index \notin 0 .. chain[p].index - 1
        BY <2>1, ChainAssumption
      <4>2. ~co[w].yes => signed'[p] # 0 .. Required - 1
        BY <2>1, <4>1
      <4> QED BY <1>2, <2>1, <2>3, <3>2, <4>2 DEF Carries, Required
    <3> QED BY <3>1, <3>2
  <2> QED BY <1>2, <2>1, <2>4, <2>5, OtherUnspent
<1> QED BY <1>1, <1>3, <1>4, ReadCases

LEMMA ChainStepUnspent ==
    ASSUME Safe, TypeInv', Unspent, NEW w \in Workers, ChainStep(w)
    PROVE  Unspent'
<1>1. CASE SendEmail(w)
  <2>1. Plain(w) /\ ~At(w, "idle")
    BY <1>1 DEF SendEmail, At, Plain, SameLocal, Safe, TypeInv, WorkersOK, db, setup
  <2>2. Finish(w) \/ \E step \in {"approvalId", "approvalFail"} : Goto(w, step)
    BY <1>1 DEF SendEmail
  <2> QED BY <2>1, <2>2, EndUnspent, WalkUnspent
          DEF UnansweredSteps, AskSteps, EarlySteps, CarryingSteps
<1>2. CASE ReturnFromDecision(w)
  <2>1. co[w].pc = "return" /\ co[w].by # "callback"
    BY <1>2, Facts DEF ReturnFromDecision, At, StepSafe
  <2>2. Finish(w) /\ Plain(w) /\ ~At(w, "idle")
    BY <1>2, <2>1 DEF ReturnFromDecision, At, Plain, SameLocal, chainVars, db, setup
  <2> QED BY <2>2, EndUnspent
\* Only the approve-callback endpoint looks for the chain.
<1>3. ~(FindChain(w) \/ DropToken(w) \/ DropChain(w))
  BY Facts DEF FindChain, DropToken, DropChain, At, StepSafe
<1> QED BY <1>1, <1>2, <1>3, StoreChainUnspent, StoreDecisionTokenUnspent, ReadChainUnspent,
           CleanupUnspent DEF ChainStep
-----------------------------------------------------------------------------
(* Faults *)

\* What is lost opens nothing.
LEMMA LossUnspent ==
    ASSUME Safe, Unspent,
           \A v \in Workers : \/ co'[v] = Idle
                              \/ /\ co'[v] = co[v]
                                 /\ local'[v] = local[v] \/ co[v].op = None,
           tasks' \subseteq tasks, tokens' \subseteq tokens,
           \A o \in Ops : chain'[o] \in {chain[o], None},
           UNCHANGED <<status, response, signed, mode>>
    PROVE  Unspent'
<1> SUFFICES ASSUME NEW o \in Ops PROVE OpUnspent(o)'
  BY DEF Unspent
<1>1. OpUnspent(o) /\ o # None /\ Required' = Required
  BY OrchestratorAssumption DEF Unspent, Required
<1>2. ASSUME NEW v \in Workers
      PROVE  co'[v].op # o \/ (co'[v] = co[v] /\ local'[v] = local[v])
  BY <1>1 DEF Idle
<1>3. ASSUME NEW v \in Workers, Asks(v, o)' PROVE Asks(v, o)
  BY <1>2, <1>3 DEF Asks, HoldsLink, At
<1>4. Open(o)' => Open(o)
  BY <1>3 DEF Open, LiveLink
<1>5. ASSUME NEW v \in Workers PROVE Carries(v, o)'
  BY <1>1, <1>2 DEF OpUnspent, Carries
<1> QED BY <1>1, <1>4, <1>5 DEF OpUnspent

LEMMA FaultUnspent ==
    ASSUME Safe, TypeInv', Unspent, OrchestratorFault
    PROVE  Unspent'
<1>1. ForgetLocal /\ UNCHANGED <<chain, tokens, minted, signed>>
  BY DEF OrchestratorFault
<1>2. ASSUME NEW w \in Workers, DbError(w) PROVE Unspent'
  <2>1. /\ co[w].pc \in DbSteps /\ ~At(w, "idle")
        /\ UNCHANGED <<db, redis, target, tasks, setup>>
    BY <1>2 DEF DbError, At, DbSteps
  <2>2. Plain(w)
    <3>1. Idle.op = None /\ \A v \in Workers : v # w => co'[v] = co[v]
      BY <1>2 DEF Idle, DbError, Finish, Goto, Safe, TypeInv, WorkersOK
    <3> QED BY <1>1, <2>1, <3>1 DEF Plain, SameLocal, ForgetLocal, db, setup
  <2>3. CASE Finish(w)
    BY <2>1, <2>2, <2>3, EndUnspent
  <2>4. ASSUME NEW step, step = AfterDbError(co[w].pc, co[w].by), Goto(w, step),
               step # "idle"
        PROVE  Unspent'
    <3>1. /\ step # "readChain" /\ step \notin CarryingSteps
          /\ step \in UnansweredSteps => co[w].pc \in UnansweredSteps
      BY <2>1, <2>4
         DEF AfterDbError, DbSteps, UnansweredSteps, AskSteps, EarlySteps, CarryingSteps
    <3> QED BY <2>1, <2>2, <2>4, <3>1, WalkUnspent
  <2> QED BY <1>2, <2>3, <2>4 DEF DbError
<1>3. ASSUME \A v \in Workers : co'[v] \in {Idle, co[v]} PROVE
        \A v \in Workers : \/ co'[v] = Idle
                           \/ /\ co'[v] = co[v]
                              /\ local'[v] = local[v] \/ co[v].op = None
  BY <1>1, <1>3 DEF ForgetLocal, Idle
<1>4. CASE ConsumerCrash \/ ApiCrash
  <2>1. /\ \A v \in Workers : co'[v] \in {Idle, co[v]}
        /\ tasks' \subseteq tasks /\ UNCHANGED <<db, redis, target, setup>>
    BY <1>4 DEF ConsumerCrash, ApiCrash
  <2> QED BY <1>1, <1>3, <2>1, LossUnspent DEF db, setup
<1>5. ASSUME NEW o \in Ops, PendingExpires(o) PROVE Unspent'
  <2>1. UNCHANGED <<db, target, tasks, co, setup>>
    BY <1>5 DEF PendingExpires
  <2> QED BY <1>1, <1>3, <2>1, LossUnspent DEF db, setup
<1> QED BY <1>2, <1>4, <1>5 DEF OrchestratorFault, FaultStep

-----------------------------------------------------------------------------

LEMMA InitialUnspent == ChainInit => Unspent
<1> SUFFICES ASSUME ChainInit, NEW o \in Ops PROVE OpUnspent(o)
  BY DEF Unspent
<1>1. response[o] = "none" /\ \A w \in Workers : co[w].op # o
  BY OrchestratorAssumption DEF ChainInit, Init, Idle
<1> QED BY <1>1 DEF OpUnspent, Carries

LEMMA NextUnspent ==
    ASSUME ~Callbacks, Safe, Unspent, [ChainNext]_vars
    PROVE  Unspent'
<1>t. TypeInv'
  BY NextTypes DEF Safe
<1>1. ASSUME NEW w \in Workers, NEW o \in Ops, NEW m \in Messages,
             Receive(w, o, m), UNCHANGED chainVars
      PROVE  Unspent'
  BY <1>t, <1>1, ReceiveUnspent
<1>2. ASSUME NEW w \in Workers, ChainWorkerStep(w) PROVE Unspent'
  BY <1>t, <1>2, ChainStepUnspent, MessageStepUnspent, ProvisionStepUnspent,
     DecisionStepUnspent DEF ChainWorkerStep, WorkerStep
<1>3. ASSUME NEW o \in Ops, AutoApproval(o) PROVE Unspent'
  BY <1>t, <1>3, AutoApproveUnspent DEF AutoApproval
<1>4. ASSUME NEW w \in Workers, NEW t \in tokens, NEW yes \in BOOLEAN, Click(w, t, yes)
      PROVE  Unspent'
  BY <1>t, <1>4, ClickUnspent
<1>5. CASE OrchestratorFault
  BY <1>t, <1>5, FaultUnspent
<1>6. CASE (\E o \in Ops : ChainExpires(o)) \/ (\E t \in tokens : TokenExpires(t))
  <2>1. /\ UNCHANGED <<orchVars, local, signed>> /\ tokens' \subseteq tokens
        /\ \A o \in Ops : chain'[o] \in {chain[o], None}
    BY <1>6 DEF ChainExpires, TokenExpires, Safe, TypeInv, KeysOK
  <2> QED BY <2>1, LossUnspent DEF orchVars, db, setup
<1>7. CASE UNCHANGED vars
  BY <1>7, LossUnspent DEF vars, orchVars, chainVars, db, setup
<1> QED BY <1>1, <1>2, <1>3, <1>4, <1>5, <1>6, <1>7 DEF ChainNext

-----------------------------------------------------------------------------
(* Every step signs, concludes, calls the target or stutters *)

Stutters == UNCHANGED <<response, calls, signed, mode>>

LEMMA StutterKeepsPromise == Stutters => UNCHANGED Promise!promiseVars
BY DEF Stutters, Promise!promiseVars, Required, Verdict

\* The request of an approver who says yes signs the level of its link.
LEMMA ReadSigns ==
    ASSUME Safe, Unspent, NEW w \in Workers, ReadChain(w)
    PROVE  Promise!Next \/ Stutters
<1>1. PICK p \in Ops : p = co[w].op
  BY Facts DEF ReadChain, At
<1>2. UNCHANGED <<response, calls, mode>>
  BY <1>1, ReadCases
<1>3. CASE ValidRead(w, p, chain[p]) /\ co[w].yes
  <2> DEFINE l == chain[p].index
  <2>1. /\ response[p] = "none" /\ mode = "email" /\ Required = Levels
        /\ l \in 0 .. Levels - 1 /\ signed[p] = 0 .. l - 1
        /\ signed' = [signed EXCEPT ![p] = 0 .. l]
    BY <1>1, <1>3, ValidReadFacts
  <2>2. Promise!Sign(p)
    BY <1>2, <2>1 DEF Promise!Sign, Required, Verdict
  <2> QED BY <2>2 DEF Promise!Next
<1>4. CASE UNCHANGED signed
  BY <1>2, <1>4 DEF Stutters
<1> QED BY <1>1, <1>3, <1>4, ReadCases DEF ValidRead

\* The answer is recorded: approved after the last signature, rejected before.
LEMMA ResponseConcludes ==
    ASSUME Safe, Unspent, NEW w \in Workers, StoreResponse(w), UNCHANGED chainVars
    PROVE  Promise!Next
<1>1. PICK p \in Ops : p = co[w].op /\ StepSafe(w, p)
  BY Facts DEF StoreResponse, At
<1>2. /\ co[w].pc = "record" /\ UNCHANGED <<calls, signed, mode>>
      /\ response' = [response EXCEPT ![p] = IF co[w].yes THEN "approved" ELSE "rejected"]
  BY <1>1 DEF StoreResponse, At, target, setup, chainVars
<1>3. response[p] = "none" /\ mode # "off"
      /\ (~co[w].yes => signed[p] # 0 .. Required - 1)
  BY <1>1, <1>2 DEF Unspent, OpUnspent, Open, Asks, UnansweredSteps, Carries, CarryingSteps
<1>4. co[w].yes => signed[p] = 0 .. Required - 1
  BY <1>1, <1>2 DEF StepSafe, VerdictSteps
<1>5. Promise!Conclude(p)
  BY <1>2, <1>3, <1>4 DEF Promise!Conclude, Required, Verdict
<1> QED BY <1>5 DEF Promise!Next

LEMMA ExecuteProvisions ==
    ASSUME Safe, NEW w \in Workers, Execute(w), UNCHANGED chainVars
    PROVE  Promise!Next
<1>1. PICK p \in Ops : p = co[w].op /\ StepSafe(w, p)
  BY Facts DEF Execute, At
<1>2. /\ co[w].pc = "execute" /\ UNCHANGED <<response, signed, mode>>
      /\ calls' = [calls EXCEPT ![p] = @ + 1]
  BY <1>1 DEF Execute, At, db, setup, chainVars
<1>3. HasPower(w, p) /\ (mode # "off" => response[p] = "approved")
  BY <1>1, <1>2 DEF HasPower, PowerSteps, StepSafe, TargetSteps
<1>4. calls[p] = 0 /\ calls' = [calls EXCEPT ![p] = 1]
  <2>1. calls[p] = 0 /\ calls \in [Ops -> Nat]
    BY <1>3, NobodyElse DEF Safe, TypeInv, TargetOK
  <2> QED BY <1>2, <2>1
<1>5. Promise!Provision(p)
  BY <1>2, <1>3, <1>4 DEF Promise!Provision, Required, Verdict
<1> QED BY <1>5 DEF Promise!Next

LEMMA WorkerKeepsPromise ==
    ASSUME Safe, Unspent, NEW w \in Workers, ChainWorkerStep(w)
    PROVE  Promise!Next \/ Stutters
<1>1. CASE ChainStep(w) /\ ~ReadChain(w)
  BY <1>1 DEF ChainStep, StoreChain, StoreDecisionToken, SendEmail, Cleanup,
     ReturnFromDecision, FindChain, DropToken, DropChain, chainVars, db, target, setup, Stutters
<1>2. CASE MessageStep(w) /\ UNCHANGED chainVars
  BY <1>2 DEF MessageStep, ConvertRejected, ConvertDeleted, ConvertUpdate, CreateOperation,
     RecheckRejected, SkipDelete, ClearSkippedMarker, CheckDiff, CheckDuplicate,
     MarkValidated, SetApprovalPending, AddPendingApproval, StoreRequestId,
     StartAutoApproval, ApprovalRequestFailed, HandleError, chainVars, db, target, setup, Stutters
<1>3. CASE ProvisionStep(w) /\ UNCHANGED chainVars /\ ~Execute(w)
  BY <1>3 DEF ProvisionStep, SetProcessing, SetSuccess, AfterProvisioning,
     chainVars, db, target, setup, Stutters
<1>4. CASE DecisionStep(w) /\ UNCHANGED chainVars /\ ~StoreResponse(w)
  BY <1>4 DEF DecisionStep, CheckStatus, SetApproved, SetRejected, RemovePending,
     StoreRejectedCreate, ClearRejectedCreate, ClearUserDeleted, StoreUserState,
     DeleteUserState, MarkUserDeleted, DecisionFailed, SetFailed,
     chainVars, db, target, setup, Stutters
<1> QED BY <1>1, <1>2, <1>3, <1>4, ReadSigns, ResponseConcludes, ExecuteProvisions
        DEF ChainWorkerStep, WorkerStep

LEMMA NextKeepsPromise ==
    ASSUME ~Callbacks, Safe, Unspent, [ChainNext]_vars
    PROVE  [Promise!Next]_Promise!promiseVars
<1>1. ASSUME NEW w \in Workers, NEW o \in Ops, NEW m \in Messages,
             Receive(w, o, m), UNCHANGED chainVars
      PROVE  Stutters
  BY <1>1 DEF Receive, chainVars, db, target, setup, Stutters
<1>2. ASSUME NEW o \in Ops, AutoApproval(o) PROVE Stutters
  BY <1>2 DEF AutoApproval, AutoApprove, chainVars, db, target, setup, Stutters
<1>3. ASSUME NEW w \in Workers, NEW t \in tokens, NEW yes \in BOOLEAN, Click(w, t, yes)
      PROVE  Stutters
  BY <1>3 DEF Click, db, target, setup, Stutters
<1>4. OrchestratorFault => Stutters
  BY DEF OrchestratorFault, FaultStep, DbError, ConsumerCrash, ApiCrash, PendingExpires,
         db, target, setup, Stutters
<1>5. (\E o \in Ops : ChainExpires(o)) \/ (\E t \in tokens : TokenExpires(t)) => Stutters
  BY DEF ChainExpires, TokenExpires, orchVars, db, target, setup, Stutters
<1>6. UNCHANGED vars => Stutters
  BY DEF vars, orchVars, chainVars, db, target, setup, Stutters
<1> QED BY <1>1, <1>2, <1>3, <1>4, <1>5, <1>6, WorkerKeepsPromise, StutterKeepsPromise
        DEF ChainNext

LEMMA InitialPromise == ChainInit => Promise!Init
<1> SUFFICES ASSUME ChainInit PROVE Promise!Init
  OBVIOUS
<1>1. /\ response = [o \in Ops |-> "none"] /\ calls = [o \in Ops |-> 0]
      /\ signed = [o \in Ops |-> {}]
  BY DEF ChainInit, Init
<1>2. Required \in Nat
  BY ChainAssumption DEF Required
<1> QED BY <1>1, <1>2 DEF Promise!Init, Verdict

\* In a deployment that does not use approve-callback beside the links, and
\* whatever fails, the chain of emails with the orchestrator is the promised
\* workflow: levels sign in order, one refusal ends it, the answer is recorded
\* once, and the target is called at most once, after the last signature.
THEOREM ChainKeepsPromise ==
    ASSUME ~Callbacks
    PROVE  ChainSpec => PromiseKept
<1>1. Unspent /\ Safe /\ [ChainNext]_vars => Unspent'
  BY NextUnspent
<1>2. ChainSpec => []Unspent
  BY <1>1, InitialUnspent, AlwaysSafe, PTL DEF ChainSpec
<1>3. Safe /\ Unspent /\ [ChainNext]_vars => [Promise!Next]_Promise!promiseVars
  BY NextKeepsPromise
<1> QED BY <1>2, <1>3, InitialPromise, AlwaysSafe, PTL DEF ChainSpec, PromiseKept, Promise!Spec

-----------------------------------------------------------------------------
(* The snapshots.  While decisions are taken one at a time and nothing     *)
(* fails, a snapshot differs from its account only between the call of the *)
(* target and the write of the snapshot: the argument says what the        *)
(* coroutine of the decision holds there, and that no message can change   *)
(* the row it reads.                                                       *)

Calm == faults = {} /\ mode # "off"

\* The steps of process_message with approvals.
MessengerSteps == AskSteps \cup {"idle", "skipDelete", "clearSkipped", "storeToken", "sendEmail",
                                 "approvalId", "approvalFail", "messageFail"}

\* The steps of a decision: before it has looked at the status, and after.
CallSteps     == {"idle", "readChain", "nextLevel", "storeToken", "sendEmail", "cleanup", "check",
                  "return", "findChain", "dropToken", "dropChain", "decisionFail"}
RecordedSteps == {"record", "processing", "reject", "unpend", "provision", "execute", "succeed",
                  "audited", "fail"} \cup MarkerSteps

\* A coroutine that writes a row for the first time is the only one at work on it.
Messenger(w) ==
    /\ co[w].pc \in MessengerSteps
    /\ ~At(w, "idle") => co[w].by = "consumer"
    /\ co[w].pc \in EarlySteps => status[co[w].op] = "none"

Apart == \A v, w \in Consumers : v # w /\ co[v].op \in Ops => co[w].op # co[v].op

\* A decision that goes on works on a row, and with the message of that row.
Decision(w) ==
    /\ co[w].pc \in CallSteps \cup RecordedSteps
    /\ ~At(w, "idle") => co[w].by # "consumer"
    /\ co[w].pc \in RecordedSteps => status[co[w].op] # "none"
    /\ co[w].pc \in TargetSteps => co[w].msg = orig[co[w].op]

\* The target was called, the snapshot is not written yet.
LagSteps == {"succeed", "audited", "clearRejected", "clearDeleted", "storeState", "dropState"}

Lags(w) ==
    /\ account = [snapshot EXCEPT ![orig[co[w].op].acct] = Provisioned(orig[co[w].op])]
    /\ co[w].pc \in {"clearRejected", "clearDeleted", "storeState"} =>
         orig[co[w].op].type # "DELETE_USER"
    /\ At(w, "dropState") => orig[co[w].op].type = "DELETE_USER"

Agrees ==
    /\ \A w \in Deciders : co[w].pc \in LagSteps => Lags(w)
    /\ (\A w \in Deciders : co[w].pc \notin LagSteps) => snapshot = account

SnapshotBody ==
    /\ \A w \in Consumers : Messenger(w)
    /\ Apart
    /\ \A w \in Deciders : Decision(w)
    /\ Agrees

SnapshotInv == Calm => SnapshotBody

-----------------------------------------------------------------------------
(* Messages do not disturb decisions *)

LEMMA CalmReads ==
    ASSUME Calm
    PROVE  /\ \A b \in BOOLEAN : Reads(b) = {b}
           /\ \A new, old : Writes(new, old) = {new}
BY DEF Calm, Reads, Writes

\* What a step of process_message leaves alone.
LEMMA MessengerEdge ==
    ASSUME TypeInv, Calm, NEW w \in Consumers, Messenger(w), ChainWorkerStep(w)
    PROVE  /\ Moves(w) /\ UNCHANGED <<account, snapshot>>
           /\ \/ MessageEdge(w) /\ ~To(w, {"provision"})
              \/ At(w, "approvalSend") /\ To(w, {"approvalId"}) /\ Keeps(w)
              \/ From(w, {"approvalSend", "storeToken"}) /\ To(w, {"storeToken", "sendEmail"})
                   /\ Keeps(w)
              \/ At(w, "sendEmail") /\ To(w, {"approvalId", "idle"}) /\ Keeps(w)
           /\ IF At(w, "create") THEN \A o \in Ops : o # co[w].op => orig'[o] = orig[o]
                                 ELSE orig' = orig
<1>w. w \in Workers
  BY DEF Workers
<1>1. CASE MessageStep(w)
  <2>1. UNCHANGED <<account, snapshot>>
    BY <1>1 DEF MessageStep, ConvertRejected, ConvertDeleted, ConvertUpdate, CreateOperation,
         RecheckRejected, SkipDelete, ClearSkippedMarker, CheckDiff, CheckDuplicate,
         MarkValidated, SetApprovalPending, AddPendingApproval, StoreRequestId,
         StartAutoApproval, ApprovalRequestFailed, HandleError, redis, target
  <2>2. IF At(w, "create") THEN \A o \in Ops : o # co[w].op => orig'[o] = orig[o]
                           ELSE orig' = orig
    BY <1>1 DEF TypeInv, DbOK, At,
         MessageStep, ConvertRejected, ConvertDeleted, ConvertUpdate, CreateOperation,
         RecheckRejected, SkipDelete, ClearSkippedMarker, CheckDiff, CheckDuplicate,
         MarkValidated, SetApprovalPending, AddPendingApproval, StoreRequestId,
         StartAutoApproval, ApprovalRequestFailed, HandleError, db
  <2>3. CASE StartAutoApproval(w)
    <3>1. At(w, "approvalSend") /\ Goto(w, "approvalId") /\ Keeps(w)
      BY <2>3 DEF StartAutoApproval, Keeps, db
    <3>2. Moves(w) /\ To(w, {"approvalId"})
      BY <1>w, <3>1, WalkMoves DEF At, To
    <3> QED BY <2>1, <2>2, <3>1, <3>2
  <2>4. CASE ~StartAutoApproval(w)
    <3>1. Moves(w) /\ MessageEdge(w)
      BY <1>w, <1>1, <2>4, MessageEdgeTaken
    <3>2. ~To(w, {"provision"})
      <4>1. CASE At(w, "validate")
        <5>1. Goto(w, "approvalStatus")
          BY <1>1, <4>1 DEF Calm, At, MarkValidated,
             MessageStep, ConvertRejected, ConvertDeleted, ConvertUpdate, CreateOperation,
             RecheckRejected, SkipDelete, ClearSkippedMarker, CheckDiff, CheckDuplicate,
             SetApprovalPending, AddPendingApproval, StoreRequestId, StartAutoApproval,
             ApprovalRequestFailed, HandleError
        <5> QED BY <1>w, <5>1, Walks DEF To
      <4>2. CASE ~At(w, "validate")
        BY <3>1, <4>2 DEF MessageEdge, To
      <4> QED BY <4>1, <4>2
    <3> QED BY <2>1, <2>2, <3>1, <3>2
  <2> QED BY <2>3, <2>4
<1>2. CASE ProvisionStep(w)
  BY <1>2 DEF ProvisionStep, SetProcessing, Execute, SetSuccess, AfterProvisioning, At,
              Messenger, MessengerSteps, AskSteps, EarlySteps
<1>3. CASE DecisionStep(w)
  BY <1>3 DEF DecisionStep, CheckStatus, StoreResponse, SetApproved, SetRejected, RemovePending,
         StoreRejectedCreate, ClearRejectedCreate, ClearUserDeleted, StoreUserState,
         DeleteUserState, MarkUserDeleted, DecisionFailed, SetFailed, At,
         Messenger, MessengerSteps, AskSteps, EarlySteps
<1>4. CASE StoreChain(w) \/ StoreDecisionToken(w)
  <2>1. /\ UNCHANGED <<account, snapshot, orig>> /\ Keeps(w)
        /\ From(w, {"approvalSend", "storeToken"}) /\ ~At(w, "create")
        /\ Goto(w, "storeToken") \/ Goto(w, "sendEmail")
    BY <1>4 DEF StoreChain, StoreDecisionToken, From, At, Keeps, db, redis, target,
                Messenger, MessengerSteps, AskSteps, EarlySteps
  <2>2. Moves(w) /\ To(w, {"storeToken", "sendEmail"})
    BY <1>w, <2>1, WalkMoves DEF From, At, To
  <2> QED BY <2>1, <2>2
<1>5. CASE SendEmail(w)
  <2>1. /\ UNCHANGED <<account, snapshot, orig>> /\ Keeps(w)
        /\ At(w, "sendEmail") /\ ~At(w, "create")
        /\ Goto(w, "approvalId") \/ Finish(w)
    BY <1>5 DEF SendEmail, Calm, At, Keeps, db, redis, target
  <2>2. Moves(w) /\ To(w, {"approvalId", "idle"})
    BY <1>w, <2>1, WalkMoves, EndMoves DEF At, To
  <2> QED BY <2>1, <2>2
<1>6. CASE ReadChain(w) \/ Cleanup(w) \/ ReturnFromDecision(w) \/ FindChain(w) \/ DropToken(w)
           \/ DropChain(w)
  BY <1>6 DEF ReadChain, Cleanup, ReturnFromDecision, FindChain, DropToken, DropChain, At,
              Messenger, MessengerSteps, AskSteps, EarlySteps
<1> QED BY <1>1, <1>2, <1>3, <1>4, <1>5, <1>6 DEF ChainWorkerStep, ChainStep, WorkerStep

\* A row that exists is not written anew, and stays.
LEMMA MessengerRows ==
    ASSUME TypeInv, Calm, NEW w \in Consumers, Messenger(w), ChainWorkerStep(w)
    PROVE  /\ \A o \in Ops : status[o] # "none" => status'[o] # "none" /\ orig'[o] = orig[o]
           /\ \A o \in Ops : o # co[w].op => status'[o] = status[o]
           /\ Messenger(w)'
<1>t. co[w].op \in Ops /\ status \in [Ops -> Statuses \cup {"none"}]
  BY MessengerEdge DEF Moves, TypeInv, DbOK
<1>s. ASSUME NEW s \in Statuses, Becomes(w, s)
      PROVE  /\ \A o \in Ops : o # co[w].op => status'[o] = status[o]
             /\ \A o \in Ops : status[o] # "none" => status'[o] # "none"
  BY <1>t, <1>s DEF Becomes, SetStatus, Statuses
<1>1. \/ Keeps(w)
      \/ \E s \in Statuses : Becomes(w, s)
  BY MessengerEdge DEF MessageEdge, Statuses
<1>2. /\ \A o \in Ops : o # co[w].op => status'[o] = status[o]
      /\ \A o \in Ops : status[o] # "none" => status'[o] # "none"
  BY <1>1, <1>s DEF Keeps
<1>3. \A o \in Ops : status[o] # "none" => orig'[o] = orig[o]
  BY MessengerEdge DEF Messenger, At, EarlySteps
<1>4. Messenger(w)'
  <2>1. CASE co'[w] = Idle
    BY <2>1 DEF Messenger, Idle, At, MessengerSteps, EarlySteps
  <2>2. CASE co'[w] # Idle
    <3>1. co'[w].by = "consumer" /\ co'[w].op = co[w].op
      BY <2>2, MessengerEdge DEF Moves, Messenger
    <3>2. co'[w].pc \in MessengerSteps
      BY MessengerEdge
         DEF MessageEdge, To, From, At, MessengerSteps, AskSteps, EarlySteps
    <3>3. co'[w].pc \in EarlySteps => co[w].pc \in EarlySteps /\ Keeps(w)
      BY MessengerEdge DEF MessageEdge, To, From, At, EarlySteps
    <3> QED BY <3>1, <3>2, <3>3 DEF Messenger, Keeps
  <2> QED BY <2>1, <2>2
<1> QED BY <1>2, <1>3, <1>4

LEMMA MessengerSnapshots ==
    ASSUME TypeInv, Calm, SnapshotBody, NEW w \in Consumers, ChainWorkerStep(w)
    PROVE  SnapshotBody'
<1>1. Messenger(w) /\ w \in Workers /\ w \notin Deciders
  BY OrchestratorAssumption DEF SnapshotBody, Workers
<1>2. /\ ~At(w, "idle") /\ co[w].op \in Ops
      /\ \A v \in Workers : v # w => co'[v] = co[v]
      /\ co'[w] = Idle \/ co'[w].op = co[w].op
      /\ UNCHANGED <<account, snapshot>>
  BY <1>1, MessengerEdge DEF Moves
<1>3. ASSUME NEW v \in Consumers PROVE Messenger(v)'
  <2>1. CASE v = w
    BY <1>1, <2>1, MessengerRows
  <2>2. CASE v # w
    <3>1. co'[v] = co[v] /\ Messenger(v) /\ co[v].op # co[w].op
      BY <1>2, <2>2 DEF SnapshotBody, Apart, Workers
    <3>2. co[v].pc \in EarlySteps => co[v].op \in Ops
      BY Memory DEF EarlySteps, Workers
    <3>3. co[v].pc \in EarlySteps => status'[co[v].op] = status[co[v].op]
      BY <1>1, <3>1, <3>2, MessengerRows
    <3> QED BY <3>1, <3>3 DEF Messenger, At
  <2> QED BY <2>1, <2>2
<1>4. Apart'
  <2>1. None \notin Ops
    BY OrchestratorAssumption
  <2> QED BY <1>2, <2>1 DEF SnapshotBody, Apart, Idle, Workers
<1>5. ASSUME NEW d \in Deciders
      PROVE  /\ co'[d] = co[d] /\ Decision(d)'
             /\ co[d].pc \in RecordedSteps => orig'[co[d].op] = orig[co[d].op]
  <2>1. co'[d] = co[d] /\ Decision(d)
    BY <1>1, <1>2 DEF SnapshotBody, Workers
  <2>2. co[d].pc \in RecordedSteps => co[d].op \in Ops
    BY Memory DEF RecordedSteps, MarkerSteps, Workers
  <2>3. co[d].pc \in RecordedSteps =>
            status'[co[d].op] # "none" /\ orig'[co[d].op] = orig[co[d].op]
    BY <1>1, <2>1, <2>2, MessengerRows DEF Decision
  <2> QED BY <2>1, <2>3 DEF Decision, At, TargetSteps, RecordedSteps
<1>6. Agrees'
  <2>1. ASSUME NEW d \in Deciders, co'[d].pc \in LagSteps PROVE Lags(d)'
    <3>1. co'[d] = co[d] /\ orig'[co[d].op] = orig[co[d].op] /\ Lags(d)
      BY <1>5, <2>1 DEF LagSteps, RecordedSteps, MarkerSteps, SnapshotBody, Agrees
    <3> QED BY <1>2, <3>1 DEF Lags, At, Provisioned
  <2>2. (\A d \in Deciders : co'[d].pc \notin LagSteps) => snapshot' = account'
    BY <1>2, <1>5 DEF SnapshotBody, Agrees
  <2> QED BY <2>1, <2>2 DEF Agrees
<1> QED BY <1>3, <1>4, <1>5, <1>6 DEF SnapshotBody

-----------------------------------------------------------------------------
(* The one decision at work *)

OneDecider == \A v, w \in Deciders : v = w

\* The other coroutines stay, and so do the rows that another one may write first.
LEMMA DecisionKeeps ==
    ASSUME TypeInv, SnapshotBody, OneDecider, NEW w \in Deciders,
           \A v \in Workers : v # w => co'[v] = co[v], orig' = orig,
           \/ status' = status
           \/ co[w].pc \in RecordedSteps /\ \E s \in Statuses : Becomes(w, s),
           Decision(w)',
           IF co'[w].pc \in LagSteps THEN Lags(w)' ELSE snapshot' = account'
    PROVE  SnapshotBody'
<1>1. \A d \in Deciders : d = w
  BY DEF OneDecider
<1>2. ASSUME NEW v \in Consumers PROVE co'[v] = co[v] /\ Messenger(v)'
  <2>1. co'[v] = co[v] /\ Messenger(v)
    BY OrchestratorAssumption DEF Workers, SnapshotBody
  <2>2. ASSUME co[v].pc \in EarlySteps PROVE status'[co[v].op] = "none"
    <3>1. status[co[v].op] = "none" /\ co[v].op \in Ops
      BY <2>1, <2>2, Memory DEF Messenger, EarlySteps, Workers
    <3>2. ASSUME co[w].pc \in RecordedSteps PROVE co[w].op # co[v].op
      BY <3>1, <3>2 DEF SnapshotBody, Decision
    <3> QED BY <3>1, <3>2 DEF Becomes, SetStatus, TypeInv, DbOK
  <2> QED BY <2>1, <2>2 DEF Messenger, At
<1>3. Apart'
  BY <1>2 DEF SnapshotBody, Apart
<1>4. Agrees'
  BY <1>1 DEF Agrees
<1> QED BY <1>1, <1>2, <1>3, <1>4 DEF SnapshotBody

\* The steps at which the target and its snapshot are left alone.
LEMMA PassingStep ==
    ASSUME TypeInv, SnapshotBody, OneDecider, NEW w \in Deciders,
           Moves(w), orig' = orig, UNCHANGED <<account, snapshot>>,
           co[w].pc \notin LagSteps, co'[w].pc \notin LagSteps,
           \/ status' = status
           \/ co[w].pc \in RecordedSteps /\ \E s \in Statuses : Becomes(w, s),
           co'[w].pc \in CallSteps \cup RecordedSteps,
           co'[w].pc \in RecordedSteps => co[w].pc \in RecordedSteps \/ status[co[w].op] # "none",
           co'[w].pc \in TargetSteps => co'[w].msg = orig[co[w].op]
    PROVE  SnapshotBody'
<1>1. Decision(w) /\ snapshot = account
  BY DEF SnapshotBody, Agrees, OneDecider
<1>2. ~At(w, "idle") /\ co[w].op \in Ops /\ (co'[w] = Idle \/ co'[w].op = co[w].op)
      /\ \A v \in Workers : v # w => co'[v] = co[v]
  BY DEF Moves
<1>3. status[co[w].op] # "none" => status'[co[w].op] # "none"
  BY <1>2 DEF Becomes, SetStatus, Statuses, TypeInv, DbOK
<1>4. CASE co'[w] = Idle
  <2>1. Decision(w)'
    BY <1>4 DEF Decision, Idle, At, CallSteps, RecordedSteps, MarkerSteps, TargetSteps
  <2> QED BY <1>1, <1>2, <2>1, DecisionKeeps
<1>5. CASE co'[w] # Idle
  <2>1. co'[w].op = co[w].op /\ co'[w].by = co[w].by
    BY <1>5 DEF Moves
  <2>2. Decision(w)'
    BY <1>1, <1>2, <1>3, <2>1 DEF Decision, At
  <2> QED BY <1>1, <1>2, <2>2, DecisionKeeps
<1> QED BY <1>4, <1>5

\* The steps between the call of the target and the write of the snapshot.
LEMMA LaggingStep ==
    ASSUME TypeInv, SnapshotBody, OneDecider, NEW w \in Deciders, NEW step \in LagSteps,
           co[w].pc \in LagSteps, Goto(w, step), orig' = orig, UNCHANGED <<account, snapshot>>,
           status' = status \/ \E s \in Statuses : Becomes(w, s),
           step \in {"clearRejected", "clearDeleted", "storeState"} =>
             orig[co[w].op].type # "DELETE_USER",
           step = "dropState" => orig[co[w].op].type = "DELETE_USER"
    PROVE  SnapshotBody'
<1>1. Decision(w) /\ Lags(w) /\ w \in Workers
  BY DEF SnapshotBody, Agrees, Workers
<1>2. /\ co'[w].pc = step /\ co'[w].op = co[w].op /\ co'[w].by = co[w].by
      /\ \A v \in Workers : v # w => co'[v] = co[v]
  BY <1>1, Walks
<1>3. co[w].op \in Ops /\ co[w].pc \in RecordedSteps /\ step \in RecordedSteps
      /\ step \notin TargetSteps /\ ~At(w, "idle")
  BY <1>1, Memory DEF LagSteps, RecordedSteps, MarkerSteps, TargetSteps, At
<1>4. status'[co[w].op] # "none"
  BY <1>1, <1>3 DEF Decision, Becomes, SetStatus, Statuses, TypeInv, DbOK
<1>5. Decision(w)'
  BY <1>1, <1>2, <1>3, <1>4 DEF Decision, At
<1>6. Lags(w)'
  BY <1>1, <1>2 DEF Lags, At, Provisioned
<1> QED BY <1>2, <1>3, <1>5, <1>6, DecisionKeeps

\* The call of the target makes the account what the message says.
LEMMA ExecuteSnapshots ==
    ASSUME TypeInv, Calm, SnapshotBody, OneDecider, NEW w \in Deciders, Execute(w)
    PROVE  SnapshotBody'
<1>1. Decision(w) /\ w \in Workers /\ At(w, "execute") /\ co[w].op \in Ops
  BY Memory DEF SnapshotBody, Workers, Execute, At
<1>2. snapshot = account
  BY <1>1 DEF SnapshotBody, Agrees, OneDecider, LagSteps, At
<1>3. /\ account' = [account EXCEPT ![co[w].msg.acct] = Provisioned(co[w].msg)]
      /\ Goto(w, "succeed") /\ UNCHANGED <<status, orig, snapshot>>
  BY DEF Execute, Calm, db, redis
<1>4. /\ co'[w].pc = "succeed" /\ co'[w].op = co[w].op /\ co'[w].by = co[w].by
      /\ \A v \in Workers : v # w => co'[v] = co[v]
  BY <1>1, <1>3, Walks
<1>5. Decision(w)' /\ co[w].msg = orig[co[w].op]
  BY <1>1, <1>3, <1>4 DEF Decision, At, RecordedSteps, TargetSteps
<1>6. Lags(w)'
  BY <1>2, <1>3, <1>4, <1>5 DEF Lags, At, Provisioned
<1> QED BY <1>3, <1>4, <1>5, <1>6, DecisionKeeps DEF LagSteps

\* The write of the snapshot makes it what the account is.
LEMMA SnapshotWritten ==
    ASSUME TypeInv, Calm, SnapshotBody, OneDecider, NEW w \in Deciders,
           StoreUserState(w) \/ DeleteUserState(w)
    PROVE  SnapshotBody'
<1>1. Decision(w) /\ w \in Workers /\ (At(w, "storeState") \/ At(w, "dropState"))
  BY DEF SnapshotBody, Workers, StoreUserState, DeleteUserState
<1>2. Lags(w) /\ co[w].op \in Ops /\ orig[co[w].op] \in Messages
      /\ snapshot \in [Accounts -> Data \cup {None}]
  BY <1>1, Memory DEF SnapshotBody, Agrees, LagSteps, At, RowSteps, Workers, TypeInv, RedisOK
<1>3. snapshot' = [snapshot EXCEPT ![orig[co[w].op].acct] = Provisioned(orig[co[w].op])]
      /\ UNCHANGED <<status, orig, account>>
      /\ (Goto(w, "return") \/ Goto(w, "markDeleted"))
  <2> DEFINE o == orig[co[w].op]
             stored(d) == [snapshot EXCEPT ![o.acct] = d]
  <2>1. CASE StoreUserState(w)
    <3>1. snapshot' \in Writes(stored(o.data), snapshot) /\ UNCHANGED <<status, orig, account>>
          /\ Goto(w, "return") /\ At(w, "storeState")
      BY <2>1 DEF StoreUserState, db, target
    <3>2. o.data = Provisioned(o)
      BY <1>2, <3>1 DEF Lags, Provisioned, At
    <3> HIDE DEF stored
    <3>3. snapshot' = stored(Provisioned(o))
      BY <3>1, <3>2, CalmReads
    <3> QED BY <3>1, <3>3 DEF stored
  <2>2. CASE DeleteUserState(w)
    <3>1. snapshot' \in Writes(stored(None), snapshot) /\ UNCHANGED <<status, orig, account>>
          /\ Goto(w, "markDeleted") /\ At(w, "dropState")
      BY <2>2 DEF DeleteUserState, db, target
    <3>2. None = Provisioned(o)
      BY <1>2, <3>1 DEF Lags, Provisioned, At
    <3> HIDE DEF stored
    <3>3. snapshot' = stored(Provisioned(o))
      BY <3>1, <3>2, CalmReads
    <3> QED BY <3>1, <3>3 DEF stored
  <2> QED BY <2>1, <2>2
<1>4. snapshot' = account'
  BY <1>2, <1>3 DEF Lags
<1>5. /\ co'[w].pc \in {"return", "markDeleted"} /\ co'[w].op = co[w].op
      /\ co'[w].by = co[w].by
      /\ \A v \in Workers : v # w => co'[v] = co[v]
  BY <1>1, <1>3, Walks
<1>6. Decision(w)'
  BY <1>1, <1>3, <1>5
     DEF Decision, At, RecordedSteps, CallSteps, MarkerSteps, TargetSteps
<1> QED BY <1>3, <1>4, <1>5, <1>6, DecisionKeeps DEF LagSteps

\* Without a fault the pending key is gone when it is read: the message is the row's.
LEMMA RemovePendingSnapshots ==
    ASSUME TypeInv, Calm, SnapshotBody, OneDecider, NEW w \in Deciders, RemovePending(w)
    PROVE  SnapshotBody'
<1>1. w \in Workers /\ At(w, "unpend") /\ co[w].op \in Ops /\ orig[co[w].op] \in Messages
      /\ UNCHANGED <<status, orig, account, snapshot>> /\ WorkersOK
  BY Memory DEF Workers, RemovePending, At, RowSteps, db, target, TypeInv
<1>2. pending' = [pending EXCEPT ![co[w].op] = None]
  BY CalmReads DEF RemovePending
<1>3. pending'[co[w].op] = None
  BY <1>1, <1>2 DEF TypeInv, RedisOK
<1>4. PICK step \in {"provision", "storeRejected", "return"}, m \in Messages \cup {None} :
        /\ GotoWith(w, step, m)
        /\ step = "provision" => m = orig[co[w].op]
  BY <1>1, <1>3 DEF RemovePending, GotoWith
<1>5. step \in Steps \ {"idle"} /\ ~At(w, "idle")
  BY <1>1 DEF Steps, DbSteps, At
<1>6. Moves(w) /\ co'[w].pc = step
  BY <1>1, <1>4, <1>5, MessageMoves
<1>7. co'[w].msg = m
  <2>1. PICK r \in Coroutines : co' = [co EXCEPT ![w] = r] /\ r.msg = m
    BY <1>1, <1>4, <1>5, MessageUpdate
  <2> QED BY <1>1, <2>1 DEF WorkersOK
<1> QED BY <1>1, <1>4, <1>6, <1>7, PassingStep
        DEF At, LagSteps, RecordedSteps, CallSteps, MarkerSteps, TargetSteps

LEMMA DecisionSnapshots ==
    ASSUME TypeInv, Calm, SnapshotBody, OneDecider, NEW w \in Deciders, DecisionStep(w)
    PROVE  SnapshotBody'
<1>w. w \in Workers /\ Decision(w)
  BY DEF Workers, SnapshotBody
<1>1. CASE CheckStatus(w) \/ DecisionFailed(w)
  <2>1. /\ From(w, {"check", "decisionFail"}) /\ ~At(w, "idle")
        /\ UNCHANGED <<status, orig, account, snapshot>>
        /\ \/ Goto(w, "record") /\ status[co[w].op] # "none"
           \/ Goto(w, "fail") /\ status[co[w].op] # "none"
           \/ Goto(w, "decisionFail") \/ Finish(w)
    BY <1>1 DEF CheckStatus, DecisionFailed, From, At, db, redis, target
  <2>2. /\ Moves(w) /\ To(w, {"record", "fail", "decisionFail", "idle"})
        /\ To(w, {"record", "fail"}) => status[co[w].op] # "none"
    BY <1>w, <2>1, WalkMoves, EndMoves DEF To
  <2> QED BY <1>w, <2>1, <2>2, PassingStep
          DEF From, To, LagSteps, RecordedSteps, CallSteps, MarkerSteps, TargetSteps
<1>2. CASE StoreResponse(w) \/ StoreRejectedCreate(w) \/ MarkUserDeleted(w)
  <2>1. /\ From(w, {"record", "storeRejected", "markDeleted"}) /\ ~At(w, "idle")
        /\ UNCHANGED <<status, orig, account, snapshot>>
        /\ Goto(w, "processing") \/ Goto(w, "reject") \/ Goto(w, "return")
    BY <1>2 DEF StoreResponse, StoreRejectedCreate, MarkUserDeleted, From, At, db, redis, target
  <2>2. Moves(w) /\ To(w, {"processing", "reject", "return"})
    BY <1>w, <2>1, WalkMoves DEF To
  <2> QED BY <1>w, <2>1, <2>2, PassingStep
          DEF From, To, LagSteps, RecordedSteps, CallSteps, MarkerSteps, TargetSteps
<1>3. CASE SetApproved(w) \/ SetRejected(w) \/ SetFailed(w)
  <2>1. /\ From(w, {"processing", "reject", "fail"}) /\ ~At(w, "idle")
        /\ UNCHANGED <<orig, account, snapshot>>
        /\ \E s \in Statuses : Becomes(w, s)
        /\ Goto(w, "unpend") \/ Finish(w)
    BY <1>3 DEF SetApproved, SetRejected, SetFailed, From, At, redis, target, Becomes, Statuses
  <2>2. Moves(w) /\ To(w, {"unpend", "idle"})
    BY <1>w, <2>1, WalkMoves, EndMoves DEF To
  <2> QED BY <1>w, <2>1, <2>2, PassingStep
          DEF From, To, LagSteps, RecordedSteps, CallSteps, MarkerSteps, TargetSteps
<1>4. CASE ClearRejectedCreate(w) \/ ClearUserDeleted(w)
  <2>1. /\ From(w, {"clearRejected", "clearDeleted"})
        /\ UNCHANGED <<status, orig, account, snapshot>>
        /\ \E step \in {"clearDeleted", "storeState"} : Goto(w, step)
    BY <1>4 DEF ClearRejectedCreate, ClearUserDeleted, From, At, db, redis, target
  <2>2. orig[co[w].op].type # "DELETE_USER"
    BY <2>1 DEF From, LagSteps, SnapshotBody, Agrees, Lags
  <2> QED BY <2>1, <2>2, LaggingStep DEF From, LagSteps
<1>5. CASE StoreUserState(w) \/ DeleteUserState(w)
  BY <1>5, SnapshotWritten
<1>6. CASE RemovePending(w)
  BY <1>6, RemovePendingSnapshots
<1> QED BY <1>1, <1>2, <1>3, <1>4, <1>5, <1>6 DEF DecisionStep

LEMMA ProvisionSnapshots ==
    ASSUME TypeInv, Calm, SnapshotBody, OneDecider, NEW w \in Deciders, ProvisionStep(w)
    PROVE  SnapshotBody'
<1>w. w \in Workers /\ Decision(w)
  BY DEF Workers, SnapshotBody
<1>1. CASE SetProcessing(w)
  <2>1. /\ At(w, "provision") /\ ~At(w, "idle") /\ Goto(w, "execute")
        /\ UNCHANGED <<orig, account, snapshot>> /\ \E s \in Statuses : Becomes(w, s)
    BY <1>1 DEF SetProcessing, At, redis, target, Becomes, Statuses
  <2>2. Moves(w) /\ co'[w].pc = "execute"
    BY <1>w, <2>1, WalkMoves
  <2>3. co'[w].msg = orig[co[w].op]
    BY <1>w, <2>1 DEF Goto, Decision, At, TargetSteps, TypeInv, WorkersOK, Coroutines
  <2> QED BY <2>1, <2>2, <2>3, PassingStep
          DEF At, LagSteps, RecordedSteps, CallSteps, MarkerSteps, TargetSteps
<1>2. CASE Execute(w)
  BY <1>2, ExecuteSnapshots
<1>3. CASE SetSuccess(w)
  <2>1. /\ At(w, "succeed") /\ Goto(w, "audited")
        /\ UNCHANGED <<orig, account, snapshot>> /\ \E s \in Statuses : Becomes(w, s)
    BY <1>3 DEF SetSuccess, redis, target, Becomes, Statuses
  <2> QED BY <2>1, LaggingStep DEF At, LagSteps
<1>4. CASE AfterProvisioning(w)
  <2>1. /\ At(w, "audited") /\ co[w].by # "consumer"
        /\ orig[co[w].op].type \in OperationTypes
    BY <1>4, <1>w, Memory DEF AfterProvisioning, At, RowSteps, Messages, Decision
  <2>2. PICK step \in {"clearRejected", "storeState", "dropState"} :
          /\ Goto(w, step)
          /\ step = "dropState" <=> orig[co[w].op].type = "DELETE_USER"
    BY <1>4, <2>1 DEF AfterProvisioning, OperationTypes
  <2> QED BY <1>4, <2>1, <2>2, LaggingStep
          DEF At, LagSteps, AfterProvisioning, db, redis, target
<1> QED BY <1>1, <1>2, <1>3, <1>4 DEF ProvisionStep

\* The chain before a decision, and after it, touches none of this.
LEMMA ChainSnapshots ==
    ASSUME TypeInv, Calm, SnapshotBody, OneDecider, NEW w \in Deciders, ChainStep(w)
    PROVE  SnapshotBody'
<1>w. w \in Workers /\ Decision(w)
  BY DEF Workers, SnapshotBody
<1>1. /\ From(w, CallSteps) /\ ~At(w, "idle") /\ UNCHANGED <<status, orig, account, snapshot>>
      /\ \/ \E step \in CallSteps \ {"idle"} : Goto(w, step)
         \/ Finish(w)
  <2>1. CASE StoreChain(w)
    BY <2>1, <1>w DEF StoreChain, Decision, From, At, CallSteps, RecordedSteps, MarkerSteps,
                      db, redis, target
  <2>2. CASE StoreDecisionToken(w)
    BY <2>2 DEF StoreDecisionToken, From, At, CallSteps, db, redis, target
  <2>3. CASE SendEmail(w)
    BY <2>3, <1>w DEF SendEmail, Decision, From, At, CallSteps, db, redis, target
  <2>4. CASE ReadChain(w)
    BY <2>4 DEF ReadChain, AfterSignature, From, At, CallSteps, db, redis, target
  <2>5. CASE Cleanup(w) \/ ReturnFromDecision(w)
    BY <2>5 DEF Cleanup, ReturnFromDecision, From, At, CallSteps, db, redis, target
  <2>6. CASE FindChain(w) \/ DropToken(w) \/ DropChain(w)
    BY <2>6 DEF FindChain, DropToken, DropChain, From, At, CallSteps, db, redis, target
  <2> QED BY <2>1, <2>2, <2>3, <2>4, <2>5, <2>6 DEF ChainStep
<1>2. Moves(w) /\ To(w, CallSteps)
  BY <1>w, <1>1, WalkMoves, EndMoves DEF To, CallSteps
<1>3. CallSteps \cap (LagSteps \cup RecordedSteps \cup TargetSteps) = {}
  BY DEF CallSteps, LagSteps, RecordedSteps, MarkerSteps, TargetSteps
<1> QED BY <1>1, <1>2, <1>3, PassingStep DEF From, To

\* A decision has no step of process_message.
LEMMA DeciderSnapshots ==
    ASSUME TypeInv, Calm, SnapshotBody, OneDecider, NEW w \in Deciders, ChainWorkerStep(w)
    PROVE  SnapshotBody'
<1>1. CASE MessageStep(w)
  <2>1. Decision(w)
    BY DEF SnapshotBody
  <2> QED BY <1>1, <2>1
     DEF MessageStep, ConvertRejected, ConvertDeleted, ConvertUpdate, CreateOperation,
         RecheckRejected, SkipDelete, ClearSkippedMarker, CheckDiff, CheckDuplicate,
         MarkValidated, SetApprovalPending, AddPendingApproval, StoreRequestId,
         StartAutoApproval, ApprovalRequestFailed, HandleError, At,
         Decision, CallSteps, RecordedSteps, MarkerSteps
<1> QED BY <1>1, ChainSnapshots, ProvisionSnapshots, DecisionSnapshots
        DEF ChainWorkerStep, WorkerStep

-----------------------------------------------------------------------------
(* Coroutines that start *)

LEMMA ReceiveSnapshots ==
    ASSUME TypeInv, SnapshotBody, NEW w \in Workers, NEW o \in Ops, NEW m \in Messages,
           Receive(w, o, m)
    PROVE  SnapshotBody'
<1>1. /\ w \in Consumers /\ status[o] = "none" /\ \A v \in Consumers : co[v].op # o
      /\ \A v \in Workers : v # w => co'[v] = co[v]
      /\ co'[w].op = o /\ co'[w].pc \in {"wasRejected", "create"} /\ co'[w].by = "consumer"
      /\ UNCHANGED <<status, orig, account, snapshot>>
  BY DEF Receive, db, redis, target, TypeInv, WorkersOK
<1>2. ASSUME NEW v \in Consumers PROVE Messenger(v)'
  BY <1>1 DEF SnapshotBody, Messenger, At, MessengerSteps, AskSteps, EarlySteps, Workers
<1>3. Apart'
  BY <1>1 DEF SnapshotBody, Apart, Workers
<1>4. \A d \in Deciders : co'[d] = co[d]
  BY <1>1, OrchestratorAssumption DEF Workers
<1>5. (\A d \in Deciders : Decision(d)) /\ Agrees
  BY DEF SnapshotBody
<1>6. \A d \in Deciders : Decision(d)'
  BY <1>1, <1>4, <1>5 DEF Decision, At
<1>7. Agrees'
  BY <1>1, <1>4, <1>5 DEF Agrees, Lags, At, Provisioned
<1> QED BY <1>2, <1>3, <1>6, <1>7 DEF SnapshotBody

\* A request of the API or an auto-approval task.
LEMMA StartSnapshots ==
    ASSUME TypeInv, SnapshotBody, OneDecider, NEW w \in Deciders, At(w, "idle"),
           NEW r, co' = [co EXCEPT ![w] = r], r.pc \in {"check", "readChain"},
           r.by # "consumer", UNCHANGED <<status, orig, account, snapshot>>
    PROVE  SnapshotBody'
<1>1. co'[w] = r /\ \A v \in Workers : v # w => co'[v] = co[v]
  BY DEF Workers, TypeInv, WorkersOK
<1>2. Decision(w)'
  BY <1>1 DEF Decision, At, CallSteps, RecordedSteps, MarkerSteps, TargetSteps
<1>3. snapshot' = account' /\ co'[w].pc \notin LagSteps
  BY <1>1 DEF SnapshotBody, Agrees, OneDecider, At, LagSteps
<1> QED BY <1>1, <1>2, <1>3, DecisionKeeps

LEMMA DecisionStarts ==
    ASSUME TypeInv, SnapshotBody, OneDecider, NEW w \in Workers,
           \/ \E o \in Ops : AutoApprove(w, o)
           \/ \E o \in Ops, yes \in BOOLEAN : ApproveCallback(w, o, yes)
           \/ \E t \in tokens, yes \in BOOLEAN : Click(w, t, yes)
    PROVE  SnapshotBody'
<1>1. ASSUME NEW o \in Ops, AutoApprove(w, o) PROVE SnapshotBody'
  <2> DEFINE r == [pc |-> "check", op |-> o, msg |-> None, by |-> "auto", yes |-> TRUE]
  <2>1. /\ w \in Deciders /\ At(w, "idle") /\ co' = [co EXCEPT ![w] = r]
        /\ UNCHANGED <<status, orig, account, snapshot>>
    BY <1>1 DEF AutoApprove, Decide, db, redis, target
  <2>2. r.pc \in {"check", "readChain"} /\ r.by # "consumer"
    OBVIOUS
  <2> HIDE DEF r
  <2> QED BY <2>1, <2>2, StartSnapshots
<1>2. ASSUME NEW o \in Ops, NEW yes \in BOOLEAN, ApproveCallback(w, o, yes)
      PROVE  SnapshotBody'
  <2> DEFINE r == [pc |-> "check", op |-> o, msg |-> None, by |-> "callback", yes |-> yes]
  <2>1. /\ w \in Deciders /\ At(w, "idle") /\ co' = [co EXCEPT ![w] = r]
        /\ UNCHANGED <<status, orig, account, snapshot>>
    BY <1>2 DEF ApproveCallback, Decide, db, redis, target
  <2>2. r.pc \in {"check", "readChain"} /\ r.by # "consumer"
    OBVIOUS
  <2> HIDE DEF r
  <2> QED BY <2>1, <2>2, StartSnapshots
<1>3. ASSUME NEW t \in tokens, NEW yes \in BOOLEAN, Click(w, t, yes) PROVE SnapshotBody'
  <2> DEFINE r == [pc |-> "readChain", op |-> t[1], msg |-> None, by |-> "chain", yes |-> yes]
  <2>1. /\ w \in Deciders /\ At(w, "idle") /\ co' = [co EXCEPT ![w] = r]
        /\ UNCHANGED <<status, orig, account, snapshot>>
    BY <1>3 DEF Click, db, redis, target
  <2>2. r.pc \in {"check", "readChain"} /\ r.by # "consumer"
    OBVIOUS
  <2> HIDE DEF r
  <2> QED BY <2>1, <2>2, StartSnapshots
<1> QED BY <1>1, <1>2, <1>3

LEMMA NextSnapshots ==
    ASSUME OneDecider, TypeInv, SnapshotInv, [ChainNext]_vars
    PROVE  SnapshotInv'
<1> SUFFICES ASSUME Calm, SnapshotBody PROVE SnapshotBody'
  BY SameSetup DEF SnapshotInv, Calm
<1>1. ASSUME NEW w \in Workers, NEW o \in Ops, NEW m \in Messages, Receive(w, o, m)
      PROVE  SnapshotBody'
  BY <1>1, ReceiveSnapshots
<1>2. ASSUME NEW w \in Workers, ChainWorkerStep(w) PROVE SnapshotBody'
  BY <1>2, MessengerSnapshots, DeciderSnapshots DEF Workers
<1>3. ASSUME NEW o \in Ops, AutoApproval(o) PROVE SnapshotBody'
  BY <1>3, DecisionStarts DEF AutoApproval
<1>4. CASE \/ \E w \in Workers, t \in tokens, yes \in BOOLEAN : Click(w, t, yes)
           \/ \E w \in Workers, o \in Ops, yes \in BOOLEAN : ApproveCallback(w, o, yes)
  BY <1>4, DecisionStarts
<1>5. CASE OrchestratorFault \/ (\E o \in Ops : ChainExpires(o))
           \/ (\E t \in tokens : TokenExpires(t))
  BY <1>5 DEF Calm, OrchestratorFault, FaultStep, DbError, ConsumerCrash, ApiCrash,
              PendingExpires, ChainExpires, TokenExpires
<1>6. CASE UNCHANGED vars
  BY <1>6 DEF vars, orchVars, db, redis, target, SnapshotBody, Messenger, Apart, Decision,
              Agrees, Lags, At, Provisioned
<1> QED BY <1>1, <1>2, <1>3, <1>4, <1>5, <1>6 DEF ChainNext

LEMMA InitialSnapshots == ChainInit => SnapshotInv
<1> SUFFICES ASSUME ChainInit PROVE SnapshotBody
  BY DEF SnapshotInv
<1>1. \A w \in Workers : co[w] = Idle
  BY DEF ChainInit, Init
<1>2. snapshot = account /\ None \notin Ops
  BY OrchestratorAssumption DEF ChainInit, Init
<1>3. \A w \in Workers : At(w, "idle") /\ co[w].op = None /\ co[w].by = "none"
  BY <1>1 DEF Idle, At
<1> QED BY <1>2, <1>3
        DEF SnapshotBody, Messenger, Apart, Decision, Agrees, Lags, At, Workers, MessengerSteps,
            EarlySteps, CallSteps, RecordedSteps, MarkerSteps, TargetSteps, LagSteps

\* With approvals and without a fault, and decisions taken one at a time (by links,
\* by approve-callback or by the auto-approval task), the snapshot of every account
\* is what its target holds whenever no decision runs: the next diff compares a
\* message with the truth, whatever was approved, refused or skipped in which order.
\* (Two decisions on an account that overlap can store their snapshots in the other
\* order than they call the target.)
THEOREM QuietSnapshotsAgree ==
    ASSUME \A v, w \in Deciders : v = w
    PROVE  ChainSpec => []QuietSnapshotAgrees
<1>1. OneDecider
  BY DEF OneDecider
<1>2. ChainSpec => []TypeInv
  BY InitialTypes, NextTypes, PTL DEF ChainSpec
<1>3. ChainSpec => []SnapshotInv
  BY <1>1, <1>2, InitialSnapshots, NextSnapshots, PTL DEF ChainSpec
<1>4. SnapshotInv => QuietSnapshotAgrees
  BY DEF SnapshotInv, Calm, SnapshotBody, Agrees, QuietSnapshotAgrees, At, LagSteps
<1> QED BY <1>3, <1>4, PTL

===============================================================================
