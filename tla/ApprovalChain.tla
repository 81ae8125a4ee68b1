------------------------------ MODULE ApprovalChain ------------------------------
(***************************************************************************)
(* The multi-level email approval (app/services/approval_service.py) on    *)
(* top of Orchestrator, for APPROVAL_MODE=email.  The consumer coroutine       *)
(* starts the chain; each click on a link of an email is a request of the  *)
(* API process that consumes the link's token, then emails the next level  *)
(* or runs process_approval_response.                                      *)
(***************************************************************************)
EXTENDS Orchestrator

CONSTANTS
    Levels,      \* number of approvers of a chain
    Callbacks    \* is the approve-callback endpoint used beside the links

Indexes == 0 .. Levels - 1
Tokens  == Ops \X Nat
Chains  == [index : Indexes, token : Tokens]

ASSUME ChainAssumption ==
    /\ Levels \in Nat \ {0}
    /\ Callbacks \in BOOLEAN
    /\ None \notin Chains

VARIABLES
    chain,   \* Redis approval:chain:<op>, current_index and active_token
    tokens,  \* Redis approval:token:<token>, the live ones
    minted,  \* tokens made so far for each operation (they are all different)
    mailed,  \* tokens an approver received
    local,   \* the chain a coroutine holds in memory
    signed   \* history: levels approved by a valid link

chainVars == <<chain, tokens, minted, mailed, local, signed>>
vars      == <<orchVars, chainVars>>

ChainInit ==
    /\ Init
    /\ chain  = [o \in Ops |-> None]
    /\ tokens = {}
    /\ minted = [o \in Ops |-> 0]
    /\ mailed = {}
    /\ local  = [w \in Workers |-> None]
    /\ signed = [o \in Ops |-> {}]

(***************************************************************************)
(* _send_level_email, called by start_chain and by handle_decision.        *)
(***************************************************************************)
\* Mutant: the chain skips a level.
StoreChainSkipping(w) ==
    LET o     == co[w].op
        index == IF At(w, "approvalSend") THEN 0 ELSE local[w].index + 2
        new   == [index |-> index, token |-> <<o, minted[o] + 1>>]
    IN
    /\ mode = "email" /\ (At(w, "approvalSend") \/ At(w, "nextLevel"))
    /\ minted' = [minted EXCEPT ![o] = @ + 1]
    /\ local'  = [local EXCEPT ![w] = new]
    /\ chain' \in Writes([chain EXCEPT ![o] = new], chain)
    /\ Goto(w, "storeToken")
    /\ UNCHANGED <<db, redis, target, tasks, setup, tokens, mailed, signed>>

StoreChain(w) ==
    LET o     == co[w].op
        index == IF At(w, "approvalSend") THEN 0 ELSE local[w].index + 1
        new   == [index |-> index, token |-> <<o, minted[o] + 1>>]
    IN
    /\ mode = "email" /\ (At(w, "approvalSend") \/ At(w, "nextLevel"))
    /\ minted' = [minted EXCEPT ![o] = @ + 1]
    /\ local'  = [local EXCEPT ![w] = new]
    /\ chain' \in Writes([chain EXCEPT ![o] = new], chain)
    /\ Goto(w, "storeToken")
    /\ UNCHANGED <<db, redis, target, tasks, setup, tokens, mailed, signed>>

StoreDecisionToken(w) ==
    /\ At(w, "storeToken")
    /\ tokens' \in Writes(tokens \cup {local[w].token}, tokens)
    /\ Goto(w, "sendEmail")
    /\ UNCHANGED <<db, redis, target, tasks, setup, chain, minted, mailed, local, signed>>

\* A refused email is an exception for the caller: the consumer fails the
\* operation, the API answers with an error page.
SendEmail(w) ==
    LET leave(step) == /\ local' = [local EXCEPT ![w] = None]
                       /\ IF co[w].by = "consumer" THEN Goto(w, step) ELSE Finish(w)
    IN
    /\ At(w, "sendEmail")
    /\ \/ mailed' = mailed \cup {local[w].token} /\ leave("approvalId")
       \/ "email" \in faults /\ mailed' \in {mailed, mailed \cup {local[w].token}}
                     /\ leave("approvalFail")
    /\ UNCHANGED <<db, redis, target, tasks, setup, chain, tokens, minted, signed>>

(***************************************************************************)
(* handle_decision                                                         *)
(***************************************************************************)

\* Mutant: the token is read without being deleted.
ClickKeepingToken(w, t, yes) ==
    /\ w \in Deciders /\ At(w, "idle")
    /\ t \in mailed \cap tokens
    /\ local'  = [local EXCEPT ![w] = [index |-> 0, token |-> t]]
    /\ co'     = [co EXCEPT ![w] = [pc |-> "readChain", op |-> t[1], msg |-> None,
                                    by |-> "chain", yes |-> yes]]
    /\ UNCHANGED <<db, redis, target, tasks, setup, chain, tokens, minted, mailed, signed>>

\* An approver follows a link: GETDEL gives the token to one request only.
\* (With a token that is gone the request changes nothing.)
Click(w, t, yes) ==
    /\ w \in Deciders /\ At(w, "idle")
    /\ t \in mailed \cap tokens
    /\ tokens' = tokens \ {t}
    /\ local'  = [local EXCEPT ![w] = [index |-> 0, token |-> t]]
    /\ co'     = [co EXCEPT ![w] = [pc |-> "readChain", op |-> t[1], msg |-> None,
                                    by |-> "chain", yes |-> yes]]
    /\ UNCHANGED <<db, redis, target, tasks, setup, chain, minted, mailed, signed>>

\* Mutants of the choice of the next level: every signature is taken for the
\* last one, the last one is not recognised, the next level is never asked.
AfterEverySignature(yes, index)    == "cleanup"
AfterSignatureOffByOne(yes, index) == IF yes /\ index + 1 <= Levels
                                      THEN "nextLevel" ELSE "cleanup"
AfterSignatureStop(yes, index)     == IF yes /\ index + 1 < Levels
                                      THEN "return" ELSE "cleanup"

\* The next level is asked, or the decision is the chain's.
AfterSignature(yes, index) == IF yes /\ index + 1 < Levels
                              THEN "nextLevel" ELSE "cleanup"

\* The token must be the chain's active one.
ReadChain(w) ==
    LET o  == co[w].op
        ch == chain[o]
    IN
    /\ At(w, "readChain")
    /\ \E valid \in Reads(ch # None /\ ch.token = local[w].token) :
         IF valid
         THEN /\ local'  = [local EXCEPT ![w] = ch]
              /\ signed' = IF co[w].yes
                           THEN [signed EXCEPT ![o] = @ \cup {ch.index}] ELSE signed
              /\ Goto(w, AfterSignature(co[w].yes, ch.index))
         ELSE /\ local' = [local EXCEPT ![w] = None]
              /\ Finish(w)
              /\ UNCHANGED signed
    /\ UNCHANGED <<db, redis, target, tasks, setup, chain, tokens, minted, mailed>>

\* _cleanup: the chain is deleted (its token was consumed by this request)
\* before the decision is processed.
Cleanup(w) ==
    /\ At(w, "cleanup")
    /\ chain'  \in Writes([chain EXCEPT ![co[w].op] = None], chain)
    /\ tokens' \in Writes(tokens \ {local[w].token}, tokens)
    /\ local'  = [local EXCEPT ![w] = None]
    /\ Goto(w, "check")
    /\ UNCHANGED <<db, redis, target, tasks, setup, minted, mailed, signed>>

(***************************************************************************)
(* Returning.  The approve-callback endpoint then removes the chain it finds. *)
(***************************************************************************)
ReturnFromDecision(w) ==
    /\ At(w, "return")
    /\ IF co[w].by = "callback" THEN Goto(w, "findChain") ELSE Finish(w)
    /\ UNCHANGED <<db, redis, target, tasks, setup, chainVars>>

FindChain(w) ==
    LET ch == chain[co[w].op] IN
    /\ At(w, "findChain")
    /\ \E found \in Reads(ch # None) :
         IF found THEN local' = [local EXCEPT ![w] = ch] /\ Goto(w, "dropToken")
                  ELSE UNCHANGED local /\ Finish(w)
    /\ UNCHANGED <<db, redis, target, tasks, setup, chain, tokens, minted, mailed, signed>>

DropToken(w) ==
    /\ At(w, "dropToken")
    /\ tokens' \in Writes(tokens \ {local[w].token}, tokens)
    /\ Goto(w, "dropChain")
    /\ UNCHANGED <<db, redis, target, tasks, setup, chain, minted, mailed, local, signed>>

DropChain(w) ==
    /\ At(w, "dropChain")
    /\ chain' \in Writes([chain EXCEPT ![co[w].op] = None], chain)
    /\ local' = [local EXCEPT ![w] = None]
    /\ Finish(w)
    /\ UNCHANGED <<db, redis, target, tasks, setup, tokens, minted, mailed, signed>>

(***************************************************************************)
(* Faults                                                                  *)
(***************************************************************************)
ChainExpires(o) ==
    /\ "expiry" \in faults /\ chain[o] # None
    /\ chain' = [chain EXCEPT ![o] = None]
    /\ UNCHANGED <<orchVars, tokens, minted, mailed, local, signed>>

TokenExpires(t) ==
    /\ "expiry" \in faults
    /\ tokens' = tokens \ {t}
    /\ UNCHANGED <<orchVars, chain, minted, mailed, local, signed>>

\* What a stopped process held in memory is lost.
ForgetLocal ==
    local' = [w \in Workers |-> IF co'[w] = Idle THEN None ELSE local[w]]

OrchestratorFault ==
    /\ FaultStep /\ ForgetLocal
    /\ UNCHANGED <<chain, tokens, minted, mailed, signed>>

(***************************************************************************)
(* The next-state relation                                                 *)
(***************************************************************************)
ChainStep(w) ==
    \/ StoreChain(w) \/ StoreDecisionToken(w) \/ SendEmail(w)
    \/ ReadChain(w) \/ Cleanup(w) \/ ReturnFromDecision(w)
    \/ FindChain(w) \/ DropToken(w) \/ DropChain(w)

ChainWorkerStep(w) == ChainStep(w) \/ (WorkerStep(w) /\ UNCHANGED chainVars)

AutoApproval(o) == (\E w \in Workers : AutoApprove(w, o)) /\ UNCHANGED chainVars

ChainNext ==
    \/ \E w \in Workers, o \in Ops, m \in Messages :
         Receive(w, o, m) /\ UNCHANGED chainVars
    \/ \E w \in Workers : ChainWorkerStep(w)
    \/ \E o \in Ops : AutoApproval(o)
    \/ \E w \in Workers, t \in tokens, yes \in BOOLEAN : Click(w, t, yes)
    \/ /\ Callbacks /\ UNCHANGED chainVars
       /\ \E w \in Workers, o \in Ops, yes \in BOOLEAN : ApproveCallback(w, o, yes)
    \/ OrchestratorFault
    \/ \E o \in Ops : ChainExpires(o)
    \/ \E t \in tokens : TokenExpires(t)

ChainSpec == ChainInit /\ [][ChainNext]_vars

\* Every coroutine whose call has returned is resumed, and the sleep of every
\* auto-approval task ends (SF: a decider is free again and again).
FairChainSpec ==
    /\ ChainSpec
    /\ \A w \in Workers : WF_vars(ChainWorkerStep(w))
    /\ \A o \in Ops : SF_vars(AutoApproval(o))

(***************************************************************************)
(* Properties                                                              *)
(***************************************************************************)
\* Every variable of the chain holds a value of its kind.
ChainTypeOK ==
    /\ chain  \in [Ops -> Chains \cup {None}]
    /\ tokens \subseteq Tokens
    /\ minted \in [Ops -> Nat]
    /\ mailed \subseteq Tokens
    /\ local  \in [Workers -> Chains \cup {None}]
    /\ signed \in [Ops -> SUBSET Indexes]

\* A live link can be used: its chain is stored and waits for this token
\* (store_chain comes before store_decision_token, and a link is consumed
\* before its chain moves on or is deleted).  "A send failure never leaves a
\* token without chain state", says _send_level_email.
LinkHasItsChain ==
    faults \cap {"redis", "expiry"} = {} =>
        \A t \in tokens : chain[t[1]] # None /\ chain[t[1]].token = t

\* An operation that waits for approval can still be decided: a link is in an
\* approver's mailbox, its auto-approval task sleeps, or a coroutine is at work
\* on the operation.
WaitingCanBeDecided ==
    faults \subseteq {"target"} =>
        \A o \in Ops : status[o] = "APPROVAL_PENDING" =>
            \/ \E t \in mailed \cap tokens : t[1] = o
            \/ o \in tasks
            \/ \E w \in Workers : co[w].op = o

\* The approvals an operation needs: none in the modes without approvers.
Required == IF mode = "email" THEN Levels ELSE 0

\* The target is only called after every level signed, and levels sign in order.
EveryLevelSigned ==
    \A o \in Ops :
        /\ calls[o] > 0 => signed[o] = 0 .. Required - 1
        /\ \A l \in signed[o] : \A k \in 0 .. l : k \in signed[o]

\* The chain with the orchestrator implements the promise.
Verdict == IF mode = "off" THEN [o \in Ops |-> "approved"] ELSE response
Promise == INSTANCE ApprovalPromise WITH levels <- Required, verdict <- Verdict
PromiseKept == Promise!Spec

\* A decision that concludes the chain takes effect: the operation ends.
ConclusionTakesEffect ==
    faults \cap {"crash", "db"} = {} =>
        \A o \in Ops :
            (\E w \in Deciders : co[w].op = o /\ At(w, "cleanup"))
                ~> status[o] \in {"SUCCESS", "FAILED"}

=============================================================================
