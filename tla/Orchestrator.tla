------------------------------ MODULE Orchestrator ------------------------------
(***************************************************************************)
(* The life of a provisioning operation, from app/core/orchestrator.py.    *)
(*                                                                         *)
(* A consumer coroutine runs process_message for one MidPoint message at a *)
(* time (prefetch 1).  Decision coroutines run process_approval_response:  *)
(* they are requests of the API process or auto-approval tasks of the      *)
(* consumer process.  All share the operation table (PostgreSQL), the      *)
(* approval keys and user markers (Redis) and the target systems.  Every   *)
(* await of the code is a point where another coroutine may run, so every  *)
(* action below is one awaited call (or one call and the reads of keys no  *)
(* other coroutine writes at that moment).                                 *)
(*                                                                         *)
(* Audit rows, log lines and the MidPoint clean-up calls that end a        *)
(* decision (never raising, and never read back here) are left out.        *)
(***************************************************************************)
EXTENDS Naturals, FiniteSets

CONSTANTS
    Ops,       \* request ids; a row of provisioningoperation each
    Accounts,  \* pairs (username, target_key)
    Data,      \* the user_data a message can carry
    Consumers, \* coroutines that run process_message
    Deciders,  \* coroutines that run process_approval_response
    None,      \* the absent value
    Modes,     \* the approval settings to consider
    FaultSets  \* the combinations of faults to consider

\* settings.APPROVAL_MODE, or "off" for APPROVAL_ENABLED=False
ApprovalModes == {"email", "auto", "off"}
FaultKinds    == {"target", "redis", "db", "crash", "expiry", "email"}

ASSUME OrchestratorAssumption ==
    /\ None \notin Data /\ None \notin Ops /\ None \notin Accounts
    /\ None \notin [type : {"CREATE_USER", "UPDATE_USER", "DELETE_USER"},
                    acct : Accounts, data : Data]
    /\ Consumers \cap Deciders = {}
    /\ Modes \subseteq ApprovalModes
    /\ FaultSets \subseteq SUBSET FaultKinds

OperationTypes == {"CREATE_USER", "UPDATE_USER", "DELETE_USER"}

Statuses == {"PENDING", "VALIDATED", "APPROVAL_PENDING", "PROCESSING",
             "SUCCESS", "FAILED"}

Messages == [type : OperationTypes, acct : Accounts, data : Data]

VARIABLES
    status,    \* status of each row, "none" while there is no row
    orig,      \* operation_type, user_data and original_message of each row
    response,  \* approval_response of each row
    skipped,   \* why a row was closed without provisioning (its error_message)
    pending,   \* Redis approval:pending:<op>, the message it holds
    rejected,  \* Redis rejected_create:<acct> markers
    deleted,   \* Redis deleted_user:<acct> markers
    snapshot,  \* Redis user_state:<acct>
    account,   \* what the target system holds for each account
    calls,     \* history: connector calls started for each operation
    tasks,     \* operations with a sleeping auto-approval task
    co,        \* the coroutines
    mode,      \* the approval setting of this deployment
    faults     \* the kinds of fault this deployment meets

db       == <<status, orig, response, skipped>>
redis    == <<pending, rejected, deleted, snapshot>>
target   == <<account, calls>>
setup    == <<mode, faults>>
orchVars == <<db, redis, target, tasks, co, setup>>

Workers == Consumers \cup Deciders

(***************************************************************************)
(* Coroutines.  pc names the next awaited call; by says who runs a         *)
(* decision; yes is the decision.                                          *)
(***************************************************************************)
Idle == [pc |-> "idle", op |-> None, msg |-> None, by |-> "none", yes |-> FALSE]

Sources == {"consumer", "auto", "callback", "chain"}

At(w, step)   == co[w].pc = step
Goto(w, step) == co' = [co EXCEPT ![w].pc = step]
Finish(w)     == co' = [co EXCEPT ![w] = Idle]

SetStatus(o, s) == status' = [status EXCEPT ![o] = s]

\* Every method of ApprovalRedisRepository catches its exceptions: a failed
\* read looks like a missing key and a failed write changes nothing.
Reads(found)   == {found} \cup (IF "redis" \in faults THEN {FALSE} ELSE {})
Writes(new, old) == {new} \cup (IF "redis" \in faults THEN {old} ELSE {})

\* What a connector leaves on the target: provision_user updates an account
\* that exists and update_user creates one that does not.
Provisioned(m) == IF m.type = "DELETE_USER" THEN None ELSE m.data

Init ==
    /\ status   = [o \in Ops |-> "none"]
    /\ orig     = [o \in Ops |-> None]
    /\ response = [o \in Ops |-> "none"]
    /\ skipped  = [o \in Ops |-> "none"]
    /\ pending  = [o \in Ops |-> None]
    /\ rejected = {}
    /\ deleted  = {}
    /\ account \in [Accounts -> Data \cup {None}]
    /\ snapshot = account
    /\ calls    = [o \in Ops |-> 0]
    /\ tasks    = {}
    /\ co       = [w \in Workers |-> Idle]
    /\ mode     \in Modes
    /\ faults   \in FaultSets

(***************************************************************************)
(* process_message                                                         *)
(***************************************************************************)

\* A message is delivered.
Receive(w, o, m) ==
    /\ w \in Consumers /\ At(w, "idle") /\ status[o] = "none"
    /\ \A v \in Consumers : co[v].op # o
    /\ co' = [co EXCEPT ![w] =
                [pc |-> IF m.type = "UPDATE_USER" THEN "wasRejected" ELSE "create",
                 op |-> o, msg |-> m, by |-> "consumer", yes |-> FALSE]]
    /\ UNCHANGED <<db, redis, target, tasks, setup>>

\* Before its row is written an UPDATE is turned into a CREATE if its account is
\* marked rejected, or else if it is marked deleted.
ConvertUpdate(w, step, markers, otherwise) ==
    /\ At(w, step)
    /\ \E marked \in Reads(co[w].msg.acct \in markers) :
         IF marked THEN co' = [co EXCEPT ![w].pc = "create", ![w].msg.type = "CREATE_USER"]
                   ELSE Goto(w, otherwise)
    /\ UNCHANGED <<db, redis, target, tasks, setup>>

ConvertRejected(w) == ConvertUpdate(w, "wasRejected", rejected, "wasDeleted")
ConvertDeleted(w)  == ConvertUpdate(w, "wasDeleted", deleted, "create")

CreateOperation(w) ==
    LET o == co[w].op IN
    /\ At(w, "create")
    /\ SetStatus(o, "PENDING")
    /\ orig' = [orig EXCEPT ![o] = co[w].msg]
    /\ Goto(w, "recheck")
    /\ UNCHANGED <<response, skipped, redis, target, tasks, setup>>

\* The marker is read again: a DELETE is then skipped, and an UPDATE becomes
\* a CREATE in memory only.
RecheckRejected(w) ==
    LET m == co[w].msg IN
    /\ At(w, "recheck")
    /\ \E marked \in Reads(m.acct \in rejected) :
         CASE m.type = "DELETE_USER" /\ marked -> Goto(w, "skipDelete")
           [] m.type = "UPDATE_USER" /\ marked ->
                co' = [co EXCEPT ![w].pc = "validate",
                                 ![w].msg.type = "CREATE_USER"]
           [] m.type = "UPDATE_USER" /\ ~marked -> Goto(w, "diff")
           [] OTHER -> Goto(w, "validate")
    /\ UNCHANGED <<db, redis, target, tasks, setup>>

SkipDelete(w) ==
    LET o == co[w].op IN
    /\ At(w, "skipDelete")
    /\ SetStatus(o, "SUCCESS")
    /\ skipped' = [skipped EXCEPT ![o] = "never provisioned"]
    /\ Goto(w, "clearSkipped")
    /\ UNCHANGED <<orig, response, redis, target, tasks, setup>>

ClearSkippedMarker(w) ==
    /\ At(w, "clearSkipped")
    /\ rejected' \in Writes(rejected \ {co[w].msg.acct}, rejected)
    /\ Finish(w)
    /\ UNCHANGED <<db, pending, deleted, snapshot, target, tasks, setup>>

\* An UPDATE equal to the last provisioned state closes its own row.
CheckDiff(w) ==
    LET o == co[w].op
        m == co[w].msg
    IN
    /\ At(w, "diff")
    /\ \E unchanged \in Reads(snapshot[m.acct] = m.data) :
         IF unchanged
         THEN /\ SetStatus(o, "SUCCESS")
              /\ skipped' = [skipped EXCEPT ![o] = "no changes"]
              /\ Finish(w)
         ELSE /\ Goto(w, "duplicate")
              /\ UNCHANGED <<status, skipped>>
    /\ UNCHANGED <<orig, response, redis, target, tasks, setup>>

\* An UPDATE identical to one whose pending key is in Redis closes its row.
CheckDuplicate(w) ==
    LET o == co[w].op
        m == co[w].msg
    IN
    /\ At(w, "duplicate")
    /\ \E found \in Reads(\E p \in Ops : pending[p] = m) :
         IF found
         THEN /\ SetStatus(o, "SUCCESS")
              /\ skipped' = [skipped EXCEPT ![o] = "duplicate"]
              /\ Finish(w)
         ELSE /\ Goto(w, "validate")
              /\ UNCHANGED <<status, skipped>>
    /\ UNCHANGED <<orig, response, redis, target, tasks, setup>>

MarkValidated(w) ==
    /\ At(w, "validate")
    /\ SetStatus(co[w].op, "VALIDATED")
    /\ Goto(w, IF mode = "off" THEN "provision" ELSE "approvalStatus")
    /\ UNCHANGED <<orig, response, skipped, redis, target, tasks, setup>>

(***************************************************************************)
(* _request_approval.  Its step "approvalSend" starts the auto-approval    *)
(* task (APPROVAL_MODE=auto) or the chain of emails (ApprovalChain).       *)
(***************************************************************************)
SetApprovalPending(w) ==
    /\ At(w, "approvalStatus")
    /\ SetStatus(co[w].op, "APPROVAL_PENDING")
    /\ Goto(w, "approvalPending")
    /\ UNCHANGED <<orig, response, skipped, redis, target, tasks, setup>>

AddPendingApproval(w) ==
    LET o == co[w].op IN
    /\ At(w, "approvalPending")
    /\ pending' \in Writes([pending EXCEPT ![o] = co[w].msg], pending)
    /\ Goto(w, "approvalSend")
    /\ UNCHANGED <<db, rejected, deleted, snapshot, target, tasks, setup>>

\* Mutant: the auto-approval task is never created.
StartNoTask(w) ==
    /\ mode = "auto" /\ At(w, "approvalSend")
    /\ Goto(w, "approvalId")
    /\ UNCHANGED <<db, redis, target, tasks, setup>>

StartAutoApproval(w) ==
    /\ mode = "auto" /\ At(w, "approvalSend")
    /\ tasks' = tasks \cup {co[w].op}
    /\ Goto(w, "approvalId")
    /\ UNCHANGED <<db, redis, target, setup>>

\* Mutant: the status is written after the approvers were asked.
StoreRequestIdAndStatus(w) ==
    /\ At(w, "approvalId")
    /\ SetStatus(co[w].op, "APPROVAL_PENDING")
    /\ Finish(w)
    /\ UNCHANGED <<orig, response, skipped, redis, target, tasks, setup>>

\* approval_request_id is stored last; the coroutine then returns.
StoreRequestId(w) ==
    /\ At(w, "approvalId")
    /\ Finish(w)
    /\ UNCHANGED <<db, redis, target, tasks, setup>>

\* The handler of _request_approval marks the row FAILED and re-raises; the
\* keys it stored stay.
ApprovalRequestFailed(w) ==
    /\ At(w, "approvalFail")
    /\ SetStatus(co[w].op, "FAILED")
    /\ Goto(w, "messageFail")
    /\ UNCHANGED <<orig, response, skipped, redis, target, tasks, setup>>

\* _handle_error marks the row FAILED and process_message re-raises.
HandleError(w) ==
    /\ At(w, "messageFail")
    /\ SetStatus(co[w].op, "FAILED")
    /\ Finish(w)
    /\ UNCHANGED <<orig, response, skipped, redis, target, tasks, setup>>

(***************************************************************************)
(* _provision_to_target, reached by the consumer when approval is disabled *)
(* and by a decision when it is granted.                                   *)
(***************************************************************************)
SetProcessing(w) ==
    /\ At(w, "provision")
    /\ SetStatus(co[w].op, "PROCESSING")
    /\ Goto(w, "execute")
    /\ UNCHANGED <<orig, response, skipped, redis, target, tasks, setup>>

Failing(w) == IF co[w].by = "consumer" THEN "messageFail" ELSE "decisionFail"

\* The connector is called.  It may raise before or after the target changed
\* (closing the connection can fail too).
Execute(w) ==
    LET o == co[w].op
        m == co[w].msg
        done == [account EXCEPT ![m.acct] = Provisioned(m)]
    IN
    /\ At(w, "execute")
    /\ calls' = [calls EXCEPT ![o] = @ + 1]
    /\ \/ account' = done /\ Goto(w, "succeed")
       \/ "target" \in faults /\ account' \in {account, done} /\ Goto(w, Failing(w))
    /\ UNCHANGED <<db, redis, tasks, setup>>

SetSuccess(w) ==
    /\ At(w, "succeed")
    /\ SetStatus(co[w].op, "SUCCESS")
    /\ Goto(w, "audited")
    /\ UNCHANGED <<orig, response, skipped, redis, target, tasks, setup>>

\* The audit rows are written; a decision goes on to the user markers, the
\* consumer's process_message returns.
AfterProvisioning(w) ==
    LET type == orig[co[w].op].type IN
    /\ At(w, "audited")
    /\ Goto(w, CASE co[w].by = "consumer"  -> "return"
                 [] type = "CREATE_USER"   -> "clearRejected"
                 [] type = "UPDATE_USER"   -> "storeState"
                 [] type = "DELETE_USER"   -> "dropState")
    /\ UNCHANGED <<db, redis, target, tasks, setup>>

(***************************************************************************)
(* process_approval_response                                               *)
(***************************************************************************)
Decide(w, o, by, yes) ==
    co' = [co EXCEPT ![w] = [pc |-> "check", op |-> o, msg |-> None,
                             by |-> by, yes |-> yes]]

\* A sleeping auto-approval task wakes up.
AutoApprove(w, o) ==
    /\ w \in Deciders /\ At(w, "idle") /\ o \in tasks
    /\ tasks' = tasks \ {o}
    /\ Decide(w, o, "auto", TRUE)
    /\ UNCHANGED <<db, redis, target, setup>>

\* POST /provisioning/{id}/approve-callback.
ApproveCallback(w, o, yes) ==
    /\ w \in Deciders /\ At(w, "idle") /\ status[o] # "none"
    /\ Decide(w, o, "callback", yes)
    /\ UNCHANGED <<db, redis, target, tasks, setup>>

CheckStatus(w) ==
    /\ At(w, "check")
    /\ Goto(w, IF status[co[w].op] = "APPROVAL_PENDING"
               THEN "record" ELSE "decisionFail")
    /\ UNCHANGED <<db, redis, target, tasks, setup>>

StoreResponse(w) ==
    LET yes == co[w].yes IN
    /\ At(w, "record")
    /\ response' = [response EXCEPT ![co[w].op] =
                        IF yes THEN "approved" ELSE "rejected"]
    /\ Goto(w, IF yes THEN "processing" ELSE "reject")
    /\ UNCHANGED <<status, orig, skipped, redis, target, tasks, setup>>

SetApproved(w) ==
    /\ At(w, "processing")
    /\ SetStatus(co[w].op, "PROCESSING")
    /\ Goto(w, "unpend")
    /\ UNCHANGED <<orig, response, skipped, redis, target, tasks, setup>>

\* Mutant: a rejection leaves the status as it is.
KeepRejected(w) ==
    /\ At(w, "reject")
    /\ Goto(w, "unpend")
    /\ UNCHANGED <<db, redis, target, tasks, setup>>

SetRejected(w) ==
    /\ At(w, "reject")
    /\ SetStatus(co[w].op, "FAILED")
    /\ Goto(w, "unpend")
    /\ UNCHANGED <<orig, response, skipped, redis, target, tasks, setup>>

\* Mutant: the message is rebuilt from the pending key only, after its removal.
RemovePendingThenRead(w) ==
    LET o == co[w].op IN
    /\ At(w, "unpend")
    /\ pending' = [pending EXCEPT ![o] = None]
    /\ co' = [co EXCEPT ![w].pc = IF co[w].yes THEN "provision" ELSE "return",
                        ![w].msg = pending'[o]]
    /\ UNCHANGED <<db, rejected, deleted, snapshot, target, tasks, setup>>

\* Mutant: a rejected operation goes on like an approved one.
RemovePendingAndProvision(w) ==
    LET o == co[w].op IN
    /\ At(w, "unpend")
    /\ pending' = [pending EXCEPT ![o] = None]
    /\ co' = [co EXCEPT ![w].pc = "provision", ![w].msg = orig[o]]
    /\ UNCHANGED <<db, rejected, deleted, snapshot, target, tasks, setup>>

\* remove_pending_approval, then (approved) _reconstruct_midpoint_message:
\* from the pending key when it is still there and readable, else from the row.
\* The two calls are one step: nobody else writes the key of an operation that
\* waits, so what a second step could find is the key, kept, or the row.
RemovePending(w) ==
    LET o == co[w].op
        granted == co[w].yes
        next == CASE granted -> "provision"
                  [] ~granted /\ orig[o].type = "CREATE_USER" -> "storeRejected"
                  [] OTHER -> "return"
    IN
    /\ At(w, "unpend")
    /\ pending' \in Writes([pending EXCEPT ![o] = None], pending)
    /\ \E m \in IF granted THEN {orig[o], pending'[o]} \ {None} ELSE {None} :
         co' = [co EXCEPT ![w].pc = next, ![w].msg = m]
    /\ UNCHANGED <<db, rejected, deleted, snapshot, target, tasks, setup>>

\* A rejected CREATE leaves a marker for the messages that follow.
StoreRejectedCreate(w) ==
    /\ At(w, "storeRejected")
    /\ rejected' \in Writes(rejected \cup {orig[co[w].op].acct}, rejected)
    /\ Goto(w, "return")
    /\ UNCHANGED <<db, pending, deleted, snapshot, target, tasks, setup>>

ClearRejectedCreate(w) ==
    /\ At(w, "clearRejected")
    /\ rejected' \in Writes(rejected \ {orig[co[w].op].acct}, rejected)
    /\ Goto(w, "clearDeleted")
    /\ UNCHANGED <<db, pending, deleted, snapshot, target, tasks, setup>>

ClearUserDeleted(w) ==
    /\ At(w, "clearDeleted")
    /\ deleted' \in Writes(deleted \ {orig[co[w].op].acct}, deleted)
    /\ Goto(w, "storeState")
    /\ UNCHANGED <<db, pending, rejected, snapshot, target, tasks, setup>>

StoreUserState(w) ==
    LET m == orig[co[w].op] IN
    /\ At(w, "storeState")
    /\ snapshot' \in Writes([snapshot EXCEPT ![m.acct] = m.data], snapshot)
    /\ Goto(w, "return")
    /\ UNCHANGED <<db, pending, rejected, deleted, target, tasks, setup>>

\* Mutant: the snapshot of a deleted account is kept.
KeepUserState(w) ==
    /\ At(w, "dropState")
    /\ Goto(w, "markDeleted")
    /\ UNCHANGED <<db, redis, target, tasks, setup>>

DeleteUserState(w) ==
    /\ At(w, "dropState")
    /\ snapshot' \in Writes([snapshot EXCEPT ![orig[co[w].op].acct] = None], snapshot)
    /\ Goto(w, "markDeleted")
    /\ UNCHANGED <<db, pending, rejected, deleted, target, tasks, setup>>

MarkUserDeleted(w) ==
    /\ At(w, "markDeleted")
    /\ deleted' \in Writes(deleted \cup {orig[co[w].op].acct}, deleted)
    /\ Goto(w, "return")
    /\ UNCHANGED <<db, pending, rejected, snapshot, target, tasks, setup>>

\* Mutant: a failed provisioning leaves the row PROCESSING.
LeaveProcessing(w) ==
    /\ At(w, "decisionFail")
    /\ Finish(w)
    /\ UNCHANGED <<db, redis, target, tasks, setup>>

\* The handler reads the status again and marks the row FAILED if it reads
\* PROCESSING, whichever coroutine is processing it.
DecisionFailed(w) ==
    /\ At(w, "decisionFail")
    /\ IF status[co[w].op] = "PROCESSING" THEN Goto(w, "fail") ELSE Finish(w)
    /\ UNCHANGED <<db, redis, target, tasks, setup>>

SetFailed(w) ==
    /\ At(w, "fail")
    /\ SetStatus(co[w].op, "FAILED")
    /\ Finish(w)
    /\ UNCHANGED <<orig, response, skipped, redis, target, tasks, setup>>

(***************************************************************************)
(* Faults                                                                  *)
(***************************************************************************)

\* The database call of a step, or the audit row written before it, raises.
AfterDbError(step, by) ==
    CASE step \in {"create", "recheck", "messageFail", "decisionFail", "fail"} -> "idle"
      [] step = "diff"      -> "duplicate"
      [] step = "duplicate" -> "validate"
      [] step \in {"approvalStatus", "approvalPending", "approvalId"} -> "approvalFail"
      [] step \in {"skipDelete", "validate", "approvalFail"} -> "messageFail"
      [] step \in {"provision", "execute", "succeed", "audited"} ->
            IF by = "consumer" THEN "messageFail" ELSE "decisionFail"
      [] OTHER -> "decisionFail"

DbSteps == {"create", "recheck", "skipDelete", "diff", "duplicate", "validate",
            "approvalStatus", "approvalPending", "approvalId", "approvalFail",
            "messageFail", "provision", "execute", "succeed", "audited", "check", "record",
            "processing", "reject", "unpend", "decisionFail", "fail"}

DbError(w) ==
    LET next == AfterDbError(co[w].pc, co[w].by) IN
    /\ "db" \in faults /\ co[w].pc \in DbSteps
    /\ IF next = "idle" THEN Finish(w) ELSE Goto(w, next)
    /\ UNCHANGED <<db, redis, target, tasks, setup>>

\* The consumer process stops: its message and its tasks are gone.
ConsumerCrash ==
    /\ "crash" \in faults
    /\ tasks' = {}
    /\ co' = [w \in Workers |->
                IF co[w].by \in {"consumer", "auto"} THEN Idle ELSE co[w]]
    /\ UNCHANGED <<db, redis, target, setup>>

\* The API process stops: its requests are gone.
ApiCrash ==
    /\ "crash" \in faults
    /\ co' = [w \in Workers |->
                IF co[w].by \in {"callback", "chain"} THEN Idle ELSE co[w]]
    /\ UNCHANGED <<db, redis, target, tasks, setup>>

\* The TTL of a pending key runs out.
PendingExpires(o) ==
    /\ "expiry" \in faults /\ pending[o] # None
    /\ pending' = [pending EXCEPT ![o] = None]
    /\ UNCHANGED <<db, rejected, deleted, snapshot, target, tasks, co, setup>>

(***************************************************************************)
(* The next-state relation                                                 *)
(***************************************************************************)
MessageStep(w) ==
    \/ ConvertRejected(w) \/ ConvertDeleted(w) \/ CreateOperation(w) \/ RecheckRejected(w)
    \/ SkipDelete(w) \/ ClearSkippedMarker(w)
    \/ CheckDiff(w) \/ CheckDuplicate(w) \/ MarkValidated(w)
    \/ SetApprovalPending(w) \/ AddPendingApproval(w) \/ StoreRequestId(w)
    \/ StartAutoApproval(w) \/ ApprovalRequestFailed(w) \/ HandleError(w)

ProvisionStep(w) ==
    \/ SetProcessing(w) \/ Execute(w) \/ SetSuccess(w) \/ AfterProvisioning(w)

DecisionStep(w) ==
    \/ CheckStatus(w) \/ StoreResponse(w)
    \/ SetApproved(w) \/ SetRejected(w) \/ RemovePending(w)
    \/ StoreRejectedCreate(w) \/ ClearRejectedCreate(w) \/ ClearUserDeleted(w)
    \/ StoreUserState(w) \/ DeleteUserState(w) \/ MarkUserDeleted(w)
    \/ DecisionFailed(w) \/ SetFailed(w)

WorkerStep(w) == MessageStep(w) \/ ProvisionStep(w) \/ DecisionStep(w)

FaultStep ==
    \/ \E w \in Workers : DbError(w)
    \/ ConsumerCrash
    \/ ApiCrash
    \/ \E o \in Ops : PendingExpires(o)

(***************************************************************************)
(* Properties                                                              *)
(***************************************************************************)
\* The awaited calls of both modules: the rest of those of process_message, of a
\* decision, and the ones ApprovalChain adds.
Steps == DbSteps \cup {"idle", "wasRejected", "wasDeleted", "clearSkipped", "approvalSend",
                       "return", "storeRejected", "clearRejected", "clearDeleted",
                       "storeState", "dropState", "markDeleted"}
                 \cup {"storeToken", "sendEmail", "readChain", "nextLevel", "cleanup",
                       "findChain", "dropToken", "dropChain"}

Coroutines == [pc : Steps, op : Ops \cup {None}, msg : Messages \cup {None},
               by : Sources \cup {"none"}, yes : BOOLEAN]

\* Every variable holds a value of its kind; a coroutine that runs has an
\* operation, and one that provisions has the message to provision.
TypeOK ==
    /\ status   \in [Ops -> Statuses \cup {"none"}]
    /\ orig     \in [Ops -> Messages \cup {None}]
    /\ response \in [Ops -> {"none", "approved", "rejected"}]
    /\ skipped  \in [Ops -> {"none", "never provisioned", "no changes", "duplicate"}]
    /\ pending  \in [Ops -> Messages \cup {None}]
    /\ rejected \subseteq Accounts
    /\ deleted  \subseteq Accounts
    /\ snapshot \in [Accounts -> Data \cup {None}]
    /\ account  \in [Accounts -> Data \cup {None}]
    /\ calls    \in [Ops -> Nat]
    /\ tasks    \subseteq Ops
    /\ co       \in [Workers -> Coroutines]
    /\ mode \in Modes /\ faults \in FaultSets
    /\ \A w \in Workers :
         /\ ~At(w, "idle") => co[w].op \in Ops
         /\ At(w, "provision") \/ At(w, "execute") => co[w].msg \in Messages

\* The target is called at most once for an operation, never for one that was
\* rejected or closed as having nothing to do, and an operation only succeeds
\* by a call that was made or by being skipped: what process_approval_response
\* promises by checking the status before it acts.
DecisionIsHonoured ==
    \A o \in Ops :
        /\ calls[o] <= 1
        /\ calls[o] = 1 => /\ skipped[o] = "none"
                           /\ mode # "off" => response[o] = "approved"
        /\ status[o] = "SUCCESS" => calls[o] = 1 \/ skipped[o] # "none"

\* The snapshot the next diff is made with is what the target holds, when no
\* decision is running and no fault was met: every decision updates the markers
\* and the snapshot for what it did to the target.
QuietSnapshotAgrees ==
    faults = {} /\ mode # "off" /\ (\A w \in Deciders : At(w, "idle"))
        => snapshot = account

\* OperationStatus' state machine (enums.py): statuses are passed in order and
\* the two final ones are final.  (A database or SMTP error can make the consumer
\* fail an operation whose decision is already running.)
Rank(s) == CASE s = "none" -> 0 [] s = "PENDING" -> 1 [] s = "VALIDATED" -> 2
             [] s = "APPROVAL_PENDING" -> 3 [] s = "PROCESSING" -> 4
             [] s \in {"SUCCESS", "FAILED"} -> 5

StatusMovesForward ==
    [][\A o \in Ops : status'[o] # status[o] /\ faults \cap {"db", "email"} = {}
                        => Rank(status[o]) < Rank(status'[o])]_orchVars

\* No operation stays between two statuses: it ends up finished or waiting for
\* a decision, whatever the target, Redis and the SMTP server do, as long as
\* the processes run and the database answers.
EveryOperationSettles ==
    faults \cap {"crash", "db"} = {} =>
        \A o \in Ops : status[o] \in {"PENDING", "VALIDATED", "PROCESSING"}
                         ~> status[o] \in {"APPROVAL_PENDING", "SUCCESS", "FAILED"}

\* In auto mode the task decides every operation that waits.
AutoModeDecides ==
    mode = "auto" /\ faults \cap {"crash", "db"} = {} =>
        \A o \in Ops : status[o] = "APPROVAL_PENDING" ~> status[o] \in {"SUCCESS", "FAILED"}

\* process_message: "If a previous CREATE was rejected, the user doesn't exist
\* on the target service": a DELETE is only skipped for an absent account.
SkippedDeleteHasNoAccount ==
    \A w \in Workers : At(w, "skipDelete") => account[co[w].msg.acct] = None

\* process_approval_response: "A successful DELETE must remove the snapshot":
\* with no decision running, an absent account has no snapshot.
NoSnapshotOfAbsentAccount ==
    (\A w \in Deciders : At(w, "idle")) =>
        \A a \in Accounts : account[a] = None => snapshot[a] = None

=============================================================================
