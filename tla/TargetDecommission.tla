--------------------------- MODULE TargetDecommission ---------------------------
(***************************************************************************)
(* Taking a runtime target out of service:                                 *)
(* app/services/target_decommission_service.py with the endpoints that     *)
(* call it (app/api/v1/endpoints/connectors.py), the synchronisation       *)
(* worker that drives it, and what it needs of the life of a provisioning  *)
(* operation (module Orchestrator has all of it).                          *)
(*                                                                         *)
(* begin cancels what is open for the target and asks for the deletion of  *)
(* every account it knows of; process_all looks whether all of them are    *)
(* done, and only then removes the roles, the rows, the keys and, last,    *)
(* the target.  Both are requests of one API process: every action is one  *)
(* awaited call.                                                           *)
(***************************************************************************)
EXTENDS TargetCatalog, Sequences

CONSTANTS
    Accounts,   \* accounts people ask for
    Home,       \* Home[a]: the target of account a
    Runtime,    \* Runtime[f]: the targets listed at the beginning
    Handlers,   \* requests the API serves at once
    None,
    FaultSets,  \* the combinations of faults to consider
    MaxRows,    \* bound: provisioning operations, for each of FaultSets
    MaxCrashes  \* bound: crashes of the API, calls given up by the worker

FaultKinds == {"api", "abandon", "target", "partial", "reject", "retry", "midpoint", "ask",
               "expiry", "late", "race", "double", "readd", "edit"}

\* The status of a decommission, and what Redis holds of it.
Stages        == {"WAITING_APPROVALS", "CLEANUP_READY", "BLOCKED", "CLEANING_MIDPOINT"}
Decommissions == [ops : SUBSET Nat, status : Stages]

ASSUME DecommissionAssumption ==
    /\ Home \in [Accounts -> Targets] /\ None \notin Targets \cup Decommissions
    /\ IsFiniteSet(Accounts) /\ \A f \in FaultSets : Cardinality(Accounts) <= MaxRows[f]
    /\ FaultSets \subseteq SUBSET FaultKinds /\ Runtime \in [FaultSets -> SUBSET Targets]
    /\ MaxRows \in [FaultSets -> Nat] /\ MaxCrashes \in Nat

Statuses == {"PENDING", "APPROVAL_PENDING", "PROCESSING", "SUCCESS", "FAILED",
             "RETRYING", "DLQ"}
Open     == {"PENDING", "APPROVAL_PENDING", "PROCESSING", "RETRYING"}

VARIABLES
    op,        \* provisioningoperation, in order of creation
    account,   \* accounts the targets hold
    snapshot,  \* Redis user_state keys
    state,     \* Redis target_decommission keys
    request,   \* entitlementremovalrequest of each target
    role,      \* targets whose entitlement has a role in MidPoint
    inventory, \* targets with rows of entitlementinventory
    known,     \* targets in entitlement-sync-state.json
    co,        \* the API coroutines
    worker,    \* the synchronisation worker
    crashes,
    cancelled, \* history: operations begin marked FAILED
    gone,      \* history: targets a decommission removed
    faults

tables   == <<op, request, inventory>>
redis    == <<snapshot, state>>
outside  == <<account, role>>
history  == <<cancelled, gone>>
vars     == <<catalogVars, tables, redis, outside, known, co, worker, crashes, history, faults>>

May(kind) == kind \in faults

Idle == [job |-> "none", pc |-> "idle", t |-> None, todo |-> {}, latest |-> [a \in Accounts |-> None],
         left |-> {}, made |-> {}]
Resting == [pc |-> "sleep", t |-> None, known |-> {}, todo |-> {}]

At(h, pc)      == co[h].pc = pc
Become(h, c)   == co' = [co EXCEPT ![h] = c]
Free(h)        == h = CHOOSE g \in Handlers : At(g, "idle")
Goto(h, pc)    == Become(h, [co[h] EXCEPT !.pc = pc])
Finish(h)      == Become(h, Idle)
RowsOf(t)      == {i \in DOMAIN op : Home[op[i].a] = t}
AccountsOf(t)  == {a \in Accounts : Home[a] = t}
Beginning(t)   == \E h \in Handlers : co[h].job = "begin" /\ co[h].t = t
Underway(t)    == state[t] # None \/ Beginning(t)

\* Runtime targets with the accounts, roles and rows of normal operation; a
\* target nobody has an account on is already being decommissioned.
Init ==
    /\ faults \in FaultSets
    /\ overlay = [t \in Targets |-> IF t \in Runtime[faults] THEN "tested" ELSE "absent"]
    /\ cache = overlay
    /\ account \in {{}, Accounts} /\ snapshot = account
    /\ \E made \in [1..Cardinality(account) -> account] :
         /\ \A a \in account : \E i \in DOMAIN made : made[i] = a
         /\ op = [i \in DOMAIN made |-> [a |-> made[i], kind |-> "write", status |-> "SUCCESS",
                                       step |-> "rest", deco |-> FALSE]]
    /\ state = [t \in Targets |-> IF t \in OnFile /\ AccountsOf(t) = {}
                                THEN [ops |-> {}, status |-> "CLEANUP_READY"] ELSE None]
    /\ request = [t \in Targets |-> "none"]
    /\ role = OnFile /\ inventory = OnFile /\ known = OnFile
    /\ co = [h \in Handlers |-> Idle]
    /\ worker = Resting
    /\ crashes = 0 /\ cancelled = {} /\ gone = {}

-----------------------------------------------------------------------------
\* The life of an operation, as far as a decommission can see it.  step says
\* where the coroutine that serves it is.

New(a, kind, deco) == [a |-> a, kind |-> kind, status |-> "PENDING", step |-> "asking",
                       deco |-> deco]
Row(i, status, step) == op' = [op EXCEPT ![i].status = status, ![i].step = step]
\* Unless "race" says otherwise, people answer the operations of an account in
\* their order, one after the other, and not while begin is at work.
CanServe(i) == May("race") \/ /\ ~Beginning(Home[op[i].a])
                              /\ \A j \in 1..i - 1 : op[j].a = op[i].a =>
                                    op[j].status \notin Open /\ op[j].step = "rest"

\* The consumer processes a message about an account of a target it knows.
Message(a, kind) ==
    /\ Len(op) < MaxRows[faults] /\ Home[a] \in OnFile
    /\ Underway(Home[a]) => May("late")
    /\ op' = Append(op, New(a, kind, FALSE))
    /\ UNCHANGED <<catalogVars, request, inventory, redis, outside, known, co, worker,
                   crashes, history, faults>>

\* _request_approval of the consumer.
AskApproval(i) ==
    /\ op[i].step = "asking" /\ ~op[i].deco
    /\ Row(i, "APPROVAL_PENDING", "rest")
    /\ UNCHANGED <<catalogVars, request, inventory, redis, outside, known, co, worker,
                   crashes, history, faults>>

\* Mutant: a decision does not look at the status.
AnswerAny(i) ==
    /\ op[i].status # "SUCCESS" /\ op[i].step = "rest" /\ CanServe(i)
    /\ Row(i, op[i].status, "answered")
    /\ UNCHANGED <<catalogVars, request, inventory, redis, outside, known, co, worker,
                   crashes, history, faults>>

\* process_approval_response finds the operation waiting ...
Answer(i) ==
    /\ op[i].status = "APPROVAL_PENDING" /\ op[i].step = "rest" /\ CanServe(i)
    /\ Row(i, op[i].status, "answered")
    /\ UNCHANGED <<catalogVars, request, inventory, redis, outside, known, co, worker,
                   crashes, history, faults>>

\* ... rejects it, or starts the provisioning ...
Decide(i) ==
    /\ op[i].step = "answered" /\ CanServe(i)
    /\ \/ Row(i, "PROCESSING", "calling")
       \/ May("reject") /\ Row(i, "FAILED", "rest")
    /\ UNCHANGED <<catalogVars, request, inventory, redis, outside, known, co, worker,
                   crashes, history, faults>>

\* ... which needs the target in the catalogue, and may fail before ("target") or
\* after ("partial") the account changed.
Call(i) ==
    LET a    == op[i].a
        done == IF op[i].kind = "delete" THEN account \ {a} ELSE account \cup {a}
    IN
    /\ op[i].step = "calling" /\ CanServe(i)
    /\ \/ Home[a] \in Listed /\ account' = done /\ Row(i, op[i].status, "closing")
       \/ May("target")  /\ Row(i, "FAILED", "rest") /\ UNCHANGED account
       \/ May("partial") /\ Row(i, "FAILED", "rest") /\ account' = done
       \/ Home[a] \notin Listed /\ Row(i, "FAILED", "rest") /\ UNCHANGED account
    /\ UNCHANGED <<catalogVars, request, inventory, redis, role, known, co, worker, crashes,
                   history, faults>>

Succeed(i) ==
    /\ op[i].step = "closing" /\ CanServe(i)
    /\ Row(i, "SUCCESS", "marking")
    /\ UNCHANGED <<catalogVars, request, inventory, redis, outside, known, co, worker,
                   crashes, history, faults>>

\* store_user_state, or delete_user_state.
MarkUser(i) ==
    /\ op[i].step = "marking" /\ CanServe(i)
    /\ snapshot' = IF op[i].kind = "delete" THEN snapshot \ {op[i].a} ELSE snapshot \cup {op[i].a}
    /\ Row(i, op[i].status, "rest")
    /\ UNCHANGED <<catalogVars, request, inventory, state, outside, known, co, worker, crashes,
                   history, faults>>

\* A retry asked for by an operator never gets further than this (see module
\* RetryManager): its attempts run out.
Retry(i) ==
    /\ op[i].step = "rest" /\ May("retry")
    /\ \/ op[i].status = "FAILED" /\ Row(i, "RETRYING", "rest")
       \/ op[i].status = "RETRYING" /\ Row(i, "DLQ", "rest")
    /\ UNCHANGED <<catalogVars, request, inventory, redis, outside, known, co, worker,
                   crashes, history, faults>>

\* user_state keys expire.
Expire(a) ==
    /\ May("expiry") /\ a \in snapshot
    /\ snapshot' = snapshot \ {a}
    /\ UNCHANGED <<catalogVars, tables, state, outside, known, co, worker, crashes,
                   history, faults>>

Operations ==
    \/ \E a \in Accounts, kind \in {"write", "delete"} : Message(a, kind)
    \/ \E i \in DOMAIN op : \/ AskApproval(i) \/ Answer(i) \/ Decide(i) \/ Call(i)
                            \/ Succeed(i) \/ MarkUser(i) \/ Retry(i)
    \/ \E a \in Accounts : Expire(a)

-----------------------------------------------------------------------------
\* begin

\* DELETE /runtime-targets/{id}, and decommission-unpersisted for all of them.
BeginRequest(h) ==
    /\ At(h, "idle") /\ Free(h)
    /\ \A g \in Handlers : co[g].job = "begin" => May("double")
    /\ \E todo \in {Listed} \cup {{t} : t \in Listed} :
         todo # {} /\ Become(h, [Idle EXCEPT !.job = "begin", !.pc = "next", !.todo = todo])
    /\ UNCHANGED <<catalogVars, tables, redis, outside, known, worker, crashes, history, faults>>

\* Mutant: the key is not looked at.
BeginAgain(h) ==
    /\ At(h, "next") /\ co[h].job = "begin"
    /\ IF co[h].todo = {} THEN Finish(h)
       ELSE \E t \in co[h].todo :
            Become(h, IF t \notin Listed THEN Idle
                      ELSE [co[h] EXCEPT !.todo = @ \ {t}, !.t = t, !.pc = "list"])
    /\ UNCHANGED <<catalogVars, tables, redis, outside, known, worker, crashes, history, faults>>

\* A target with a key is not begun again; one that is gone ends the request.
BeginTarget(h) ==
    /\ At(h, "next") /\ co[h].job = "begin"
    /\ IF co[h].todo = {} THEN Finish(h)
       ELSE \E t \in co[h].todo :
            Become(h, CASE t \notin Listed   -> Idle
                        [] state[t] # None   -> [co[h] EXCEPT !.todo = @ \ {t}]
                        [] OTHER             -> [co[h] EXCEPT !.todo = @ \ {t}, !.t = t, !.pc = "list"])
    /\ UNCHANGED <<catalogVars, tables, redis, outside, known, worker, crashes, history, faults>>

Latest(a) == LET mine == {i \in DOMAIN op : op[i].a = a} IN
    IF mine = {} THEN None ELSE op[CHOOSE i \in mine : \A j \in mine : j <= i]

Cancellable(t) == {i \in RowsOf(t) : op[i].status \in Open /\ ~op[i].deco}

\* The rows as they are now serve for the rest of begin.
ListOperations(h) ==
    /\ At(h, "list")
    /\ May("race") \/ \A i \in RowsOf(co[h].t) : op[i].step = "rest"
    /\ Become(h, [co[h] EXCEPT !.latest = [a \in Accounts |-> Latest(a)],
                               !.left = Cancellable(co[h].t), !.pc = "cancel"])
    /\ UNCHANGED <<catalogVars, tables, redis, outside, known, worker, crashes, history, faults>>

\* Each open operation loses its approval keys and becomes FAILED, whatever its
\* row is by now.  (The callback endpoint decides without those keys.)  Keys and
\* row are one step: in between the code lets go on what the model lets go on
\* before it, a decision whose link is consumed, and less, as no other begins.
CancelOperations(h) ==
    /\ At(h, "cancel")
    /\ \/ co[h].left = {} /\ Goto(h, "requests") /\ UNCHANGED <<op, cancelled>>
       \/ \E i \in co[h].left :
          /\ op' = [op EXCEPT ![i].status = "FAILED"]
          /\ cancelled' = cancelled \cup {i}
          /\ Become(h, [co[h] EXCEPT !.left = @ \ {i}])
    /\ UNCHANGED <<catalogVars, request, inventory, redis, outside, known, worker, crashes,
                   gone, faults>>

CancelRequests(h) ==
    /\ At(h, "requests")
    /\ request' = [request EXCEPT ![co[h].t] = IF @ = "PENDING" THEN "CANCELLED" ELSE @]
    /\ Goto(h, "scan")
    /\ UNCHANGED <<catalogVars, op, inventory, redis, outside, known, worker, crashes, history,
                   faults>>

\* The snapshots, corrected by the latest operation of each account as it was
\* when the rows were listed.
Candidates(h) ==
    LET last(a) == co[h].latest[a]
        deleted == {a \in AccountsOf(co[h].t) :
                        last(a) # None /\ last(a).kind = "delete" /\ last(a).status = "SUCCESS"}
        worked  == {a \in AccountsOf(co[h].t) :
                        last(a) # None /\ last(a).status \in {"SUCCESS", "PROCESSING"}}
    IN ((AccountsOf(co[h].t) \cap snapshot) \cup worked) \ deleted

ScanSnapshots(h) ==
    /\ At(h, "scan")
    /\ Become(h, [co[h] EXCEPT !.left = Candidates(h), !.pc = "create",
                               !.latest = Idle.latest])
    /\ UNCHANGED <<catalogVars, tables, redis, outside, known, worker, crashes, history, faults>>

\* Mutant: another operation is remembered.
CreateDeleteAndMiscount(h) ==
    /\ At(h, "create") /\ co[h].left # {} /\ Len(op) < MaxRows[faults]
    /\ \E a \in co[h].left :
        /\ op' = Append(op, New(a, "delete", TRUE))
        /\ Become(h, [co[h] EXCEPT !.left = @ \ {a}, !.made = @ \cup {Len(op), Len(op) + 2}, !.pc = "create"])
    /\ UNCHANGED <<catalogVars, request, inventory, redis, outside, known, worker, crashes,
                   history, faults>>

\* process_message inserts the DELETE of each account ...
CreateDelete(h) ==
    /\ At(h, "create") /\ co[h].left # {} /\ Len(op) < MaxRows[faults]
    /\ \E a \in co[h].left :
        /\ op' = Append(op, New(a, "delete", TRUE))
        /\ Become(h, [co[h] EXCEPT !.left = @ \ {a}, !.made = @ \cup {Len(op) + 1}, !.pc = "ask"])
    /\ UNCHANGED <<catalogVars, request, inventory, redis, outside, known, worker, crashes,
                   history, faults>>

\* ... and asks for its approval; when that fails, begin fails.
AskDelete(h) ==
    /\ At(h, "ask")
    /\ \E i \in co[h].made :
        /\ op[i].step = "asking"
        /\ \/ Row(i, "APPROVAL_PENDING", "rest") /\ Goto(h, "create")
           \/ May("ask") /\ Row(i, "FAILED", "rest") /\ Finish(h)
    /\ UNCHANGED <<catalogVars, request, inventory, redis, outside, known, worker, crashes,
                   history, faults>>

\* The state is saved last.
SaveState(h) ==
    /\ At(h, "create") /\ co[h].left = {}
    /\ state' = [state EXCEPT ![co[h].t] =
                    [ops |-> co[h].made,
                     status |-> IF co[h].made = {} THEN "CLEANUP_READY" ELSE "WAITING_APPROVALS"]]
    /\ Become(h, [Idle EXCEPT !.job = "begin", !.pc = "next", !.todo = co[h].todo])
    /\ UNCHANGED <<catalogVars, tables, snapshot, outside, known, worker, crashes, history, faults>>

Begin(h) ==
    \/ BeginTarget(h) \/ ListOperations(h) \/ CancelOperations(h) \/ CancelRequests(h)
    \/ ScanSnapshots(h) \/ CreateDelete(h) \/ AskDelete(h) \/ SaveState(h)

-----------------------------------------------------------------------------
\* process_all

\* The worker's call; the keys are scanned.
ProcessRequest(h) ==
    /\ At(h, "idle") /\ Free(h) /\ worker.pc = "sleep"
    /\ Become(h, [Idle EXCEPT !.job = "process", !.pc = "load",
                              !.todo = {t \in Targets : state[t] # None}])
    /\ worker' = [worker EXCEPT !.pc = "processing"]
    /\ UNCHANGED <<catalogVars, tables, redis, outside, known, crashes, history, faults>>

NextTarget(h) == Become(h, [Idle EXCEPT !.job = "process", !.pc = "load", !.todo = co[h].todo])
\* An error in one target ends the whole request.
Raise(h)      == Goto(h, "answered")

LoadState(h) ==
    /\ At(h, "load")
    /\ IF co[h].todo = {} THEN Goto(h, "answered")
       ELSE \E t \in co[h].todo :
            Become(h, IF state[t] = None THEN [co[h] EXCEPT !.todo = @ \ {t}]
                      ELSE [co[h] EXCEPT !.todo = @ \ {t}, !.t = t, !.made = state[t].ops,
                                         !.pc = "statuses"])
    /\ UNCHANGED <<catalogVars, tables, redis, outside, known, worker, crashes, history, faults>>

\* Mutant: operations that are over need not have succeeded.
CheckOver(h) ==
    /\ At(h, "statuses")
    /\ Goto(h, IF \E i \in co[h].made : op[i].status \in Open THEN "hold" ELSE "mark")
    /\ UNCHANGED <<catalogVars, tables, redis, outside, known, worker, crashes, history, faults>>

\* Mutant: the statuses must be SUCCESS and nothing else, of no operation too.
CheckExactly(h) ==
    /\ At(h, "statuses")
    /\ Goto(h, IF {op[i].status : i \in co[h].made} = {"SUCCESS"} THEN "mark" ELSE "hold")
    /\ UNCHANGED <<catalogVars, tables, redis, outside, known, worker, crashes, history, faults>>

CheckStatuses(h) ==
    /\ At(h, "statuses")
    /\ Goto(h, IF \A i \in co[h].made : op[i].status = "SUCCESS" THEN "mark"
               ELSE IF \E i \in co[h].made : op[i].status \in {"FAILED", "DLQ"} THEN "block"
               ELSE "hold")
    /\ UNCHANGED <<catalogVars, tables, redis, outside, known, worker, crashes, history, faults>>

SetState(h, status) == state' = [state EXCEPT ![co[h].t] = [ops |-> co[h].made, status |-> status]]

Hold(h) ==
    /\ \/ At(h, "hold")  /\ SetState(h, "WAITING_APPROVALS")
       \/ At(h, "block") /\ SetState(h, "BLOCKED")
    /\ NextTarget(h)
    /\ UNCHANGED <<catalogVars, tables, snapshot, outside, known, worker, crashes, history, faults>>

MarkCleaning(h) ==
    /\ At(h, "mark")
    /\ SetState(h, "CLEANING_MIDPOINT") /\ Goto(h, "roles")
    /\ UNCHANGED <<catalogVars, tables, snapshot, outside, known, worker, crashes, history, faults>>

\* Shadows and roles of the target go.  The target must still be listed.
CleanMidPoint(h) ==
    /\ At(h, "roles")
    /\ \/ /\ co[h].t \in Listed
          /\ role' = IF co[h].t \in inventory THEN role \ {co[h].t} ELSE role
          /\ Goto(h, "rows")
       \/ /\ co[h].t \notin Listed \/ May("midpoint")
          /\ Raise(h) /\ UNCHANGED role
    /\ UNCHANGED <<catalogVars, tables, redis, account, known, worker, crashes, history, faults>>

\* Mutant: the removal requests stay.
DeleteInventoryOnly(h) ==
    /\ \/ /\ At(h, "rows") /\ Goto(h, "inventory") /\ UNCHANGED <<request, inventory>>
       \/ /\ At(h, "inventory") /\ inventory' = inventory \ {co[h].t}
          /\ Goto(h, "keys") /\ UNCHANGED request
    /\ UNCHANGED <<catalogVars, op, redis, outside, known, worker, crashes, history, faults>>

DeleteRows(h) ==
    /\ \/ /\ At(h, "rows") /\ request' = [request EXCEPT ![co[h].t] = "none"]
          /\ Goto(h, "inventory") /\ UNCHANGED inventory
       \/ /\ At(h, "inventory") /\ inventory' = inventory \ {co[h].t}
          /\ Goto(h, "keys") /\ UNCHANGED request
    /\ UNCHANGED <<catalogVars, op, redis, outside, known, worker, crashes, history, faults>>

DeleteUserStates(h) ==
    /\ At(h, "keys")
    /\ snapshot' = snapshot \ AccountsOf(co[h].t)
    /\ Goto(h, "remove")
    /\ UNCHANGED <<catalogVars, tables, state, outside, known, worker, crashes, history, faults>>

\* The worker's state file and the overlay are written without an await.
RemoveTarget(h) ==
    /\ At(h, "remove")
    /\ known' = known \ {co[h].t}
    /\ IF co[h].t \in Listed
       THEN RemoveRuntime(co[h].t) /\ gone' = gone \cup {co[h].t} /\ Goto(h, "drop")
       ELSE UNCHANGED <<catalogVars, gone>> /\ Raise(h)
    /\ UNCHANGED <<tables, redis, outside, worker, crashes, cancelled, faults>>

DropState(h) ==
    /\ At(h, "drop")
    /\ state' = [state EXCEPT ![co[h].t] = None]
    /\ NextTarget(h)
    /\ UNCHANGED <<catalogVars, tables, snapshot, outside, known, worker, crashes, history, faults>>

Process(h) ==
    \/ LoadState(h) \/ CheckStatuses(h) \/ Hold(h) \/ MarkCleaning(h) \/ CleanMidPoint(h)
    \/ DeleteRows(h) \/ DeleteUserStates(h) \/ RemoveTarget(h) \/ DropState(h)

-----------------------------------------------------------------------------
\* The synchronisation worker, of which module EntitlementSync has the rest.

\* The answer of process_all, or giving it up: the request goes on.
WorkerGoesOn ==
    /\ worker.pc = "processing"
    /\ \/ /\ \E h \in Handlers : At(h, "answered") /\ Finish(h)
          /\ UNCHANGED crashes
       \/ /\ May("abandon") /\ crashes < MaxCrashes
          /\ crashes' = crashes + 1 /\ UNCHANGED co
    /\ worker' = [worker EXCEPT !.pc = "sync", !.known = known, !.todo = OnFile]
    /\ UNCHANGED <<catalogVars, tables, redis, outside, known, history, faults>>

\* A request nobody waits for ends.
Unheard(h) ==
    /\ At(h, "answered") /\ worker.pc # "processing"
    /\ Finish(h)
    /\ UNCHANGED <<catalogVars, tables, redis, outside, known, worker, crashes, history, faults>>

\* A target whose entitlement is new to the state file gets its role.
UpsertRole(t) ==
    /\ worker.pc = "sync" /\ t \in worker.todo
    /\ role' = IF t \in worker.known THEN role ELSE role \cup {t}
    /\ worker' = [worker EXCEPT !.pc = "post", !.t = t, !.todo = @ \ {t}]
    /\ UNCHANGED <<catalogVars, tables, redis, account, known, co, crashes, history, faults>>

\* The reconciliation: rows for what is there, and perhaps a request for what
\* is not.  The API does not ask whether the target is still listed.
ReconcileRows ==
    /\ worker.pc = "post"
    /\ inventory' = inventory \cup {worker.t}
    /\ request' \in {request, [request EXCEPT ![worker.t] = "PENDING"]}
    /\ worker' = [worker EXCEPT !.pc = "save", !.known = @ \cup {worker.t}]
    /\ UNCHANGED <<catalogVars, op, redis, outside, known, co, crashes, history, faults>>

\* The whole payload is saved, as it was read at the start of the cycle.
SaveKnown ==
    /\ worker.pc = "save"
    /\ known' = worker.known
    /\ worker' = [worker EXCEPT !.pc = "sync", !.t = None]
    /\ UNCHANGED <<catalogVars, tables, redis, outside, co, crashes, history, faults>>

EndCycle ==
    /\ worker.pc = "sync" /\ worker.todo = {}
    /\ worker' = Resting
    /\ UNCHANGED <<catalogVars, tables, redis, outside, known, co, crashes, history, faults>>

Worker == WorkerGoesOn \/ (\E t \in Targets : UpsertRole(t)) \/ ReconcileRows \/ SaveKnown \/ EndCycle

-----------------------------------------------------------------------------
\* The API stops and starts: requests and decisions end where they are, and
\* the catalogue is read again.
Crash ==
    /\ May("api") /\ crashes < MaxCrashes
    /\ crashes' = crashes + 1
    /\ co' = [h \in Handlers |-> Idle]
    /\ op' = [i \in DOMAIN op |->
                IF op[i].step = "asking" /\ ~op[i].deco THEN op[i] ELSE [op[i] EXCEPT !.step = "rest"]]
    /\ worker' = IF worker.pc = "processing"
                 THEN [worker EXCEPT !.pc = "sync", !.known = known, !.todo = OnFile] ELSE worker
    /\ Restart
    /\ UNCHANGED <<request, inventory, redis, outside, known, history, faults>>

\* POST /runtime-targets with a tested target; PUT /gateway/{name}.
Dashboard ==
    /\ \/ May("readd") /\ \E t \in gone : AddRuntime(t)
       \/ May("edit")  /\ \E t \in Targets : UpdateConfig(t)
    /\ UNCHANGED <<tables, redis, outside, known, co, worker, crashes, history, faults>>

Serve(h) == Begin(h) \/ Process(h) \/ Unheard(h)

Next ==
    \/ Operations \/ Worker \/ Crash \/ Dashboard
    \/ \E h \in Handlers : BeginRequest(h) \/ ProcessRequest(h) \/ Serve(h)

Spec == Init /\ [][Next]_vars

\* The API serves what it accepted, accepts the worker's calls however many
\* other requests it has, and the worker is a loop.
FairSpec ==
    /\ Spec
    /\ \A h \in Handlers : WF_vars(Serve(h))
    /\ SF_vars(\E h \in Handlers : ProcessRequest(h))
    /\ WF_vars(Worker)

-----------------------------------------------------------------------------
\* Properties

OperationType == [a : Accounts, kind : {"write", "delete"}, status : Statuses, deco : BOOLEAN,
                  step : {"asking", "rest", "answered", "calling", "closing", "marking"}]

DecommissionTypeOK ==
    /\ overlay \in Entries /\ cache \in Entries
    /\ op \in Seq(OperationType) /\ Len(op) <= MaxRows[faults]
    /\ account \subseteq Accounts /\ snapshot \subseteq Accounts
    /\ \A t \in Targets : state[t] = None \/
            /\ state[t] \in Decommissions /\ state[t].ops \subseteq DOMAIN op
    /\ request \in [Targets -> {"none", "PENDING", "CANCELLED"}]
    /\ role \subseteq Targets /\ inventory \subseteq Targets /\ known \subseteq Targets

Removed == gone \ OnFile

\* "Keep target configuration until accounts ... are gone": a target a
\* decommission removed holds no account, also when deletions are rejected or
\* fail, MidPoint fails, two begins overlap or the target is created again.
\* The exceptions are the ways begin can overlook an account: a message that
\* arrives after it, an answer that is served beside it or out of order (the
\* latest row of the account is then not what happened last), an account whose
\* snapshot is lost (expired, or never stored because of a crash) while its
\* latest operation is an update that did not succeed, and one that a failed
\* operation left behind.  And a process_all the worker gave up may have read
\* the end of the decommission before the target was created again, and go on.
Overlooks == \/ {"late", "race", "expiry", "api", "partial"} \cap faults # {}
             \/ {"abandon", "readd"} \subseteq faults
AccountsGone ==
    ~Overlooks => \A t \in Removed : AccountsOf(t) \cap account = {}

\* Nothing of a removed target is left in MidPoint, the tables, Redis or the
\* worker's state file, also after errors and crashes in the middle of the
\* cleaning: it is done again from the start, and the target goes last.
\* (A worker that gave process_all up works beside it and writes things back.)
ResidueGone ==
    {"late", "race", "abandon"} \cap faults = {} =>
        \A t \in Removed : /\ t \notin role \cup inventory \cup known
                           /\ request[t] = "none" /\ AccountsOf(t) \cap snapshot = {}

\* A decommission asks once for the deletion of an account.  (A begin that
\* fails or is interrupted before the state is saved leaves its deletions to
\* be answered, and the next begin asks again; so do two begins at once.)
OneDelete ==
    {"api", "ask", "double", "readd"} \cap faults = {} =>
        \A i, j \in DOMAIN op : op[i].deco /\ op[j].deco /\ op[i].a = op[j].a => i = j

\* An operation begin cancelled is not carried out afterwards.
CancelledIsDead ==
    "race" \notin faults => \A i \in cancelled : op[i].step = "rest"

AllDeleted(t) == state[t] # None /\ \A i \in state[t].ops : op[i].status = "SUCCESS"

\* Once every deletion succeeded the target goes and so does its state, without
\* anybody doing anything.  (A crash between the two last writes, or a second
\* begin that saves its state when the first has run its course, leaves a state
\* whose target is unknown: every later process_all ends there with an error,
\* whatever other target it had still to look at.)
DecommissionEnds ==
    {"api", "abandon", "midpoint", "readd", "double"} \cap faults = {} =>
        \A t \in Targets : AllDeleted(t) ~> state[t] = None /\ t \notin OnFile

\* "Keep target configuration until accounts and MidPoint roles are gone."
\* Violated: messages for the target are still accepted after begin.
KeptForAccounts == \A t \in Removed : AccountsOf(t) \cap account = {}
=============================================================================
