---------------------------- MODULE EntitlementSync ----------------------------
(***************************************************************************)
(* The worker that discovers entitlements and drives their removal:        *)
(* app/services/entitlement_sync_service.py, scripts/start_entitlement_    *)
(* sync.py, and the deployment's own call (ansible/roles/midpoint).        *)
(*                                                                         *)
(* A cycle first has the approved removals executed, then discovers the    *)
(* target, creates the roles of new entitlements, posts the manifest with  *)
(* the absences that are not yet confirmed filled in, and saves its state. *)
(***************************************************************************)
EXTENDS EntitlementRemoval

CONSTANTS
    Confirmations, \* missing_confirmation_cycles
    MaxCrashes     \* bound: crashes of the API or of the worker

ASSUME SyncAssumption == Confirmations \in Nat \ {0} /\ MaxCrashes \in Nat

VARIABLES
    file,     \* entitlement-sync-state.json: known keys and their missing_counts
    worker,   \* the cycle in progress
    deploy,   \* the deployment: what it does next, the manifest it collected
    crashes,  \* crashes so far
    gap       \* history: successful discoveries since the key was last seen

vars == <<removalVars, file, worker, deploy, crashes, gap>>
outside == <<tables, midpoint, deletions, world, history>>

Sleeping == [pc |-> "sleep", next |-> [known |-> {}, count |-> [k \in Keys |-> 0]],
             adds |-> {}, items |-> {}, excluded |-> {}]
Phases   == {"sleep", "executing", "discover", "upsert", "import", "post", "posting"}

SyncInit ==
    /\ RemovalInit
    /\ file    = [known |-> Present, count |-> [k \in Keys |-> 0]]
    /\ worker  = Sleeping
    /\ deploy  = [pc |-> IF May("deploy") THEN "roles" ELSE "over", items |-> {}]
    /\ crashes = 0
    /\ gap     = [k \in Keys |-> 0]

Login == {k \in Keys : native[k] = "login"}
Worker(phase) == worker.pc = phase
Answered(h, caller) == co[h].pc \in {"done", "failed"} /\ co[h].caller = caller

\* Mutant: one absence is enough.
ConfirmAtOnce(f, items) == [known |-> items, count |-> [k \in Keys |-> 0]]

\* _confirmed_manifest: the next state; its known keys are the manifest posted.
Confirm(f, items) ==
    LET absent == {k \in f.known \ items : f.count[k] + 1 < Confirmations} IN
    [known |-> items \cup absent,
     count |-> [k \in Keys |-> IF k \in absent THEN f.count[k] + 1 ELSE 0]]

\* run_cycle starts with process-approved ...
BeginCycle(h) ==
    /\ Worker("sleep")
    /\ ProcessApproved(h)
    /\ worker' = [worker EXCEPT !.pc = "executing"]
    /\ UNCHANGED <<outside, file, deploy, crashes, gap>>

\* ... whose outcome does not matter.
ExecutionReturns(h) ==
    /\ Worker("executing") /\ Answered(h, "worker")
    /\ Becomes(h, Idle)
    /\ worker' = [worker EXCEPT !.pc = "discover"]
    /\ UNCHANGED <<outside, file, deploy, crashes, gap>>

\* _discover and _confirmed_manifest.  A discovery that fails is not
\* reconciled and counts for nothing.
Discover ==
    /\ Worker("discover")
    /\ \/ /\ May("discover") /\ worker' = Sleeping
          /\ UNCHANGED gap
       \/ /\ worker' = [pc |-> "upsert", next |-> Confirm(file, Present),
                        adds |-> Present \ file.known, items |-> Present, excluded |-> Login]
          /\ gap' = [k \in Keys |-> IF k \in Present THEN 0
                                    ELSE IF gap[k] < Confirmations THEN gap[k] + 1 ELSE gap[k]]
    /\ UNCHANGED <<outside, co, file, deploy, crashes>>

\* Mutant: only entitlements the inventory does not know get a role.
UpsertUnlessInventoried ==
    /\ Worker("upsert")
    /\ IF worker.adds = {}
       THEN /\ worker' = [worker EXCEPT !.pc = "post"] /\ UNCHANGED midpoint
       ELSE \E k \in worker.adds :
            /\ role' = IF inventory[k] = "none" THEN role \cup {k} ELSE role
            /\ worker' = [worker EXCEPT !.adds = @ \ {k}] /\ UNCHANGED <<holds, shadow>>
    /\ UNCHANGED <<tables, deletions, world, history, co, file, deploy, crashes, gap>>

\* _upsert_additions: upsert_role_xml of each new entitlement, then the import
\* of shadows.  An error ends the cycle and nothing is saved.
Upsert ==
    /\ Worker("upsert")
    /\ \/ /\ worker.adds = {}
          /\ worker' = [worker EXCEPT !.pc = "post"]
          /\ shadow' = IF worker.items \subseteq file.known THEN shadow ELSE shadow \cup Present
          /\ UNCHANGED <<role, holds>>
       \/ \E k \in worker.adds :
          /\ role' = role \cup {k}
          /\ worker' = [worker EXCEPT !.adds = @ \ {k}]
          /\ UNCHANGED <<holds, shadow>>
       \/ /\ May("cleanup") /\ worker' = Sleeping
          /\ UNCHANGED midpoint
    /\ UNCHANGED <<tables, deletions, world, history, co, file, deploy, crashes, gap>>

\* Mutant: the worker does not wait for the reconciliation.
PostAndForget(h) ==
    /\ Worker("post")
    /\ Reconcile(h, "people", worker.next.known, worker.excluded,
                 {k \in Keys : gap[k] >= Confirmations})
    /\ file' = worker.next
    /\ worker' = Sleeping
    /\ UNCHANGED <<outside, deploy, crashes, gap>>

\* _reconcile with the effective manifest.
Post(h) ==
    /\ Worker("post")
    /\ Reconcile(h, "worker", worker.next.known, worker.excluded,
                 {k \in Keys : gap[k] >= Confirmations})
    /\ worker' = [worker EXCEPT !.pc = "posting"]
    /\ UNCHANGED <<outside, file, deploy, crashes, gap>>

\* The state is saved when the reconciliation succeeded.
Save(h) ==
    /\ Worker("posting") /\ Answered(h, "worker")
    /\ Becomes(h, Idle)
    /\ file' = IF At(h, "done") THEN worker.next ELSE file
    /\ worker' = Sleeping
    /\ UNCHANGED <<outside, deploy, crashes, gap>>

\* The worker gives a call up (request_timeout_seconds) or is restarted; what
\* it called goes on without it.
Abandon ==
    /\ May("abandon") /\ crashes < MaxCrashes
    /\ worker.pc # "sleep"
    /\ crashes' = crashes + 1
    /\ worker' = IF Worker("executing") THEN [worker EXCEPT !.pc = "discover"] ELSE Sleeping
    /\ co' = [h \in Handlers |-> IF Answered(h, "worker") THEN Idle
                                 ELSE IF co[h].caller = "worker"
                                      THEN [co[h] EXCEPT !.caller = "people"] ELSE co[h]]
    /\ UNCHANGED <<outside, file, deploy, gap>>

Crash ==
    /\ crashes < MaxCrashes /\ crashes' = crashes + 1
    /\ ApiCrash
    /\ UNCHANGED <<file, worker, deploy, gap>>

-----------------------------------------------------------------------------
\* A deployment collects the manifests, writes every role, posts the manifests
\* without waiting for confirmations, and registers the legacy roles.

DeployRoles ==
    /\ deploy.pc = "roles"
    /\ role'   = role \cup Present
    /\ deploy' = [pc |-> "reconcile", items |-> Present]
    /\ UNCHANGED <<tables, holds, shadow, deletions, world, history, co, file, worker,
                   crashes, gap>>

DeployCall(h) ==
    /\ \/ /\ deploy.pc = "reconcile"
          /\ Reconcile(h, "ansible", deploy.items, Login \ deploy.items, {})
          /\ deploy' = [deploy EXCEPT !.pc = "legacy"]
       \/ /\ deploy.pc = "legacy" /\ \A g \in Handlers : co[g].caller # "ansible"
          /\ RegisterLegacy(h, deploy.items)
          /\ deploy' = [deploy EXCEPT !.pc = "over"]
    /\ UNCHANGED <<outside, file, worker, crashes, gap>>

\* A call that fails ends the deployment.
DeployReturns(h) ==
    /\ Answered(h, "ansible")
    /\ Becomes(h, Idle)
    /\ deploy' = IF At(h, "failed") THEN [deploy EXCEPT !.pc = "over"] ELSE deploy
    /\ UNCHANGED <<outside, file, worker, crashes, gap>>

-----------------------------------------------------------------------------
Around(h) ==
    BeginCycle(h) \/ ExecutionReturns(h) \/ Post(h) \/ Save(h) \/ DeployCall(h) \/ DeployReturns(h)

SyncNext ==
    \/ \E h \in Handlers : ApiStep(h) /\ UNCHANGED <<file, worker, deploy, crashes, gap>>
    \/ People /\ UNCHANGED <<file, worker, deploy, crashes, gap>>
    \/ \E h \in Handlers : Around(h)
    \/ Discover \/ Upsert \/ DeployRoles \/ Abandon \/ Crash

SyncSpec == SyncInit /\ [][SyncNext]_vars

\* The worker is a loop, and the API serves what it accepted.
FairSyncSpec ==
    /\ SyncSpec
    /\ \A h \in Handlers :
        WF_vars(ApiStep(h) /\ UNCHANGED <<file, worker, deploy, crashes, gap>>)
    /\ WF_vars(\E h \in Handlers : Around(h))
    /\ WF_vars(Discover) /\ WF_vars(Upsert)

-----------------------------------------------------------------------------
\* Properties

Quiet == \A h \in Handlers : co[h].pc \in {"idle", "done", "failed"}

\* A role is removed from MidPoint only after every level of the chain has
\* answered yes, in the mail that was sent to it; also when the API stops
\* between two writes, and when the request is reconciled meanwhile.  Answers
\* that are served at the same time are excluded: send_current_level may then
\* store the token of a level that has been passed (see the README).
EveryLevelSigned ==
    ~May("double") =>
        /\ \A r \in Requests : req[r].status \in {"APPROVED", "COMPLETED", "FAILED"}
                               => signed[r] = Chain
        /\ \A r \in dismantled : signed[r] = Chain

\* One entitlement has one open request, whatever the cycles do: the lookup and
\* the creation in reconcile are two steps.  A worker that does not wait for
\* the answer, or a deployment, starts a second reconciliation beside the first.
OneOpenRequest ==
    {"abandon", "deploy"} \cap faults = {} =>
        \A k \in Keys : Cardinality(Of(k, "PENDING")) <= 1

\* An entitlement marked missing has a request that somebody answered or can
\* answer, or that execute cancelled because it was back: reconcile looks at
\* active rows only, so a row marked inactive without a request is never looked
\* at again.  (A crash of the API between the two writes does that; so does a
\* cleanup that fails after the pending request of a login account has been
\* cancelled for it.)
MissingHasRequest ==
    {"api", "abandon", "deploy"} \cap faults = {} /\ ~({"cleanup", "login"} \subseteq faults) =>
        \A k \in Keys \ Legacy :
            inventory[k] = "missing" =>
                \/ \E r \in Used : req[r].key = k /\ (req[r].status = "CANCELLED" => r \in revoked)
                \/ \E h \in Handlers : co[h].job = "reconcile" /\ co[h].k = k

\* While nothing is being served, a pending request has been mailed to the
\* approver of its current level, and that mail's link opens it (to decide, or
\* once expired to renew).
PendingCanBeDecided ==
    {"api", "email", "double"} \cap faults = {} /\ Quiet =>
        \A r \in Requests : req[r].status = "PENDING" =>
            \E t \in 1..Len(link) : /\ req[r].token = t /\ link[t].r = r
                                    /\ link[t].level = req[r].level /\ link[t].sent

\* An entitlement enters the state file only with its role, and one it knows
\* loses it only in the execution of its own approved removal: upsert is for
\* new keys only, so a known key never gets a role back.  (A role of PostgreSQL
\* that is a login account for less than the confirmation cycles loses it
\* without asking, and stays known.)
KnownHasRole ==
    [][{"abandon", "login"} \cap faults = {} =>
        \A k \in file'.known \ role' :
            /\ k \in file.known
            /\ k \in role => \E r \in dismantled : req[r].key = k]_vars

\* A removal is asked for only after missing_confirmation_cycles successful
\* discoveries in a row without the entitlement; failed discoveries do not count.
\* (A deployment posts unconfirmed manifests; and the counters of a cycle that
\* fails are not saved, so an entitlement seen again in such a cycle only is
\* still counted as absent.)
AbsenceConfirmed ==
    [][{"api", "abandon", "cleanup", "email", "deploy"} \cap faults = {} =>
        \A h \in Handlers :
            At(h, "create") /\ ~At(h, "create")' /\ co'[h].pc = "sendRead" /\ co[h].job = "reconcile"
            => co[h].k \in co[h].quiet]_vars

\* A removal is COMPLETED only when every user it took the role from, and who
\* holds no role of an active entitlement, had the deletion of the account
\* asked for.  (A second execution, after a crash or a late answer that approves
\* a completed request again, finds no affected users; a deployment can mark a
\* second entitlement missing after the affected users were looked at.)
OrphansAsked ==
    [][{"api", "abandon", "deploy", "double"} \cap faults = {} =>
        \A r \in Requests :
            req[r].status = "APPROVED" /\ req'[r].status = "COMPLETED" /\ req[r].key \notin Legacy
            => \A u \in lost[r] : holds[u] \cap Active = {} => u \in deletions]_vars

\* An approved removal is executed, cancelled or recorded as failed in some
\* later cycle, also after crashes.
ApprovedIsExecuted ==
    {"discover", "double"} \cap faults = {} =>
        \A r \in Requests : req[r].status = "APPROVED" ~> req[r].status # "APPROVED"

\* "The shadow can still be referenced by account associations while the
\* corresponding role-removal approval is pending.  Physical deletion is
\* therefore performed by EntitlementRemovalService after approval."
\* (entitlement_sync_service.py)  Violated: the cleanup of one approved removal
\* deletes the shadow of every entitlement that is absent at that moment.
ShadowWaitsForApproval ==
    \A k \in Keys \ (Legacy \cup shadow) : \E r \in dismantled : req[r].key = k
=============================================================================
