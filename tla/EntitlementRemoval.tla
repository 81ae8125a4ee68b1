-------------------------- MODULE EntitlementRemoval --------------------------
(***************************************************************************)
(* Removal of the MidPoint role of an entitlement that vanished from its   *)
(* target: app/services/entitlement_removal_service.py, the endpoints of   *)
(* app/api/v1/endpoints/entitlement_removals.py and the MidPoint calls     *)
(* they make.  One target; the worker that drives them is EntitlementSync. *)
(*                                                                         *)
(* An HTTP request is a coroutine co[h] of the API process: its pc is the  *)
(* next awaited call, and everything up to the following one is one step.  *)
(***************************************************************************)
EXTENDS Naturals, Sequences, FiniteSets

CONSTANTS
    Keys,        \* entitlements of the target, and legacy roles
    Legacy,      \* the keys that stand for static roles of an older release
    Replacement, \* the entitlement that replaces a legacy role
    Users,
    Handlers,    \* requests the API serves at the same time
    MaxRequests, \* bound: rows of entitlementremovalrequest
    MaxLinks,    \* bound: decision links ever mailed
    Levels,      \* length of the approval chain
    FaultSets,   \* the combinations of faults to check
    Assignments, \* the roles users may hold at the beginning
    Budget,      \* bound: changes of the target and renewals, by fault set
    None

\* The API stops; the worker does not wait for an answer; MidPoint or a later
\* step of the cleanup fails; a mail is not sent; the target cannot be
\* discovered; two links are used at the same time; a deployment runs; a role of
\* a PostgreSQL target becomes a login account.
FaultKinds == {"api", "abandon", "cleanup", "email", "discover", "double", "deploy", "login"}

ASSUME RemovalAssumption ==
    /\ Legacy \subseteq Keys /\ Replacement \in [Legacy -> Keys \ Legacy]
    /\ Levels \in Nat \ {0} /\ MaxRequests \in Nat /\ MaxLinks \in Nat
    /\ FaultSets \subseteq SUBSET FaultKinds /\ Budget \in [FaultSets -> Nat]
    /\ Assignments \subseteq [Users -> SUBSET Keys]
    /\ None \notin Keys /\ None \notin Nat

VARIABLES
    native,     \* what the target holds under each key
    inventory,  \* entitlementinventory: active, missing (inactive), or no row
    req,        \* entitlementremovalrequest
    link,       \* decision links by token: request, level of the addressee, delivery
    expired,    \* tokens past token_expires_at
    role,       \* MidPoint: the roles that exist
    holds,      \* MidPoint: direct role assignments of each user
    shadow,     \* MidPoint: shadows of the target's entitlements
    deletions,  \* users a DELETE_USER operation was created for
    co,         \* the coroutines
    faults,     \* what may go wrong in this behaviour
    budget,     \* changes of native and renewals still to come
    signed,     \* history: levels whose approver answered yes, by request
    dismantled, \* history: requests whose role removal has begun
    revoked,    \* history: requests cancelled when they were to be executed
    lost        \* history: users a request took the role from

tables   == <<inventory, req, link>>
midpoint == <<role, holds, shadow>>
history  == <<signed, dismantled, revoked, lost>>
world    == <<native, expired, faults, budget>>
removalVars == <<tables, midpoint, deletions, co, world, history>>

Requests == 1..MaxRequests
Chain    == 1..Levels
Callers  == {"people", "worker", "ansible"}
Statuses == {"NONE", "PENDING", "APPROVED", "KEPT", "CANCELLED", "COMPLETED", "FAILED"}
Jobs     == {"none", "decide", "renew", "reconcile", "legacy", "execute"}
Steps == {"idle", "clear", "record", "sendRead", "sendWrite", "exclude", "items",
          "cancel", "missing", "create", "migrate", "pick", "list", "unassign",
          "dropRole", "forget", "orphans", "askDelete", "shadows", "complete",
          "fail", "done", "failed"}

NoRequest == [key |-> None, status |-> "NONE", level |-> 1, token |-> 0]
Idle == [job |-> "none", pc |-> "idle", caller |-> "people", r |-> 0, k |-> None,
         level |-> 0, yes |-> FALSE, todo |-> {}, items |-> {}, users |-> {},
         affected |-> {}, quiet |-> {}]

At(h, step)    == co[h].pc = step
Becomes(h, c)  == co' = [co EXCEPT ![h] = c]
Goto(h, step)  == Becomes(h, [co[h] EXCEPT !.pc = step])
May(fault)     == fault \in faults
Present        == {k \in Keys : native[k] = "entitlement"}
Active         == {k \in Keys : inventory[k] = "active"}
Used           == {r \in Requests : req[r].status # "NONE"}
Of(k, status)  == {r \in Requests : req[r].key = k /\ req[r].status = status}

\* The answer to the worker or to the deployment stays in co until it is read.
Reply(c, ok) ==
    IF c.caller = "people" THEN Idle
    ELSE [Idle EXCEPT !.caller = c.caller, !.pc = IF ok THEN "done" ELSE "failed"]
Answer(h, ok) == Becomes(h, Reply(co[h], ok))
Raise(h) == Answer(h, FALSE)

\* Everything is in step at the beginning: each entitlement was discovered and
\* has its role; users hold any of them; legacy roles are still assigned.
RemovalInit ==
    /\ native     = [k \in Keys |-> IF k \in Legacy THEN "absent" ELSE "entitlement"]
    /\ inventory  = [k \in Keys |-> IF k \in Legacy THEN "none" ELSE "active"]
    /\ req        = [r \in Requests |-> NoRequest]
    /\ link       = <<>>
    /\ expired    = {}
    /\ role       = Keys
    /\ holds      \in Assignments
    /\ shadow     = Keys \ Legacy
    /\ deletions  = {}
    /\ co         = [h \in Handlers |-> Idle]
    /\ faults     \in FaultSets
    /\ budget     = Budget[faults]
    /\ signed     = [r \in Requests |-> {}]
    /\ dismantled = {}
    /\ revoked    = {}
    /\ lost       = [r \in Requests |-> {}]

-----------------------------------------------------------------------------
\* The two links of a mail.

\* Without the fault "double" one answer is served at a time.
Alone(h) == \A g \in Handlers \ {h} : ~May("double") => co[g].job \notin {"decide", "renew"}

\* find_first: the token is the current one of a pending request.
Opens(t) == /\ req[link[t].r].token = t
            /\ req[link[t].r].status = "PENDING"

\* GET /decision up to the read of the request.  An expired or replaced link
\* changes nothing.
Click(h, t, yes) ==
    /\ At(h, "idle") /\ Alone(h)
    /\ link[t].sent /\ t \notin expired /\ Opens(t)
    /\ LET r == link[t].r IN
       /\ Becomes(h, [Idle EXCEPT !.job = "decide", !.pc = "clear", !.r = r,
                                  !.level = req[r].level, !.yes = yes])
       /\ signed' = [signed EXCEPT ![r] = IF yes THEN @ \cup {link[t].level} ELSE @]
    /\ UNCHANGED <<tables, midpoint, deletions, world, dismantled, revoked, lost>>

\* decide: the link is used up.
ClearLink(h) ==
    /\ At(h, "clear")
    /\ req' = [req EXCEPT ![co[h].r].token = 0]
    /\ Goto(h, "record")
    /\ UNCHANGED <<inventory, link, midpoint, deletions, world, history>>

\* Mutant: the level after the last but one is taken for the last.
RecordOneLevelShort(h) ==
    LET r == co[h].r  lvl == co[h].level IN
    /\ At(h, "record")
    /\ \/ /\ ~co[h].yes
          /\ req' = [req EXCEPT ![r].status = "KEPT"] /\ Answer(h, TRUE)
       \/ /\ co[h].yes /\ lvl + 1 < Levels
          /\ req' = [req EXCEPT ![r].level = lvl + 1] /\ Goto(h, "sendRead")
       \/ /\ co[h].yes /\ lvl + 1 >= Levels
          /\ req' = [req EXCEPT ![r].status = "APPROVED"] /\ Answer(h, TRUE)
    /\ UNCHANGED <<inventory, link, midpoint, deletions, world, history>>

\* Mutant: the chain has no last level.
RecordPastTheEnd(h) ==
    LET r == co[h].r IN
    /\ At(h, "record")
    /\ req' = [req EXCEPT ![r] = IF co[h].yes THEN [@ EXCEPT !.level = co[h].level + 1]
                                 ELSE [@ EXCEPT !.status = "KEPT"]]
    /\ Goto(h, "sendRead")
    /\ UNCHANGED <<inventory, link, midpoint, deletions, world, history>>

\* Mutant: the request moves on, but nobody writes to the next approver.
RecordWithoutMail(h) ==
    LET r == co[h].r  lvl == co[h].level IN
    /\ At(h, "record")
    /\ req' = [req EXCEPT ![r] = IF ~co[h].yes THEN [@ EXCEPT !.status = "KEPT"]
                                 ELSE IF lvl < Levels THEN [@ EXCEPT !.level = lvl + 1]
                                 ELSE [@ EXCEPT !.status = "APPROVED"]]
    /\ Answer(h, TRUE)
    /\ UNCHANGED <<inventory, link, midpoint, deletions, world, history>>

\* decide: keep, pass on to the next level, or approve.  The level is the one
\* read with the link, and the status is not looked at again.
Record(h) ==
    LET r == co[h].r  lvl == co[h].level IN
    /\ At(h, "record")
    /\ \/ /\ ~co[h].yes
          /\ req' = [req EXCEPT ![r].status = "KEPT"] /\ Answer(h, TRUE)
       \/ /\ co[h].yes /\ lvl < Levels
          /\ req' = [req EXCEPT ![r].level = lvl + 1] /\ Goto(h, "sendRead")
       \/ /\ co[h].yes /\ lvl >= Levels
          /\ req' = [req EXCEPT ![r].status = "APPROVED"] /\ Answer(h, TRUE)
    /\ UNCHANGED <<inventory, link, midpoint, deletions, world, history>>

\* GET /renew: an expired link still opens it.
Renew(h, t) ==
    /\ At(h, "idle") /\ Alone(h)
    /\ link[t].sent /\ Opens(t) /\ budget > 0
    /\ Becomes(h, [Idle EXCEPT !.job = "renew", !.pc = "sendRead", !.r = link[t].r])
    /\ budget' = budget - 1
    /\ UNCHANGED <<tables, midpoint, deletions, native, expired, faults, history>>

\* send_current_level reads the request.
SendRead(h) ==
    /\ At(h, "sendRead")
    /\ IF req[co[h].r].status = "PENDING"
       THEN Becomes(h, [co[h] EXCEPT !.pc = "sendWrite", !.level = req[co[h].r].level])
       ELSE Raise(h)
    /\ UNCHANGED <<tables, midpoint, deletions, world, history>>

\* send_current_level stores a new token and mails the link; a mail that
\* cannot be sent is an exception of the caller.
SendWrite(h) ==
    LET r == co[h].r  t == Len(link) + 1 IN
    /\ At(h, "sendWrite") /\ Len(link) < MaxLinks
    /\ req' = [req EXCEPT ![r].token = t]
    /\ \E sent \in {TRUE} \cup {~May("email")} :
        /\ link' = Append(link, [r |-> r, level |-> co[h].level, sent |-> sent])
        /\ CASE ~sent -> Raise(h)
             [] sent /\ co[h].job = "reconcile" -> Goto(h, "missing")
             [] sent /\ co[h].job = "legacy"    -> Goto(h, "migrate")
             [] OTHER -> Answer(h, TRUE)
    /\ UNCHANGED <<inventory, midpoint, deletions, world, history>>

-----------------------------------------------------------------------------
\* reconcile(manifest)

\* Roles of a login account that was once taken for an entitlement are removed
\* without asking; the others are looked at next.  The lookup of the pending
\* requests and their cancellation are one step: an answer served in between is
\* overwritten, and the role goes whatever it was.  Which names are excluded
\* is the list of the target; that the history of operations adds the names of
\* accounts deleted since is left out.
Exclude(h) ==
    /\ At(h, "exclude")
    /\ IF co[h].todo = {}
       THEN /\ Becomes(h, [co[h] EXCEPT !.pc = "items", !.todo = co[h].items])
            /\ UNCHANGED req
       ELSE \E k \in co[h].todo :
            /\ req' = [r \in Requests |->
                          IF r \in Of(k, "PENDING")
                          THEN [req[r] EXCEPT !.status = "CANCELLED", !.token = 0]
                          ELSE req[r]]
            /\ Becomes(h, [co[h] EXCEPT !.pc = "list", !.k = k, !.todo = @ \ {k}])
    /\ UNCHANGED <<inventory, link, midpoint, deletions, world, history>>

\* The inventory row of an excluded name is deleted after its role.
Forget(h) ==
    /\ At(h, "forget")
    /\ inventory' = [inventory EXCEPT ![co[h].k] = "none"]
    /\ Goto(h, "exclude")
    /\ UNCHANGED <<req, link, midpoint, deletions, world, history>>

\* An item of the manifest is active; then its pending request is looked up.
\* At the end the active rows that are not in the manifest are read.
Items(h) ==
    /\ At(h, "items")
    /\ IF co[h].todo = {}
       THEN /\ Becomes(h, [co[h] EXCEPT !.pc = "missing", !.todo = Active \ co[h].items])
            /\ UNCHANGED inventory
       ELSE \E k \in co[h].todo :
            /\ inventory' = [inventory EXCEPT ![k] = "active"]
            /\ \/ /\ Of(k, "PENDING") = {}
                  /\ Becomes(h, [co[h] EXCEPT !.todo = @ \ {k}])
               \/ \E r \in Of(k, "PENDING") :
                  Becomes(h, [co[h] EXCEPT !.pc = "cancel", !.r = r, !.todo = @ \ {k}])
    /\ UNCHANGED <<req, link, midpoint, deletions, world, history>>

\* "Native entitlement reappeared".
Cancel(h) ==
    /\ At(h, "cancel")
    /\ req' = [req EXCEPT ![co[h].r].status = "CANCELLED", ![co[h].r].token = 0]
    /\ Goto(h, "items")
    /\ UNCHANGED <<inventory, link, midpoint, deletions, world, history>>

\* Mutant: any request the key ever had counts as an open one.
MissingAskedOnce(h) ==
    /\ At(h, "missing")
    /\ IF co[h].todo = {}
       THEN Answer(h, TRUE) /\ UNCHANGED inventory
       ELSE \E k \in co[h].todo :
            /\ inventory' = [inventory EXCEPT ![k] = "missing"]
            /\ Becomes(h, [co[h] EXCEPT !.k = k, !.todo = @ \ {k},
                              !.pc = IF \A r \in Requests : req[r].key # k
                                     THEN "create" ELSE "missing"])
    /\ UNCHANGED <<req, link, midpoint, deletions, world, history>>

\* An active row that is not in the manifest becomes inactive; it needs a
\* request unless one is pending.
Missing(h) ==
    /\ At(h, "missing")
    /\ IF co[h].todo = {}
       THEN Answer(h, TRUE) /\ UNCHANGED inventory
       ELSE \E k \in co[h].todo :
            /\ inventory' = [inventory EXCEPT ![k] = "missing"]
            /\ Becomes(h, [co[h] EXCEPT !.k = k, !.todo = @ \ {k},
                              !.pc = IF Of(k, "PENDING") = {} THEN "create" ELSE "missing"])
    /\ UNCHANGED <<req, link, midpoint, deletions, world, history>>

\* reconcile and register_legacy_roles create a request and mail its first link.
Create(h) ==
    /\ At(h, "create")
    /\ \E r \in Requests :
        /\ r = Cardinality(Used) + 1
        /\ req' = [req EXCEPT ![r] = [NoRequest EXCEPT !.key = co[h].k, !.status = "PENDING"]]
        /\ Becomes(h, [co[h] EXCEPT !.pc = "sendRead", !.r = r])
    /\ UNCHANGED <<inventory, link, midpoint, deletions, world, history>>

-----------------------------------------------------------------------------
\* register_legacy_roles

\* replace_role_everywhere gives a holder the replacement and takes the role.
Reassigned(u, k) == (holds[u] \ {k}) \cup {Replacement[k]}

\* replace_role_everywhere, one user at a time, then the inactive row.  A role
\* whose replacement was not discovered is skipped; one that ever had a request
\* gets no second one.
Migrate(h) ==
    /\ At(h, "migrate")
    /\ \/ /\ co[h].todo = {} /\ Answer(h, TRUE)
          /\ UNCHANGED <<inventory, holds>>
       \/ \E k \in co[h].todo :
          LET left == {u \in Users : k \in holds[u]} IN
          \/ /\ Replacement[k] \notin co[h].items
             /\ Becomes(h, [co[h] EXCEPT !.todo = @ \ {k}])
             /\ UNCHANGED <<inventory, holds>>
          \/ /\ Replacement[k] \in co[h].items /\ Replacement[k] \in role /\ k \in role
             /\ \E u \in left : holds' = [holds EXCEPT ![u] = Reassigned(u, k)]
             /\ UNCHANGED <<inventory, co>>
          \/ /\ Replacement[k] \in co[h].items /\ Replacement[k] \in role
             /\ left = {} \/ k \notin role
             /\ inventory' = [inventory EXCEPT ![k] = "missing"]
             /\ Becomes(h, [co[h] EXCEPT !.k = k, !.todo = @ \ {k},
                               !.pc = IF \E r \in Requests : req[r].key = k
                                      THEN "migrate" ELSE "create"])
             /\ UNCHANGED holds
          \/ /\ Replacement[k] \in co[h].items
             /\ Replacement[k] \notin role \/ May("cleanup")
             /\ Raise(h)
             /\ UNCHANGED <<inventory, holds>>
    /\ UNCHANGED <<req, link, role, shadow, deletions, world, history>>

-----------------------------------------------------------------------------
\* remove_role_everywhere(k), called by Exclude and by execute.

\* An exception there ends a reconciliation; execute writes FAILED.
CleanupFails(h) ==
    /\ co[h].pc \in {"list", "unassign", "dropRole", "orphans", "askDelete", "shadows"}
    /\ May("cleanup")
    /\ IF co[h].job = "execute" THEN Goto(h, "fail") ELSE Raise(h)
    /\ UNCHANGED <<tables, midpoint, deletions, world, history>>

\* What follows the removal of the role.
AfterRemoval(h) == IF co[h].job = "reconcile" THEN "forget"
                   ELSE IF co[h].k \in Legacy THEN "complete" ELSE "orphans"

\* A role that is absent already affects nobody.
ListHolders(h) ==
    LET k == co[h].k IN
    /\ At(h, "list")
    /\ Becomes(h, IF k \in role
                  THEN [co[h] EXCEPT !.pc = "unassign", !.users = {u \in Users : k \in holds[u]}]
                  ELSE [co[h] EXCEPT !.pc = AfterRemoval(h)])
    /\ UNCHANGED <<tables, midpoint, deletions, world, history>>

\* The assignments of one user: what remains is noted before the patch.
Unassign(h) ==
    LET k == co[h].k IN
    /\ At(h, "unassign")
    /\ IF co[h].users = {}
       THEN Goto(h, "dropRole") /\ UNCHANGED <<holds, lost>>
       ELSE \E u \in co[h].users :
            /\ holds' = [holds EXCEPT ![u] = @ \ {k}]
            /\ lost'  = IF co[h].job = "execute" THEN [lost EXCEPT ![co[h].r] = @ \cup {u}]
                        ELSE lost
            /\ Becomes(h, [co[h] EXCEPT
                    !.users = @ \ {u},
                    !.affected = IF k \in holds[u] THEN @ \cup {<<u, holds[u] \ {k}>>} ELSE @])
    /\ UNCHANGED <<tables, role, shadow, deletions, world, signed, dismantled, revoked>>

DropRole(h) ==
    /\ At(h, "dropRole")
    /\ role' = role \ {co[h].k}
    /\ Goto(h, AfterRemoval(h))
    /\ UNCHANGED <<tables, holds, shadow, deletions, world, history>>

-----------------------------------------------------------------------------
\* process_approved and execute

\* Mutant: a request whose entitlement is back is only skipped.
PickSkipsReappeared(h) ==
    /\ At(h, "pick")
    /\ \/ co[h].todo = {} /\ Answer(h, TRUE) /\ UNCHANGED dismantled
       \/ \E r \in co[h].todo :
          IF req[r].status = "APPROVED" /\ req[r].key \notin Present
          THEN /\ dismantled' = dismantled \cup {r}
               /\ Becomes(h, [co[h] EXCEPT !.pc = "list", !.todo = @ \ {r}, !.r = r,
                                 !.k = req[r].key, !.affected = {}, !.items = Present])
          ELSE Becomes(h, [co[h] EXCEPT !.todo = @ \ {r}]) /\ UNCHANGED dismantled
    /\ UNCHANGED <<tables, midpoint, deletions, world, signed, revoked, lost>>

\* execute up to the removal.  A request that is no longer approved, or whose
\* target cannot be discovered, is left for the next call; one whose
\* entitlement is back, or whose replacement role is absent (or cannot be
\* read), is cancelled.  The reads of the request and of the manifest and the
\* write of the status are one step: only another execution, one the worker
\* gave up, could write an approved request in between, and an entitlement may
\* still come back between this step and the removal.
Pick(h) ==
    /\ At(h, "pick")
    /\ \/ /\ co[h].todo = {} /\ Answer(h, TRUE)
          /\ UNCHANGED <<req, dismantled, revoked>>
       \/ \E r \in co[h].todo :
          LET k == req[r].key
              stop == IF k \in Legacy THEN Replacement[k] \notin role ELSE k \in Present
          IN
          \/ /\ req[r].status # "APPROVED" \/ (k \notin Legacy /\ May("discover"))
             /\ Becomes(h, [co[h] EXCEPT !.todo = @ \ {r}])
             /\ UNCHANGED <<req, dismantled, revoked>>
          \/ /\ req[r].status = "APPROVED"
             /\ stop \/ (k \in Legacy /\ May("cleanup"))
             /\ req' = [req EXCEPT ![r].status = "CANCELLED"]
             /\ revoked' = revoked \cup {r}
             /\ Becomes(h, [co[h] EXCEPT !.todo = @ \ {r}])
             /\ UNCHANGED dismantled
          \/ /\ req[r].status = "APPROVED" /\ ~stop
             /\ dismantled' = dismantled \cup {r}
             /\ Becomes(h, [co[h] EXCEPT !.pc = "list", !.todo = @ \ {r}, !.r = r, !.k = k,
                               !.affected = {}, !.items = Present])
             /\ UNCHANGED <<req, revoked>>
    /\ UNCHANGED <<inventory, link, midpoint, deletions, world, signed, lost>>

\* Mutant: any role left keeps the account, of whatever target.
OrphansWithoutAnyRole(h) ==
    /\ At(h, "orphans")
    /\ Becomes(h, [co[h] EXCEPT !.pc = "askDelete",
                      !.users = {a[1] : a \in {b \in co[h].affected : b[2] = {}}}])
    /\ UNCHANGED <<tables, midpoint, deletions, world, history>>

\* _request_orphan_account_deletions: the affected users without a role of an
\* active entitlement of this target.
Orphans(h) ==
    LET alive == Active \ {co[h].k} IN
    /\ At(h, "orphans")
    /\ Becomes(h, [co[h] EXCEPT !.pc = "askDelete",
                      !.users = {a[1] : a \in {b \in co[h].affected : b[2] \cap alive = {}}}])
    /\ UNCHANGED <<tables, midpoint, deletions, world, history>>

\* process_message of one DELETE_USER.
AskDelete(h) ==
    /\ At(h, "askDelete")
    /\ IF co[h].users = {}
       THEN Goto(h, "shadows") /\ UNCHANGED deletions
       ELSE \E u \in co[h].users :
            /\ deletions' = deletions \cup {u}
            /\ Becomes(h, [co[h] EXCEPT !.users = @ \ {u}])
    /\ UNCHANGED <<tables, midpoint, world, history>>

\* delete_stale_entitlement_shadows: every shadow of the target that is not in
\* the manifest read by Pick, with the references to it.
DeleteShadows(h) ==
    /\ At(h, "shadows")
    /\ shadow' = shadow \cap co[h].items
    /\ Goto(h, "complete")
    /\ UNCHANGED <<tables, role, holds, deletions, world, history>>

\* The result mails that follow raise nothing.
Conclude(h) ==
    /\ co[h].pc \in {"complete", "fail"}
    /\ req' = [req EXCEPT ![co[h].r].status =
                   IF At(h, "complete") THEN "COMPLETED" ELSE "FAILED"]
    /\ Goto(h, "pick")
    /\ UNCHANGED <<inventory, link, midpoint, deletions, world, history>>

-----------------------------------------------------------------------------
\* Around the API.

Call(h, c) == At(h, "idle") /\ Becomes(h, c)

\* POST /process-approved
ProcessApproved(h) ==
    Call(h, [Idle EXCEPT !.job = "execute", !.pc = "pick", !.caller = "worker",
                         !.todo = {r \in Requests : req[r].status = "APPROVED"}])

\* POST /reconcile with a manifest: its items, the excluded names, and (for the
\* history) the keys whose absence was confirmed.
Reconcile(h, caller, items, excluded, quiet) ==
    Call(h, [Idle EXCEPT !.job = "reconcile", !.pc = "exclude", !.caller = caller,
                         !.todo = {k \in excluded : inventory[k] # "none"},
                         !.items = items, !.quiet = quiet])

\* POST /legacy
RegisterLegacy(h, items) ==
    Call(h, [Idle EXCEPT !.job = "legacy", !.pc = "migrate", !.caller = "ansible",
                         !.todo = Legacy, !.items = items])

\* A link gets too old.
Expire(t) ==
    /\ t \in 1..Len(link) \ expired /\ Opens(t)
    /\ expired' = expired \cup {t}
    /\ UNCHANGED <<native, tables, midpoint, deletions, co, faults, budget, history>>

\* The administrator of the target creates, drops or turns an entitlement into
\* a login account.
ChangeTarget(k, what) ==
    /\ k \notin Legacy /\ (what = "login" => May("login"))
    /\ budget > 0 /\ native[k] # what
    /\ native'  = [native EXCEPT ![k] = what]
    /\ budget' = budget - 1
    /\ UNCHANGED <<expired, faults, tables, midpoint, deletions, co, history>>

\* The API process stops; every coroutine is lost.
ApiCrash ==
    /\ May("api")
    /\ co' = [h \in Handlers |-> IF co[h].pc = "done" THEN co[h] ELSE Reply(co[h], FALSE)]
    /\ UNCHANGED <<tables, midpoint, deletions, world, history>>

ApiStep(h) ==
    \/ ClearLink(h) \/ Record(h) \/ SendRead(h) \/ SendWrite(h)
    \/ Exclude(h) \/ Forget(h) \/ Items(h) \/ Cancel(h) \/ Missing(h) \/ Create(h)
    \/ Migrate(h) \/ CleanupFails(h) \/ ListHolders(h) \/ Unassign(h) \/ DropRole(h)
    \/ Pick(h) \/ Orphans(h) \/ AskDelete(h) \/ DeleteShadows(h) \/ Conclude(h)

People ==
    \/ \E h \in Handlers, t \in 1..Len(link) : Renew(h, t) \/ \E yes \in BOOLEAN : Click(h, t, yes)
    \/ \E t \in 1..Len(link) : Expire(t)
    \/ \E k \in Keys : \E what \in {"entitlement", "login", "absent"} : ChangeTarget(k, what)

RemovalTypeOK ==
    /\ native \in [Keys -> {"entitlement", "login", "absent"}]
    /\ inventory \in [Keys -> {"active", "missing", "none"}]
    /\ req \in [Requests -> [key : Keys \cup {None}, status : Statuses, level : Chain,
                             token : 0..MaxLinks]]
    /\ link \in Seq([r : Requests, level : 0..Levels, sent : BOOLEAN])
    /\ expired \subseteq 1..MaxLinks
    /\ role \subseteq Keys /\ holds \in [Users -> SUBSET Keys] /\ shadow \subseteq Keys
    /\ deletions \subseteq Users /\ faults \subseteq FaultKinds /\ budget \in Nat
    /\ co \in [Handlers -> [job : Jobs, pc : Steps, caller : Callers, r : 0..MaxRequests,
              k : Keys \cup {None}, level : 0..Levels, yes : BOOLEAN,
              todo : SUBSET (Keys \cup Requests), items : SUBSET Keys, users : SUBSET Users,
              affected : SUBSET (Users \X SUBSET Keys), quiet : SUBSET Keys]]
    /\ signed \in [Requests -> SUBSET Chain] /\ lost \in [Requests -> SUBSET Users]
    /\ dismantled \subseteq Requests /\ revoked \subseteq Requests
=============================================================================
