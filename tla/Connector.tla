------------------------------ MODULE Connector ------------------------------
(***************************************************************************)
(* The interface of the target connectors (app/core/connectors/base.py) and*)
(* what the orchestrator does around one call of a connector: it opens the *)
(* connector of the target, provisions, updates or deletes one account,    *)
(* and closes it.  A call is a session; every awaited statement of a       *)
(* connector is a step of the session, and no target of this system wraps  *)
(* the statements of one call in a transaction, so a session that stops    *)
(* half way leaves the account half changed.                               *)
(*                                                                         *)
(* One user is modelled: its account on each target.  An entitlement is a  *)
(* direct privilege (an element of Direct) or a native role or group.      *)
(***************************************************************************)
EXTENDS Naturals, FiniteSets

CONSTANTS Targets,      \* the target instances of the catalogue
          Ents,         \* the entitlements a request can name
          Direct,       \* those that are privileges, not roles or groups
          Staff         \* TRUE if requests ask Odoo for an hr.employee too

ASSUME DirectAssumption == Direct \subseteq Ents /\ Staff \in BOOLEAN

Families == {"mysql", "postgresql", "mongodb", "ldap", "odoo"}

VARIABLES family,       \* the connector family of each target (rigid)
          faults,       \* what can go wrong in this behaviour (rigid)
          account,      \* the user's account on each target
          session       \* the call of a connector in progress

(***************************************************************************)
(* An account: whether it is there and enabled, where its password comes   *)
(* from, its privileges, its roles and groups, whether it carries the      *)
(* user's MidPoint uid, and the employee record beside it (Odoo).          *)
(***************************************************************************)
NoAccount == [exists |-> FALSE, enabled |-> FALSE, pw |-> "none", direct |-> {},
              member |-> {}, linked |-> FALSE, employee |-> "none"]
Accounts == [exists : BOOLEAN, enabled : BOOLEAN, pw : {"none", "sent", "default"},
             direct : SUBSET Direct, member : SUBSET Ents, linked : BOOLEAN,
             employee : {"none", "active", "archived"}]
Created(pw) == [NoAccount EXCEPT !.exists = TRUE, !.enabled = TRUE, !.pw = pw]
Password == IF session.pw THEN "sent" ELSE "none"

Operations == {"CREATE", "UPDATE", "DELETE"}
Idle == [pc |-> "idle"]

(* The account as the lookup by user name finds it: a DELETE can reach a   *)
(* connector without a name.                                               *)
Here  == account[session.target]
Found == session.named /\ Here.exists
Become(a) == account' = [account EXCEPT ![session.target] = a]

On(f, pc) == session.pc = pc /\ family[session.target] = f
Goto(pc) == session' = [session EXCEPT !.pc = pc]
GotoWith(pc, left) == session' = [session EXCEPT !.pc = pc, !.left = left]
Skip(pc) == Goto(pc) /\ UNCHANGED account

(* The loops over privileges, roles and groups: one statement an element.  *)
(* Refused is a statement whose error the code catches, logs and forgets.  *)
Each(g, pc, a) == /\ GotoWith(IF session.left = {g} THEN pc ELSE session.pc,
                              session.left \ {g})
                  /\ Become(a)
Refused(g, pc) == /\ "refused" \in faults
                  /\ session' = [session EXCEPT !.pc = IF session.left \subseteq {g}
                                                       THEN pc ELSE @,
                                                !.left = @ \ {g}, !.refused = TRUE]
                  /\ UNCHANGED account

Privileges == session.want \cap Direct
Roles == session.want \ Direct

(* target_service and target_id resolve to the connector of the target;    *)
(* _execute_operation picks its method.                                    *)
Open(by, m) == session' = [pc |-> "connect", by |-> by, target |-> m.target, op |-> m.op,
                           want |-> m.want, on |-> m.on, pw |-> m.pw, named |-> m.named,
                           left |-> {}, refused |-> FALSE, before |-> account[m.target]]
Method(op) == CASE op = "CREATE" -> "provision" [] op = "UPDATE" -> "update"
                [] op = "DELETE" -> "delete"

(* Each family opens its connection first: a step of its module.           *)
Connected == Skip(Method(session.op))

(* A statement raises, or the connection or the reply is lost: whatever    *)
(* the session has done so far stays.                                      *)
Raise == /\ "target" \in faults
         /\ session.pc \notin {"idle", "failed"}
         /\ Skip("failed")

Pcs == {"connect", "provision", "update", "delete", "password", "enable", "revoke", "unrole",
        "choose", "grant", "role", "default", "strip", "drop", "entry", "leave", "join",
        "erase", "create", "link", "reuse", "restaff", "staff", "write", "fire", "archive",
        "done", "failed"}
Sessions == [pc : Pcs, by : {"consumer", "api"}, target : Targets, op : Operations,
             want : SUBSET Ents, on : BOOLEAN, pw : BOOLEAN, named : BOOLEAN,
             left : SUBSET Ents, refused : BOOLEAN, before : Accounts]
SessionTypeOK == session = Idle \/ session \in Sessions
===============================================================================
