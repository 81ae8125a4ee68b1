------------------------- MODULE DirectoryConnectors -------------------------
(***************************************************************************)
(* ldap_connector.py and odoo_connector.py.  Both look an account up by    *)
(* the MidPoint uid it carries before they look it up by name, and both    *)
(* swallow the errors of their secondary calls: LDAP of every change of a  *)
(* group and of the removal of the entry itself, Odoo of the lookup of a   *)
(* group and of everything about the employee record.                      *)
(***************************************************************************)
EXTENDS Connector

-------------------------------------------------------------------------------
(* LDAP.  employeeNumber holds the MidPoint uid; the lookup prefers        *)
(* personalNumber, so it misses the entry of a user that has one.          *)
LdapNumber == "personal" \notin faults

LdapConnect == On("ldap", "connect") /\ Connected

LdapProvision ==
    /\ On("ldap", "provision")
    /\ Skip(IF Here.exists /\ Here.linked THEN "update" ELSE "entry")

(* The container and the search by uid come first; an entry found by uid   *)
(* alone is kept as it is.                                                 *)
LdapAdd ==
    /\ On("ldap", "entry")
    /\ IF session.want = {} THEN Goto("done") ELSE GotoWith("join", session.want)
    /\ IF Here.exists THEN UNCHANGED account
       ELSE Become([Created(Password) EXCEPT !.linked = LdapNumber,
                                             !.member = Here.member])

LdapJoin == /\ On("ldap", "join")
            /\ \E g \in session.left :
                 \/ Each(g, "done", [Here EXCEPT !.member = @ \cup {g}])
                 \/ Refused(g, "done")

LdapUpdate ==
    /\ On("ldap", "update")
    /\ IF ~Here.exists THEN Skip(IF session.want = {} THEN "done" ELSE "provision")
       ELSE /\ GotoWith("leave", Here.member \ session.want)
            /\ Become([Here EXCEPT !.pw = IF session.pw THEN "sent" ELSE @])

(* update_user leaves the groups that are not wanted; delete_user those    *)
(* the message names, whatever groups the entry is in.                     *)
LdapAfterLeave == IF session.op = "DELETE" THEN "erase" ELSE "choose"
LdapLeave ==
    /\ On("ldap", "leave")
    /\ \/ session.left = {} /\ Skip(LdapAfterLeave)
       \/ \E g \in session.left :
            \/ Each(g, LdapAfterLeave, [Here EXCEPT !.member = @ \ {g}])
            \/ Refused(g, LdapAfterLeave)

LdapChoose == /\ On("ldap", "choose")
              /\ UNCHANGED account
              /\ IF session.want = {} THEN Goto("done") ELSE GotoWith("join", session.want)

LdapDelete == On("ldap", "delete") /\ GotoWith("leave", session.want) /\ UNCHANGED account

(* Only the entry goes: a group keeps the member value of an entry that    *)
(* was not removed from it.                                                *)
LdapErase ==
    /\ On("ldap", "erase")
    /\ \/ /\ Goto("done")
          /\ IF Found THEN Become([NoAccount EXCEPT !.member = Here.member])
             ELSE UNCHANGED account
       \/ Found /\ \E g \in Ents : Refused(g, "done")

LdapStep == \/ LdapConnect \/ LdapProvision \/ LdapAdd \/ LdapJoin \/ LdapUpdate \/ LdapLeave
            \/ LdapChoose \/ LdapDelete \/ LdapErase

-------------------------------------------------------------------------------
(* Odoo.  partner.ref holds the MidPoint uid; it is written after the user *)
(* is created.  An archived user is there, and not enabled.                *)

OdooConnect == On("odoo", "connect") /\ Connected

(* provision_user finds archived users by uid, active ones by login.       *)
OdooProvision ==
    /\ On("odoo", "provision")
    /\ Skip(IF Here.exists /\ (Here.linked \/ Here.enabled) THEN "reuse" ELSE "create")

(* A group that cannot be resolved is left out.                            *)
OdooGroups == IF "refused" \in faults THEN SUBSET session.want ELSE {session.want}
Unresolved(groups) == session.refused \/ groups # session.want

OdooReuse == /\ On("odoo", "reuse")
             /\ Goto("restaff")
             /\ Become([Here EXCEPT !.enabled = TRUE,
                                    !.pw = IF session.pw THEN "sent" ELSE @])

(* Logins are unique, those of archived users too.                         *)
OdooCreate ==
    /\ On("odoo", "create")
    /\ IF Here.exists THEN Skip("failed")
       ELSE \E groups \in OdooGroups :
              /\ session' = [session EXCEPT !.pc = "link", !.refused = Unresolved(groups)]
              /\ Become([Created(Password) EXCEPT !.member = groups])

OdooLink == /\ On("odoo", "link")
            /\ Goto("staff")
            /\ Become([Here EXCEPT !.linked = TRUE])

(* The user that was there keeps its employee if it has an active one; the *)
(* lookup that fails counts as none.                                       *)
OdooUpdateEmployee ==
    /\ On("odoo", "restaff")
    /\ Skip(IF Staff /\ (Here.employee # "active" \/ "refused" \in faults)
            THEN "staff" ELSE "done")

OdooCreateEmployee ==
    /\ On("odoo", "staff")
    /\ \/ Goto("done") /\ Become([Here EXCEPT !.employee = IF Staff THEN "active" ELSE @])
       \/ Staff /\ \E g \in Ents : Refused(g, "done")

OdooUpdate == /\ On("odoo", "update")
              /\ Skip(IF Here.exists THEN "write" ELSE "provision")

(* The groups are replaced only if one of those asked for was found.       *)
OdooWrite ==
    /\ On("odoo", "write")
    /\ \E groups \in OdooGroups :
         /\ session' = [session EXCEPT !.pc = "done", !.refused = Unresolved(groups)]
         /\ Become([Here EXCEPT !.enabled = session.on,
                                !.pw = IF session.pw THEN "sent" ELSE @,
                                !.member = IF groups = {} THEN @ ELSE groups])

(* delete_user finds the user by uid without a name; the employee goes     *)
(* first, its errors swallowed.                                            *)
OdooDelete == /\ On("odoo", "delete")
              /\ Skip(IF Here.exists /\ (Here.linked \/ session.named) THEN "fire" ELSE "done")

OdooFire ==
    /\ On("odoo", "fire")
    /\ \/ /\ Goto("archive")
          /\ Become([Here EXCEPT !.employee = IF @ = "active" THEN "archived" ELSE @])
       \/ Here.employee = "active" /\ \E g \in Ents : Refused(g, "archive")

OdooArchive == /\ On("odoo", "archive")
               /\ Goto("done")
               /\ Become([Here EXCEPT !.enabled = FALSE])

OdooStep == \/ OdooConnect \/ OdooProvision \/ OdooReuse \/ OdooCreate \/ OdooLink \/ OdooUpdateEmployee
            \/ OdooCreateEmployee
            \/ OdooUpdate \/ OdooWrite \/ OdooDelete \/ OdooFire \/ OdooArchive
===============================================================================
