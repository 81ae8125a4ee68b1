---------------------------- MODULE SqlConnectors ----------------------------
(***************************************************************************)
(* mysql_connector.py, postgresql_connector.py and mongodb_connector.py.   *)
(* The two SQL connectors run one autocommitted statement after the other; *)
(* MongoDB changes an account with a single command.  All three refuse to  *)
(* create an account without a password, turn the provisioning of an       *)
(* account that is there into an update, and create the account an update  *)
(* does not find, MySQL and PostgreSQL with a fixed password.              *)
(***************************************************************************)
EXTENDS Connector

(* update_user replaces the entitlements: privileges if the request names  *)
(* some, otherwise its role.                                               *)
Wanted == IF Privileges # {} THEN Privileges ELSE Roles

-------------------------------------------------------------------------------
(* MySQL *)

MySqlConnect == On("mysql", "connect") /\ Connected

(* mysqlGrants as a list, and the one role of mysqlRole that exists.       *)
MySqlPrivileges == Privileges
MySqlRoles == {{r} : r \in Roles}

MySqlNoPassword == On("mysql", "provision") /\ ~session.pw /\ Skip("failed")

MySqlAlreadyThere == On("mysql", "provision") /\ session.pw /\ Here.exists /\ Skip("update")

MySqlCreate == /\ On("mysql", "provision") /\ session.pw /\ ~Here.exists
               /\ Become(Created("sent"))
               /\ Goto("choose")

MySqlUpsert == /\ On("mysql", "update")
               /\ Goto("password")
               /\ IF Here.exists THEN UNCHANGED account
                  ELSE Become(Created(IF session.pw THEN "sent" ELSE "default"))

MySqlPassword == /\ On("mysql", "password")
                 /\ Goto("enable")
                 /\ Become([Here EXCEPT !.pw = IF session.pw THEN "sent" ELSE @])

MySqlLock == /\ On("mysql", "enable")
             /\ Goto("revoke")
             /\ Become([Here EXCEPT !.enabled = session.on])

\* Mutant: the role edges are left alone, as if REVOKE ALL removed them.
MySqlRevokeOnlyPrivileges ==
    /\ On("mysql", "revoke")
    /\ GotoWith("unrole", {}) /\ Become([Here EXCEPT !.direct = {}])

(* REVOKE ALL PRIVILEGES ON *.*; its error is ignored.                     *)
MySqlRevoke ==
    /\ On("mysql", "revoke")
    /\ \/ GotoWith("unrole", Here.member) /\ Become([Here EXCEPT !.direct = {}])
       \/ /\ "refused" \in faults
          /\ session' = [session EXCEPT !.pc = "unrole", !.left = Here.member,
                                        !.refused = TRUE]
          /\ UNCHANGED account

(* The edges of mysql.role_edges, one REVOKE each.                         *)
MySqlUnrole ==
    /\ On("mysql", "unrole")
    /\ \/ session.left = {} /\ Skip("choose")
       \/ \E r \in session.left : Each(r, "choose", [Here EXCEPT !.member = @ \ {r}])

MySqlChoose == /\ On("mysql", "choose")
               /\ UNCHANGED account
               /\ \/ MySqlPrivileges # {} /\ GotoWith("grant", MySqlPrivileges)
                  \/ MySqlPrivileges = {} /\ \E one \in MySqlRoles : GotoWith("role", one)
                  \/ MySqlPrivileges = {} /\ MySqlRoles = {} /\ Goto("done")

MySqlGrant == /\ On("mysql", "grant")
              /\ \E g \in session.left : Each(g, "done", [Here EXCEPT !.direct = @ \cup {g}])

(* The role that does not exist is Raise.                                  *)
MySqlRole == /\ On("mysql", "role")
             /\ Goto("default")
             /\ Become([Here EXCEPT !.member = @ \cup session.left])
MySqlDefaultRole == On("mysql", "default") /\ Skip("done")

MySqlDrop == /\ On("mysql", "delete")
             /\ Goto("done")
             /\ IF Found THEN Become(NoAccount) ELSE UNCHANGED account

MySqlStep == \/ MySqlConnect \/ MySqlNoPassword \/ MySqlAlreadyThere \/ MySqlCreate
             \/ MySqlUpsert \/ MySqlPassword \/ MySqlLock \/ MySqlRevoke \/ MySqlUnrole \/ MySqlChoose
             \/ MySqlGrant \/ MySqlRole \/ MySqlDefaultRole \/ MySqlDrop

-------------------------------------------------------------------------------
(* PostgreSQL *)

PgConnect == On("postgresql", "connect") /\ Connected

(* postgresqlGrants, unless it names the profiles that stand for roles; the*)
(* roles are matched with those of the server by their name or its end.    *)
PgPrivileges == Privileges
PgRoles == Roles

PgNoPassword == On("postgresql", "provision") /\ ~session.pw /\ Skip("failed")

PgAlreadyThere ==
    On("postgresql", "provision") /\ session.pw /\ Here.exists /\ Skip("update")

PgCreate == /\ On("postgresql", "provision") /\ session.pw /\ ~Here.exists
            /\ Become(Created("sent"))
            /\ Goto("choose")

PgUpsert == /\ On("postgresql", "update")
            /\ Goto("password")
            /\ IF Here.exists THEN UNCHANGED account
               ELSE Become(Created(IF session.pw THEN "sent" ELSE "default"))

PgPassword == /\ On("postgresql", "password")
              /\ Goto("enable")
              /\ Become([Here EXCEPT !.pw = IF session.pw THEN "sent" ELSE @])

PgLogin == /\ On("postgresql", "enable")
           /\ GotoWith("unrole", Here.member)
           /\ Become([Here EXCEPT !.enabled = session.on])

(* The memberships are revoked one by one, errors ignored; then the        *)
(* privileges on tables, only if the request names privileges.             *)
PgUnrole ==
    LET after == IF session.op # "DELETE" /\ PgPrivileges = {} THEN "choose" ELSE "strip"
    IN /\ On("postgresql", "unrole")
       /\ \/ session.left = {} /\ Skip(after)
          \/ \E r \in session.left : \/ Each(r, after, [Here EXCEPT !.member = @ \ {r}])
                                     \/ Refused(r, after)

PgStrip == LET after == IF session.op = "DELETE" THEN "drop" ELSE "choose"
           IN /\ On("postgresql", "strip")
              /\ \/ Goto(after) /\ Become([Here EXCEPT !.direct = {}])
                 \/ \E r \in Here.direct : Refused(r, after)

PgChoose == /\ On("postgresql", "choose")
            /\ UNCHANGED account
            /\ IF PgPrivileges # {} THEN GotoWith("grant", PgPrivileges)
               ELSE IF PgRoles # {} THEN GotoWith("role", PgRoles) ELSE Goto("done")

PgGrant == /\ On("postgresql", "grant")
           /\ \E g \in session.left :
                \/ Each(g, "done", [Here EXCEPT !.direct = @ \cup {g}])
                \/ Refused(g, "done")

PgRole == /\ On("postgresql", "role")
          /\ \E r \in session.left :
               \/ Each(r, "done", [Here EXCEPT !.member = @ \cup {r}])
               \/ Refused(r, "done")

PgDelete == /\ On("postgresql", "delete")
            /\ UNCHANGED account
            /\ IF Found THEN GotoWith("unrole", Here.member) ELSE Goto("done")

(* A role that still holds privileges cannot be dropped.                   *)
PgDrop == /\ On("postgresql", "drop")
          /\ IF Here.direct = {} THEN Goto("done") /\ Become(NoAccount) ELSE Skip("failed")

PgStep == \/ PgConnect \/ PgNoPassword \/ PgAlreadyThere \/ PgCreate \/ PgUpsert \/ PgPassword \/ PgLogin
          \/ PgUnrole \/ PgStrip \/ PgChoose \/ PgGrant \/ PgRole \/ PgDelete \/ PgDrop

-------------------------------------------------------------------------------
(* MongoDB *)

MongoConnect == On("mongodb", "connect") /\ Connected

MongoNoPassword == On("mongodb", "provision") /\ ~session.pw /\ Skip("failed")

MongoCreate ==
    /\ On("mongodb", "provision") /\ session.pw
    /\ IF Here.exists THEN Skip("update")
       ELSE Goto("done") /\ Become([Created("sent") EXCEPT !.member = session.want])

MongoUpdate ==
    /\ On("mongodb", "update")
    /\ IF ~Here.exists THEN Skip("provision")
       ELSE /\ Goto("done")
            /\ Become([Here EXCEPT !.member = session.want,
                                   !.pw = IF session.pw THEN "sent" ELSE @])

MongoDrop == /\ On("mongodb", "delete")
             /\ Goto("done")
             /\ IF Found THEN Become(NoAccount) ELSE UNCHANGED account

MongoStep == MongoConnect \/ MongoNoPassword \/ MongoCreate \/ MongoUpdate \/ MongoDrop
===============================================================================
