-------------------------- MODULE MCMessageConsumer --------------------------
(* Instances of MessageConsumer for TLC.                                   *)
EXTENDS MessageConsumer

CONSTANTS t1, t2, g1, g2, r1

MCEnts == {g1, g2, r1}
MCDirect == {g1, g2}

(* The first target is asked for privileges or a role, the second for a    *)
(* role; with "password", also for nothing or for a disabled account.      *)
Wish(e) == [ents |-> e, on |-> TRUE]
MCWants(fs, t) ==
    {Absent, Wish({r1})}
    \cup IF t # t1 THEN {}
         ELSE IF "password" \in fs THEN {Wish({}), [ents |-> {g1, r1}, on |-> FALSE]}
         ELSE {Wish({g1, g2})}

Setup(f1, f2, up, b, a, fs) ==
    [family |-> [t \in Targets |-> IF t = t1 THEN f1 ELSE f2], cleanup |-> up,
     broker |-> b, approval |-> {a}, faults |-> fs]

(* Each pair of families under each fault of the connectors; the routes of *)
(* the consumer and of the approvals with one pair each.                   *)
Pairs == {<<"mysql", "ldap">>, <<"postgresql", "mongodb">>, <<"odoo", "ldap">>}
MCSetups ==
    {Setup(p[1], p[2], {}, "rabbitmq", FALSE, fs) :
        p \in Pairs, fs \in {{"target"}, {"crash"}, {"refused"}, {"password"}}}
    \cup {Setup("ldap", p, {}, "rabbitmq", FALSE, fs) :
        p \in {"mongodb", "odoo"}, fs \in {{"password"}, {"unnamed", "personal"}}}
    \cup {Setup("mysql", "ldap", {}, "rabbitmq", TRUE, fs) : fs \in {{}, {"disorder"}}}
    \cup {Setup("odoo", "ldap", {}, "rabbitmq", TRUE, fs) :
        fs \in {{"target"}, {"crash", "redis"}, {"unnamed"}}}
    \cup {Setup("mysql", "mysql", {}, "rabbitmq", a, {"attribute"}) : a \in BOOLEAN}
    \cup {Setup("mysql", "ldap", {t2}, "rabbitmq", a, {"database"}) : a \in BOOLEAN}
    \cup {Setup("postgresql", "ldap", {}, "kafka", a, fs) :
        a \in BOOLEAN, fs \in {{"target"}, {"crash"}}}
Posts(fs, a) == IF a /\ fs # {} THEN 2 ELSE 3
===============================================================================
