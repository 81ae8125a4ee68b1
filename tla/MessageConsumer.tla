--------------------------- MODULE MessageConsumer ---------------------------
(***************************************************************************)
(* Delivery: from a message of MidPoint to the accounts of its user.       *)
(*                                                                         *)
(* MidPoint posts one message for each change of a user and never repeats  *)
(* one.  The consumer (rabbitmq_consumer.py, kafka_consumer.py) takes one  *)
(* message at a time, turns it into one operation per target and hands     *)
(* them to the orchestrator.  Without approval the consumer makes the      *)
(* connector calls itself before it acknowledges the message; with         *)
(* approval an operation waits, and the API makes the call when it is      *)
(* approved.  Which targets a user had is remembered in the memory of the  *)
(* consumer (_user_services_cache) and, after an approved operation, in    *)
(* Redis (user_state).  The chain of approvals is the module ApprovalChain,*)
(* the orchestrator's markers are the module Orchestrator: here approval   *)
(* is one step and nothing is rejected.                                    *)
(***************************************************************************)
EXTENDS SqlConnectors, DirectoryConnectors, Sequences

CONSTANTS Wants(_, _),  \* bound: what MidPoint may want of a target, by fault set
          Setups,       \* families, delete modes and faults of the behaviours
          MaxPosts(_, _), \* bound on messages, by fault set and approval
          MaxQueue,     \* bound on the messages in the broker
          MaxCrashes,   \* bound on the crashes of one behaviour
          Absent,       \* no account is wanted or remembered
          NoMessage     \* the consumer holds no message

WishSet == {Absent} \cup [ents : SUBSET Ents, on : BOOLEAN]
(* Of a MySQL target MidPoint asks one role at most (mysqlRole is not      *)
(* multivalued, RestGatewayConnector.java:151).                            *)
Asked(f) == {w \in WishSet : w # Absent /\ f = "mysql" =>
                                \A r, q \in w.ents \ Direct : r = q}

(* An operation on one target.  In the native format a message is one, with*)
(* its request id; in the format of MidPoint it is about the whole user.   *)
SubMessages == [target : Targets, op : Operations, pw : BOOLEAN, named : BOOLEAN,
                want : SUBSET Ents, on : BOOLEAN, removed : SUBSET Targets]
NativeMessages == [id : Nat, task : SubMessages]
Messages == NativeMessages \cup [op : Operations, want : [Targets -> WishSet],
                                 roles : SUBSET Targets, removed : SUBSET Targets,
                                 pw : BOOLEAN, named : BOOLEAN]

ASSUME DeliveryAssumption ==
    /\ IsFiniteSet(Targets) /\ NoMessage \notin Messages
    /\ Absent \notin [ents : SUBSET Ents, on : BOOLEAN]
    /\ \A s \in Setups :
         /\ s.family \in [Targets -> Families] /\ s.cleanup \subseteq Targets
         /\ s.broker \in {"rabbitmq", "kafka"} /\ s.approval \subseteq BOOLEAN
         /\ s.broker = "kafka" => s.cleanup = {}    \* only the other consumer reads it
         /\ \A a \in s.approval : MaxPosts(s.faults, a) \in Nat
         /\ \A t \in Targets : Wants(s.faults, t) \subseteq Asked(s.family[t])

VARIABLES broker,       \* "rabbitmq" or "kafka" (BROKER_TYPE, rigid)
          approval,     \* APPROVAL_ENABLED (rigid)
          cleanup,      \* targets whose delete_mode is "update" (rigid)
          wish,         \* MidPoint: what the user should have on each target
          posts,        \* number of messages posted
          queue,        \* messages in the broker
          taken,        \* the message the consumer has not acknowledged
          todo,         \* its operations that are still to be handled
          handled,      \* Kafka: messages handled since the consumer started
          recorded,     \* Kafka: messages whose request id has a row (unique)
          cache,        \* _user_services_cache of the user
          snapshot,     \* user_state in Redis, by target
          gone,         \* user_deleted markers in Redis
          ops,          \* operations that wait for approval
          crashes,
          seen,         \* what the last message taken asked for
          excused       \* targets on which something went wrong, see below

rigid == <<family, faults, broker, approval, cleanup>>
midpoint == <<wish, posts>>
consumer == <<queue, taken, todo, handled, recorded, cache>>
orchestrator == <<snapshot, gone, ops>>
vars == <<rigid, midpoint, consumer, orchestrator, crashes, seen, excused, account, session>>

Nothing == [t \in Targets |-> Absent]

(***************************************************************************)
(* MidPoint                                                                *)
(***************************************************************************)
Init ==
    /\ \E s \in Setups : family = s.family /\ cleanup = s.cleanup /\ faults = s.faults
                         /\ broker = s.broker /\ approval \in s.approval
    /\ wish = Nothing /\ posts = 0
    /\ queue = <<>> /\ taken = NoMessage /\ todo = <<>> /\ handled = <<>>
    /\ recorded = {} /\ cache = {}
    /\ snapshot = Nothing /\ gone = {} /\ ops = <<>>
    /\ crashes = 0 /\ seen = Nothing /\ excused = {}
    /\ account = [t \in Targets |-> NoAccount]
    /\ session = Idle

Holds(w) == {t \in Targets : w[t] # Absent}

(* JsonMapper: a CREATE and an UPDATE carry the state the user should have,*)
(* an UPDATE sometimes the roles removed too, a DELETE the uid alone: its  *)
(* removed are the roles MidPoint can still tell of (Enriched).  A role can*)
(* be left to be guessed from an entitlement attribute.                    *)
ByAttribute(w) == IF "attribute" \in faults
                  THEN {t \in Holds(w) : w[t].ents # {}} ELSE {}
Message(op, w, removed, pw, named) ==
    [op |-> op, want |-> w, roles |-> Holds(w) \ ByAttribute(w), removed |-> removed,
     pw |-> pw, named |-> named]

Wishes == {w \in [Targets -> UNION {Wants(faults, t) : t \in Targets}] :
              \A t \in Targets : w[t] \in Wants(faults, t)}
PasswordSent == IF "password" \in faults THEN BOOLEAN ELSE {FALSE}
NameSent == IF "unnamed" \in faults THEN {FALSE} ELSE {TRUE}
Post(m) == queue' = Append(queue, m)

PostUser ==
    /\ broker = "rabbitmq"
    /\ posts < MaxPosts(faults, approval) /\ Len(queue) < MaxQueue
    /\ \E w \in Wishes :
         /\ wish' = w
         /\ \/ posts = 0 /\ w # Nothing
               /\ Post(Message("CREATE", w, {}, TRUE, TRUE)) /\ posts' = 1
            \/ posts > 0 /\ w # wish
               /\ \E removed \in {{}, Holds(wish) \ Holds(w)}, pw \in PasswordSent :
                       Post(Message("UPDATE", w, removed, pw, TRUE))
               /\ posts' = posts + 1
            \/ posts > 0 /\ w = Nothing     \* the user is deleted: no more messages
               /\ \E named \in NameSent :
                       Post(Message("DELETE", w, Holds(wish) \ ByAttribute(wish), FALSE, named))
               /\ posts' = MaxPosts(faults, approval)
    /\ UNCHANGED <<rigid, taken, todo, handled, recorded, cache, orchestrator, crashes, seen, excused,
                   account, session>>

(* The native format names one operation on one target.                    *)
PostNative ==
    /\ broker = "kafka"
    /\ posts < MaxPosts(faults, approval) /\ Len(queue) < MaxQueue
    /\ \E t \in Targets : \E w \in Wants(faults, t) \ {wish[t]} :
         /\ wish' = [wish EXCEPT ![t] = w]
         /\ Post([id |-> posts + 1, task |->
              [target |-> t, named |-> TRUE, pw |-> wish[t] = Absent, removed |-> {},
               op |-> IF w = Absent THEN "DELETE" ELSE IF wish[t] = Absent THEN "CREATE" ELSE "UPDATE",
               want |-> IF w = Absent THEN {} ELSE w.ents,
               on |-> w = Absent \/ w.on]])
    /\ posts' = posts + 1
    /\ UNCHANGED <<rigid, taken, todo, handled, recorded, cache, orchestrator, crashes, seen, excused,
                   account, session>>

(***************************************************************************)
(* What the properties leave out.  A target is excused from the last       *)
(* operation that did not do what it was to do (or was lost) until one that*)
(* serves the last message on that target succeeds, none being left, while *)
(* the consumer, or Redis, can find the account again.  A creation without *)
(* groups that finds an account with groups does not put it right, and one *)
(* of a disabled account enables it.                                       *)
(***************************************************************************)
Waiting(t) == \E i \in DOMAIN ops : ops[i].target = t
Running(t) == session # Idle /\ session.target = t
InHand(t) == Waiting(t) \/ Running(t)
Left(t, rest) == \E i \in DOMAIN rest : rest[i].target = t

Meets(s, w) == IF s.op = "DELETE" THEN w = Absent
               ELSE \/ w = [ents |-> s.want, on |-> s.on]
                    \/ w = Absent /\ s.op = "UPDATE" /\ s.target \in cleanup /\ s.want = {}
Findable(t) == \/ seen[t] = Absent \/ broker = "kafka"
               \/ t \in cache \/ (cache = {} /\ approval)
Rights(s, rest) == /\ Meets(s, seen[s.target]) /\ Findable(s.target)
                   /\ ~Waiting(s.target) /\ ~Left(s.target, rest)
                   /\ s.op = "CREATE" /\ s.want = {} => s.before.member = {}
(* CREATE does not look at `enabled`, nor does Odoo's UPDATE of no user.   *)
Enables(s) == ~s.on /\ \/ s.op = "CREATE"
                       \/ s.op = "UPDATE" /\ family[s.target] = "odoo" /\ ~s.before.exists
Outcome(s, rest) == IF s.refused \/ ~s.named \/ Enables(s) THEN excused \cup {s.target}
                    ELSE IF Rights(s, rest) THEN excused \ {s.target} ELSE excused

(***************************************************************************)
(* The consumer                                                            *)
(***************************************************************************)
(* _targets_for_attributes: an attribute is shared by a family, and a role *)
(* that names one target of the family wins.                               *)
AttributeTargets(m) ==
    {t \in Targets : \E u \in Holds(m.want) : family[u] = family[t] /\ m.want[u].ents # {}}
TargetsForMessage(m) ==
    m.roles \cup {t \in AttributeTargets(m) : \A r \in m.roles : family[r] # family[t]}

(* The instances of a family that share the attribute of another.          *)
Misrouted(m) == (TargetsForMessage(m) \ Holds(m.want)) \cup (Holds(m.want) \ TargetsForMessage(m))

(* _project_user_data_for_target keeps what concerns the target.           *)
Project(m, t, op, named) ==
    [target |-> t, op |-> op, pw |-> m.pw, named |-> named,
     removed |-> IF m.op = "UPDATE" THEN m.removed ELSE {},
     want |-> IF m.want[t] = Absent THEN {} ELSE m.want[t].ents,
     on |-> m.want[t] = Absent \/ m.want[t].on]

Orders(S) == {s \in [1..Cardinality(S) -> S] : \A i, j \in DOMAIN s : s[i] = s[j] => i = j}

(* The targets with a snapshot in Redis, an error counting as none; a      *)
(* DELETE without a name takes the name of a snapshot with its uid.        *)
Remembered(redisUp) == IF redisUp THEN Holds(snapshot) ELSE {}
Named(m, redisUp) == m.named \/ Remembered(redisUp) # {}

(* _enrich_delete_from_midpoint: MidPoint, if it answers and still knows   *)
(* the user, tells the name of a DELETE, and its roles if it has any left. *)
Enriched(m) ==
    {m} \cup {[m EXCEPT !.roles = @ \cup told, !.named = TRUE] :
                 told \in IF m.op = "DELETE" THEN {{}, m.removed} ELSE {}}

(* A DELETE goes to the cached targets, or else to those of Redis, and to  *)
(* all targets when nothing is known.                                      *)
DeleteTargets(m, redis) ==
    LET known == (IF cache # {} THEN cache ELSE redis) \cup TargetsForMessage(m)
    IN IF known = {} THEN Targets ELSE known

\* Mutant: a removed target is looked for in the cache only.
RemovedFromCache(m, redis) == (cache \cup m.removed) \ TargetsForMessage(m)

Removed(m, redis) == (cache \cup redis \cup m.removed) \ TargetsForMessage(m)

(* What leaves a target: a DELETE, or an UPDATE that empties the account.  *)
Departure(m, t) == Project(m, t, IF t \in cleanup THEN "UPDATE" ELSE "DELETE", TRUE)

(* _parse_midpoint_format: the operations on removed targets come first;   *)
(* the targets of each group come in any order.                            *)
Parse(m, redisUp) ==
    LET redis == Remembered(redisUp)
    IN CASE m.op = "DELETE" ->
              /\ \E s \in Orders(DeleteTargets(m, redis)) :
                    todo' = [i \in DOMAIN s |-> Project(m, s[i], "DELETE", Named(m, redisUp))]
              /\ cache' = {}
         [] m.op = "UPDATE" ->
              /\ \E d \in Orders(Removed(m, redis)), s \in Orders(TargetsForMessage(m)) :
                    todo' = [i \in DOMAIN d |-> Departure(m, d[i])]
                            \o [i \in DOMAIN s |-> Project(m, s[i], "UPDATE", TRUE)]
              /\ cache' = TargetsForMessage(m)
         [] m.op = "CREATE" ->
              /\ \E s \in Orders(TargetsForMessage(m)) :
                    todo' = [i \in DOMAIN s |-> Project(m, s[i], "CREATE", TRUE)]
              /\ cache' = IF TargetsForMessage(m) = {} THEN cache ELSE TargetsForMessage(m)

Take ==
    /\ broker = "rabbitmq"
    /\ taken = NoMessage /\ queue # <<>>
    /\ taken' = Head(queue) /\ queue' = Tail(queue)
    /\ \E redisUp \in {TRUE} \cup (IF "redis" \in faults THEN {FALSE} ELSE {}) :
         /\ \E m \in Enriched(Head(queue)) : Parse(m, redisUp)
         /\ excused' = excused \cup Misrouted(Head(queue)) \cup
                 (IF redisUp THEN {}
                  ELSE Holds(snapshot) \ {todo'[i].target : i \in DOMAIN todo'})
    /\ seen' = Head(queue).want
    /\ UNCHANGED <<rigid, midpoint, handled, recorded, orchestrator, crashes, account, session>>

(* kafka_consumer.py: the native format only.  A message that comes again, *)
(* having left no row, may be older than what was done on its target.      *)
Stale(m) == \E r \in recorded : r.task.target = m.task.target /\ r.id > m.id
TakeNative ==
    /\ broker = "kafka"
    /\ taken = NoMessage /\ queue # <<>> /\ Head(queue) \notin recorded
    /\ taken' = Head(queue) /\ queue' = Tail(queue)
    /\ LET m == Head(queue) IN
         /\ todo' = <<m.task>>
         /\ seen' = IF Stale(m) THEN seen
                    ELSE [seen EXCEPT ![m.task.target] =
                            IF m.task.op = "DELETE" THEN Absent
                            ELSE [ents |-> m.task.want, on |-> m.task.on]]
         /\ excused' = IF Stale(m) THEN excused \cup {m.task.target} ELSE excused
    /\ UNCHANGED <<rigid, midpoint, handled, recorded, cache, orchestrator, crashes, account,
                   session>>

(* A message that has its row cannot be recorded again: the insertion      *)
(* raises on the unique request id, and the message is logged and dropped. *)
TakeAgain ==
    /\ broker = "kafka"
    /\ taken = NoMessage /\ queue # <<>> /\ Head(queue) \in recorded
    /\ queue' = Tail(queue)
    /\ handled' = Append(handled, Head(queue))
    /\ UNCHANGED <<rigid, midpoint, taken, todo, recorded, cache, orchestrator, crashes, seen,
                   excused, account, session>>

(* The row comes first.  The ids made of messages of MidPoint are new each *)
(* time (a timestamp ends them): that insertion is part of what follows it.*)
CreateOperation ==
    /\ broker = "kafka"
    /\ todo # <<>> /\ taken \notin recorded
    /\ recorded' = recorded \cup {taken}
    /\ UNCHANGED <<rigid, midpoint, queue, taken, todo, handled, cache, orchestrator, crashes,
                   seen, excused, account, session>>
Opened == todo # <<>> /\ (broker = "kafka" => taken \in recorded)

Working == session # Idle /\ session.by = "consumer"

(* An UPDATE of a deleted account is a CREATE; an UPDATE that changes      *)
(* nothing, or that an identical UPDATE waits for, is skipped.  A password *)
(* sent and, where the snapshot decides, removedRoles are compared too:    *)
(* they may be those known already, or others.                             *)
Converted(m) == IF m.op = "UPDATE" /\ m.target \in gone THEN [m EXCEPT !.op = "CREATE"] ELSE m
Waits(m) == \E i \in DOMAIN ops : ops[i] = m
Skipped(m) == /\ m.op = "UPDATE"
              /\ snapshot[m.target] = [ents |-> m.want, on |-> m.on] \/ Waits(m)
Proceeds(m) == ~Skipped(m) \/ m.pw \/ (m.removed # {} /\ ~Waits(m))

HandleSkipped ==
    /\ Opened /\ Skipped(Converted(Head(todo)))
    /\ todo' = Tail(todo)
    /\ excused' = IF InHand(Head(todo).target) THEN excused \cup {Head(todo).target} ELSE excused
    /\ UNCHANGED <<rigid, midpoint, queue, taken, handled, recorded, cache, orchestrator, crashes,
                   seen, account, session>>

HandleApproval ==
    /\ Opened /\ Proceeds(Converted(Head(todo)))
    /\ approval
    /\ ops' = Append(ops, Converted(Head(todo)))
    /\ todo' = Tail(todo)
    /\ UNCHANGED <<rigid, midpoint, queue, taken, handled, recorded, cache, snapshot, gone,
                   crashes, seen, excused, account, session>>

HandleNow ==
    /\ Opened /\ Proceeds(Converted(Head(todo)))
    /\ ~approval /\ session = Idle
    /\ Open("consumer", Converted(Head(todo)))
    /\ UNCHANGED <<rigid, midpoint, consumer, orchestrator, crashes, seen, excused, account>>

HandleDone ==
    /\ Working /\ session.pc = "done"
    /\ todo' = Tail(todo)
    /\ session' = Idle
    /\ excused' = Outcome(session, Tail(todo))
    /\ UNCHANGED <<rigid, midpoint, queue, taken, handled, recorded, cache, orchestrator, crashes,
                   seen, account>>

\* Mutant: the message is acknowledged before its operations are handled.
AckFirst ==
    /\ taken # NoMessage
    /\ taken' = NoMessage
    /\ handled' = IF broker = "kafka" THEN Append(handled, taken) ELSE handled
    /\ UNCHANGED <<rigid, midpoint, queue, todo, recorded, cache, orchestrator, crashes, seen,
                   excused, account, session>>

Ack ==
    /\ taken # NoMessage /\ todo = <<>>
    /\ taken' = NoMessage
    /\ handled' = IF broker = "kafka" THEN Append(handled, taken) ELSE handled
    /\ UNCHANGED <<rigid, midpoint, queue, todo, recorded, cache, orchestrator, crashes, seen,
                   excused, account, session>>

\* Mutant: the operation that failed is tried again in place, without end.
RetriedInPlace ==
    /\ excused' = excused \cup {todo[i].target : i \in DOMAIN todo}
    /\ UNCHANGED <<taken, todo, handled, recorded, queue, cache>>

(* An exception: the operations after the one that failed are not handled, *)
(* and the message is rejected without being requeued.                     *)
Rejected ==
    /\ taken' = NoMessage
    /\ todo' = <<>>
    /\ excused' = excused \cup {todo[i].target : i \in DOMAIN todo}
    /\ handled' = IF broker = "kafka" THEN Append(handled, taken) ELSE handled
    /\ UNCHANGED <<queue, recorded, cache>>

HandleFailed ==
    /\ Working /\ session.pc = "failed"
    /\ Rejected
    /\ session' = Idle
    /\ UNCHANGED <<rigid, midpoint, orchestrator, crashes, seen, account>>

HandleRaises ==
    /\ "database" \in faults
    /\ todo # <<>> /\ ~Working
    /\ Rejected
    /\ UNCHANGED <<rigid, midpoint, orchestrator, crashes, seen, account, session>>

(***************************************************************************)
(* The API makes the call of an approved operation.                        *)
(***************************************************************************)
Approve ==
    /\ session = Idle
    /\ \E i \in DOMAIN ops :
         LET first == \A j \in 1..(i - 1) : ops[j].target # ops[i].target
         IN /\ first \/ "disorder" \in faults
            /\ Open("api", ops[i])
            /\ ops' = SubSeq(ops, 1, i - 1) \o SubSeq(ops, i + 1, Len(ops))
            /\ excused' = IF first THEN excused ELSE excused \cup {ops[i].target}
    /\ UNCHANGED <<rigid, midpoint, consumer, snapshot, gone, crashes, seen, account>>

Provisioned ==
    /\ session # Idle /\ session.by = "api" /\ session.pc = "done"
    /\ session' = Idle
    /\ excused' = Outcome(session, todo)
    /\ LET t == session.target
       IN \/ ~session.named /\ UNCHANGED <<snapshot, gone>>
          \/ /\ session.named /\ session.op = "DELETE"
             /\ snapshot' = [snapshot EXCEPT ![t] = Absent]
             /\ gone' = gone \cup {t}
          \/ /\ session.named /\ session.op # "DELETE"
             /\ snapshot' = [snapshot EXCEPT ![t] = [ents |-> session.want, on |-> session.on]]
             /\ gone' = IF session.op = "CREATE" THEN gone \ {t} ELSE gone
    /\ UNCHANGED <<rigid, midpoint, consumer, ops, crashes, seen, account>>

ProvisioningFailed ==
    /\ session # Idle /\ session.by = "api" /\ session.pc = "failed"
    /\ session' = Idle
    /\ excused' = excused \cup {session.target}
    /\ UNCHANGED <<rigid, midpoint, consumer, orchestrator, crashes, seen, account>>

ConnectorStep ==
    /\ session # Idle
    /\ MySqlStep \/ PgStep \/ MongoStep \/ LdapStep \/ OdooStep \/ Raise
    /\ UNCHANGED <<rigid, midpoint, consumer, orchestrator, crashes, seen, excused>>

(***************************************************************************)
(* Crashes.  The broker delivers the unacknowledged message again.  The    *)
(* offset of Kafka is committed in the background: the messages since the  *)
(* last commit come again, or the one in progress, committed, is lost.  A  *)
(* message that comes again and has its row is dropped (TakeAgain): what   *)
(* was left of its operation is not done.                                  *)
(***************************************************************************)
InProgress == IF taken = NoMessage THEN <<>> ELSE <<taken>>

CrashConsumer ==
    /\ "crash" \in faults /\ crashes < MaxCrashes
    /\ crashes' = crashes + 1
    /\ taken' = NoMessage /\ todo' = <<>> /\ handled' = <<>> /\ cache' = {}
    /\ session' = IF Working THEN Idle ELSE session
    /\ \/ /\ broker = "rabbitmq"
          /\ queue' = InProgress \o queue
          /\ excused' = excused \cup {t \in Targets : snapshot[t] = Absent \/ InHand(t)}
       \/ /\ broker = "kafka"
          /\ \E n \in 0..Len(handled) :
                queue' = SubSeq(handled, n + 1, Len(handled)) \o InProgress \o queue
          /\ excused' = IF todo # <<>> /\ taken \in recorded
                        THEN excused \cup {taken.task.target} ELSE excused
       \/ /\ broker = "kafka" /\ taken # NoMessage
          /\ queue' = queue
          /\ excused' = excused \cup {taken.task.target}
    /\ UNCHANGED <<rigid, midpoint, recorded, orchestrator, seen, account>>

CrashApi ==
    /\ "crash" \in faults /\ crashes < MaxCrashes
    /\ session # Idle /\ session.by = "api"
    /\ crashes' = crashes + 1
    /\ session' = Idle
    /\ excused' = excused \cup {session.target}
    /\ UNCHANGED <<rigid, midpoint, consumer, orchestrator, seen, account>>

-------------------------------------------------------------------------------
ConsumerStep == \/ Take \/ TakeNative \/ TakeAgain \/ CreateOperation \/ HandleSkipped \/ HandleApproval \/ HandleNow
                \/ HandleDone \/ HandleFailed \/ HandleRaises \/ Ack

Next == \/ PostUser \/ PostNative \/ ConsumerStep \/ ConnectorStep
        \/ Approve \/ Provisioned \/ ProvisioningFailed \/ CrashConsumer \/ CrashApi

Spec == Init /\ [][Next]_vars

(* The event loop runs the consumer and every call that was begun; nobody  *)
(* has to approve anything.                                                *)
FairSpec == Spec /\ WF_vars(ConsumerStep) /\ WF_vars(ConnectorStep)
-------------------------------------------------------------------------------
(* The shape of the state; with approval the consumer never has a session  *)
(* and without it nothing ever waits; a session of the consumer is the     *)
(* first operation still to be handled of the message it has not           *)
(* acknowledged.                                                           *)
DeliveryTypeOK ==
    /\ wish \in [Targets -> WishSet] /\ seen \in [Targets -> WishSet]
    /\ snapshot \in [Targets -> WishSet]
    /\ \A i \in DOMAIN queue : queue[i] \in Messages
    /\ taken = NoMessage \/ taken \in Messages
    /\ \A i \in DOMAIN todo : todo[i] \in SubMessages
    /\ \A i \in DOMAIN ops : ops[i] \in SubMessages
    /\ recorded \subseteq NativeMessages
    /\ cache \subseteq Targets /\ gone \subseteq Targets /\ excused \subseteq Targets
    /\ account \in [Targets -> Accounts] /\ SessionTypeOK
    /\ IF approval THEN ~Working ELSE ops = <<>> /\ gone = {} /\ Holds(snapshot) = {}
    /\ Working => taken # NoMessage /\ todo # <<>> /\ Head(todo).target = session.target
    /\ todo # <<>> => taken # NoMessage

(***************************************************************************)
(* What a connector promises when it reports success, whatever an earlier  *)
(* call that failed or was cut off left on the account.                    *)
(***************************************************************************)
Has(a) == a.direct \cup a.member
Desired == IF family[session.target] \in {"mysql", "postgresql"} THEN Wanted ELSE session.want

(* What may stay: with PostgreSQL the privileges, when the request names   *)
(* none; with LDAP the groups of an entry that is created again, or that   *)
(* is not found by employee number; with Odoo the groups of a user that is *)
(* provisioned again or asked to have none.                                *)
Leftover ==
    CASE family[session.target] = "postgresql" ->
            IF Privileges = {} THEN session.before.direct ELSE {}
      [] family[session.target] = "ldap" ->
            IF session.before.exists /\ (session.before.linked \/ session.op = "UPDATE") THEN {}
            ELSE session.before.member
      [] family[session.target] = "odoo" ->
            IF session.op = "CREATE" \/ session.want = {} THEN session.before.member ELSE {}
      [] OTHER -> {}
(* Odoo gives no groups to a user that is there, or comes back.            *)
Withheld == IF family[session.target] = "odoo" /\ session.op = "CREATE" /\ session.before.exists
            THEN session.want ELSE {}
(* The account an LDAP update without groups does not find is not created. *)
NotNeeded == family[session.target] = "ldap" /\ session.op = "UPDATE" /\ session.want = {}

Deleted(a) == CASE family[session.target] = "odoo" -> ~a.enabled /\ a.employee # "active"
                [] family[session.target] = "ldap" -> ~a.exists
                [] OTHER -> a = NoAccount
Reached == session.named \/ (family[session.target] = "odoo" /\ session.before.linked)

(* An UPDATE enables or disables a SQL account, and an Odoo user it finds; *)
(* LDAP and MongoDB know no such state.                                    *)
Switches == \/ family[session.target] \in {"mysql", "postgresql"}
            \/ family[session.target] = "odoo" /\ session.before.exists

(* When a connector call returns success, the account is what the request  *)
(* asked for: gone, or there with the entitlements of the request and no   *)
(* others, in the state the request wants, although earlier calls may have *)
(* stopped half way and a redelivered message may repeat what was done.    *)
(* Exempt are a DELETE without a name, a call one of whose statements was  *)
(* refused and the refusal swallowed, and what Leftover, Withheld and      *)
(* NotNeeded name.                                                         *)
SuccessIsExact ==
    session.pc = "done" => (Reached /\ ~session.refused =>
        IF session.op = "DELETE" THEN Deleted(Here)
        ELSE \/ NotNeeded /\ ~Here.exists
             \/ /\ Here.exists
                /\ Desired \ Withheld \subseteq Has(Here)
                /\ Has(Here) \subseteq Desired \cup Leftover
                /\ session.op = "UPDATE" /\ Switches => Here.enabled = session.on)

Usable(t) == account[t].exists /\ (family[t] = "odoo" => account[t].enabled)
Disables(t) == family[t] \in {"mysql", "postgresql", "odoo"}
Agrees(t, w) ==
    IF w = Absent
    THEN ~Usable(t) \/ (t \in cleanup /\ (family[t] = "odoo" \/ account[t].member = {}))
    ELSE IF w.on THEN \/ family[t] = "ldap" /\ w.ents = {}
                      \/ Usable(t) /\ (Disables(t) => account[t].enabled)
    ELSE Disables(t) => ~account[t].enabled

(* Once the consumer has caught up and no operation on a target is waiting *)
(* or running, the account there is what the last message wanted, whatever *)
(* route the operations took: usable if it wanted an enabled one, disabled *)
(* if it wanted a disabled one (in the families that know the difference), *)
(* and not usable if it wanted none: the targets a user lost are found     *)
(* again from the cache, Redis or removedRoles.  A target set to be cleaned*)
(* up keeps an account without groups (with Odoo, which replaces the groups*)
(* by others only, an account as it was), and of an LDAP account without   *)
(* groups nothing is said.  Excused are the targets whose last operation   *)
(* failed, was lost, was done out of order or was skipped while another was*)
(* in hand, and the disabled accounts a creation enables.                  *)
AccountsAgree ==
    queue = <<>> /\ taken = NoMessage =>
        \A t \in Targets \ excused : InHand(t) \/ Agrees(t, seen[t])

(* However its operations end, every message is acknowledged or rejected   *)
(* once and for all, and the queue runs empty.  The comments of both       *)
(* consumers say of a message that failed that it comes back               *)
(* (rabbitmq_consumer.py:175, kafka_consumer.py:93).                       *)
QueueDrains == <>[](queue = <<>> /\ taken = NoMessage)
===============================================================================
