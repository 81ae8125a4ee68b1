---------------------------- MODULE DeliveryProofs ----------------------------
(***************************************************************************)
(* What is proved of MessageConsumer and of the connectors it drives, for  *)
(* any targets of the five families, any entitlements, any number of       *)
(* messages and crashes and every combination of faults: type correctness, *)
(* and that a connector call which reports success leaves the account the  *)
(* request asked for (SuccessIsExact).                                     *)
(***************************************************************************)
EXTENDS MessageConsumer, FiniteSetTheorems, SequenceTheorems, TLAPS

-----------------------------------------------------------------------------
\* Types.  Every message is made from wishes MidPoint may have of its target, so
\* that no message of a MySQL target names two roles.

OneRole(t, want) == family[t] = "mysql" => \A r, q \in want \ Direct : r = q
Natives == {m \in SubMessages : OneRole(m.target, m.want)}
NativePosts == {m \in NativeMessages : m.task \in Natives}
UserMessages == [op : Operations, want : [Targets -> WishSet], roles : SUBSET Targets,
                 removed : SUBSET Targets, pw : BOOLEAN, named : BOOLEAN]
UserPosts == {m \in UserMessages : \A t \in Targets : m.want[t] \in Asked(family[t])}
Posted == IF broker = "kafka" THEN NativePosts ELSE UserPosts

SetupTyped ==
    /\ family \in [Targets -> Families] /\ cleanup \subseteq Targets
    /\ broker \in {"rabbitmq", "kafka"} /\ approval \in BOOLEAN
    /\ broker = "kafka" => cleanup = {}
    /\ MaxPosts(faults, approval) \in Nat
    /\ \A t \in Targets : Wants(faults, t) \subseteq Asked(family[t])
WishesTyped ==
    /\ wish \in [Targets -> WishSet] /\ \A t \in Targets : wish[t] \in Asked(family[t])
    /\ seen \in [Targets -> WishSet] /\ snapshot \in [Targets -> WishSet]
MessagesTyped ==
    /\ queue \in Seq(Posted) /\ handled \in Seq(Posted)
    /\ taken = NoMessage \/ taken \in Posted
    /\ todo \in Seq(Natives) /\ ops \in Seq(Natives)
MarksTyped == /\ cache \subseteq Targets /\ gone \subseteq Targets /\ excused \subseteq Targets
              /\ recorded \subseteq NativeMessages /\ posts \in Nat
Routes ==
    /\ IF approval THEN ~Working ELSE ops = <<>> /\ gone = {} /\ snapshot = Nothing
    /\ session # Idle /\ session.by = "api" => approval
    /\ Working => todo # <<>> /\ Head(todo).target = session.target
    /\ todo # <<>> => taken # NoMessage
AccountTyped == account \in [Targets -> Accounts]
CallTyped(s) ==
    /\ s \in Sessions /\ OneRole(s.target, s.want)
    /\ s.pc = "grant" => s.left \subseteq Direct
SessionTyped == session = Idle \/ CallTyped(session)

-----------------------------------------------------------------------------
\* The plan of a call: what is true of the account a (and of the call s) between
\* two statements of a connector, one line for each point where it can stop.
\* A promise about what a statement did is kept only while none was refused.

Priv(s) == s.want \cap Direct
Role(s) == s.want \ Direct
AsOpened(s, a, pcs) == s.pc \in pcs => a = s.before
\* Enabled if that is asked, and disabled if an update asks that.
Switched(s, a) == (s.op = "UPDATE" => a.enabled = s.on) /\ (s.on => a.enabled)

MySqlPlan(s, a) ==
    /\ AsOpened(s, a, {"connect", "provision", "update", "delete"})
    /\ s.pc = "provision" => s.op = "CREATE"
    /\ s.pc = "delete" => s.op = "DELETE"
    /\ s.pc \in {"update", "password", "enable", "revoke", "unrole", "choose", "grant",
                 "role", "default"} => s.op # "DELETE"
    /\ s.pc \in {"password", "enable", "revoke", "unrole", "choose", "grant", "role",
                 "default"} => a.exists
    /\ s.pc \in {"revoke", "unrole", "choose", "grant", "role", "default"} =>
          Switched(s, a)
    /\ s.pc = "unrole" => a.member \subseteq s.left /\ (~s.refused => a.direct = {})
    /\ s.pc = "choose" => a.member = {} /\ (~s.refused => a.direct = {})
    /\ s.pc = "grant" =>
          /\ Priv(s) # {} /\ s.left \subseteq Priv(s) /\ a.member = {}
          /\ ~s.refused => a.direct \cup s.left = Priv(s)
    /\ s.pc = "role" =>
          /\ Priv(s) = {} /\ s.left = Role(s) /\ a.member = {}
          /\ ~s.refused => a.direct = {}
    /\ s.pc = "default" =>
          /\ Priv(s) = {} /\ a.member = Role(s)
          /\ ~s.refused => a.direct = {}

PgPlan(s, a) ==
    /\ AsOpened(s, a, {"connect", "provision", "update", "delete"})
    /\ s.pc = "provision" => s.op = "CREATE"
    /\ s.pc \in {"delete", "drop"} => s.op = "DELETE"
    /\ s.pc \in {"update", "password", "enable", "choose", "grant", "role"} => s.op # "DELETE"
    /\ s.pc \in {"password", "enable", "unrole", "strip", "choose", "grant", "role"} => a.exists
    /\ s.pc \in {"unrole", "strip", "choose", "grant", "role"} /\ s.op # "DELETE" => Switched(s, a)
    /\ s.pc \in {"password", "enable", "unrole", "strip", "choose", "role"} =>
          a.direct \subseteq s.before.direct
    /\ s.pc = "unrole" => (~s.refused => a.member \subseteq s.left)
    /\ s.pc = "strip" => (~s.refused => a.member = {}) /\ (s.op = "DELETE" \/ Priv(s) # {})
    /\ s.pc = "choose" => (~s.refused => a.member = {} /\ (Priv(s) # {} => a.direct = {}))
    /\ s.pc = "grant" =>
          /\ Priv(s) # {} /\ s.left \subseteq Priv(s)
          /\ ~s.refused => a.direct \cup s.left = Priv(s) /\ a.member = {}
    /\ s.pc = "role" =>
          /\ Priv(s) = {} /\ s.left \subseteq Role(s)
          /\ ~s.refused => a.member \cup s.left = Role(s)
    /\ s.pc = "done" /\ s.op # "DELETE" => (~s.refused => a.member \subseteq Role(s))

MongoPlan(s, a) ==
    /\ AsOpened(s, a, {"connect", "provision", "update", "delete"})
    /\ s.pc \in {"provision", "update"} => s.op # "DELETE"
    /\ s.pc = "delete" => s.op = "DELETE"

LdapKept(s) == IF s.before.exists /\ (s.before.linked \/ s.op = "UPDATE") THEN {}
               ELSE s.before.member
LdapPlan(s, a) ==
    /\ AsOpened(s, a, {"connect", "provision", "update", "entry", "delete"})
    /\ s.pc \in {"provision", "update", "entry", "choose", "join"} => s.op # "DELETE"
    /\ s.pc \in {"delete", "erase"} => s.op = "DELETE"
    /\ s.pc \in {"provision", "entry"} /\ s.op = "UPDATE" => ~a.exists
    /\ s.pc = "update" /\ s.op = "CREATE" => a.exists /\ a.linked
    /\ s.pc = "entry" => ~(a.exists /\ a.linked)
    /\ s.pc \in {"leave", "choose"} /\ s.op # "DELETE" => a.exists /\ LdapKept(s) = {}
    /\ s.pc = "leave" /\ s.op # "DELETE" => (~s.refused => a.member \subseteq s.want \cup s.left)
    /\ s.pc = "choose" => (~s.refused => a.member \subseteq s.want)
    /\ s.pc = "join" =>
          /\ a.exists /\ s.left \subseteq s.want
          /\ ~s.refused => s.want \subseteq a.member \cup s.left
                           /\ a.member \subseteq s.want \cup LdapKept(s)
    /\ s.op = "UPDATE" /\ s.want = {} =>
          /\ s.pc \notin {"provision", "entry", "join"}
          /\ s.pc \in {"leave", "choose", "done"} /\ a.exists => s.before.exists

\* The groups of an Odoo user: those asked for, or those of a user that was there.
Grouped(s, a) == \/ a.member = s.want
                 \/ s.op = "CREATE" /\ s.before.exists /\ a.member = s.before.member
OdooPlan(s, a) ==
    /\ AsOpened(s, a, {"connect", "provision", "reuse", "create", "update", "write", "delete", "fire"})
    /\ s.pc \in {"provision", "reuse", "restaff", "create", "link", "staff", "update", "write"} =>
          s.op # "DELETE"
    /\ s.pc \in {"provision", "create"} /\ s.op = "UPDATE" => ~a.exists
    /\ s.pc \in {"reuse", "restaff"} => s.op = "CREATE" /\ s.before.exists
    /\ s.pc \in {"link", "staff"} /\ s.op = "UPDATE" => ~s.before.exists
    /\ s.pc \in {"reuse", "restaff", "link", "staff", "write", "fire", "archive"} => a.exists
    /\ s.pc \in {"update", "write"} => s.op = "UPDATE"
    /\ s.pc \in {"delete", "fire", "archive"} => s.op = "DELETE"
    /\ s.pc = "restaff" => a.member = s.before.member
    /\ s.pc \in {"link", "staff"} => (~s.refused => Grouped(s, a))
    /\ s.pc = "archive" => (~s.refused => a.employee # "active")
    /\ s.pc \in {"restaff", "link", "staff", "done"} /\ s.op # "DELETE" => (s.on => a.enabled)

\* SuccessIsExact of a call and an account.
Asks(f, s) == IF f \notin {"mysql", "postgresql"} THEN s.want
              ELSE IF Priv(s) # {} THEN Priv(s) ELSE Role(s)
Kept(f, s) == IF f = "postgresql" THEN IF Priv(s) = {} THEN s.before.direct ELSE {}
              ELSE IF f = "ldap" THEN LdapKept(s)
              ELSE IF f = "odoo" /\ (s.op = "CREATE" \/ s.want = {}) THEN s.before.member
              ELSE {}
Withholds(f, s) == IF f = "odoo" /\ s.op = "CREATE" /\ s.before.exists THEN s.want ELSE {}
GoneFrom(f, a) == /\ f = "odoo" => ~a.enabled /\ a.employee # "active"
                  /\ f = "ldap" => ~a.exists
                  /\ f \notin {"odoo", "ldap"} => a = NoAccount
AsAsked(f, s, a) ==
    \/ f = "ldap" /\ s.op = "UPDATE" /\ s.want = {} /\ ~a.exists
    \/ /\ a.exists
       /\ Asks(f, s) \ Withholds(f, s) \subseteq Has(a)
       /\ Has(a) \subseteq Asks(f, s) \cup Kept(f, s)
       /\ f \in {"mysql", "postgresql"} => Switched(s, a)
       /\ f = "odoo" => (s.before.exists => Switched(s, a)) /\ (s.on => a.enabled)
DonePlan(f, s, a) ==
    s.pc = "done" /\ ~s.refused /\ (s.named \/ (f = "odoo" /\ s.before.linked)) =>
        /\ s.op = "DELETE" => GoneFrom(f, a)
        /\ s.op # "DELETE" => AsAsked(f, s, a)

Plan(f, s, a) ==
    /\ DonePlan(f, s, a)
    /\ a.member \subseteq s.before.member \cup s.want
    /\ f = "mysql" => MySqlPlan(s, a)
    /\ f = "postgresql" => PgPlan(s, a)
    /\ f = "mongodb" => MongoPlan(s, a)
    /\ f = "ldap" => LdapPlan(s, a)
    /\ f = "odoo" => OdooPlan(s, a)

\* The accounts a family can have: only the groups of LDAP stay when the account
\* goes, and only the SQL targets know direct privileges.
Fits(f, a) == /\ f # "ldap" /\ ~a.exists => a = NoAccount
              /\ f \notin {"mysql", "postgresql"} => a.direct = {}
AccountsFit == \A t \in Targets : Fits(family[t], account[t])

TypeInv == SetupTyped /\ WishesTyped /\ MessagesTyped /\ MarksTyped /\ Routes
           /\ AccountTyped /\ SessionTyped
PlanInv == AccountsFit /\ (session # Idle =>
                            Plan(family[session.target], session, account[session.target]))

-----------------------------------------------------------------------------
\* Steps of a call.

Held == AccountTyped /\ SessionTyped /\ PlanInv

\* n is the call s, further on.
Moved(s, n, p, l, r) ==
    /\ n \in Sessions /\ n.pc = p /\ n.left = l /\ n.refused = r
    /\ n.by = s.by /\ n.target = s.target /\ n.op = s.op /\ n.want = s.want /\ n.on = s.on
    /\ n.pw = s.pw /\ n.named = s.named /\ n.before = s.before

LEMMA IdleIsNoCall == Idle \notin Sessions
<1>1. SUFFICES ASSUME Idle \in Sessions PROVE FALSE
  OBVIOUS
<1>2. Idle.pc \in Pcs
  BY <1>1 DEF Sessions
<1>3. Idle.pc = "idle"
  BY DEF Idle
<1>4. QED
  BY <1>2, <1>3 DEF Pcs

LEMMA CallFields ==
  ASSUME NEW s \in Sessions
  PROVE  /\ s.pc \in Pcs /\ s.by \in {"consumer", "api"} /\ s.target \in Targets
         /\ s.op \in Operations /\ s.want \subseteq Ents /\ s.on \in BOOLEAN
         /\ s.pw \in BOOLEAN /\ s.named \in BOOLEAN /\ s.left \subseteq Ents
         /\ s.refused \in BOOLEAN /\ s.before \in Accounts
  BY DEF Sessions

LEMMA GotoMoves ==
  ASSUME session \in Sessions, NEW p \in Pcs, Goto(p)
  PROVE  Moved(session, session', p, session.left, session.refused)
<1>1. session' \in Sessions
  BY DEF Goto, Sessions
<1>2. QED
  BY <1>1 DEF Goto, Sessions, Moved

LEMMA GotoWithMoves ==
  ASSUME session \in Sessions, NEW p \in Pcs, NEW l \in SUBSET Ents, GotoWith(p, l)
  PROVE  Moved(session, session', p, l, session.refused)
<1>1. session' \in Sessions
  BY DEF GotoWith, Sessions
<1>2. QED
  BY <1>1 DEF GotoWith, Sessions, Moved

LEMMA EachMoves ==
  ASSUME session \in Sessions, NEW p \in Pcs, NEW g \in session.left, NEW a, Each(g, p, a)
  PROVE  /\ Moved(session, session', IF session.left = {g} THEN p ELSE session.pc,
                  session.left \ {g}, session.refused)
         /\ Become(a)
<1> DEFINE q == IF session.left = {g} THEN p ELSE session.pc
<1>1. q \in Pcs /\ session.left \ {g} \in SUBSET Ents
  BY CallFields
<1>2. GotoWith(q, session.left \ {g})
  BY DEF Each
<1>3. Moved(session, session', q, session.left \ {g}, session.refused)
  BY <1>1, <1>2, GotoWithMoves
<1>4. QED
  BY <1>3 DEF Each

LEMMA RefusedMoves ==
  ASSUME session \in Sessions, NEW p \in Pcs, NEW g, Refused(g, p)
  PROVE  /\ Moved(session, session', IF session.left \subseteq {g} THEN p ELSE session.pc,
                  session.left \ {g}, TRUE)
         /\ account' = account
<1> DEFINE q == IF session.left \subseteq {g} THEN p ELSE session.pc
<1>1. q \in Pcs /\ session.left \ {g} \in SUBSET Ents
  BY CallFields
<1>2. session' = [session EXCEPT !.pc = q, !.left = session.left \ {g}, !.refused = TRUE]
  BY DEF Refused
<1>3. session' \in Sessions
  BY <1>1, <1>2 DEF Sessions
<1>4. Moved(session, session', q, session.left \ {g}, TRUE)
  BY <1>2, <1>3 DEF Sessions, Moved
<1>5. QED
  BY <1>4 DEF Refused

\* What a step has to establish of the call and of its account.
LEMMA StepKeeps ==
  ASSUME AccountTyped, AccountsFit, family' = family, session \in Sessions,
         NEW a \in Accounts, account' = [account EXCEPT ![session.target] = a],
         Fits(family[session.target], a), session'.target = session.target,
         CallTyped(session'), Plan(family[session.target], session', a)
  PROVE  Held'
<1> DEFINE t == session.target
<1>1. t \in Targets
  BY CallFields
<1>2. /\ account' \in [Targets -> Accounts] /\ account'[t] = a
      /\ \A u \in Targets : u # t => account'[u] = account[u]
  BY <1>1 DEF AccountTyped
<1>3. AccountTyped'
  BY <1>2 DEF AccountTyped
<1>4. SessionTyped'
  BY DEF SessionTyped, CallTyped, OneRole
<1>5. AccountsFit'
  BY <1>1, <1>2 DEF AccountsFit, Fits
<1>6. Plan(family[session.target], session, account[session.target])'
  BY <1>2
<1>7. QED
  BY <1>3, <1>4, <1>5, <1>6 DEF Held, PlanInv

\* The call goes on, keeps what holds of it and leaves the other accounts alone.
GoesOn == /\ Held'
          /\ session' \in Sessions /\ session'.by = session.by
          /\ session'.target = session.target /\ session'.op = session.op
          /\ session'.want = session.want /\ session'.on = session.on
          /\ session'.before = session.before
          /\ \A u \in Targets : u # session.target => account'[u] = account[u]

\* The same in terms of Moved, for a step that changes the account ...
LEMMA ChangeKeeps ==
  ASSUME Held, session \in Sessions, family' = family,
         NEW p, NEW l, NEW r, Moved(session, session', p, l, r), p = "grant" => l \subseteq Direct,
         NEW a \in Accounts, Become(a),
         Fits(family[session.target], a), Plan(family[session.target], session', a)
  PROVE  GoesOn
<1>1. AccountTyped /\ AccountsFit /\ CallTyped(session)
  BY IdleIsNoCall DEF Held, SessionTyped, PlanInv
<1>2. CallTyped(session') /\ session'.target = session.target
  BY <1>1 DEF CallTyped, Moved, OneRole
<1>3. \A u \in Targets : u # session.target => account'[u] = account[u]
  BY <1>1 DEF Become, AccountTyped
<1>4. QED
  BY <1>1, <1>2, <1>3, StepKeeps DEF Become, Moved, GoesOn

\* ... and for one that leaves it alone.
LEMMA StayKeeps ==
  ASSUME Held, session \in Sessions, family' = family, account' = account,
         NEW p, NEW l, NEW r, Moved(session, session', p, l, r), p = "grant" => l \subseteq Direct,
         Plan(family[session.target], session', Here)
  PROVE  GoesOn
<1>1. session.target \in Targets /\ account \in [Targets -> Accounts]
  BY CallFields DEF Held, AccountTyped
<1>2. Here \in Accounts /\ Become(Here)
  BY <1>1 DEF Here, Become
<1>3. Fits(family[session.target], Here)
  BY <1>1 DEF Held, PlanInv, AccountsFit, Here
<1>4. QED
  BY <1>2, <1>3, ChangeKeeps

\* What is known of a call in progress.
LEMMA InCall ==
  ASSUME Held, session # Idle
  PROVE  /\ session \in Sessions /\ CallTyped(session)
         /\ Here \in Accounts /\ Fits(family[session.target], Here)
         /\ Plan(family[session.target], session, Here)
<1>1. session \in Sessions /\ CallTyped(session)
  BY DEF Held, SessionTyped, CallTyped
<1>2. session.target \in Targets
  BY <1>1, CallFields
<1>3. QED
  BY <1>1, <1>2 DEF Held, AccountTyped, PlanInv, AccountsFit, Here

LEMMA AccountFields ==
  ASSUME NEW a \in Accounts
  PROVE  /\ a.exists \in BOOLEAN /\ a.enabled \in BOOLEAN /\ a.pw \in {"none", "sent", "default"}
         /\ a.direct \subseteq Direct /\ a.member \subseteq Ents /\ a.linked \in BOOLEAN
         /\ a.employee \in {"none", "active", "archived"}
  BY DEF Accounts

LEMMA NoAccountIsOne == /\ NoAccount \in Accounts
                        /\ ~NoAccount.exists /\ ~NoAccount.enabled
                        /\ NoAccount.direct = {} /\ NoAccount.member = {}
  BY DEF NoAccount, Accounts

LEMMA CreatedIsOne ==
  ASSUME NEW pw \in {"none", "sent", "default"}
  PROVE  /\ Created(pw) \in Accounts /\ Created(pw).exists /\ Created(pw).enabled
         /\ Created(pw).direct = {} /\ Created(pw).member = {}
  BY DEF Created, NoAccount, Accounts

LEMMA ConnectKeeps ==
  ASSUME Held, session # Idle, family' = family, session.pc = "connect", Connected
  PROVE  GoesOn
<1> DEFINE s == session
           n == session'
           f == family[session.target]
           p == IF s.op = "CREATE" THEN "provision"
                ELSE IF s.op = "UPDATE" THEN "update" ELSE "delete"
<1>1. s \in Sessions /\ CallTyped(s) /\ Plan(f, s, Here)
  BY InCall
<1>2. s.op \in {"CREATE", "UPDATE", "DELETE"}
  BY <1>1, CallFields DEF Operations
<1>3. Method(s.op) = p
  BY <1>2 DEF Method
<1>4. p \in Pcs /\ p # "grant"
  BY DEF Pcs
<1>5. Goto(p) /\ account' = account
  BY <1>3 DEF Connected, Skip
<1>6. Moved(s, n, p, s.left, s.refused)
  BY <1>1, <1>4, <1>5, GotoMoves
<1>7. Plan(f, n, Here)
  BY <1>1, <1>2, <1>6 DEF Plan, DonePlan, MySqlPlan, PgPlan, MongoPlan, LdapPlan, OdooPlan,
     AsOpened, Moved
<1>8. QED
  BY <1>1, <1>4, <1>5, <1>6, <1>7, StayKeeps

LEMMA FailKeeps ==
  ASSUME Held, session # Idle, family' = family, Skip("failed")
  PROVE  GoesOn
<1> DEFINE s == session
           n == session'
           f == family[session.target]
<1>1. s \in Sessions /\ CallTyped(s) /\ Plan(f, s, Here)
  BY InCall
<1>2. Goto("failed") /\ account' = account
  BY DEF Skip
<1>3. Moved(s, n, "failed", s.left, s.refused)
  BY <1>1, <1>2, GotoMoves DEF Pcs
<1>4. Plan(f, n, Here)
  BY <1>1, <1>3 DEF Plan, DonePlan, MySqlPlan, PgPlan, MongoPlan, LdapPlan, OdooPlan, AsOpened,
     Moved
<1>5. QED
  BY <1>1, <1>2, <1>3, <1>4, StayKeeps

-----------------------------------------------------------------------------
\* MySQL.

LEMMA MySqlKeeps ==
  ASSUME Held, session # Idle, family' = family, MySqlStep
  PROVE  GoesOn
<1> DEFINE s == session
           n == session'
           f == family[session.target]
<1>1. s \in Sessions /\ CallTyped(s) /\ Here \in Accounts /\ Fits(f, Here) /\ Plan(f, s, Here)
  BY InCall
<1>2. CASE MySqlConnect
  BY <1>2, ConnectKeeps DEF MySqlConnect, On
<1>3. CASE MySqlNoPassword
  BY <1>3, FailKeeps DEF MySqlNoPassword
<1>4. CASE MySqlAlreadyThere
  <2>1. f = "mysql" /\ s.pc = "provision" /\ account' = account /\ Goto("update")
    BY <1>4 DEF MySqlAlreadyThere, On, Skip
  <2>2. Moved(s, n, "update", s.left, s.refused)
    BY <1>1, <2>1, GotoMoves DEF Pcs
  <2>3. Plan(f, n, Here)
    BY <1>1, <2>1, <2>2 DEF Plan, DonePlan, MySqlPlan, AsOpened, Moved
  <2>4. QED
    BY <1>1, <2>1, <2>2, <2>3, StayKeeps
<1>5. CASE MySqlCreate
  <2> DEFINE b == Created("sent")
  <2>1. f = "mysql" /\ s.pc = "provision" /\ Goto("choose") /\ Become(b)
    BY <1>5 DEF MySqlCreate, On
  <2>2. Moved(s, n, "choose", s.left, s.refused)
    BY <1>1, <2>1, GotoMoves DEF Pcs
  <2>3. b \in Accounts /\ b.exists /\ b.enabled /\ b.direct = {} /\ b.member = {}
    BY CreatedIsOne
  <2> HIDE DEF b
  <2>4. Plan(f, n, b)
    BY <1>1, <2>1, <2>2, <2>3 DEF Plan, DonePlan, MySqlPlan, AsOpened, Moved, Switched
  <2>5. Fits(f, b)
    BY <1>1, <2>1, <2>3 DEF Fits, Plan, DonePlan, MySqlPlan, AsOpened, Moved
  <2>6. QED
    BY <1>1, <2>1, <2>2, <2>3, <2>4, <2>5, ChangeKeeps
<1>6. CASE MySqlUpsert
  <2>1. f = "mysql" /\ s.pc = "update" /\ Goto("password")
    BY <1>6 DEF MySqlUpsert, On
  <2>2. Moved(s, n, "password", s.left, s.refused)
    BY <1>1, <2>1, GotoMoves DEF Pcs
  <2>3. CASE Here.exists
    <3>1. account' = account
      BY <1>6, <2>3 DEF MySqlUpsert
    <3>2. Plan(f, n, Here)
      BY <1>1, <2>1, <2>2, <2>3 DEF Plan, DonePlan, MySqlPlan, AsOpened, Moved
    <3>3. QED
      BY <1>1, <2>1, <2>2, <3>1, <3>2, StayKeeps
  <2>4. CASE ~Here.exists
    <3> DEFINE b == Created(IF session.pw THEN "sent" ELSE "default")
    <3>1. Become(b)
      BY <1>6, <2>4 DEF MySqlUpsert
    <3>2. b \in Accounts /\ b.exists /\ b.member = {}
      BY CreatedIsOne
    <3> HIDE DEF b
    <3>3. Plan(f, n, b) /\ Fits(f, b)
      BY <1>1, <2>1, <2>2, <3>2 DEF Plan, DonePlan, MySqlPlan, AsOpened, Moved, Fits
    <3>4. QED
      BY <1>1, <2>1, <2>2, <3>1, <3>2, <3>3, ChangeKeeps
  <2>5. QED
    BY <2>3, <2>4
<1>7. CASE MySqlPassword
  <2> DEFINE b == [Here EXCEPT !.pw = IF session.pw THEN "sent" ELSE @]
  <2>1. f = "mysql" /\ s.pc = "password" /\ Goto("enable") /\ Become(b)
    BY <1>7 DEF MySqlPassword, On
  <2>2. Moved(s, n, "enable", s.left, s.refused)
    BY <1>1, <2>1, GotoMoves DEF Pcs
  <2>3. b \in Accounts /\ b.exists = Here.exists /\ b.enabled = Here.enabled /\ b.direct = Here.direct /\ b.member = Here.member
    BY <1>1 DEF Accounts
  <2> HIDE DEF b
  <2>4. Plan(f, n, b)
    BY <1>1, <2>1, <2>2, <2>3 DEF Plan, DonePlan, MySqlPlan, AsOpened, Moved
  <2>5. Fits(f, b)
    BY <1>1, <2>1, <2>3 DEF Fits, Plan, DonePlan, MySqlPlan, AsOpened, Moved
  <2>6. QED
    BY <1>1, <2>1, <2>2, <2>3, <2>4, <2>5, ChangeKeeps
<1>8. CASE MySqlLock
  <2> DEFINE b == [Here EXCEPT !.enabled = session.on]
  <2>1. f = "mysql" /\ s.pc = "enable" /\ Goto("revoke") /\ Become(b)
    BY <1>8 DEF MySqlLock, On
  <2>2. Moved(s, n, "revoke", s.left, s.refused)
    BY <1>1, <2>1, GotoMoves DEF Pcs
  <2>3. b \in Accounts /\ b.exists = Here.exists /\ b.enabled = s.on /\ b.direct = Here.direct /\ b.member = Here.member
    BY <1>1, CallFields DEF Accounts
  <2> HIDE DEF b
  <2>4. Plan(f, n, b)
    BY <1>1, <2>1, <2>2, <2>3 DEF Plan, DonePlan, MySqlPlan, AsOpened, Moved, Switched
  <2>5. Fits(f, b)
    BY <1>1, <2>1, <2>3 DEF Fits, Plan, DonePlan, MySqlPlan, AsOpened, Moved
  <2>6. QED
    BY <1>1, <2>1, <2>2, <2>3, <2>4, <2>5, ChangeKeeps
<1>9. CASE MySqlRevoke
  <2>1. f = "mysql" /\ s.pc = "revoke"
    BY <1>9 DEF MySqlRevoke, On
  <2>2. Here.member \in SUBSET Ents /\ Here.exists
    BY <1>1, <2>1, AccountFields DEF Plan, DonePlan, MySqlPlan, AsOpened, Moved
  <2>3. CASE GotoWith("unrole", Here.member) /\ Become([Here EXCEPT !.direct = {}])
    <3> DEFINE b == [Here EXCEPT !.direct = {}]
    <3>1. Moved(s, n, "unrole", Here.member, s.refused)
      BY <1>1, <2>2, <2>3, GotoWithMoves DEF Pcs
    <3>2. b \in Accounts /\ b.exists /\ b.enabled = Here.enabled /\ b.direct = {} /\ b.member = Here.member
      BY <1>1, <2>2 DEF Accounts
    <3>3. Become(b)
      BY <2>3
    <3> HIDE DEF b
    <3>4. Plan(f, n, b) /\ Fits(f, b)
      BY <1>1, <2>1, <3>1, <3>2 DEF Plan, DonePlan, MySqlPlan, AsOpened, Moved, Fits, Switched
    <3>5. QED
      BY <1>1, <3>1, <3>2, <3>3, <3>4, ChangeKeeps
  <2>4. CASE /\ session' = [session EXCEPT !.pc = "unrole", !.left = Here.member, !.refused = TRUE]
             /\ UNCHANGED account
    <3>1. n \in Sessions
      BY <1>1, <2>2, <2>4 DEF Sessions, Pcs
    <3>2. Moved(s, n, "unrole", Here.member, TRUE)
      BY <1>1, <2>4, <3>1 DEF Sessions, Moved
    <3>3. Plan(f, n, Here)
      BY <1>1, <2>1, <3>2 DEF Plan, DonePlan, MySqlPlan, AsOpened, Moved, Switched
    <3>4. QED
      BY <1>1, <2>4, <3>2, <3>3, StayKeeps
  <2>5. QED
    BY <1>9, <2>3, <2>4 DEF MySqlRevoke
<1>10. CASE MySqlUnrole
  <2>1. f = "mysql" /\ s.pc = "unrole"
    BY <1>10 DEF MySqlUnrole, On
  <2>2. CASE session.left = {} /\ Skip("choose")
    <3>1. account' = account /\ Goto("choose")
      BY <2>2 DEF Skip
    <3>2. Moved(s, n, "choose", s.left, s.refused)
      BY <1>1, <3>1, GotoMoves DEF Pcs
    <3>3. Plan(f, n, Here)
      BY <1>1, <2>1, <2>2, <3>2 DEF Plan, DonePlan, MySqlPlan, AsOpened, Moved, Switched
    <3>4. QED
      BY <1>1, <3>1, <3>2, <3>3, StayKeeps
  <2>3. CASE \E g \in session.left : Each(g, "choose", [Here EXCEPT !.member = @ \ {g}])
    <3>1. PICK g \in session.left : Each(g, "choose", [Here EXCEPT !.member = @ \ {g}])
      BY <2>3
    <3> DEFINE b == [Here EXCEPT !.member = @ \ {g}]
               p == IF session.left = {g} THEN "choose" ELSE session.pc
    <3>2. Moved(s, n, p, session.left \ {g}, s.refused) /\ Become(b)
      BY <1>1, <3>1, EachMoves DEF Pcs
    <3>3. /\ b \in Accounts /\ b.exists = Here.exists /\ b.enabled = Here.enabled
          /\ b.direct = Here.direct /\ b.member = Here.member \ {g}
      BY <1>1 DEF Accounts
      <3>4. (p = "choose" /\ session.left \ {g} = {}) \/ p = "unrole"
      BY <2>1, <3>1
    <3> HIDE DEF b, p
    <3>5. Plan(f, n, b)
      BY <1>1, <2>1, <3>2, <3>3, <3>4 DEF Plan, DonePlan, MySqlPlan, AsOpened, Moved, Switched
    <3>6. Fits(f, b)
      BY <1>1, <2>1, <3>3 DEF Fits, Plan, DonePlan, MySqlPlan, AsOpened, Moved
    <3>7. QED
      BY <1>1, <3>2, <3>3, <3>4, <3>5, <3>6, ChangeKeeps
  <2>4. QED
    BY <1>10, <2>2, <2>3 DEF MySqlUnrole
<1>11. CASE MySqlChoose
  <2>1. f = "mysql" /\ s.pc = "choose" /\ account' = account
    BY <1>11 DEF MySqlChoose, On
  <2>2. CASE MySqlPrivileges # {} /\ GotoWith("grant", MySqlPrivileges)
    <3>1. Priv(s) # {} /\ Priv(s) \in SUBSET Ents /\ Priv(s) \subseteq Direct
          /\ GotoWith("grant", Priv(s))
      BY <1>1, <2>2, CallFields DEF MySqlPrivileges, Privileges, Priv
    <3>2. Moved(s, n, "grant", Priv(s), s.refused)
      BY <1>1, <3>1, GotoWithMoves DEF Pcs
    <3>3. Plan(f, n, Here)
      BY <1>1, <2>1, <3>1, <3>2 DEF Plan, DonePlan, MySqlPlan, AsOpened, Moved, Switched, Priv
    <3>4. QED
      BY <1>1, <2>1, <3>1, <3>2, <3>3, StayKeeps
  <2>3. CASE MySqlPrivileges = {} /\ \E one \in MySqlRoles : GotoWith("role", one)
    <3>1. Priv(s) = {}
      BY <2>3 DEF MySqlPrivileges, Privileges, Priv
    <3>2. PICK one \in MySqlRoles : GotoWith("role", one)
      BY <2>3
    <3>3. one = Role(s) /\ Role(s) \in SUBSET Ents
      BY <1>1, <2>1, CallFields DEF CallTyped, OneRole, Role, MySqlRoles, Roles
    <3>4. Moved(s, n, "role", Role(s), s.refused)
      BY <1>1, <3>2, <3>3, GotoWithMoves DEF Pcs
    <3>5. Plan(f, n, Here)
       BY <1>1, <2>1, <3>1, <3>4 DEF Plan, DonePlan, MySqlPlan, AsOpened, Moved, Switched,
         Priv, Role
    <3>6. QED
      BY <1>1, <2>1, <3>4, <3>5, StayKeeps
  <2>4. CASE MySqlPrivileges = {} /\ MySqlRoles = {} /\ Goto("done")
    <3>1. Priv(s) = {} /\ Role(s) = {}
      BY <2>4 DEF MySqlPrivileges, Privileges, Priv, MySqlRoles, Roles, Role
    <3>2. Moved(s, n, "done", s.left, s.refused)
      BY <1>1, <2>4, GotoMoves DEF Pcs
    <3>3. Plan(f, n, Here)
       BY <1>1, <2>1, <3>1, <3>2 DEF Plan, DonePlan, MySqlPlan, AsOpened, Moved, AsAsked,
         Asks, Withholds, Kept, Has, Priv, Role, GoneFrom, Switched
    <3>4. QED
      BY <1>1, <2>1, <3>2, <3>3, StayKeeps
  <2>5. QED
    BY <1>11, <2>2, <2>3, <2>4 DEF MySqlChoose
<1>12. CASE MySqlGrant
  <2>1. f = "mysql" /\ s.pc = "grant"
    BY <1>12 DEF MySqlGrant, On
  <2>2. PICK g \in session.left : Each(g, "done", [Here EXCEPT !.direct = @ \cup {g}])
    BY <1>12 DEF MySqlGrant
  <2> DEFINE b == [Here EXCEPT !.direct = @ \cup {g}]
             p == IF session.left = {g} THEN "done" ELSE session.pc
  <2>3. Moved(s, n, p, session.left \ {g}, s.refused) /\ Become(b)
    BY <1>1, <2>2, EachMoves DEF Pcs
  <2>4. g \in Direct /\ s.left \subseteq Direct
    BY <1>1, <2>1 DEF CallTyped
  <2>5. /\ b \in Accounts /\ b.exists = Here.exists /\ b.enabled = Here.enabled
        /\ b.direct = Here.direct \cup {g} /\ b.member = Here.member
    BY <1>1, <2>4 DEF Accounts
  <2>6. (p = "done" /\ session.left = {g}) \/ p = "grant"
    BY <2>1
  <2> HIDE DEF b, p
  <2>7. Plan(f, n, b)
     BY <1>1, <2>1, <2>3, <2>5, <2>6 DEF Plan, DonePlan, MySqlPlan, AsOpened, Moved, AsAsked,
       Asks, Withholds, Kept, Has, Priv, Role, GoneFrom, Switched
  <2>8. Fits(f, b)
    BY <1>1, <2>1, <2>5 DEF Fits, Plan, DonePlan, MySqlPlan, AsOpened, Moved
  <2>9. QED
    BY <1>1, <2>3, <2>4, <2>5, <2>6, <2>7, <2>8, ChangeKeeps
<1>13. CASE MySqlRole
  <2> DEFINE b == [Here EXCEPT !.member = @ \cup session.left]
  <2>1. f = "mysql" /\ s.pc = "role" /\ Goto("default") /\ Become(b)
    BY <1>13 DEF MySqlRole, On
  <2>2. Moved(s, n, "default", s.left, s.refused)
    BY <1>1, <2>1, GotoMoves DEF Pcs
  <2>3. b \in Accounts /\ b.exists = Here.exists /\ b.enabled = Here.enabled /\ b.direct = Here.direct /\ b.member = Here.member \cup s.left
    BY <1>1, CallFields DEF Accounts
  <2> HIDE DEF b
  <2>4. Plan(f, n, b)
     BY <1>1, <2>1, <2>2, <2>3 DEF Plan, DonePlan, MySqlPlan, AsOpened, Moved, Switched, Priv,
       Role
  <2>5. Fits(f, b)
    BY <1>1, <2>1, <2>3 DEF Fits, Plan, DonePlan, MySqlPlan, AsOpened, Moved
  <2>6. QED
    BY <1>1, <2>1, <2>2, <2>3, <2>4, <2>5, ChangeKeeps
<1>14. CASE MySqlDefaultRole
  <2>1. f = "mysql" /\ s.pc = "default" /\ account' = account /\ Goto("done")
    BY <1>14 DEF MySqlDefaultRole, On, Skip
  <2>2. Moved(s, n, "done", s.left, s.refused)
    BY <1>1, <2>1, GotoMoves DEF Pcs
  <2>3. Plan(f, n, Here)
     BY <1>1, <2>1, <2>2 DEF Plan, DonePlan, MySqlPlan, AsOpened, Moved, AsAsked, Asks,
       Withholds, Kept, Has, Priv, Role, GoneFrom, Switched
  <2>4. QED
    BY <1>1, <2>1, <2>2, <2>3, StayKeeps
<1>15. CASE MySqlDrop
  <2>1. f = "mysql" /\ s.pc = "delete" /\ Goto("done")
    BY <1>15 DEF MySqlDrop, On
  <2>2. Moved(s, n, "done", s.left, s.refused)
    BY <1>1, <2>1, GotoMoves DEF Pcs
  <2>3. CASE Found
    <3>1. Become(NoAccount)
      BY <1>15, <2>3 DEF MySqlDrop
    <3>2. Plan(f, n, NoAccount) /\ Fits(f, NoAccount)
       BY <1>1, <2>1, <2>2, NoAccountIsOne DEF Plan, DonePlan, MySqlPlan, AsOpened, Moved,
         AsAsked, Asks, Withholds, Kept, Has, Priv, Role, GoneFrom, Switched, Fits
    <3>3. QED
      BY <1>1, <2>1, <2>2, <3>1, <3>2, NoAccountIsOne, ChangeKeeps
  <2>4. CASE ~Found
    <3>1. account' = account
      BY <1>15, <2>4 DEF MySqlDrop
    <3>2. ~s.named \/ ~Here.exists
      BY <2>4 DEF Found
    <3>3. Plan(f, n, Here)
       BY <1>1, <2>1, <2>2, <3>2 DEF Plan, DonePlan, MySqlPlan, AsOpened, Moved, AsAsked,
         Asks, Withholds, Kept, Has, Priv, Role, GoneFrom, Switched, Fits
    <3>4. QED
      BY <1>1, <2>1, <2>2, <3>1, <3>3, StayKeeps
  <2>5. QED
    BY <2>3, <2>4
<1>16. QED
   BY <1>2, <1>3, <1>4, <1>5, <1>6, <1>7, <1>8, <1>9, <1>10, <1>11, <1>12, <1>13, <1>14, <1>15
     DEF MySqlStep

-----------------------------------------------------------------------------
\* PostgreSQL.

LEMMA PgKeeps ==
  ASSUME Held, session # Idle, family' = family, PgStep
  PROVE  GoesOn
<1> DEFINE s == session
           n == session'
           f == family[session.target]
<1>1. s \in Sessions /\ CallTyped(s) /\ Here \in Accounts /\ Fits(f, Here) /\ Plan(f, s, Here)
  BY InCall
<1>2. CASE PgConnect
  BY <1>2, ConnectKeeps DEF PgConnect, On
<1>3. CASE PgNoPassword
  BY <1>3, FailKeeps DEF PgNoPassword
<1>4. CASE PgAlreadyThere
  <2>1. f = "postgresql" /\ s.pc = "provision" /\ account' = account /\ Goto("update")
    BY <1>4 DEF PgAlreadyThere, On, Skip
  <2>2. Moved(s, n, "update", s.left, s.refused)
    BY <1>1, <2>1, GotoMoves DEF Pcs
  <2>3. Plan(f, n, Here)
    BY <1>1, <2>1, <2>2 DEF Plan, DonePlan, PgPlan, AsOpened, Moved
  <2>4. QED
    BY <1>1, <2>1, <2>2, <2>3, StayKeeps
<1>5. CASE PgCreate
  <2> DEFINE b == Created("sent")
  <2>1. f = "postgresql" /\ s.pc = "provision" /\ Goto("choose") /\ Become(b)
    BY <1>5 DEF PgCreate, On
  <2>2. Moved(s, n, "choose", s.left, s.refused)
    BY <1>1, <2>1, GotoMoves DEF Pcs
  <2>3. b \in Accounts /\ b.exists /\ b.enabled /\ b.direct = {} /\ b.member = {}
    BY CreatedIsOne
  <2> HIDE DEF b
  <2>4. Plan(f, n, b)
    BY <1>1, <2>1, <2>2, <2>3 DEF Plan, DonePlan, PgPlan, AsOpened, Moved, Switched
  <2>5. Fits(f, b)
    BY <1>1, <2>1, <2>3 DEF Fits, Plan, DonePlan, PgPlan, AsOpened, Moved
  <2>6. QED
    BY <1>1, <2>1, <2>2, <2>3, <2>4, <2>5, ChangeKeeps
<1>6. CASE PgUpsert
  <2>1. f = "postgresql" /\ s.pc = "update" /\ Goto("password")
    BY <1>6 DEF PgUpsert, On
  <2>2. Moved(s, n, "password", s.left, s.refused)
    BY <1>1, <2>1, GotoMoves DEF Pcs
  <2>3. CASE Here.exists
    <3>1. account' = account
      BY <1>6, <2>3 DEF PgUpsert
    <3>2. Plan(f, n, Here)
      BY <1>1, <2>1, <2>2, <2>3 DEF Plan, DonePlan, PgPlan, AsOpened, Moved
    <3>3. QED
      BY <1>1, <2>1, <2>2, <3>1, <3>2, StayKeeps
  <2>4. CASE ~Here.exists
    <3> DEFINE b == Created(IF session.pw THEN "sent" ELSE "default")
    <3>1. Become(b)
      BY <1>6, <2>4 DEF PgUpsert
    <3>2. b \in Accounts /\ b.exists /\ b.direct = {} /\ b.member = {}
      BY CreatedIsOne
    <3> HIDE DEF b
    <3>3. Plan(f, n, b) /\ Fits(f, b)
      BY <1>1, <2>1, <2>2, <3>2 DEF Plan, DonePlan, PgPlan, AsOpened, Moved, Fits
    <3>4. QED
      BY <1>1, <2>1, <2>2, <3>1, <3>2, <3>3, ChangeKeeps
  <2>5. QED
    BY <2>3, <2>4
<1>7. CASE PgPassword
  <2> DEFINE b == [Here EXCEPT !.pw = IF session.pw THEN "sent" ELSE @]
  <2>1. f = "postgresql" /\ s.pc = "password" /\ Goto("enable") /\ Become(b)
    BY <1>7 DEF PgPassword, On
  <2>2. Moved(s, n, "enable", s.left, s.refused)
    BY <1>1, <2>1, GotoMoves DEF Pcs
  <2>3. b \in Accounts /\ b.exists = Here.exists /\ b.enabled = Here.enabled /\ b.direct = Here.direct /\ b.member = Here.member
    BY <1>1 DEF Accounts
  <2> HIDE DEF b
  <2>4. Plan(f, n, b)
    BY <1>1, <2>1, <2>2, <2>3 DEF Plan, DonePlan, PgPlan, AsOpened, Moved
  <2>5. Fits(f, b)
    BY <1>1, <2>1, <2>3 DEF Fits, Plan, DonePlan, PgPlan, AsOpened, Moved
  <2>6. QED
    BY <1>1, <2>1, <2>2, <2>3, <2>4, <2>5, ChangeKeeps
<1>8. CASE PgLogin
  <2> DEFINE b == [Here EXCEPT !.enabled = session.on]
  <2>1. f = "postgresql" /\ s.pc = "enable" /\ GotoWith("unrole", Here.member) /\ Become(b)
    BY <1>8 DEF PgLogin, On
  <2>2. Moved(s, n, "unrole", Here.member, s.refused)
    BY <1>1, <2>1, GotoWithMoves, AccountFields DEF Pcs
  <2>3. /\ b \in Accounts /\ b.exists = Here.exists /\ b.enabled = s.on
        /\ b.direct = Here.direct /\ b.member = Here.member
    BY <1>1, CallFields DEF Accounts
  <2> HIDE DEF b
  <2>4. Plan(f, n, b)
    BY <1>1, <2>1, <2>2, <2>3 DEF Plan, DonePlan, PgPlan, AsOpened, Moved, Switched
  <2>5. Fits(f, b)
    BY <1>1, <2>1, <2>3 DEF Fits, Plan, DonePlan, PgPlan, AsOpened, Moved
  <2>6. QED
    BY <1>1, <2>1, <2>2, <2>3, <2>4, <2>5, ChangeKeeps
<1>9. CASE PgUnrole
  <2> DEFINE after == IF session.op # "DELETE" /\ PgPrivileges = {} THEN "choose" ELSE "strip"
  <2>1. f = "postgresql" /\ s.pc = "unrole"
    BY <1>9 DEF PgUnrole, On
  <2>2. after \in Pcs /\ (\/ s.op # "DELETE" /\ Priv(s) = {} /\ after = "choose"
                          \/ (s.op = "DELETE" \/ Priv(s) # {}) /\ after = "strip")
    BY DEF Pcs, PgPrivileges, Privileges, Priv
  <2>3. CASE session.left = {} /\ Skip(after)
    <3>1. account' = account /\ Goto(after)
      BY <2>3 DEF Skip
    <3>2. Moved(s, n, after, s.left, s.refused)
      BY <1>1, <3>1, <2>2, GotoMoves
    <3>3. Plan(f, n, Here)
       BY <1>1, <2>1, <2>2, <2>3, <3>2 DEF Plan, DonePlan, PgPlan, AsOpened, Moved, Switched,
         Priv
    <3>4. QED
      BY <1>1, <2>1, <2>2, <3>1, <3>2, <3>3, StayKeeps
  <2>4. ASSUME NEW g \in session.left, Each(g, after, [Here EXCEPT !.member = @ \ {g}])
        PROVE  GoesOn
    <3> DEFINE b == [Here EXCEPT !.member = @ \ {g}]
               p == IF session.left = {g} THEN after ELSE session.pc
    <3>1. Moved(s, n, p, session.left \ {g}, s.refused) /\ Become(b)
      BY <1>1, <2>4, <2>2, EachMoves
    <3>2. b \in Accounts /\ b.exists = Here.exists /\ b.enabled = Here.enabled /\ b.direct = Here.direct /\ b.member = Here.member \ {g}
      BY <1>1 DEF Accounts
    <3>3. (p = after /\ session.left = {g}) \/ p = s.pc
      OBVIOUS
    <3>4. p = "grant" => s.left \subseteq Direct
      BY <1>1, <2>1, <3>3, <2>2 DEF CallTyped
    <3> HIDE DEF b, p
    <3>5. Plan(f, n, b)
       BY <1>1, <2>1, <2>2, <3>1, <3>2, <3>3 DEF Plan, DonePlan, PgPlan, AsOpened, Moved,
         Switched, Priv
    <3>6. Fits(f, b)
      BY <1>1, <2>1, <3>2 DEF Fits, Plan, DonePlan, PgPlan, AsOpened, Moved
    <3>7. QED
      BY <1>1, <3>1, <3>2, <3>4, <3>5, <3>6, ChangeKeeps
  <2>5. ASSUME NEW g \in session.left, Refused(g, after)
        PROVE  GoesOn
    <3> DEFINE p == IF session.left \subseteq {g} THEN after ELSE session.pc
    <3>1. Moved(s, n, p, session.left \ {g}, TRUE) /\ account' = account
      BY <1>1, <2>5, <2>2, RefusedMoves
    <3>2. p = after \/ p = s.pc
      OBVIOUS
    <3>3. p = "grant" => s.left \subseteq Direct
      BY <1>1, <2>1, <3>2, <2>2 DEF CallTyped
    <3> HIDE DEF p
    <3>4. Plan(f, n, Here)
       BY <1>1, <2>1, <2>2, <3>1, <3>2 DEF Plan, DonePlan, PgPlan, AsOpened, Moved, Switched,
         Priv
    <3>5. QED
      BY <1>1, <3>1, <3>3, <3>4, StayKeeps
  <2>6. QED
    BY <1>9, <2>3, <2>4, <2>5 DEF PgUnrole
<1>10. CASE PgStrip
  <2> DEFINE after == IF session.op = "DELETE" THEN "drop" ELSE "choose"
  <2>1. f = "postgresql" /\ s.pc = "strip"
    BY <1>10 DEF PgStrip, On
  <2>2. after \in Pcs /\ (\/ s.op = "DELETE" /\ after = "drop"
                          \/ s.op # "DELETE" /\ after = "choose")
    BY DEF Pcs
  <2>3. CASE Goto(after) /\ Become([Here EXCEPT !.direct = {}])
    <3> DEFINE b == [Here EXCEPT !.direct = {}]
    <3>1. Moved(s, n, after, s.left, s.refused) /\ Become(b)
      BY <1>1, <2>2, <2>3, GotoMoves
    <3>2. /\ b \in Accounts /\ b.exists = Here.exists /\ b.enabled = Here.enabled
          /\ b.direct = {} /\ b.member = Here.member
      BY <1>1 DEF Accounts
    <3> HIDE DEF b, after
    <3>3. Plan(f, n, b)
       BY <1>1, <2>1, <2>2, <3>1, <3>2 DEF Plan, DonePlan, PgPlan, AsOpened, Moved, Switched,
         Priv
    <3>4. Fits(f, b)
      BY <1>1, <2>1, <3>2 DEF Fits, Plan, DonePlan, PgPlan, AsOpened, Moved
    <3>5. QED
      BY <1>1, <2>2, <3>1, <3>2, <3>3, <3>4, ChangeKeeps
  <2>4. ASSUME NEW r \in Here.direct, Refused(r, after)
        PROVE  GoesOn
    <3> DEFINE p == IF session.left \subseteq {r} THEN after ELSE session.pc
    <3>1. Moved(s, n, p, session.left \ {r}, TRUE) /\ account' = account
      BY <1>1, <2>2, <2>4, RefusedMoves
    <3>2. (p = after \/ p = s.pc) /\ p # "grant"
      BY <2>1
    <3> HIDE DEF p, after
    <3>3. Plan(f, n, Here)
       BY <1>1, <2>1, <2>2, <3>1, <3>2 DEF Plan, DonePlan, PgPlan, AsOpened, Moved, Switched,
         Priv
    <3>4. QED
      BY <1>1, <3>1, <3>2, <3>3, StayKeeps
  <2>5. QED
    BY <1>10, <2>3, <2>4 DEF PgStrip
<1>11. CASE PgChoose
  <2>1. f = "postgresql" /\ s.pc = "choose" /\ account' = account
    BY <1>11 DEF PgChoose, On
  <2>2. PgPrivileges = Priv(s) /\ PgRoles = Role(s)
    BY DEF PgPrivileges, PgRoles, Privileges, Roles, Priv, Role
  <2>3. Priv(s) \in SUBSET Ents /\ Role(s) \in SUBSET Ents /\ Priv(s) \subseteq Direct
    BY <1>1, CallFields DEF Priv, Role
  <2>4. CASE Priv(s) # {}
    <3>1. GotoWith("grant", Priv(s))
      BY <1>11, <2>2, <2>4 DEF PgChoose
    <3>2. Moved(s, n, "grant", Priv(s), s.refused)
      BY <1>1, <2>3, <3>1, GotoWithMoves DEF Pcs
    <3>3. Plan(f, n, Here)
      BY <1>1, <2>1, <2>4, <3>2 DEF Plan, DonePlan, PgPlan, AsOpened, Moved, Switched, Priv
    <3>4. QED
      BY <1>1, <2>1, <2>3, <3>2, <3>3, StayKeeps
  <2>5. CASE Priv(s) = {} /\ Role(s) # {}
    <3>1. GotoWith("role", Role(s))
      BY <1>11, <2>2, <2>5 DEF PgChoose
    <3>2. Moved(s, n, "role", Role(s), s.refused)
      BY <1>1, <2>3, <3>1, GotoWithMoves DEF Pcs
    <3>3. Plan(f, n, Here)
       BY <1>1, <2>1, <2>5, <3>2 DEF Plan, DonePlan, PgPlan, AsOpened, Moved, Switched, Priv,
         Role
    <3>4. QED
      BY <1>1, <2>1, <3>2, <3>3, StayKeeps
  <2>6. CASE Priv(s) = {} /\ Role(s) = {}
    <3>1. Goto("done")
      BY <1>11, <2>2, <2>6 DEF PgChoose
    <3>2. Moved(s, n, "done", s.left, s.refused)
      BY <1>1, <3>1, GotoMoves DEF Pcs
    <3>3. Plan(f, n, Here)
       BY <1>1, <2>1, <2>6, <3>2 DEF Plan, DonePlan, PgPlan, AsOpened, Moved, AsAsked, Asks,
         Withholds, Kept, Has, Priv, Role, GoneFrom, Switched
    <3>4. QED
      BY <1>1, <2>1, <3>2, <3>3, StayKeeps
  <2>7. QED
    BY <2>4, <2>5, <2>6
<1>12. CASE PgGrant
  <2>1. f = "postgresql" /\ s.pc = "grant"
    BY <1>12 DEF PgGrant, On
  <2>2. ASSUME NEW g \in session.left, Each(g, "done", [Here EXCEPT !.direct = @ \cup {g}])
        PROVE  GoesOn
    <3> DEFINE b == [Here EXCEPT !.direct = @ \cup {g}]
               p == IF session.left = {g} THEN "done" ELSE session.pc
    <3>1. Moved(s, n, p, session.left \ {g}, s.refused) /\ Become(b)
      BY <1>1, <2>2, EachMoves DEF Pcs
    <3>2. b \in Accounts /\ b.exists = Here.exists /\ b.enabled = Here.enabled /\ b.direct = Here.direct \cup {g} /\ b.member = Here.member
      BY <1>1, <2>1 DEF CallTyped, Accounts
    <3>3. (p = "done" /\ session.left = {g}) \/ p = s.pc
      OBVIOUS
    <3>4. p = "grant" => s.left \subseteq Direct
      BY <1>1, <2>1, <3>3 DEF CallTyped
    <3> HIDE DEF b, p
    <3>5. Plan(f, n, b)
       BY <1>1, <2>1, <3>1, <3>2, <3>3 DEF Plan, DonePlan, PgPlan, AsOpened, Moved, AsAsked,
         Asks, Withholds, Kept, Has, Priv, Role, GoneFrom, Switched
    <3>6. Fits(f, b)
      BY <1>1, <2>1, <3>2 DEF Fits, Plan, DonePlan, PgPlan, AsOpened, Moved
    <3>7. QED
      BY <1>1, <3>1, <3>2, <3>4, <3>5, <3>6, ChangeKeeps
  <2>3. ASSUME NEW g \in session.left, Refused(g, "done")
        PROVE  GoesOn
    <3> DEFINE p == IF session.left \subseteq {g} THEN "done" ELSE session.pc
    <3>1. Moved(s, n, p, session.left \ {g}, TRUE) /\ account' = account
      BY <1>1, <2>3, RefusedMoves DEF Pcs
    <3>2. p = "done" \/ p = s.pc
      OBVIOUS
    <3>3. p = "grant" => s.left \subseteq Direct
      BY <1>1, <2>1, <3>2 DEF CallTyped
    <3> HIDE DEF p
    <3>4. Plan(f, n, Here)
       BY <1>1, <2>1, <3>1, <3>2 DEF Plan, DonePlan, PgPlan, AsOpened, Moved, AsAsked, Asks,
         Withholds, Kept, Has, Priv, Role, GoneFrom, Switched
    <3>5. QED
      BY <1>1, <3>1, <3>3, <3>4, StayKeeps
  <2>4. QED
    BY <1>12, <2>2, <2>3 DEF PgGrant
<1>13. CASE PgRole
  <2>1. f = "postgresql" /\ s.pc = "role"
    BY <1>13 DEF PgRole, On
  <2>2. ASSUME NEW g \in session.left, Each(g, "done", [Here EXCEPT !.member = @ \cup {g}])
        PROVE  GoesOn
    <3> DEFINE b == [Here EXCEPT !.member = @ \cup {g}]
               p == IF session.left = {g} THEN "done" ELSE session.pc
    <3>1. Moved(s, n, p, session.left \ {g}, s.refused) /\ Become(b)
      BY <1>1, <2>2, EachMoves DEF Pcs
    <3>2. b \in Accounts /\ b.exists = Here.exists /\ b.enabled = Here.enabled /\ b.direct = Here.direct /\ b.member = Here.member \cup {g}
      BY <1>1, CallFields DEF Accounts
    <3>3. (p = "done" /\ session.left = {g}) \/ p = s.pc
      OBVIOUS
    <3>4. p = "grant" => s.left \subseteq Direct
      BY <1>1, <2>1, <3>3 DEF CallTyped
    <3> HIDE DEF b, p
    <3>5. Plan(f, n, b)
       BY <1>1, <2>1, <3>1, <3>2, <3>3 DEF Plan, DonePlan, PgPlan, AsOpened, Moved, AsAsked,
         Asks, Withholds, Kept, Has, Priv, Role, GoneFrom, Switched
    <3>6. Fits(f, b)
      BY <1>1, <2>1, <3>2 DEF Fits, Plan, DonePlan, PgPlan, AsOpened, Moved
    <3>7. QED
      BY <1>1, <3>1, <3>2, <3>4, <3>5, <3>6, ChangeKeeps
  <2>3. ASSUME NEW g \in session.left, Refused(g, "done")
        PROVE  GoesOn
    <3> DEFINE p == IF session.left \subseteq {g} THEN "done" ELSE session.pc
    <3>1. Moved(s, n, p, session.left \ {g}, TRUE) /\ account' = account
      BY <1>1, <2>3, RefusedMoves DEF Pcs
    <3>2. p = "done" \/ p = s.pc
      OBVIOUS
    <3>3. p = "grant" => s.left \subseteq Direct
      BY <1>1, <2>1, <3>2 DEF CallTyped
    <3> HIDE DEF p
    <3>4. Plan(f, n, Here)
       BY <1>1, <2>1, <3>1, <3>2 DEF Plan, DonePlan, PgPlan, AsOpened, Moved, AsAsked, Asks,
         Withholds, Kept, Has, Priv, Role, GoneFrom, Switched
    <3>5. QED
      BY <1>1, <3>1, <3>3, <3>4, StayKeeps
  <2>4. QED
    BY <1>13, <2>2, <2>3 DEF PgRole
<1>14. CASE PgDelete
  <2>1. f = "postgresql" /\ s.pc = "delete" /\ account' = account
    BY <1>14 DEF PgDelete, On
  <2>2. CASE Found
    <3>1. GotoWith("unrole", Here.member)
      BY <1>14, <2>2 DEF PgDelete
    <3>2. Moved(s, n, "unrole", Here.member, s.refused)
      BY <1>1, <3>1, GotoWithMoves, AccountFields DEF Pcs
    <3>3. Plan(f, n, Here)
      BY <1>1, <2>1, <2>2, <3>2 DEF Plan, DonePlan, PgPlan, AsOpened, Moved, Found
    <3>4. QED
      BY <1>1, <2>1, <3>2, <3>3, StayKeeps
  <2>3. CASE ~Found
    <3>1. Goto("done")
      BY <1>14, <2>3 DEF PgDelete
    <3>2. Moved(s, n, "done", s.left, s.refused)
      BY <1>1, <3>1, GotoMoves DEF Pcs
    <3>3. ~s.named \/ ~Here.exists
      BY <2>3 DEF Found
    <3>4. Plan(f, n, Here)
       BY <1>1, <2>1, <3>2, <3>3 DEF Plan, DonePlan, PgPlan, AsOpened, Moved, AsAsked, Asks,
         Withholds, Kept, Has, Priv, Role, GoneFrom, Switched, Fits
    <3>5. QED
      BY <1>1, <2>1, <3>2, <3>4, StayKeeps
  <2>4. QED
    BY <2>2, <2>3
<1>15. CASE PgDrop
  <2>1. f = "postgresql" /\ s.pc = "drop"
    BY <1>15 DEF PgDrop, On
  <2>2. CASE Here.direct = {}
    <3>1. Goto("done") /\ Become(NoAccount)
      BY <1>15, <2>2 DEF PgDrop
    <3>2. Moved(s, n, "done", s.left, s.refused)
      BY <1>1, <3>1, GotoMoves DEF Pcs
    <3>3. Plan(f, n, NoAccount) /\ Fits(f, NoAccount)
       BY <1>1, <2>1, <3>2, NoAccountIsOne DEF Plan, DonePlan, PgPlan, AsOpened, Moved,
         AsAsked, Asks, Withholds, Kept, Has, Priv, Role, GoneFrom, Switched, Fits
    <3>4. QED
      BY <1>1, <3>1, <3>2, <3>3, NoAccountIsOne, ChangeKeeps
  <2>3. CASE Here.direct # {}
    BY <1>15, <2>3, FailKeeps DEF PgDrop
  <2>4. QED
    BY <2>2, <2>3
<1>16. QED
   BY <1>2, <1>3, <1>4, <1>5, <1>6, <1>7, <1>8, <1>9, <1>10, <1>11, <1>12, <1>13, <1>14, <1>15
     DEF PgStep

-----------------------------------------------------------------------------
\* MongoDB.

LEMMA MongoKeeps ==
  ASSUME Held, session # Idle, family' = family, MongoStep
  PROVE  GoesOn
<1> DEFINE s == session
           n == session'
           f == family[session.target]
<1>1. s \in Sessions /\ CallTyped(s) /\ Here \in Accounts /\ Fits(f, Here) /\ Plan(f, s, Here)
  BY InCall
<1>2. CASE MongoConnect
  BY <1>2, ConnectKeeps DEF MongoConnect, On
<1>3. CASE MongoNoPassword
  BY <1>3, FailKeeps DEF MongoNoPassword
<1>4. CASE MongoCreate
  <2>1. f = "mongodb" /\ s.pc = "provision"
    BY <1>4 DEF MongoCreate, On
  <2>2. CASE Here.exists
    <3>1. account' = account /\ Goto("update")
      BY <1>4, <2>2 DEF MongoCreate, Skip
    <3>2. Moved(s, n, "update", s.left, s.refused)
      BY <1>1, <3>1, GotoMoves DEF Pcs
    <3>3. Plan(f, n, Here)
      BY <1>1, <2>1, <3>2 DEF Plan, DonePlan, MongoPlan, AsOpened, Moved
    <3>4. QED
      BY <1>1, <3>1, <3>2, <3>3, StayKeeps
  <2>3. CASE ~Here.exists
    <3> DEFINE b == [Created("sent") EXCEPT !.member = session.want]
    <3>1. Goto("done") /\ Become(b)
      BY <1>4, <2>3 DEF MongoCreate
    <3>2. Moved(s, n, "done", s.left, s.refused)
      BY <1>1, <3>1, GotoMoves DEF Pcs
    <3>3. b \in Accounts /\ b.exists /\ b.direct = {} /\ b.member = s.want
      BY <1>1, CallFields, CreatedIsOne DEF Accounts
    <3> HIDE DEF b
    <3>4. Plan(f, n, b) /\ Fits(f, b)
       BY <1>1, <2>1, <3>2, <3>3 DEF Plan, DonePlan, MongoPlan, AsOpened, Moved, AsAsked,
         Asks, Withholds, Kept, Has, Priv, Role, GoneFrom, Switched, Fits
    <3>5. QED
      BY <1>1, <3>1, <3>2, <3>3, <3>4, ChangeKeeps
  <2>4. QED
    BY <2>2, <2>3
<1>5. CASE MongoUpdate
  <2>1. f = "mongodb" /\ s.pc = "update"
    BY <1>5 DEF MongoUpdate, On
  <2>2. CASE ~Here.exists
    <3>1. account' = account /\ Goto("provision")
      BY <1>5, <2>2 DEF MongoUpdate, Skip
    <3>2. Moved(s, n, "provision", s.left, s.refused)
      BY <1>1, <3>1, GotoMoves DEF Pcs
    <3>3. Plan(f, n, Here)
      BY <1>1, <2>1, <3>2 DEF Plan, DonePlan, MongoPlan, AsOpened, Moved
    <3>4. QED
      BY <1>1, <3>1, <3>2, <3>3, StayKeeps
  <2>3. CASE Here.exists
    <3> DEFINE b == [Here EXCEPT !.member = session.want,
                                 !.pw = IF session.pw THEN "sent" ELSE @]
    <3>1. Goto("done") /\ Become(b)
      BY <1>5, <2>3 DEF MongoUpdate
    <3>2. Moved(s, n, "done", s.left, s.refused)
      BY <1>1, <3>1, GotoMoves DEF Pcs
    <3>3. b \in Accounts /\ b.exists /\ b.direct = Here.direct /\ b.member = s.want
      BY <1>1, <2>3, CallFields DEF Accounts
    <3> HIDE DEF b
    <3>4. Plan(f, n, b) /\ Fits(f, b)
       BY <1>1, <2>1, <3>2, <3>3 DEF Plan, DonePlan, MongoPlan, AsOpened, Moved, AsAsked,
         Asks, Withholds, Kept, Has, Priv, Role, GoneFrom, Switched, Fits
    <3>5. QED
      BY <1>1, <3>1, <3>2, <3>3, <3>4, ChangeKeeps
  <2>4. QED
    BY <2>2, <2>3
<1>6. CASE MongoDrop
  <2>1. f = "mongodb" /\ s.pc = "delete" /\ Goto("done")
    BY <1>6 DEF MongoDrop, On
  <2>2. Moved(s, n, "done", s.left, s.refused)
    BY <1>1, <2>1, GotoMoves DEF Pcs
  <2>3. CASE Found
    <3>1. Become(NoAccount)
      BY <1>6, <2>3 DEF MongoDrop
    <3>2. Plan(f, n, NoAccount) /\ Fits(f, NoAccount)
       BY <1>1, <2>1, <2>2, NoAccountIsOne DEF Plan, DonePlan, MongoPlan, AsOpened, Moved,
         AsAsked, Asks, Withholds, Kept, Has, Priv, Role, GoneFrom, Switched, Fits
    <3>3. QED
      BY <1>1, <2>1, <2>2, <3>1, <3>2, NoAccountIsOne, ChangeKeeps
  <2>4. CASE ~Found
    <3>1. account' = account
      BY <1>6, <2>4 DEF MongoDrop
    <3>2. ~s.named \/ ~Here.exists
      BY <2>4 DEF Found
    <3>3. Plan(f, n, Here)
       BY <1>1, <2>1, <2>2, <3>2 DEF Plan, DonePlan, MongoPlan, AsOpened, Moved, AsAsked,
         Asks, Withholds, Kept, Has, Priv, Role, GoneFrom, Switched, Fits
    <3>4. QED
      BY <1>1, <2>1, <2>2, <3>1, <3>3, StayKeeps
  <2>5. QED
    BY <2>3, <2>4
<1>7. QED
  BY <1>2, <1>3, <1>4, <1>5, <1>6 DEF MongoStep

-----------------------------------------------------------------------------
\* LDAP.

LEMMA LdapKeeps ==
  ASSUME Held, session # Idle, family' = family, LdapStep
  PROVE  GoesOn
<1> DEFINE s == session
           n == session'
           f == family[session.target]
<1>1. s \in Sessions /\ CallTyped(s) /\ Here \in Accounts /\ Fits(f, Here) /\ Plan(f, s, Here)
  BY InCall
<1>2. CASE LdapConnect
  BY <1>2, ConnectKeeps DEF LdapConnect, On
<1>3. CASE LdapProvision
  <2>1. f = "ldap" /\ s.pc = "provision" /\ account' = account
    BY <1>3 DEF LdapProvision, On, Skip
  <2>2. CASE Here.exists /\ Here.linked
    <3>1. Goto("update")
      BY <1>3, <2>2 DEF LdapProvision, Skip
    <3>2. Moved(s, n, "update", s.left, s.refused)
      BY <1>1, <3>1, GotoMoves DEF Pcs
    <3>3. Plan(f, n, Here)
      BY <1>1, <2>1, <2>2, <3>2 DEF Plan, DonePlan, LdapPlan, AsOpened, Moved, LdapKept
    <3>4. QED
      BY <1>1, <2>1, <3>2, <3>3, StayKeeps
  <2>3. CASE ~(Here.exists /\ Here.linked)
    <3>1. Goto("entry")
      BY <1>3, <2>3 DEF LdapProvision, Skip
    <3>2. Moved(s, n, "entry", s.left, s.refused)
      BY <1>1, <3>1, GotoMoves DEF Pcs
    <3>3. Plan(f, n, Here)
      BY <1>1, <2>1, <2>3, <3>2 DEF Plan, DonePlan, LdapPlan, AsOpened, Moved, LdapKept
    <3>4. QED
      BY <1>1, <2>1, <3>2, <3>3, StayKeeps
  <2>4. QED
    BY <2>2, <2>3
<1>4. CASE LdapAdd
  <2>1. f = "ldap" /\ s.pc = "entry"
    BY <1>4 DEF LdapAdd, On
  <2> DEFINE p == IF session.want = {} THEN "done" ELSE "join"
             l == IF session.want = {} THEN session.left ELSE session.want
             b == IF Here.exists THEN Here
                  ELSE [Created(Password) EXCEPT !.linked = LdapNumber, !.member = Here.member]
  <2>2. Moved(s, n, p, l, s.refused)
    <3>1. CASE session.want = {}
      BY <1>1, <1>4, <3>1, GotoMoves DEF LdapAdd, Pcs
    <3>2. CASE session.want # {}
      <4>1. GotoWith("join", session.want)
        BY <1>4, <3>2 DEF LdapAdd
      <4>2. QED
        BY <1>1, <3>2, <4>1, GotoWithMoves, CallFields DEF Pcs
    <3>3. QED
      BY <3>1, <3>2
  <2>3. b \in Accounts /\ b.exists /\ b.direct = {} /\ b.member = Here.member
    <3>1. CASE Here.exists
      BY <1>1, <2>1, <3>1 DEF Fits
    <3>2. CASE ~Here.exists
      <4>1. Password \in {"none", "sent", "default"} /\ LdapNumber \in BOOLEAN
        BY DEF Password, LdapNumber
      <4>2. Created(Password) \in Accounts /\ Created(Password).exists /\ Created(Password).direct = {}
        BY <4>1, CreatedIsOne
      <4>3. Here.member \in SUBSET Ents
        BY <1>1, AccountFields
      <4> DEFINE c == [Created(Password) EXCEPT !.linked = LdapNumber, !.member = Here.member]
      <4>4. c \in Accounts /\ c.exists /\ c.direct = {} /\ c.member = Here.member
        BY <4>1, <4>2, <4>3 DEF Accounts
      <4> HIDE DEF c
      <4>5. b = c
        BY <3>2 DEF c
      <4>6. QED
        BY <4>4, <4>5
    <3>3. QED
      BY <3>1, <3>2
  <2>4. Become(b)
    <3>1. CASE Here.exists
      <4>1. account' = account /\ account \in [Targets -> Accounts] /\ session.target \in Targets
        BY <1>1, <1>4, <3>1, CallFields DEF LdapAdd, Held, AccountTyped
      <4>2. account = [account EXCEPT ![session.target] = account[session.target]]
        BY <4>1
      <4>3. QED
        BY <3>1, <4>1, <4>2 DEF Become, Here
    <3>2. CASE ~Here.exists
      BY <1>4, <3>2 DEF LdapAdd
    <3>3. QED
      BY <3>1, <3>2
  <2>5. p \in {"done", "join"} /\ (p = "done" => s.want = {}) /\ (p = "join" => l = s.want)
    OBVIOUS
  <2> HIDE DEF p, l, b
  <2>6. Plan(f, n, b)
     BY <1>1, <2>1, <2>2, <2>3, <2>5 DEF Plan, DonePlan, LdapPlan, AsOpened, Moved, AsAsked,
       Asks, Withholds, Kept, Has, Priv, Role, GoneFrom, Switched, LdapKept
  <2>7. Fits(f, b)
    BY <2>1, <2>3 DEF Fits
  <2>8. QED
    BY <1>1, <2>2, <2>3, <2>4, <2>5, <2>6, <2>7, ChangeKeeps
<1>5. CASE LdapJoin
  <2>1. f = "ldap" /\ s.pc = "join"
    BY <1>5 DEF LdapJoin, On
  <2>2. ASSUME NEW g \in session.left, Each(g, "done", [Here EXCEPT !.member = @ \cup {g}])
        PROVE  GoesOn
    <3> DEFINE b == [Here EXCEPT !.member = @ \cup {g}]
               p == IF session.left = {g} THEN "done" ELSE session.pc
    <3>1. Moved(s, n, p, session.left \ {g}, s.refused) /\ Become(b)
      BY <1>1, <2>2, EachMoves DEF Pcs
    <3>2. b \in Accounts /\ b.exists = Here.exists /\ b.enabled = Here.enabled /\ b.direct = Here.direct /\ b.member = Here.member \cup {g}
      BY <1>1, CallFields DEF Accounts
    <3>3. (p = "done" /\ session.left = {g}) \/ p = s.pc
      OBVIOUS
    <3>4. p = "grant" => s.left \subseteq Direct
      BY <1>1, <2>1, <3>3 DEF CallTyped
    <3> HIDE DEF b, p
    <3>5. Plan(f, n, b)
       BY <1>1, <2>1, <3>1, <3>2, <3>3 DEF Plan, DonePlan, LdapPlan, AsOpened, Moved, AsAsked,
         Asks, Withholds, Kept, Has, Priv, Role, GoneFrom, Switched, LdapKept, Fits
    <3>6. Fits(f, b)
      BY <1>1, <2>1, <3>2 DEF Fits, Plan, DonePlan, LdapPlan, AsOpened, Moved
    <3>7. QED
      BY <1>1, <3>1, <3>2, <3>4, <3>5, <3>6, ChangeKeeps
  <2>3. ASSUME NEW g \in session.left, Refused(g, "done")
        PROVE  GoesOn
    <3> DEFINE p == IF session.left \subseteq {g} THEN "done" ELSE session.pc
    <3>1. Moved(s, n, p, session.left \ {g}, TRUE) /\ account' = account
      BY <1>1, <2>3, RefusedMoves DEF Pcs
    <3>2. p = "done" \/ p = s.pc
      OBVIOUS
    <3>3. p = "grant" => s.left \subseteq Direct
      BY <1>1, <2>1, <3>2 DEF CallTyped
    <3> HIDE DEF p
    <3>4. Plan(f, n, Here)
       BY <1>1, <2>1, <3>1, <3>2 DEF Plan, DonePlan, LdapPlan, AsOpened, Moved, AsAsked, Asks,
         Withholds, Kept, Has, Priv, Role, GoneFrom, Switched, LdapKept, Fits
    <3>5. QED
      BY <1>1, <3>1, <3>3, <3>4, StayKeeps
  <2>4. QED
    BY <1>5, <2>2, <2>3 DEF LdapJoin
<1>6. CASE LdapUpdate
  <2>1. f = "ldap" /\ s.pc = "update"
    BY <1>6 DEF LdapUpdate, On
  <2>2. CASE ~Here.exists /\ session.want = {}
    <3>1. account' = account /\ Goto("done")
      BY <1>6, <2>2 DEF LdapUpdate, Skip
    <3>2. Moved(s, n, "done", s.left, s.refused)
      BY <1>1, <3>1, GotoMoves DEF Pcs
    <3>3. s.op = "UPDATE"
      BY <1>1, <2>1, <2>2, CallFields DEF Plan, DonePlan, LdapPlan, AsOpened, Moved, Operations
    <3>4. Plan(f, n, Here)
       BY <1>1, <2>1, <2>2, <3>2, <3>3 DEF Plan, DonePlan, LdapPlan, AsOpened, Moved, AsAsked,
         Asks, Withholds, Kept, Has, Priv, Role, GoneFrom, Switched, LdapKept
    <3>5. QED
      BY <1>1, <3>1, <3>2, <3>4, StayKeeps
  <2>3. CASE ~Here.exists /\ session.want # {}
    <3>1. account' = account /\ Goto("provision")
      BY <1>6, <2>3 DEF LdapUpdate, Skip
    <3>2. Moved(s, n, "provision", s.left, s.refused)
      BY <1>1, <3>1, GotoMoves DEF Pcs
    <3>3. Plan(f, n, Here)
      BY <1>1, <2>1, <2>3, <3>2 DEF Plan, DonePlan, LdapPlan, AsOpened, Moved
    <3>4. QED
      BY <1>1, <3>1, <3>2, <3>3, StayKeeps
  <2>4. CASE Here.exists
    <3> DEFINE b == [Here EXCEPT !.pw = IF session.pw THEN "sent" ELSE @]
    <3>1. GotoWith("leave", Here.member \ session.want) /\ Become(b)
      BY <1>6, <2>4 DEF LdapUpdate
    <3>2. Here.member \ session.want \in SUBSET Ents
      BY <1>1, AccountFields
    <3>3. Moved(s, n, "leave", Here.member \ session.want, s.refused)
      BY <1>1, <3>1, <3>2, GotoWithMoves DEF Pcs
    <3>4. b \in Accounts /\ b.exists = Here.exists /\ b.direct = Here.direct /\ b.member = Here.member
      BY <1>1 DEF Accounts
    <3>5. s.op \in {"CREATE", "UPDATE"}
      BY <1>1, <2>1, CallFields DEF Plan, DonePlan, LdapPlan, AsOpened, Moved, Operations
    <3> HIDE DEF b
    <3>6. Plan(f, n, b) /\ Fits(f, b)
       BY <1>1, <2>1, <2>4, <3>3, <3>4, <3>5 DEF Plan, DonePlan, LdapPlan, AsOpened, Moved,
         LdapKept, Fits
    <3>7. QED
      BY <1>1, <3>1, <3>3, <3>4, <3>6, ChangeKeeps
  <2>5. QED
    BY <2>2, <2>3, <2>4
<1>7. CASE LdapLeave
  <2> DEFINE after == LdapAfterLeave
  <2>1. f = "ldap" /\ s.pc = "leave"
    BY <1>7 DEF LdapLeave, On
  <2>2. after \in Pcs /\ after = (IF s.op = "DELETE" THEN "erase" ELSE "choose")
    BY DEF Pcs, LdapAfterLeave
  <2>3. CASE session.left = {} /\ Skip(after)
    <3>1. account' = account /\ Goto(after)
      BY <2>3 DEF Skip
    <3>2. Moved(s, n, after, s.left, s.refused)
      BY <1>1, <3>1, <2>2, GotoMoves
    <3>3. Plan(f, n, Here)
      BY <1>1, <2>1, <2>2, <2>3, <3>2 DEF Plan, DonePlan, LdapPlan, AsOpened, Moved, LdapKept
    <3>4. QED
      BY <1>1, <2>1, <2>2, <3>1, <3>2, <3>3, StayKeeps
  <2>4. ASSUME NEW g \in session.left, Each(g, after, [Here EXCEPT !.member = @ \ {g}])
        PROVE  GoesOn
    <3> DEFINE b == [Here EXCEPT !.member = @ \ {g}]
               p == IF session.left = {g} THEN after ELSE session.pc
    <3>1. Moved(s, n, p, session.left \ {g}, s.refused) /\ Become(b)
      BY <1>1, <2>4, <2>2, EachMoves
    <3>2. b \in Accounts /\ b.exists = Here.exists /\ b.enabled = Here.enabled /\ b.direct = Here.direct /\ b.member = Here.member \ {g}
      BY <1>1 DEF Accounts
    <3>3. (p = after /\ session.left = {g}) \/ p = s.pc
      OBVIOUS
    <3>4. p = "grant" => s.left \subseteq Direct
      BY <1>1, <2>1, <3>3, <2>2 DEF CallTyped
    <3> HIDE DEF b, p
    <3>5. Plan(f, n, b)
       BY <1>1, <2>1, <2>2, <3>1, <3>2, <3>3 DEF Plan, DonePlan, LdapPlan, AsOpened, Moved,
         LdapKept
    <3>6. Fits(f, b)
      BY <1>1, <2>1, <3>2 DEF Fits, Plan, DonePlan, LdapPlan, AsOpened, Moved
    <3>7. QED
      BY <1>1, <3>1, <3>2, <3>4, <3>5, <3>6, ChangeKeeps
  <2>5. ASSUME NEW g \in session.left, Refused(g, after)
        PROVE  GoesOn
    <3> DEFINE p == IF session.left \subseteq {g} THEN after ELSE session.pc
    <3>1. Moved(s, n, p, session.left \ {g}, TRUE) /\ account' = account
      BY <1>1, <2>5, <2>2, RefusedMoves
    <3>2. p = after \/ p = s.pc
      OBVIOUS
    <3>3. p = "grant" => s.left \subseteq Direct
      BY <1>1, <2>1, <3>2, <2>2 DEF CallTyped
    <3> HIDE DEF p
    <3>4. Plan(f, n, Here)
      BY <1>1, <2>1, <2>2, <3>1, <3>2 DEF Plan, DonePlan, LdapPlan, AsOpened, Moved, LdapKept
    <3>5. QED
      BY <1>1, <3>1, <3>3, <3>4, StayKeeps
  <2>6. QED
    BY <1>7, <2>3, <2>4, <2>5 DEF LdapLeave
<1>8. CASE LdapChoose
  <2>1. f = "ldap" /\ s.pc = "choose" /\ account' = account
    BY <1>8 DEF LdapChoose, On
  <2>2. CASE session.want = {}
    <3>1. Goto("done")
      BY <1>8, <2>2 DEF LdapChoose
    <3>2. Moved(s, n, "done", s.left, s.refused)
      BY <1>1, <3>1, GotoMoves DEF Pcs
    <3>3. Plan(f, n, Here)
       BY <1>1, <2>1, <2>2, <3>2 DEF Plan, DonePlan, LdapPlan, AsOpened, Moved, AsAsked, Asks,
         Withholds, Kept, Has, Priv, Role, GoneFrom, Switched, LdapKept, Fits
    <3>4. QED
      BY <1>1, <2>1, <3>2, <3>3, StayKeeps
  <2>3. CASE session.want # {}
    <3>1. GotoWith("join", session.want)
      BY <1>8, <2>3 DEF LdapChoose
    <3>2. Moved(s, n, "join", session.want, s.refused)
      BY <1>1, <3>1, GotoWithMoves, CallFields DEF Pcs
    <3>3. Plan(f, n, Here)
      BY <1>1, <2>1, <2>3, <3>2 DEF Plan, DonePlan, LdapPlan, AsOpened, Moved, LdapKept
    <3>4. QED
      BY <1>1, <2>1, <3>2, <3>3, StayKeeps
  <2>4. QED
    BY <2>2, <2>3
<1>9. CASE LdapDelete
  <2>1. f = "ldap" /\ s.pc = "delete" /\ account' = account /\ GotoWith("leave", session.want)
    BY <1>9 DEF LdapDelete, On
  <2>2. Moved(s, n, "leave", session.want, s.refused)
    BY <1>1, <2>1, GotoWithMoves, CallFields DEF Pcs
  <2>3. Plan(f, n, Here)
    BY <1>1, <2>1, <2>2 DEF Plan, DonePlan, LdapPlan, AsOpened, Moved
  <2>4. QED
    BY <1>1, <2>1, <2>2, <2>3, StayKeeps
<1>10. CASE LdapErase
  <2>1. f = "ldap" /\ s.pc = "erase"
    BY <1>10 DEF LdapErase, On
  <2>2. CASE Goto("done") /\ Found /\ Become([NoAccount EXCEPT !.member = Here.member])
    <3> DEFINE b == [NoAccount EXCEPT !.member = Here.member]
    <3>1. Moved(s, n, "done", s.left, s.refused) /\ Become(b)
      BY <1>1, <2>2, GotoMoves DEF Pcs
    <3>2. b \in Accounts /\ ~b.exists /\ b.direct = {} /\ b.member = Here.member
      BY <1>1, NoAccountIsOne, AccountFields DEF Accounts
    <3> HIDE DEF b
    <3>3. Plan(f, n, b) /\ Fits(f, b)
       BY <1>1, <2>1, <3>1, <3>2 DEF Plan, DonePlan, LdapPlan, AsOpened, Moved, AsAsked, Asks,
         Withholds, Kept, Has, Priv, Role, GoneFrom, Switched, Fits
    <3>4. QED
      BY <1>1, <3>1, <3>2, <3>3, ChangeKeeps
  <2>3. CASE Goto("done") /\ ~Found /\ UNCHANGED account
    <3>1. Moved(s, n, "done", s.left, s.refused) /\ account' = account
      BY <1>1, <2>3, GotoMoves DEF Pcs
    <3>2. ~s.named \/ ~Here.exists
      BY <2>3 DEF Found
    <3>3. Plan(f, n, Here)
       BY <1>1, <2>1, <3>1, <3>2 DEF Plan, DonePlan, LdapPlan, AsOpened, Moved, AsAsked, Asks,
         Withholds, Kept, Has, Priv, Role, GoneFrom, Switched
    <3>4. QED
      BY <1>1, <3>1, <3>3, StayKeeps
  <2>4. ASSUME NEW g \in Ents, Refused(g, "done")
        PROVE  GoesOn
    <3> DEFINE p == IF session.left \subseteq {g} THEN "done" ELSE session.pc
    <3>1. Moved(s, n, p, session.left \ {g}, TRUE) /\ account' = account
      BY <1>1, <2>4, RefusedMoves DEF Pcs
    <3>2. (p = "done" \/ p = s.pc) /\ p # "grant"
      BY <2>1
    <3> HIDE DEF p
    <3>3. Plan(f, n, Here)
      BY <1>1, <2>1, <3>1, <3>2 DEF Plan, DonePlan, LdapPlan, AsOpened, Moved, LdapKept
    <3>4. QED
      BY <1>1, <3>1, <3>2, <3>3, StayKeeps
  <2>5. QED
    BY <1>10, <2>2, <2>3, <2>4 DEF LdapErase
<1>11. QED
  BY <1>2, <1>3, <1>4, <1>5, <1>6, <1>7, <1>8, <1>9, <1>10 DEF LdapStep

-----------------------------------------------------------------------------
\* Odoo.

LEMMA OdooKeeps ==
  ASSUME Held, session # Idle, family' = family, OdooStep
  PROVE  GoesOn
<1> DEFINE s == session
           n == session'
           f == family[session.target]
<1>1. s \in Sessions /\ CallTyped(s) /\ Here \in Accounts /\ Fits(f, Here) /\ Plan(f, s, Here)
  BY InCall
<1>2. CASE OdooConnect
  BY <1>2, ConnectKeeps DEF OdooConnect, On
<1>3. CASE OdooProvision
  <2>1. f = "odoo" /\ s.pc = "provision" /\ account' = account
    BY <1>3 DEF OdooProvision, On, Skip
  <2>4. s.op \in {"CREATE", "UPDATE"}
    BY <1>1, <2>1, CallFields DEF Plan, DonePlan, OdooPlan, AsOpened, Moved, Operations
  <2>2. CASE Here.exists /\ (Here.linked \/ Here.enabled)
    <3>1. Goto("reuse")
      BY <1>3, <2>2 DEF OdooProvision, Skip
    <3>2. Moved(s, n, "reuse", s.left, s.refused)
      BY <1>1, <3>1, GotoMoves DEF Pcs
    <3>3. Plan(f, n, Here)
      BY <1>1, <2>1, <2>2, <3>2, <2>4 DEF Plan, DonePlan, OdooPlan, AsOpened, Moved
    <3>4. QED
      BY <1>1, <2>1, <3>2, <3>3, StayKeeps
  <2>3. CASE ~(Here.exists /\ (Here.linked \/ Here.enabled))
    <3>1. Goto("create")
      BY <1>3, <2>3 DEF OdooProvision, Skip
    <3>2. Moved(s, n, "create", s.left, s.refused)
      BY <1>1, <3>1, GotoMoves DEF Pcs
    <3>3. Plan(f, n, Here)
      BY <1>1, <2>1, <2>3, <3>2, <2>4 DEF Plan, DonePlan, OdooPlan, AsOpened, Moved
    <3>4. QED
      BY <1>1, <2>1, <3>2, <3>3, StayKeeps
  <2>5. QED
    BY <2>2, <2>3
<1>4. CASE OdooReuse
  <2> DEFINE b == [Here EXCEPT !.enabled = TRUE, !.pw = IF session.pw THEN "sent" ELSE @]
  <2>1. f = "odoo" /\ s.pc = "reuse" /\ Goto("restaff") /\ Become(b)
    BY <1>4 DEF OdooReuse, On
  <2>2. Moved(s, n, "restaff", s.left, s.refused)
    BY <1>1, <2>1, GotoMoves DEF Pcs
  <2>3. /\ b \in Accounts /\ b.exists = Here.exists /\ b.direct = Here.direct
        /\ b.member = Here.member /\ b.enabled
    BY <1>1 DEF Accounts
  <2> HIDE DEF b
  <2>4. Plan(f, n, b)
    BY <1>1, <2>1, <2>2, <2>3 DEF Plan, DonePlan, OdooPlan, AsOpened, Moved
  <2>5. Fits(f, b)
    BY <1>1, <2>1, <2>3 DEF Fits, Plan, DonePlan, OdooPlan, AsOpened, Moved
  <2>6. QED
    BY <1>1, <2>1, <2>2, <2>3, <2>4, <2>5, ChangeKeeps
<1>5. CASE OdooCreate
  <2>1. f = "odoo" /\ s.pc = "create"
    BY <1>5 DEF OdooCreate, On
  <2>2. CASE Here.exists
    BY <1>5, <2>2, FailKeeps DEF OdooCreate
  <2>3. CASE ~Here.exists
    <3>1. PICK groups \in OdooGroups :
             /\ session' = [session EXCEPT !.pc = "link", !.refused = Unresolved(groups)]
             /\ Become([Created(Password) EXCEPT !.member = groups])
      BY <1>5, <2>3 DEF OdooCreate
    <3>2. groups \in SUBSET Ents /\ groups \subseteq s.want
      BY <1>1, CallFields DEF OdooGroups
    <3> DEFINE r == Unresolved(groups)
               b == [Created(Password) EXCEPT !.member = groups]
    <3>3. r \in BOOLEAN /\ (~r => ~s.refused /\ groups = s.want)
      BY <1>1, CallFields DEF Unresolved
    <3>4. Become(b) /\ session' = [session EXCEPT !.pc = "link", !.refused = r]
      BY <3>1
    <3>5. b \in Accounts /\ b.exists /\ b.enabled /\ b.direct = {} /\ b.member = groups
      <4>1. Password \in {"none", "sent", "default"}
        BY DEF Password
      <4>2. QED
        BY <3>2, <4>1, CreatedIsOne DEF Accounts
    <3> HIDE DEF r, b
    <3>6. n \in Sessions
      BY <1>1, <3>3, <3>4 DEF Sessions, Pcs
    <3>7. Moved(s, n, "link", s.left, r)
      BY <1>1, <3>4, <3>6 DEF Sessions, Moved
    <3>8. Plan(f, n, b) /\ Fits(f, b)
       BY <1>1, <2>1, <3>2, <3>3, <3>5, <3>7 DEF Plan, DonePlan, OdooPlan, AsOpened, Moved, Grouped,
         Fits
    <3>9. QED
      BY <1>1, <3>4, <3>5, <3>7, <3>8, ChangeKeeps
  <2>4. QED
    BY <2>2, <2>3
<1>6. CASE OdooLink
  <2> DEFINE b == [Here EXCEPT !.linked = TRUE]
  <2>1. f = "odoo" /\ s.pc = "link" /\ Goto("staff") /\ Become(b)
    BY <1>6 DEF OdooLink, On
  <2>2. Moved(s, n, "staff", s.left, s.refused)
    BY <1>1, <2>1, GotoMoves DEF Pcs
  <2>3. /\ b \in Accounts /\ b.exists = Here.exists /\ b.direct = Here.direct
        /\ b.member = Here.member /\ b.enabled = Here.enabled
    BY <1>1 DEF Accounts
  <2> HIDE DEF b
  <2>4. Plan(f, n, b)
    BY <1>1, <2>1, <2>2, <2>3 DEF Plan, DonePlan, OdooPlan, AsOpened, Moved, Grouped
  <2>5. Fits(f, b)
    BY <1>1, <2>1, <2>3 DEF Fits, Plan, DonePlan, OdooPlan, AsOpened, Moved
  <2>6. QED
    BY <1>1, <2>1, <2>2, <2>3, <2>4, <2>5, ChangeKeeps
<1>7. CASE OdooUpdateEmployee
  <2>1. f = "odoo" /\ s.pc = "restaff" /\ account' = account
    BY <1>7 DEF OdooUpdateEmployee, On, Skip
  <2>2. CASE Staff /\ (Here.employee # "active" \/ "refused" \in faults)
    <3>1. Goto("staff")
      BY <1>7, <2>2 DEF OdooUpdateEmployee, Skip
    <3>2. Moved(s, n, "staff", s.left, s.refused)
      BY <1>1, <3>1, GotoMoves DEF Pcs
    <3>3. Plan(f, n, Here)
      BY <1>1, <2>1, <2>2, <3>2 DEF Plan, DonePlan, OdooPlan, AsOpened, Moved, Grouped
    <3>4. QED
      BY <1>1, <2>1, <3>2, <3>3, StayKeeps
  <2>3. CASE ~(Staff /\ (Here.employee # "active" \/ "refused" \in faults))
    <3>1. Goto("done")
      BY <1>7, <2>3 DEF OdooUpdateEmployee, Skip
    <3>2. Moved(s, n, "done", s.left, s.refused)
      BY <1>1, <3>1, GotoMoves DEF Pcs
    <3>3. Plan(f, n, Here)
       BY <1>1, <2>1, <2>3, <3>2 DEF Plan, DonePlan, OdooPlan, AsOpened, Moved, AsAsked, Asks,
         Withholds, Kept, Has, Priv, Role, GoneFrom, Switched, Grouped, Fits
    <3>4. QED
      BY <1>1, <2>1, <3>2, <3>3, StayKeeps
  <2>4. QED
    BY <2>2, <2>3
<1>8. CASE OdooCreateEmployee
  <2>1. f = "odoo" /\ s.pc = "staff"
    BY <1>8 DEF OdooCreateEmployee, On
  <2>2. CASE Goto("done") /\ Become([Here EXCEPT !.employee = IF Staff THEN "active" ELSE @])
    <3> DEFINE b == [Here EXCEPT !.employee = IF Staff THEN "active" ELSE @]
    <3>1. Moved(s, n, "done", s.left, s.refused) /\ Become(b)
      BY <1>1, <2>2, GotoMoves DEF Pcs
    <3>2. /\ b \in Accounts /\ b.exists = Here.exists /\ b.direct = Here.direct
          /\ b.member = Here.member /\ b.enabled = Here.enabled
      BY <1>1 DEF Accounts
    <3> HIDE DEF b
    <3>3. Plan(f, n, b) /\ Fits(f, b)
       BY <1>1, <2>1, <3>1, <3>2 DEF Plan, DonePlan, OdooPlan, AsOpened, Moved, AsAsked, Asks,
         Withholds, Kept, Has, Priv, Role, GoneFrom, Switched, Grouped, Fits
    <3>4. QED
      BY <1>1, <3>1, <3>2, <3>3, ChangeKeeps
  <2>3. ASSUME NEW g \in Ents, Refused(g, "done")
        PROVE  GoesOn
    <3> DEFINE p == IF session.left \subseteq {g} THEN "done" ELSE session.pc
    <3>1. Moved(s, n, p, session.left \ {g}, TRUE) /\ account' = account
      BY <1>1, <2>3, RefusedMoves DEF Pcs
    <3>2. (p = "done" \/ p = s.pc) /\ p # "grant"
      BY <2>1
    <3> HIDE DEF p
    <3>3. Plan(f, n, Here)
      BY <1>1, <2>1, <3>1, <3>2 DEF Plan, DonePlan, OdooPlan, AsOpened, Moved, Grouped
    <3>4. QED
      BY <1>1, <3>1, <3>2, <3>3, StayKeeps
  <2>4. QED
    BY <1>8, <2>2, <2>3 DEF OdooCreateEmployee
<1>9. CASE OdooUpdate
  <2>1. f = "odoo" /\ s.pc = "update" /\ account' = account
    BY <1>9 DEF OdooUpdate, On, Skip
  <2>4. s.op = "UPDATE"
    BY <1>1, <2>1, CallFields DEF Plan, DonePlan, OdooPlan, AsOpened, Moved, Operations
  <2>2. CASE Here.exists
    <3>1. Goto("write")
      BY <1>9, <2>2 DEF OdooUpdate, Skip
    <3>2. Moved(s, n, "write", s.left, s.refused)
      BY <1>1, <3>1, GotoMoves DEF Pcs
    <3>3. Plan(f, n, Here)
      BY <1>1, <2>1, <2>2, <3>2, <2>4 DEF Plan, DonePlan, OdooPlan, AsOpened, Moved
    <3>4. QED
      BY <1>1, <2>1, <3>2, <3>3, StayKeeps
  <2>3. CASE ~(Here.exists)
    <3>1. Goto("provision")
      BY <1>9, <2>3 DEF OdooUpdate, Skip
    <3>2. Moved(s, n, "provision", s.left, s.refused)
      BY <1>1, <3>1, GotoMoves DEF Pcs
    <3>3. Plan(f, n, Here)
      BY <1>1, <2>1, <2>3, <3>2, <2>4 DEF Plan, DonePlan, OdooPlan, AsOpened, Moved
    <3>4. QED
      BY <1>1, <2>1, <3>2, <3>3, StayKeeps
  <2>5. QED
    BY <2>2, <2>3
<1>10. CASE OdooWrite
  <2>1. f = "odoo" /\ s.pc = "write"
    BY <1>10 DEF OdooWrite, On
  <2> DEFINE B(groups) == [Here EXCEPT !.enabled = session.on,
                                       !.pw = IF session.pw THEN "sent" ELSE @,
                                       !.member = IF groups = {} THEN @ ELSE groups]
  <2>2. PICK groups \in OdooGroups :
           /\ session' = [session EXCEPT !.pc = "done", !.refused = Unresolved(groups)]
           /\ Become(B(groups))
    BY <1>10 DEF OdooWrite
  <2>3. groups \in SUBSET Ents /\ groups \subseteq s.want
    BY <1>1, CallFields DEF OdooGroups
  <2> DEFINE r == Unresolved(groups)
             m == IF groups = {} THEN Here.member ELSE groups
             w == IF session.pw THEN "sent" ELSE Here.pw
             b == [Here EXCEPT !.enabled = session.on, !.pw = w, !.member = m]
  <2>4. r \in BOOLEAN /\ (~r => ~s.refused /\ groups = s.want)
    BY <1>1, CallFields DEF Unresolved
  <2>5. Become(b) /\ session' = [session EXCEPT !.pc = "done", !.refused = r]
    BY <2>2
  <2>6. m \in SUBSET Ents /\ w \in {"none", "sent", "default"} /\ s.on \in BOOLEAN
    BY <1>1, <2>3, CallFields, AccountFields
  <2>7. m = IF groups = {} THEN Here.member ELSE groups
    OBVIOUS
  <2> HIDE DEF m, w, r
  <2>8. /\ b \in Accounts /\ b.exists = Here.exists /\ b.direct = Here.direct /\ b.member = m
        /\ b.enabled = s.on
    BY <1>1, <2>6 DEF Accounts
  <2> HIDE DEF b
  <2>9. n \in Sessions
    BY <1>1, <2>4, <2>5 DEF Sessions, Pcs
  <2>10. Moved(s, n, "done", s.left, r)
    BY <1>1, <2>5, <2>9 DEF Sessions, Moved
  <2>11. Plan(f, n, b) /\ Fits(f, b)
     BY <1>1, <2>1, <2>3, <2>4, <2>7, <2>8, <2>10 DEF Plan, DonePlan, OdooPlan, AsOpened, Moved,
       AsAsked, Asks, Withholds, Kept, Has, Priv, Role, GoneFrom, Switched, Grouped, Fits
  <2>12. QED
    BY <1>1, <2>5, <2>8, <2>10, <2>11, ChangeKeeps
<1>11. CASE OdooDelete
  <2>1. f = "odoo" /\ s.pc = "delete" /\ account' = account
    BY <1>11 DEF OdooDelete, On, Skip
  <2>2. CASE Here.exists /\ (Here.linked \/ session.named)
    <3>1. Goto("fire")
      BY <1>11, <2>2 DEF OdooDelete, Skip
    <3>2. Moved(s, n, "fire", s.left, s.refused)
      BY <1>1, <3>1, GotoMoves DEF Pcs
    <3>3. Plan(f, n, Here)
      BY <1>1, <2>1, <2>2, <3>2 DEF Plan, DonePlan, OdooPlan, AsOpened, Moved, Grouped
    <3>4. QED
      BY <1>1, <2>1, <3>2, <3>3, StayKeeps
  <2>3. CASE ~(Here.exists /\ (Here.linked \/ session.named))
    <3>1. Goto("done")
      BY <1>11, <2>3 DEF OdooDelete, Skip
    <3>2. Moved(s, n, "done", s.left, s.refused)
      BY <1>1, <3>1, GotoMoves DEF Pcs
    <3>3. Plan(f, n, Here)
       BY <1>1, <2>1, <2>3, <3>2 DEF Plan, DonePlan, OdooPlan, AsOpened, Moved, AsAsked, Asks,
         Withholds, Kept, Has, Priv, Role, GoneFrom, Switched, Grouped, Fits, NoAccount
    <3>4. QED
      BY <1>1, <2>1, <3>2, <3>3, StayKeeps
  <2>4. QED
    BY <2>2, <2>3
<1>12. CASE OdooFire
  <2>1. f = "odoo" /\ s.pc = "fire"
    BY <1>12 DEF OdooFire, On
  <2>2. CASE /\ Goto("archive")
             /\ Become([Here EXCEPT !.employee = IF @ = "active" THEN "archived" ELSE @])
    <3> DEFINE b == [Here EXCEPT !.employee = IF @ = "active" THEN "archived" ELSE @]
    <3>1. Moved(s, n, "archive", s.left, s.refused) /\ Become(b)
      BY <1>1, <2>2, GotoMoves DEF Pcs
    <3>2. /\ b \in Accounts /\ b.exists = Here.exists /\ b.direct = Here.direct
          /\ b.enabled = Here.enabled /\ b.employee # "active" /\ b.member = Here.member
      BY <1>1 DEF Accounts
    <3>3. Here.exists
      BY <1>1, <2>1 DEF Plan, DonePlan, OdooPlan, AsOpened, Moved
    <3> HIDE DEF b
    <3>4. Plan(f, n, b) /\ Fits(f, b)
      BY <1>1, <2>1, <3>1, <3>2, <3>3 DEF Plan, DonePlan, OdooPlan, AsOpened, Moved, Fits
    <3>5. QED
      BY <1>1, <3>1, <3>2, <3>4, ChangeKeeps
  <2>3. ASSUME NEW g \in Ents, Refused(g, "archive")
        PROVE  GoesOn
    <3> DEFINE p == IF session.left \subseteq {g} THEN "archive" ELSE session.pc
    <3>1. Moved(s, n, p, session.left \ {g}, TRUE) /\ account' = account
      BY <1>1, <2>3, RefusedMoves DEF Pcs
    <3>2. (p = "archive" \/ p = s.pc) /\ p # "grant"
      BY <2>1
    <3> HIDE DEF p
    <3>3. Plan(f, n, Here)
      BY <1>1, <2>1, <3>1, <3>2 DEF Plan, DonePlan, OdooPlan, AsOpened, Moved
    <3>4. QED
      BY <1>1, <3>1, <3>2, <3>3, StayKeeps
  <2>4. QED
    BY <1>12, <2>2, <2>3 DEF OdooFire
<1>13. CASE OdooArchive
  <2> DEFINE b == [Here EXCEPT !.enabled = FALSE]
  <2>1. f = "odoo" /\ s.pc = "archive" /\ Goto("done") /\ Become(b)
    BY <1>13 DEF OdooArchive, On
  <2>2. Moved(s, n, "done", s.left, s.refused)
    BY <1>1, <2>1, GotoMoves DEF Pcs
  <2>3. /\ b \in Accounts /\ b.exists = Here.exists /\ b.direct = Here.direct /\ ~b.enabled
        /\ b.employee = Here.employee /\ b.member = Here.member
    BY <1>1 DEF Accounts
  <2>4. Here.exists
    BY <1>1, <2>1 DEF Plan, DonePlan, OdooPlan, AsOpened, Moved
  <2> HIDE DEF b
  <2>5. Plan(f, n, b) /\ Fits(f, b)
     BY <1>1, <2>1, <2>2, <2>3, <2>4 DEF Plan, DonePlan, OdooPlan, AsOpened, Moved, AsAsked,
       Asks, Withholds, Kept, Has, Priv, Role, GoneFrom, Switched, Grouped, Fits
  <2>6. QED
    BY <1>1, <2>1, <2>2, <2>3, <2>5, ChangeKeeps
<1>14. QED
  BY <1>2, <1>3, <1>4, <1>5, <1>6, <1>7, <1>8, <1>9, <1>10, <1>11, <1>12, <1>13 DEF OdooStep

-----------------------------------------------------------------------------
\* A call as a whole.

LEMMA ConnectorKeeps ==
  ASSUME Held, ConnectorStep
  PROVE  GoesOn
<1>1. session # Idle /\ family' = family
  BY DEF ConnectorStep, rigid
<1>2. CASE Raise
  BY <1>1, <1>2, FailKeeps DEF Raise
<1>3. QED
  BY <1>1, <1>2, MySqlKeeps, PgKeeps, MongoKeeps, LdapKeeps, OdooKeeps DEF ConnectorStep

LEMMA OpenKeeps ==
  ASSUME Held, NEW by \in {"consumer", "api"}, NEW m \in Natives, Open(by, m),
         family' = family, account' = account
  PROVE  Held' /\ session' \in Sessions /\ session'.by = by /\ session'.target = m.target
<1> DEFINE n == session'
<1>1. /\ m.target \in Targets /\ m.op \in Operations /\ m.want \in SUBSET Ents
      /\ m.on \in BOOLEAN /\ m.pw \in BOOLEAN /\ m.named \in BOOLEAN /\ OneRole(m.target, m.want)
  BY DEF Natives, SubMessages
<1>2. account[m.target] \in Accounts
  BY <1>1 DEF Held, AccountTyped
<1>3. /\ n \in Sessions /\ n.pc = "connect" /\ n.target = m.target /\ n.want = m.want
      /\ n.before = account[m.target] /\ n.by = by
  BY <1>1, <1>2 DEF Open, Sessions, Pcs
<1>4. CallTyped(n)
  BY <1>1, <1>3 DEF CallTyped, OneRole
<1>5. Plan(family[n.target], n, account[n.target])
  BY <1>3 DEF Plan, DonePlan, MySqlPlan, PgPlan, MongoPlan, LdapPlan, OdooPlan, AsOpened
<1>6. SessionTyped'
  BY <1>4 DEF SessionTyped, CallTyped, OneRole
<1>7. AccountTyped' /\ AccountsFit'
  BY DEF Held, PlanInv, AccountTyped, AccountsFit
<1>8. Plan(family[session.target], session, account[session.target])'
  BY <1>5
<1>9. QED
  BY <1>3, <1>6, <1>7, <1>8 DEF Held, PlanInv

LEMMA CloseKeeps ==
  ASSUME Held, session' = Idle, family' = family, account' = account
  PROVE  Held'
  BY DEF Held, AccountTyped, SessionTyped, PlanInv, AccountsFit

LEMMA IdlingKeeps ==
  ASSUME Held, session' = session, family' = family, account' = account
  PROVE  Held'
<1>1. AccountTyped' /\ AccountsFit'
  BY DEF Held, PlanInv, AccountTyped, AccountsFit
<1>2. SessionTyped'
  BY DEF Held, SessionTyped, CallTyped, OneRole
<1>3. session # Idle => Plan(family[session.target], session, account[session.target])
  BY DEF Held, PlanInv
<1>4. (session # Idle => Plan(family[session.target], session, account[session.target]))'
  BY <1>3
<1>5. QED
  BY <1>1, <1>2, <1>4 DEF Held, PlanInv

\* The plan of a call that is done is the promise of the connector.
LEMMA HeldIsExact ==
  ASSUME Held
  PROVE  SuccessIsExact
<1> DEFINE s == session
           f == family[session.target]
<1>1. CASE session.pc # "done"
  BY <1>1 DEF SuccessIsExact
<1>2. CASE session.pc = "done" /\ ~(Reached /\ ~session.refused)
  BY <1>2 DEF SuccessIsExact
<1>3. CASE session.pc = "done" /\ Reached /\ ~session.refused
  <2>1. session # Idle
    BY <1>3 DEF Idle
  <2>2. s \in Sessions /\ Plan(f, s, Here)
    BY <2>1, InCall
  <2>3. /\ s.op = "DELETE" => GoneFrom(f, Here)
        /\ s.op # "DELETE" => AsAsked(f, s, Here)
    BY <1>3, <2>2 DEF Reached, Plan, DonePlan
  <2>4. CASE s.op = "DELETE"
    <3>1. Deleted(Here)
      BY <2>3, <2>4 DEF GoneFrom, Deleted
    <3>2. QED
      BY <1>3, <2>4, <3>1 DEF SuccessIsExact
  <2>5. CASE s.op # "DELETE"
    <3>1. Desired = Asks(f, s)
      BY DEF Desired, Asks, Wanted, Privileges, Roles, Priv, Role
    <3>2. Leftover = Kept(f, s)
      BY DEF Leftover, Kept, LdapKept, Privileges, Priv
    <3>3. Withheld = Withholds(f, s)
      BY DEF Withheld, Withholds
    <3>4. QED
      BY <1>3, <2>3, <2>5, <3>1, <3>2, <3>3 DEF SuccessIsExact, AsAsked,
        NotNeeded, Switched, Switches
  <2>6. QED
    BY <2>4, <2>5
<1>4. QED
  BY <1>1, <1>2, <1>3

-----------------------------------------------------------------------------
\* Messages.

LEMMA WishFields ==
  ASSUME NEW w \in WishSet, w # Absent
  PROVE  w.ents \in SUBSET Ents /\ w.on \in BOOLEAN
  BY DEF WishSet

LEMMA HoldsAreTargets == ASSUME NEW w PROVE Holds(w) \subseteq Targets
  BY DEF Holds

LEMMA UserFields ==
  ASSUME NEW m \in UserPosts
  PROVE  /\ m.op \in Operations /\ m.want \in [Targets -> WishSet] /\ m.roles \subseteq Targets
         /\ m.removed \subseteq Targets /\ m.pw \in BOOLEAN /\ m.named \in BOOLEAN
         /\ \A t \in Targets : m.want[t] \in Asked(family[t])
  BY DEF UserPosts, UserMessages

LEMMA NativeFields ==
  ASSUME NEW m \in Natives
  PROVE  /\ m.target \in Targets /\ m.op \in Operations /\ m.want \in SUBSET Ents
         /\ m.on \in BOOLEAN /\ m.pw \in BOOLEAN /\ m.named \in BOOLEAN
         /\ m.removed \in SUBSET Targets /\ OneRole(m.target, m.want)
  BY DEF Natives, SubMessages

LEMMA PostedIsMessage == Posted \subseteq Messages /\ NoMessage \notin Posted
<1>1. NativePosts \subseteq Messages
  BY DEF NativePosts, Messages
<1>2. UserPosts \subseteq Messages
  BY DEF UserPosts, UserMessages, Messages
<1>3. QED
  BY <1>1, <1>2, DeliveryAssumption DEF Posted

\* A wish MidPoint may have of a target asks of it what it can hold.
LEMMA AskedIsOneRole ==
  ASSUME SetupTyped, NEW t \in Targets, NEW w \in Asked(family[t])
  PROVE  w \in WishSet /\ (w # Absent => OneRole(t, w.ents))
  BY DEF Asked, OneRole

LEMMA NativeIs ==
  ASSUME NEW t \in Targets, NEW op \in Operations, NEW pw \in BOOLEAN, NEW named \in BOOLEAN,
         NEW want \in SUBSET Ents, NEW on \in BOOLEAN, NEW removed \in SUBSET Targets,
         OneRole(t, want)
  PROVE  [target |-> t, op |-> op, pw |-> pw, named |-> named, want |-> want, on |-> on,
          removed |-> removed] \in Natives
  BY DEF Natives, SubMessages

LEMMA ProjectIsNative ==
  ASSUME SetupTyped, NEW m \in UserPosts, NEW t \in Targets, NEW op \in Operations,
         NEW named \in BOOLEAN
  PROVE  Project(m, t, op, named) \in Natives
<1> DEFINE want == IF m.want[t] = Absent THEN {} ELSE m.want[t].ents
           on == m.want[t] = Absent \/ m.want[t].on
           removed == IF m.op = "UPDATE" THEN m.removed ELSE {}
<1>1. m.want[t] \in Asked(family[t]) /\ m.pw \in BOOLEAN /\ removed \in SUBSET Targets
  BY UserFields
<1>2. m.want[t] \in WishSet /\ (m.want[t] # Absent => OneRole(t, m.want[t].ents))
  BY <1>1, AskedIsOneRole
<1>3. want \in SUBSET Ents /\ on \in BOOLEAN
  BY <1>2, WishFields
<1>4. OneRole(t, want)
  BY <1>2 DEF OneRole
<1>5. Project(m, t, op, named) = [target |-> t, op |-> op, pw |-> m.pw, named |-> named,
                                  want |-> want, on |-> on, removed |-> removed]
  BY DEF Project
<1> HIDE DEF want, on, removed
<1>6. QED
  BY <1>1, <1>3, <1>4, <1>5, NativeIs

LEMMA ConvertedIsNative ==
  ASSUME NEW m \in Natives
  PROVE  Converted(m) \in Natives /\ Converted(m).target = m.target
<1>1. CASE Converted(m) = m
  BY <1>1
<1>2. CASE Converted(m) = [m EXCEPT !.op = "CREATE"]
  BY <1>2 DEF Natives, SubMessages, Operations
<1>3. QED
  BY <1>1, <1>2 DEF Converted

LEMMA RoutesAreTargets ==
  ASSUME NEW m \in UserPosts
  PROVE  TargetsForMessage(m) \subseteq Targets /\ Misrouted(m) \subseteq Targets
<1>1. m.roles \subseteq Targets
  BY UserFields
<1>2. QED
  BY <1>1, HoldsAreTargets DEF TargetsForMessage, AttributeTargets, Misrouted

\* An order of some of the targets gives as many operations.
LEMMA OrdersGive ==
  ASSUME NEW S \in SUBSET Targets, NEW s \in Orders(S), NEW q,
         q = [i \in DOMAIN s |-> q[i]], \A i \in DOMAIN s : s[i] \in Targets => q[i] \in Natives
  PROVE  q \in Seq(Natives)
<1>1. IsFiniteSet(S)
  BY DeliveryAssumption, FS_Subset
<1>2. Cardinality(S) \in Nat
  BY <1>1, FS_CardinalityType
<1>3. s \in [1..Cardinality(S) -> S]
  BY DEF Orders
<1>4. DOMAIN s = 1..Cardinality(S) /\ \A i \in DOMAIN s : s[i] \in Targets
  BY <1>3
<1>5. q = [i \in 1..Cardinality(S) |-> q[i]] /\ \A i \in 1..Cardinality(S) : q[i] \in Natives
  BY <1>4
<1>6. QED
  BY <1>2, <1>5

-----------------------------------------------------------------------------
\* Type correctness.

Inv == SetupTyped /\ WishesTyped /\ MessagesTyped /\ MarksTyped /\ Routes /\ Held

LEMMA InitInv == Init => Inv
<1> SUFFICES ASSUME Init PROVE Inv
  OBVIOUS
<1>1. PICK s \in Setups : /\ family = s.family /\ cleanup = s.cleanup /\ faults = s.faults
                          /\ broker = s.broker /\ approval \in s.approval
  BY DEF Init
<1>2. SetupTyped
  BY <1>1, DeliveryAssumption DEF SetupTyped
<1>3. Nothing \in [Targets -> WishSet] /\ \A t \in Targets : Nothing[t] \in Asked(family[t])
  BY DEF Nothing, WishSet, Asked
<1>4. WishesTyped
  BY <1>3 DEF Init, WishesTyped
<1>5. MessagesTyped /\ MarksTyped
  BY DEF Init, MessagesTyped, MarksTyped
<1>6. ~Working
  BY DEF Init, Working
<1>7. Routes
  BY <1>6 DEF Init, Routes
<1>8. AccountTyped /\ AccountsFit
  <2>1. \A t \in Targets : account[t] = NoAccount
    BY DEF Init
  <2>2. AccountTyped
    BY NoAccountIsOne DEF Init, AccountTyped
  <2>3. QED
    BY <2>1, <2>2, NoAccountIsOne DEF AccountsFit, Fits
<1>9. Held
  BY <1>8 DEF Init, Held, SessionTyped, PlanInv
<1>10. QED
  BY <1>2, <1>4, <1>5, <1>7, <1>9 DEF Inv

\* What a behaviour never changes keeps the sets of messages as they are.
LEMMA RigidStays ==
  ASSUME SetupTyped, UNCHANGED rigid
  PROVE  /\ SetupTyped' /\ family' = family /\ approval' = approval /\ broker' = broker
         /\ Natives' = Natives /\ NativePosts' = NativePosts
         /\ UserPosts' = UserPosts /\ Posted' = Posted
<1>1. /\ family' = family /\ approval' = approval /\ broker' = broker /\ faults' = faults
      /\ cleanup' = cleanup
  BY DEF rigid
<1>2. SetupTyped'
  BY <1>1 DEF SetupTyped
<1>3. Natives' = Natives
  BY <1>1 DEF Natives, OneRole
<1>4. UserPosts' = UserPosts
  BY <1>1 DEF UserPosts
<1>5. QED
  BY <1>1, <1>2, <1>3, <1>4 DEF Posted, NativePosts

\* What is known before a step, and what it leaves alone if it runs no call.
LEMMA Before ==
  ASSUME Inv
  PROVE  /\ SetupTyped /\ WishesTyped /\ MessagesTyped /\ MarksTyped /\ Routes /\ Held
         /\ queue \in Seq(Posted) /\ handled \in Seq(Posted)
         /\ todo \in Seq(Natives) /\ ops \in Seq(Natives)
         /\ (todo # <<>> => Head(todo) \in Natives /\ Tail(todo) \in Seq(Natives))
         /\ (queue # <<>> => Head(queue) \in Posted /\ Tail(queue) \in Seq(Posted))
  BY HeadTailProperties DEF Inv, MessagesTyped

LEMMA MidPointSteps ==
  ASSUME Inv, PostUser \/ PostNative
  PROVE  Inv'
<1>1. /\ SetupTyped /\ WishesTyped /\ MessagesTyped /\ MarksTyped /\ Routes /\ Held
      /\ queue \in Seq(Posted)
  BY Before
<1>2. /\ UNCHANGED <<rigid, taken, todo, handled, recorded, cache, orchestrator, crashes, seen, excused,
                     account, session>>
  <2>1. CASE PostUser
    BY <2>1 DEF PostUser
  <2>2. CASE PostNative
    BY <2>2 DEF PostNative
  <2>3. QED
    BY <2>1, <2>2
<1>3. /\ SetupTyped' /\ family' = family /\ approval' = approval /\ broker' = broker
      /\ Natives' = Natives /\ Posted' = Posted
  BY <1>1, <1>2, RigidStays
<1>4. Held'
  BY <1>1, <1>2, <1>3, IdlingKeeps
<1>5. Routes'
  BY <1>1, <1>2, <1>3 DEF Routes, Working, orchestrator, Nothing
<1>6. MarksTyped'
  <2>1. posts' \in Nat
    <3>1. posts \in Nat /\ MaxPosts(faults, approval) \in Nat
      BY <1>1 DEF MarksTyped, SetupTyped
    <3>2. posts' \in {1, posts + 1, MaxPosts(faults, approval)}
      BY DEF PostUser, PostNative
    <3>3. QED
      BY <3>1, <3>2
  <2>2. QED
    BY <1>1, <1>2, <2>1 DEF MarksTyped, orchestrator
<1>7. /\ wish' \in [Targets -> WishSet] /\ \A t \in Targets : wish'[t] \in Asked(family[t])
      /\ queue' \in Seq(Posted)
  <2>1. CASE PostUser
    <3>1. PICK w \in Wishes :
             /\ wish' = w
             /\ \/ Post(Message("CREATE", w, {}, TRUE, TRUE))
                \/ \E removed \in {{}, Holds(wish) \ Holds(w)}, pw \in PasswordSent :
                      Post(Message("UPDATE", w, removed, pw, TRUE))
                \/ \E named \in NameSent :
                      Post(Message("DELETE", w, Holds(wish) \ ByAttribute(wish), FALSE, named))
      BY <2>1 DEF PostUser
    <3>2. w \in [Targets -> WishSet] /\ \A t \in Targets : w[t] \in Asked(family[t])
      <4>1. \A t \in Targets : w[t] \in Asked(family[t])
        BY <1>1 DEF Wishes, SetupTyped
      <4>2. \A t \in Targets : w[t] \in WishSet
        BY <4>1 DEF Asked
      <4>3. QED
        BY <4>1, <4>2 DEF Wishes
    <3>3. ASSUME NEW op \in Operations, NEW r \in SUBSET Targets, NEW p \in BOOLEAN,
                 NEW n \in BOOLEAN
          PROVE  Message(op, w, r, p, n) \in UserPosts
      BY <3>2, HoldsAreTargets DEF Message, UserPosts, UserMessages
    <3>4. PasswordSent \subseteq BOOLEAN /\ NameSent \subseteq BOOLEAN
      BY DEF PasswordSent, NameSent
    <3>5. \E m \in UserPosts : queue' = Append(queue, m)
      <4>1. CASE Post(Message("CREATE", w, {}, TRUE, TRUE))
        BY <3>3, <4>1 DEF Post, Operations
      <4>2. ASSUME NEW removed \in {{}, Holds(wish) \ Holds(w)}, NEW pw \in PasswordSent,
                   Post(Message("UPDATE", w, removed, pw, TRUE))
            PROVE  \E m \in UserPosts : queue' = Append(queue, m)
        <5>1. removed \in SUBSET Targets /\ pw \in BOOLEAN
          BY <3>4, HoldsAreTargets
        <5>2. Message("UPDATE", w, removed, pw, TRUE) \in UserPosts
          BY <3>3, <5>1 DEF Operations
        <5>3. QED
          BY <4>2, <5>2 DEF Post
      <4>3. ASSUME NEW named \in NameSent,
                   Post(Message("DELETE", w, Holds(wish) \ ByAttribute(wish), FALSE, named))
            PROVE  \E m \in UserPosts : queue' = Append(queue, m)
        <5>1. Message("DELETE", w, Holds(wish) \ ByAttribute(wish), FALSE, named) \in UserPosts
          BY <3>3, <3>4, HoldsAreTargets DEF Operations
        <5>2. QED
          BY <4>3, <5>1 DEF Post
      <4>4. QED
        BY <3>1, <4>1, <4>2, <4>3
    <3>6. Posted = UserPosts
      BY <2>1 DEF PostUser, Posted
    <3>7. QED
      BY <1>1, <3>1, <3>2, <3>5, <3>6, AppendProperties
  <2>2. CASE PostNative
    <3> DEFINE Posts(t, w) ==
             /\ wish' = [wish EXCEPT ![t] = w]
             /\ queue' = Append(queue, [id |-> posts + 1, task |->
                  [target |-> t, named |-> TRUE, pw |-> wish[t] = Absent, removed |-> {},
                   op |-> IF w = Absent THEN "DELETE"
                          ELSE IF wish[t] = Absent THEN "CREATE" ELSE "UPDATE",
                   want |-> IF w = Absent THEN {} ELSE w.ents,
                   on |-> w = Absent \/ w.on]])
    <3>0. PICK t \in Targets : \E w \in Wants(faults, t) \ {wish[t]} : Posts(t, w)
      BY <2>2 DEF PostNative, Post
    <3>1. PICK w \in Wants(faults, t) \ {wish[t]} : Posts(t, w)
      BY <3>0
    <3>2. w \in Asked(family[t]) /\ w \in WishSet /\ (w # Absent => OneRole(t, w.ents))
      BY <1>1, AskedIsOneRole DEF SetupTyped
    <3> DEFINE op == IF w = Absent THEN "DELETE"
                     ELSE IF wish[t] = Absent THEN "CREATE" ELSE "UPDATE"
               want == IF w = Absent THEN {} ELSE w.ents
               on == w = Absent \/ w.on
               pw == wish[t] = Absent
               m == [target |-> t, op |-> op, pw |-> pw, named |-> TRUE, want |-> want, on |-> on,
                     removed |-> {}]
               n == [id |-> posts + 1, task |-> m]
    <3>3. op \in Operations /\ want \in SUBSET Ents /\ on \in BOOLEAN /\ pw \in BOOLEAN
      BY <3>2, WishFields DEF Operations
    <3>4. OneRole(t, want)
      BY <3>2 DEF OneRole
    <3>5. queue' = Append(queue, n)
      BY <3>1
    <3> HIDE DEF op, want, on, pw
    <3>6. n \in NativePosts
      <4>1. m \in Natives
        BY <3>3, <3>4, NativeIs
      <4>2. posts + 1 \in Nat
        BY <1>1 DEF MarksTyped
      <4>3. QED
        BY <4>1, <4>2 DEF NativePosts, NativeMessages, Natives
    <3>7. Posted = NativePosts
      BY <2>2 DEF PostNative, Posted
    <3>8. queue' \in Seq(Posted)
      BY <1>1, <3>5, <3>6, <3>7, AppendProperties
    <3>9. wish' \in [Targets -> WishSet] /\ \A u \in Targets : wish'[u] \in Asked(family[u])
      BY <1>1, <3>1, <3>2 DEF WishesTyped
    <3>10. QED
      BY <3>8, <3>9
  <2>3. QED
    BY <2>1, <2>2
<1>8. WishesTyped'
  BY <1>1, <1>2, <1>3, <1>7 DEF WishesTyped, orchestrator
<1>9. MessagesTyped'
  BY <1>1, <1>2, <1>3, <1>7 DEF MessagesTyped, orchestrator
<1>10. QED
  BY <1>3, <1>4, <1>5, <1>6, <1>8, <1>9 DEF Inv

LEMMA ParseGives ==
  ASSUME SetupTyped, cache \subseteq Targets, NEW m \in UserPosts, NEW redisUp, Parse(m, redisUp)
  PROVE  todo' \in Seq(Natives) /\ cache' \subseteq Targets
<1> DEFINE redis == Remembered(redisUp)
<1>1. /\ m.op \in {"DELETE", "UPDATE", "CREATE"} /\ m.named \in BOOLEAN /\ m.removed \subseteq Targets
      /\ TargetsForMessage(m) \subseteq Targets
  BY UserFields, RoutesAreTargets DEF Operations
<1>2. redis \subseteq Targets
  BY HoldsAreTargets DEF Remembered
<1>3. CASE m.op = "DELETE"
  <2>1. /\ \E s \in Orders(DeleteTargets(m, redis)) :
              todo' = [i \in DOMAIN s |-> Project(m, s[i], "DELETE", Named(m, redisUp))]
        /\ cache' = {}
    BY <1>3, Zenon DEF Parse
  <2>2. PICK s \in Orders(DeleteTargets(m, redis)) :
           todo' = [i \in DOMAIN s |-> Project(m, s[i], "DELETE", Named(m, redisUp))]
    BY <2>1
  <2>3. DeleteTargets(m, redis) \in SUBSET Targets
    BY <1>1, <1>2 DEF DeleteTargets
  <2>4. Named(m, redisUp) \in BOOLEAN
    BY <1>1 DEF Named
  <2>5. \A t \in Targets : Project(m, t, "DELETE", Named(m, redisUp)) \in Natives
    BY <2>4, ProjectIsNative DEF Operations
  <2> DEFINE q == [i \in DOMAIN s |-> Project(m, s[i], "DELETE", Named(m, redisUp))]
  <2>6. q = [i \in DOMAIN s |-> q[i]] /\ \A i \in DOMAIN s : s[i] \in Targets => q[i] \in Natives
    BY <2>5
  <2> HIDE DEF q
  <2>7. q \in Seq(Natives)
    BY <2>3, <2>6, OrdersGive
  <2>8. QED
    BY <2>1, <2>2, <2>7 DEF q
<1>4. CASE m.op = "UPDATE"
  <2>1. /\ \E d \in Orders(Removed(m, redis)), s \in Orders(TargetsForMessage(m)) :
              todo' = [i \in DOMAIN d |-> Departure(m, d[i])]
                      \o [i \in DOMAIN s |-> Project(m, s[i], "UPDATE", TRUE)]
        /\ cache' = TargetsForMessage(m)
    BY <1>4, Zenon DEF Parse
  <2>2. PICK d \in Orders(Removed(m, redis)), s \in Orders(TargetsForMessage(m)) :
           todo' = [i \in DOMAIN d |-> Departure(m, d[i])]
                   \o [i \in DOMAIN s |-> Project(m, s[i], "UPDATE", TRUE)]
    BY <2>1
  <2>3. Removed(m, redis) \in SUBSET Targets
    BY <1>1, <1>2 DEF Removed
  <2>4. \A t \in Targets : Project(m, t, "UPDATE", TRUE) \in Natives /\ Departure(m, t) \in Natives
    BY ProjectIsNative DEF Departure, Operations
  <2> DEFINE p == [i \in DOMAIN d |-> Departure(m, d[i])]
             q == [i \in DOMAIN s |-> Project(m, s[i], "UPDATE", TRUE)]
  <2>5. p = [i \in DOMAIN d |-> p[i]] /\ \A i \in DOMAIN d : d[i] \in Targets => p[i] \in Natives
    BY <2>4
  <2>6. q = [i \in DOMAIN s |-> q[i]] /\ \A i \in DOMAIN s : s[i] \in Targets => q[i] \in Natives
    BY <2>4
  <2>7. todo' = p \o q
    BY <2>2
  <2> HIDE DEF p, q
  <2>8. p \in Seq(Natives) /\ q \in Seq(Natives)
    BY <1>1, <2>3, <2>5, <2>6, OrdersGive
  <2>9. QED
    BY <1>1, <2>1, <2>7, <2>8, ConcatProperties
<1>5. CASE m.op = "CREATE"
  <2>1. /\ \E s \in Orders(TargetsForMessage(m)) :
              todo' = [i \in DOMAIN s |-> Project(m, s[i], "CREATE", TRUE)]
        /\ cache' = IF TargetsForMessage(m) = {} THEN cache ELSE TargetsForMessage(m)
    BY <1>5, Zenon DEF Parse
  <2>2. PICK s \in Orders(TargetsForMessage(m)) :
           todo' = [i \in DOMAIN s |-> Project(m, s[i], "CREATE", TRUE)]
    BY <2>1
  <2>3. \A t \in Targets : Project(m, t, "CREATE", TRUE) \in Natives
    BY ProjectIsNative DEF Operations
  <2> DEFINE q == [i \in DOMAIN s |-> Project(m, s[i], "CREATE", TRUE)]
  <2>4. q = [i \in DOMAIN s |-> q[i]] /\ \A i \in DOMAIN s : s[i] \in Targets => q[i] \in Natives
    BY <2>3
  <2> HIDE DEF q
  <2>5. q \in Seq(Natives)
    BY <1>1, <2>4, OrdersGive
  <2>6. QED
    BY <1>1, <2>1, <2>2, <2>5 DEF q
<1>6. QED
  BY <1>1, <1>3, <1>4, <1>5

\* What MidPoint tells of a DELETE changes its roles and its name only.
LEMMA EnrichedIs ==
  ASSUME NEW m \in UserPosts, NEW e \in Enriched(m)
  PROVE  /\ e \in UserPosts /\ e.op = m.op /\ e.want = m.want
         /\ m.op # "DELETE" => e = m
<1>1. CASE e = m
  BY <1>1
<1>2. CASE e # m
  <2>1. PICK told \in {{}, m.removed} : e = [m EXCEPT !.roles = @ \cup told, !.named = TRUE]
    BY <1>2 DEF Enriched
  <2>2. m.op = "DELETE"
    BY <1>2 DEF Enriched
  <2>3. m.roles \cup told \in SUBSET Targets /\ m \in UserMessages
    BY UserFields DEF UserPosts
  <2>4. e \in UserMessages /\ e.op = m.op /\ e.want = m.want
    BY <2>1, <2>3 DEF UserMessages
  <2>5. QED
    BY <2>2, <2>4 DEF UserPosts
<1>3. QED
  BY <1>1, <1>2

LEMMA TakeStep == ASSUME Inv, Take PROVE Inv'
<1>1. /\ SetupTyped /\ WishesTyped /\ MessagesTyped /\ MarksTyped /\ Routes /\ Held
      /\ queue # <<>> => Head(queue) \in Posted /\ Tail(queue) \in Seq(Posted)
  BY Before
<1> DEFINE m == Head(queue)
<1>2. /\ broker = "rabbitmq" /\ taken = NoMessage /\ queue # <<>>
      /\ taken' = m /\ queue' = Tail(queue) /\ seen' = m.want
      /\ UNCHANGED <<rigid, midpoint, handled, recorded, orchestrator, crashes, account, session>>
  BY DEF Take
<1>3. PICK redisUp \in {TRUE} \cup (IF "redis" \in faults THEN {FALSE} ELSE {}) :
         /\ \E e \in Enriched(m) : Parse(e, redisUp)
         /\ excused' = excused \cup Misrouted(m) \cup
                 (IF redisUp THEN {} ELSE Holds(snapshot) \ {todo'[i].target : i \in DOMAIN todo'})
  BY DEF Take
<1>4. /\ SetupTyped' /\ family' = family /\ approval' = approval /\ broker' = broker
      /\ Natives' = Natives /\ Posted' = Posted
  BY <1>1, <1>2, RigidStays
<1>5. m \in UserPosts /\ m \in Posted
  BY <1>1, <1>2 DEF Posted
<1>6. todo' \in Seq(Natives) /\ cache' \subseteq Targets
  <2>1. PICK e \in Enriched(m) : Parse(e, redisUp)
    BY <1>3
  <2>2. e \in UserPosts
    BY <1>5, EnrichedIs
  <2>3. QED
    BY <1>1, <2>1, <2>2, ParseGives DEF MarksTyped
<1>7. Held'
  BY <1>1, <1>2, <1>4, IdlingKeeps
<1>8. MarksTyped'
  BY <1>1, <1>2, <1>3, <1>5, <1>6, RoutesAreTargets, HoldsAreTargets DEF MarksTyped, midpoint, consumer, orchestrator
<1>9. WishesTyped'
  BY <1>1, <1>2, <1>4, <1>5, UserFields DEF WishesTyped, midpoint, orchestrator
<1>10. MessagesTyped'
  BY <1>1, <1>2, <1>4, <1>5, <1>6 DEF MessagesTyped, orchestrator
<1>11. Routes'
  <2>1. ~Working
    BY <1>1, <1>2 DEF Routes
  <2>2. taken' # NoMessage
    BY <1>2, <1>5, PostedIsMessage
  <2>3. QED
    BY <1>1, <1>2, <1>4, <2>1, <2>2 DEF Routes, Working, orchestrator, Nothing
<1>12. QED
  BY <1>4, <1>7, <1>8, <1>9, <1>10, <1>11 DEF Inv

LEMMA TakeNativeStep == ASSUME Inv, TakeNative PROVE Inv'
<1>1. /\ SetupTyped /\ WishesTyped /\ MessagesTyped /\ MarksTyped /\ Routes /\ Held
      /\ queue # <<>> => Head(queue) \in Posted /\ Tail(queue) \in Seq(Posted)
  BY Before
<1> DEFINE n == Head(queue)
           m == n.task
           w == IF m.op = "DELETE" THEN Absent ELSE [ents |-> m.want, on |-> m.on]
<1>2. /\ broker = "kafka" /\ taken = NoMessage /\ queue # <<>>
      /\ taken' = n /\ queue' = Tail(queue) /\ todo' = <<m>>
      /\ seen' = seen \/ seen' = [seen EXCEPT ![m.target] = w]
      /\ excused' \subseteq excused \cup {m.target}
      /\ UNCHANGED <<rigid, midpoint, handled, recorded, cache, orchestrator, crashes, account,
                     session>>
  BY DEF TakeNative
<1>3. /\ SetupTyped' /\ family' = family /\ approval' = approval /\ broker' = broker
      /\ Natives' = Natives /\ Posted' = Posted
  BY <1>1, <1>2, RigidStays
<1>4. n \in Posted /\ m \in Natives
  BY <1>1, <1>2 DEF Posted, NativePosts
<1>5. Held'
  BY <1>1, <1>2, <1>3, IdlingKeeps
<1>6. MarksTyped'
  BY <1>1, <1>2, <1>4, NativeFields DEF MarksTyped, midpoint, consumer, orchestrator
<1>7. WishesTyped'
  <2>1. w \in WishSet
    BY <1>4, NativeFields DEF WishSet
  <2>2. seen' \in [Targets -> WishSet]
    BY <1>1, <1>2, <2>1 DEF WishesTyped
  <2>3. QED
    BY <1>1, <1>2, <1>3, <2>2 DEF WishesTyped, midpoint, orchestrator
<1>8. MessagesTyped'
  <2>1. <<m>> \in Seq(Natives)
    BY <1>4
  <2>2. QED
    BY <1>1, <1>2, <1>3, <1>4, <2>1 DEF MessagesTyped, orchestrator
<1>9. Routes'
  <2>1. ~Working
    BY <1>1, <1>2 DEF Routes
  <2>2. taken' # NoMessage
    BY <1>2, <1>4, PostedIsMessage
  <2>3. QED
    BY <1>1, <1>2, <1>3, <2>1, <2>2 DEF Routes, Working, orchestrator, Nothing
<1>10. QED
  BY <1>3, <1>5, <1>6, <1>7, <1>8, <1>9 DEF Inv

LEMMA TakeAgainStep == ASSUME Inv, TakeAgain PROVE Inv'
<1>1. /\ SetupTyped /\ WishesTyped /\ MessagesTyped /\ MarksTyped /\ Routes /\ Held
      /\ handled \in Seq(Posted)
      /\ queue # <<>> => Head(queue) \in Posted /\ Tail(queue) \in Seq(Posted)
  BY Before
<1>2. /\ queue # <<>> /\ queue' = Tail(queue) /\ handled' = Append(handled, Head(queue))
      /\ UNCHANGED <<rigid, midpoint, taken, todo, recorded, cache, orchestrator, crashes, seen,
                     excused, account, session>>
  BY DEF TakeAgain
<1>3. /\ SetupTyped' /\ family' = family /\ approval' = approval /\ broker' = broker
      /\ Natives' = Natives /\ Posted' = Posted
  BY <1>1, <1>2, RigidStays
<1>4. Held'
  BY <1>1, <1>2, <1>3, IdlingKeeps
<1>5. MarksTyped'
  BY <1>1, <1>2 DEF MarksTyped, midpoint, consumer, orchestrator
<1>6. WishesTyped'
  BY <1>1, <1>2, <1>3 DEF WishesTyped, midpoint, orchestrator
<1>7. MessagesTyped'
  <2>1. handled' \in Seq(Posted)
    BY <1>1, <1>2, AppendProperties
  <2>2. QED
    BY <1>1, <1>2, <1>3, <2>1 DEF MessagesTyped, orchestrator
<1>8. Routes'
  BY <1>1, <1>2, <1>3 DEF Routes, Working, orchestrator, Nothing
<1>9. QED
  BY <1>3, <1>4, <1>5, <1>6, <1>7, <1>8 DEF Inv

LEMMA CreateOperationStep == ASSUME Inv, CreateOperation PROVE Inv'
<1>1. SetupTyped /\ WishesTyped /\ MessagesTyped /\ MarksTyped /\ Routes /\ Held
  BY Before
<1>2. /\ broker = "kafka" /\ todo # <<>> /\ recorded' = recorded \cup {taken}
      /\ UNCHANGED <<rigid, midpoint, queue, taken, todo, handled, cache, orchestrator, crashes,
                     seen, excused, account, session>>
  BY DEF CreateOperation
<1>3. /\ SetupTyped' /\ family' = family /\ approval' = approval /\ broker' = broker
      /\ Natives' = Natives /\ Posted' = Posted
  BY <1>1, <1>2, RigidStays
<1>4. Held'
  BY <1>1, <1>2, <1>3, IdlingKeeps
<1>5. MarksTyped'
  <2>1. taken \in NativeMessages
    BY <1>1, <1>2 DEF Routes, MessagesTyped, Posted, NativePosts
  <2>2. QED
    BY <1>1, <1>2, <2>1 DEF MarksTyped, midpoint, consumer, orchestrator
<1>6. WishesTyped'
  BY <1>1, <1>2, <1>3 DEF WishesTyped, midpoint, orchestrator
<1>7. MessagesTyped'
  BY <1>1, <1>2, <1>3 DEF MessagesTyped, orchestrator
<1>8. Routes'
  BY <1>1, <1>2, <1>3 DEF Routes, Working, orchestrator, Nothing
<1>9. QED
  BY <1>3, <1>4, <1>5, <1>6, <1>7, <1>8 DEF Inv

\* An UPDATE is skipped only when something was stored, or waits, for its target.
LEMMA SkippedIsApproval ==
  ASSUME Inv, todo # <<>>, Skipped(Converted(Head(todo)))
  PROVE  approval /\ ~Working
<1>1. Routes /\ Head(todo) \in Natives
  BY Before
<1> DEFINE m == Converted(Head(todo))
<1>2. m \in Natives
  BY <1>1, ConvertedIsNative
<1>3. [ents |-> m.want, on |-> m.on] # Absent /\ m.target \in Targets
  BY <1>2, NativeFields, DeliveryAssumption
<1>4. SUFFICES ASSUME ~approval PROVE FALSE
  BY <1>1 DEF Routes
<1>5. ops = <<>> /\ snapshot[m.target] = Absent
  BY <1>1, <1>3, <1>4 DEF Routes, Nothing
<1>6. QED
  BY <1>3, <1>5 DEF Skipped, Waits

LEMMA HandleSkippedStep == ASSUME Inv, HandleSkipped PROVE Inv'
<1>1. /\ SetupTyped /\ WishesTyped /\ MessagesTyped /\ MarksTyped /\ Routes /\ Held
      /\ todo \in Seq(Natives) /\ ops \in Seq(Natives)
      /\ todo # <<>> => Head(todo) \in Natives /\ Tail(todo) \in Seq(Natives)
  BY Before
<1>2. /\ todo # <<>> /\ todo' = Tail(todo) /\ excused' \subseteq excused \cup {Head(todo).target}
      /\ Skipped(Converted(Head(todo)))
      /\ UNCHANGED <<rigid, midpoint, queue, taken, handled, recorded, cache, orchestrator, crashes, seen,
                     account, session>>
  BY DEF HandleSkipped, Opened
<1>3. /\ SetupTyped' /\ family' = family /\ approval' = approval /\ broker' = broker
      /\ Natives' = Natives /\ Posted' = Posted
  BY <1>1, <1>2, RigidStays
<1>4. Held'
  BY <1>1, <1>2, <1>3, IdlingKeeps
<1>5. MarksTyped'
  BY <1>1, <1>2, NativeFields DEF MarksTyped, midpoint, consumer, orchestrator
<1>6. WishesTyped'
  BY <1>1, <1>2, <1>3 DEF WishesTyped, midpoint, orchestrator
<1>7. MessagesTyped'
  BY <1>1, <1>2, <1>3 DEF MessagesTyped, orchestrator
<1>8. approval /\ ~Working
  BY <1>2, SkippedIsApproval
<1>9. Routes'
  BY <1>1, <1>2, <1>3, <1>8 DEF Routes, Working, orchestrator
<1>10. QED
  BY <1>3, <1>4, <1>5, <1>6, <1>7, <1>9 DEF Inv

LEMMA HandleApprovalStep == ASSUME Inv, HandleApproval PROVE Inv'
<1>1. /\ SetupTyped /\ WishesTyped /\ MessagesTyped /\ MarksTyped /\ Routes /\ Held
      /\ todo \in Seq(Natives) /\ ops \in Seq(Natives)
      /\ todo # <<>> => Head(todo) \in Natives /\ Tail(todo) \in Seq(Natives)
  BY Before
<1>2. /\ todo # <<>> /\ todo' = Tail(todo) /\ approval
      /\ ops' = Append(ops, Converted(Head(todo)))
      /\ UNCHANGED <<rigid, midpoint, queue, taken, handled, recorded, cache, snapshot, gone, crashes, seen,
                     excused, account, session>>
  BY DEF HandleApproval, Opened
<1>3. /\ SetupTyped' /\ family' = family /\ approval' = approval /\ broker' = broker
      /\ Natives' = Natives /\ Posted' = Posted
  BY <1>1, <1>2, RigidStays
<1>4. Held'
  BY <1>1, <1>2, <1>3, IdlingKeeps
<1>5. MarksTyped'
  BY <1>1, <1>2 DEF MarksTyped, midpoint, consumer, orchestrator
<1>6. WishesTyped'
  BY <1>1, <1>2, <1>3 DEF WishesTyped, midpoint
<1>7. MessagesTyped'
  <2>1. ops' \in Seq(Natives)
    BY <1>1, <1>2, ConvertedIsNative, AppendProperties
  <2>2. QED
    BY <1>1, <1>2, <1>3, <2>1 DEF MessagesTyped
<1>8. Routes'
  BY <1>1, <1>2, <1>3 DEF Routes, Working
<1>9. QED
  BY <1>3, <1>4, <1>5, <1>6, <1>7, <1>8 DEF Inv

LEMMA HandleNowStep == ASSUME Inv, HandleNow PROVE Inv'
<1>1. /\ SetupTyped /\ WishesTyped /\ MessagesTyped /\ MarksTyped /\ Routes /\ Held
      /\ todo \in Seq(Natives) /\ ops \in Seq(Natives)
      /\ todo # <<>> => Head(todo) \in Natives /\ Tail(todo) \in Seq(Natives)
  BY Before
<1>2. /\ todo # <<>> /\ ~approval /\ session = Idle
      /\ Open("consumer", Converted(Head(todo)))
      /\ UNCHANGED <<rigid, midpoint, consumer, orchestrator, crashes, seen, excused, account>>
  BY DEF HandleNow, Opened
<1>3. /\ SetupTyped' /\ family' = family /\ approval' = approval /\ broker' = broker
      /\ Natives' = Natives /\ Posted' = Posted
  BY <1>1, <1>2, RigidStays
<1>4. /\ Held' /\ session' \in Sessions /\ session'.by = "consumer"
      /\ session'.target = Head(todo).target
  BY <1>1, <1>2, <1>3, ConvertedIsNative, OpenKeeps
<1>5. MarksTyped'
  BY <1>1, <1>2 DEF MarksTyped, midpoint, consumer, orchestrator
<1>6. WishesTyped'
  BY <1>1, <1>2, <1>3 DEF WishesTyped, midpoint, orchestrator
<1>7. MessagesTyped'
  BY <1>1, <1>2, <1>3 DEF MessagesTyped, consumer, orchestrator
<1>8. Routes'
  BY <1>1, <1>2, <1>3, <1>4 DEF Routes, Working, consumer, orchestrator, Nothing
<1>9. QED
  BY <1>3, <1>4, <1>5, <1>6, <1>7, <1>8 DEF Inv

LEMMA OutcomeIsTargets ==
  ASSUME excused \subseteq Targets, session \in Sessions
  PROVE  \A rest : Outcome(session, rest) \subseteq Targets
  BY CallFields DEF Outcome

LEMMA HandleDoneStep == ASSUME Inv, HandleDone PROVE Inv'
<1>1. /\ SetupTyped /\ WishesTyped /\ MessagesTyped /\ MarksTyped /\ Routes /\ Held
      /\ todo \in Seq(Natives) /\ ops \in Seq(Natives)
      /\ todo # <<>> => Head(todo) \in Natives /\ Tail(todo) \in Seq(Natives)
  BY Before
<1>2. /\ Working /\ todo' = Tail(todo) /\ session' = Idle /\ excused' = Outcome(session, Tail(todo))
      /\ UNCHANGED <<rigid, midpoint, queue, taken, handled, recorded, cache, orchestrator, crashes, seen,
                     account>>
  BY DEF HandleDone
<1>3. /\ SetupTyped' /\ family' = family /\ approval' = approval /\ broker' = broker
      /\ Natives' = Natives /\ Posted' = Posted
  BY <1>1, <1>2, RigidStays
<1>4. session \in Sessions /\ todo # <<>>
  BY <1>1, <1>2, InCall DEF Working, Routes
<1>5. Held'
  BY <1>1, <1>2, <1>3, CloseKeeps
<1>6. MarksTyped'
  BY <1>1, <1>2, <1>4, OutcomeIsTargets DEF MarksTyped, midpoint, consumer, orchestrator
<1>7. WishesTyped'
  BY <1>1, <1>2, <1>3 DEF WishesTyped, midpoint, orchestrator
<1>8. MessagesTyped'
  BY <1>1, <1>2, <1>3, <1>4 DEF MessagesTyped, orchestrator
<1>9. Routes'
  BY <1>1, <1>2, <1>3, <1>4 DEF Routes, Working, orchestrator, Nothing
<1>10. QED
  BY <1>3, <1>5, <1>6, <1>7, <1>8, <1>9 DEF Inv

LEMMA RejectedKeeps ==
  ASSUME Inv, Rejected, taken # NoMessage, UNCHANGED <<rigid, midpoint, orchestrator, seen>>
  PROVE  SetupTyped' /\ WishesTyped' /\ MessagesTyped' /\ MarksTyped'
<1>1. /\ SetupTyped /\ WishesTyped /\ MessagesTyped /\ MarksTyped /\ Routes /\ Held
      /\ todo \in Seq(Natives) /\ ops \in Seq(Natives)
      /\ todo # <<>> => Head(todo) \in Natives /\ Tail(todo) \in Seq(Natives)
  BY Before
<1>2. /\ taken' = NoMessage /\ todo' = <<>> /\ queue' = queue /\ cache' = cache
      /\ recorded' = recorded /\ excused' = excused \cup {todo[i].target : i \in DOMAIN todo}
      /\ handled' = IF broker = "kafka" THEN Append(handled, taken) ELSE handled
      /\ UNCHANGED rigid
  BY DEF Rejected
<1>3. /\ SetupTyped' /\ family' = family /\ approval' = approval /\ broker' = broker
      /\ Natives' = Natives /\ Posted' = Posted
  BY <1>1, <1>2, RigidStays
<1>4. WishesTyped'
  BY <1>1, <1>3 DEF WishesTyped, midpoint, orchestrator
<1>5. MessagesTyped'
  <2>1. taken \in Posted /\ handled \in Seq(Posted)
    BY <1>1 DEF MessagesTyped
  <2>2. handled' \in Seq(Posted)
    BY <1>2, <2>1, AppendProperties
  <2>3. <<>> \in Seq(Natives)
    OBVIOUS
  <2>4. QED
    BY <1>1, <1>2, <1>3, <2>2, <2>3 DEF MessagesTyped, orchestrator
<1>6. MarksTyped'
  <2>1. \A i \in DOMAIN todo : todo[i].target \in Targets
    BY <1>1, NativeFields
  <2>2. QED
    BY <1>1, <1>2, <2>1 DEF MarksTyped, midpoint, consumer, orchestrator
<1>7. QED
  BY <1>3, <1>4, <1>5, <1>6

LEMMA HandleFailedStep == ASSUME Inv, HandleFailed PROVE Inv'
<1>1. /\ SetupTyped /\ WishesTyped /\ MessagesTyped /\ MarksTyped /\ Routes /\ Held
      /\ todo \in Seq(Natives) /\ ops \in Seq(Natives)
      /\ todo # <<>> => Head(todo) \in Natives /\ Tail(todo) \in Seq(Natives)
  BY Before
<1>2. /\ Working /\ Rejected /\ session' = Idle /\ taken' = NoMessage /\ todo' = <<>>
      /\ UNCHANGED <<rigid, midpoint, orchestrator, crashes, seen, account>>
  BY DEF HandleFailed, Rejected
<1>3. /\ SetupTyped' /\ family' = family /\ approval' = approval /\ broker' = broker
      /\ Natives' = Natives /\ Posted' = Posted
  BY <1>1, <1>2, RigidStays
<1>4. Held'
  BY <1>1, <1>2, <1>3, CloseKeeps
<1>5. taken # NoMessage
  BY <1>1, <1>2 DEF Routes
<1>6. WishesTyped' /\ MessagesTyped' /\ MarksTyped'
  BY <1>2, <1>5, RejectedKeeps
<1>7. Routes'
  BY <1>1, <1>2, <1>3 DEF Routes, Working, orchestrator, Nothing
<1>8. QED
  BY <1>3, <1>4, <1>6, <1>7 DEF Inv

LEMMA HandleRaisesStep == ASSUME Inv, HandleRaises PROVE Inv'
<1>1. /\ SetupTyped /\ WishesTyped /\ MessagesTyped /\ MarksTyped /\ Routes /\ Held
      /\ todo \in Seq(Natives) /\ ops \in Seq(Natives)
      /\ todo # <<>> => Head(todo) \in Natives /\ Tail(todo) \in Seq(Natives)
  BY Before
<1>2. /\ ~Working /\ todo # <<>> /\ Rejected /\ taken' = NoMessage /\ todo' = <<>>
      /\ UNCHANGED <<rigid, midpoint, orchestrator, crashes, seen, account, session>>
  BY DEF HandleRaises, Rejected
<1>3. /\ SetupTyped' /\ family' = family /\ approval' = approval /\ broker' = broker
      /\ Natives' = Natives /\ Posted' = Posted
  BY <1>1, <1>2, RigidStays
<1>4. Held'
  BY <1>1, <1>2, <1>3, IdlingKeeps
<1>5. taken # NoMessage
  BY <1>1, <1>2 DEF Routes
<1>6. WishesTyped' /\ MessagesTyped' /\ MarksTyped'
  BY <1>2, <1>5, RejectedKeeps
<1>7. Routes'
  BY <1>1, <1>2, <1>3 DEF Routes, Working, orchestrator, Nothing
<1>8. QED
  BY <1>3, <1>4, <1>6, <1>7 DEF Inv

LEMMA AckStep == ASSUME Inv, Ack PROVE Inv'
<1>1. /\ SetupTyped /\ WishesTyped /\ MessagesTyped /\ MarksTyped /\ Routes /\ Held
      /\ todo \in Seq(Natives) /\ ops \in Seq(Natives)
      /\ todo # <<>> => Head(todo) \in Natives /\ Tail(todo) \in Seq(Natives)
  BY Before
<1>2. /\ taken # NoMessage /\ todo = <<>> /\ taken' = NoMessage
      /\ handled' = IF broker = "kafka" THEN Append(handled, taken) ELSE handled
      /\ UNCHANGED <<rigid, midpoint, queue, todo, recorded, cache, orchestrator, crashes, seen, excused,
                     account, session>>
  BY DEF Ack
<1>3. /\ SetupTyped' /\ family' = family /\ approval' = approval /\ broker' = broker
      /\ Natives' = Natives /\ Posted' = Posted
  BY <1>1, <1>2, RigidStays
<1>4. Held'
  BY <1>1, <1>2, <1>3, IdlingKeeps
<1>5. MarksTyped'
  BY <1>1, <1>2 DEF MarksTyped, midpoint, consumer, orchestrator
<1>6. WishesTyped'
  BY <1>1, <1>2, <1>3 DEF WishesTyped, midpoint, orchestrator
<1>7. MessagesTyped'
  <2>1. taken \in Posted /\ handled \in Seq(Posted)
    BY <1>1, <1>2 DEF MessagesTyped
  <2>2. handled' \in Seq(Posted)
    BY <1>2, <2>1, AppendProperties
  <2>3. QED
    BY <1>1, <1>2, <1>3, <2>2 DEF MessagesTyped, orchestrator
<1>8. Routes'
  BY <1>1, <1>2, <1>3 DEF Routes, Working, orchestrator, Nothing
<1>9. QED
  BY <1>3, <1>4, <1>5, <1>6, <1>7, <1>8 DEF Inv

LEMMA ApproveStep == ASSUME Inv, Approve PROVE Inv'
<1>1. /\ SetupTyped /\ WishesTyped /\ MessagesTyped /\ MarksTyped /\ Routes /\ Held
      /\ todo \in Seq(Natives) /\ ops \in Seq(Natives)
      /\ todo # <<>> => Head(todo) \in Natives /\ Tail(todo) \in Seq(Natives)
  BY Before
<1>2. /\ session = Idle
      /\ UNCHANGED <<rigid, midpoint, consumer, snapshot, gone, crashes, seen, account>>
  BY DEF Approve
<1>3. PICK i \in DOMAIN ops :
         /\ Open("api", ops[i])
         /\ ops' = SubSeq(ops, 1, i - 1) \o SubSeq(ops, i + 1, Len(ops))
         /\ excused' \subseteq excused \cup {ops[i].target}
  BY DEF Approve
<1>4. /\ SetupTyped' /\ family' = family /\ approval' = approval /\ broker' = broker
      /\ Natives' = Natives /\ Posted' = Posted
  BY <1>1, <1>2, RigidStays
<1>5. ops[i] \in Natives /\ ops # <<>> /\ i \in 1..Len(ops)
  BY <1>1
<1>6. /\ Held' /\ session' \in Sessions /\ session'.by = "api"
  BY <1>1, <1>2, <1>3, <1>4, <1>5, OpenKeeps
<1>7. MarksTyped'
  BY <1>1, <1>2, <1>3, <1>5, NativeFields DEF MarksTyped, midpoint, consumer, orchestrator
<1>8. WishesTyped'
  BY <1>1, <1>2, <1>4 DEF WishesTyped, midpoint
<1>9. ops' \in Seq(Natives)
  <2>1. \A j \in 1..(i - 1) : ops[j] \in Natives
    BY <1>1, <1>5
  <2>2. \A j \in (i + 1)..Len(ops) : ops[j] \in Natives
    BY <1>1, <1>5
  <2>3. SubSeq(ops, 1, i - 1) \in Seq(Natives) /\ SubSeq(ops, i + 1, Len(ops)) \in Seq(Natives)
    BY <1>1, <1>5, <2>1, <2>2, SubSeqProperties
  <2>4. QED
    BY <1>3, <2>3, ConcatProperties
<1>10. MessagesTyped'
  BY <1>1, <1>2, <1>4, <1>9 DEF MessagesTyped, consumer
<1>11. approval
  BY <1>1, <1>5 DEF Routes
<1>12. Routes'
  BY <1>1, <1>2, <1>4, <1>6, <1>11 DEF Routes, Working, consumer
<1>13. QED
  BY <1>4, <1>6, <1>7, <1>8, <1>10, <1>12 DEF Inv

LEMMA ProvisionedStep == ASSUME Inv, Provisioned PROVE Inv'
<1>1. /\ SetupTyped /\ WishesTyped /\ MessagesTyped /\ MarksTyped /\ Routes /\ Held
      /\ todo \in Seq(Natives) /\ ops \in Seq(Natives)
      /\ todo # <<>> => Head(todo) \in Natives /\ Tail(todo) \in Seq(Natives)
  BY Before
<1>2. /\ session # Idle /\ session.by = "api" /\ session' = Idle
      /\ excused' = Outcome(session, todo)
      /\ UNCHANGED <<rigid, midpoint, consumer, ops, crashes, seen, account>>
  BY DEF Provisioned
<1>3. /\ SetupTyped' /\ family' = family /\ approval' = approval /\ broker' = broker
      /\ Natives' = Natives /\ Posted' = Posted
  BY <1>1, <1>2, RigidStays
<1>4. session \in Sessions /\ approval
  BY <1>1, <1>2, InCall DEF Routes
<1>5. session.target \in Targets /\ [ents |-> session.want, on |-> session.on] \in WishSet
  BY <1>4, CallFields DEF WishSet
<1>6. snapshot' \in [Targets -> WishSet] /\ gone' \subseteq Targets
  <2>1. snapshot \in [Targets -> WishSet] /\ gone \subseteq Targets /\ Absent \in WishSet
    BY <1>1 DEF WishesTyped, MarksTyped, WishSet
  <2> DEFINE t == session.target
  <2>2. CASE ~session.named
    <3>1. <<snapshot, gone>>' = <<snapshot, gone>>
      BY <2>2 DEF Provisioned
    <3>2. QED
      BY <2>1, <3>1
  <2>3. CASE session.named /\ session.op = "DELETE"
    <3>1. snapshot' = [snapshot EXCEPT ![t] = Absent] /\ gone' = gone \cup {t}
      BY <2>3 DEF Provisioned
    <3>2. QED
      BY <1>5, <2>1, <3>1
  <2>4. CASE session.named /\ session.op # "DELETE"
    <3>1. /\ snapshot' = [snapshot EXCEPT ![t] = [ents |-> session.want, on |-> session.on]]
          /\ gone' = IF session.op = "CREATE" THEN gone \ {t} ELSE gone
      BY <2>4 DEF Provisioned
    <3>2. QED
      BY <1>5, <2>1, <3>1
  <2>5. QED
    BY <2>2, <2>3, <2>4
<1>7. Held'
  BY <1>1, <1>2, <1>3, CloseKeeps
<1>8. MarksTyped'
  BY <1>1, <1>2, <1>4, <1>6, OutcomeIsTargets DEF MarksTyped, midpoint, consumer, orchestrator
<1>9. WishesTyped'
  BY <1>1, <1>2, <1>3, <1>6 DEF WishesTyped, midpoint
<1>10. MessagesTyped'
  BY <1>1, <1>2, <1>3 DEF MessagesTyped, consumer
<1>11. Routes'
  BY <1>1, <1>2, <1>3, <1>4 DEF Routes, Working, consumer
<1>12. QED
  BY <1>3, <1>7, <1>8, <1>9, <1>10, <1>11 DEF Inv

\* A call of the API that ends otherwise.
LEMMA ApiCallLost ==
  ASSUME Inv, session # Idle, session.by = "api", session' = Idle,
         excused' = excused \cup {session.target},
         UNCHANGED <<rigid, midpoint, consumer, orchestrator, seen, account>>
  PROVE  Inv'
<1>1. /\ SetupTyped /\ WishesTyped /\ MessagesTyped /\ MarksTyped /\ Routes /\ Held
      /\ todo \in Seq(Natives) /\ ops \in Seq(Natives)
      /\ todo # <<>> => Head(todo) \in Natives /\ Tail(todo) \in Seq(Natives)
  BY Before
<1>2. UNCHANGED rigid
  OBVIOUS
<1>3. /\ SetupTyped' /\ family' = family /\ approval' = approval /\ broker' = broker
      /\ Natives' = Natives /\ Posted' = Posted
  BY <1>1, <1>2, RigidStays
<1>4. session.target \in Targets
  BY <1>1, InCall, CallFields
<1>5. Held'
  BY <1>1, <1>3, CloseKeeps
<1>6. MarksTyped'
  BY <1>1, <1>4 DEF MarksTyped, midpoint, consumer, orchestrator
<1>7. WishesTyped'
  BY <1>1, <1>3 DEF WishesTyped, midpoint, orchestrator
<1>8. MessagesTyped'
  BY <1>1, <1>3 DEF MessagesTyped, consumer, orchestrator
<1>9. Routes'
  BY <1>1, <1>3 DEF Routes, Working, consumer, orchestrator, Nothing
<1>10. QED
  BY <1>3, <1>5, <1>6, <1>7, <1>8, <1>9 DEF Inv

LEMMA ConnectorSteps == ASSUME Inv, ConnectorStep PROVE Inv'
<1>1. /\ SetupTyped /\ WishesTyped /\ MessagesTyped /\ MarksTyped /\ Routes /\ Held
      /\ todo \in Seq(Natives) /\ ops \in Seq(Natives)
      /\ todo # <<>> => Head(todo) \in Natives /\ Tail(todo) \in Seq(Natives)
  BY Before
<1>2. /\ session # Idle
      /\ UNCHANGED <<rigid, midpoint, consumer, orchestrator, crashes, seen, excused>>
  BY DEF ConnectorStep
<1>3. /\ SetupTyped' /\ family' = family /\ approval' = approval /\ broker' = broker
      /\ Natives' = Natives /\ Posted' = Posted
  BY <1>1, <1>2, RigidStays
<1>4. /\ Held' /\ session' # Idle /\ session'.by = session.by
      /\ session'.target = session.target
  BY <1>1, ConnectorKeeps, IdleIsNoCall DEF GoesOn
<1>5. MarksTyped'
  BY <1>1, <1>2 DEF MarksTyped, midpoint, consumer, orchestrator
<1>6. WishesTyped'
  BY <1>1, <1>2, <1>3 DEF WishesTyped, midpoint, orchestrator
<1>7. MessagesTyped'
  BY <1>1, <1>2, <1>3 DEF MessagesTyped, consumer, orchestrator
<1>8. Routes'
  BY <1>1, <1>2, <1>3, <1>4 DEF Routes, Working, consumer, orchestrator, Nothing
<1>9. QED
  BY <1>3, <1>4, <1>5, <1>6, <1>7, <1>8 DEF Inv

LEMMA CrashConsumerStep == ASSUME Inv, CrashConsumer PROVE Inv'
<1>1. /\ SetupTyped /\ WishesTyped /\ MessagesTyped /\ MarksTyped /\ Routes /\ Held
      /\ todo \in Seq(Natives) /\ ops \in Seq(Natives)
      /\ todo # <<>> => Head(todo) \in Natives /\ Tail(todo) \in Seq(Natives)
  BY Before
<1>2. /\ taken' = NoMessage /\ todo' = <<>> /\ handled' = <<>> /\ cache' = {}
      /\ session' = IF Working THEN Idle ELSE session
      /\ UNCHANGED <<rigid, midpoint, recorded, orchestrator, seen, account>>
  BY DEF CrashConsumer
<1>3. /\ SetupTyped' /\ family' = family /\ approval' = approval /\ broker' = broker
      /\ Natives' = Natives /\ Posted' = Posted
  BY <1>1, <1>2, RigidStays
<1>4. Held'
  BY <1>1, <1>2, <1>3, CloseKeeps, IdlingKeeps
<1>5. InProgress \in Seq(Posted) /\ queue \in Seq(Posted) /\ handled \in Seq(Posted)
  BY <1>1 DEF InProgress, MessagesTyped
<1>6. queue' \in Seq(Posted) /\ excused' \subseteq Targets
  <2>1. excused \subseteq Targets
    BY <1>1 DEF MarksTyped, midpoint, consumer, orchestrator
  <2>2. CASE /\ queue' = InProgress \o queue
             /\ excused' = excused \cup {t \in Targets : snapshot[t] = Absent \/ InHand(t)}
    BY <1>5, <2>1, <2>2, ConcatProperties
  <2>3. ASSUME NEW n \in 0..Len(handled),
               excused' = IF todo # <<>> /\ taken \in recorded
                          THEN excused \cup {taken.task.target} ELSE excused,
               queue' = SubSeq(handled, n + 1, Len(handled)) \o InProgress \o queue
        PROVE  queue' \in Seq(Posted) /\ excused' \subseteq Targets
    <3>1. \A i \in (n + 1)..Len(handled) : handled[i] \in Posted
      BY <1>5
    <3>2. SubSeq(handled, n + 1, Len(handled)) \in Seq(Posted)
      BY <1>5, <3>1, SubSeqProperties
    <3>3. queue' \in Seq(Posted)
      BY <1>5, <2>3, <3>2, ConcatProperties
    <3>4. taken \in recorded => taken.task.target \in Targets
      BY <1>1 DEF MarksTyped, NativeMessages, SubMessages
    <3>5. QED
      BY <2>1, <2>3, <3>3, <3>4
  <2>4. CASE /\ broker = "kafka" /\ taken # NoMessage /\ queue' = queue
             /\ excused' = excused \cup {taken.task.target}
    <3>1. taken.task \in Natives
      BY <1>1, <2>4 DEF MessagesTyped, Posted, NativePosts
    <3>2. QED
      BY <1>5, <2>1, <2>4, <3>1, NativeFields
  <2>5. QED
    BY <2>2, <2>3, <2>4 DEF CrashConsumer
<1>7. MarksTyped'
  BY <1>1, <1>2, <1>6 DEF MarksTyped, midpoint, consumer, orchestrator
<1>8. WishesTyped'
  BY <1>1, <1>2, <1>3 DEF WishesTyped, midpoint, orchestrator
<1>9. MessagesTyped'
  BY <1>1, <1>2, <1>3, <1>6 DEF MessagesTyped, orchestrator
<1>10. Routes'
  BY <1>1, <1>2, <1>3 DEF Routes, Working, orchestrator, Nothing
<1>11. QED
  BY <1>3, <1>4, <1>7, <1>8, <1>9, <1>10 DEF Inv

LEMMA NextInv == Inv /\ [Next]_vars => Inv'
<1> SUFFICES ASSUME Inv, [Next]_vars PROVE Inv'
  OBVIOUS
<1>1. CASE ConsumerStep
  BY <1>1, TakeStep, TakeNativeStep, TakeAgainStep, CreateOperationStep, HandleSkippedStep, HandleApprovalStep, HandleNowStep,
     HandleDoneStep, HandleFailedStep, HandleRaisesStep, AckStep DEF ConsumerStep
<1>2. CASE ProvisioningFailed \/ CrashApi
  <2>1. CASE ProvisioningFailed
    BY <2>1, ApiCallLost DEF ProvisioningFailed
  <2>2. CASE CrashApi
    BY <2>2, ApiCallLost DEF CrashApi
  <2>3. QED
    BY <1>2, <2>1, <2>2
<1>3. CASE UNCHANGED vars
  <2>1. UNCHANGED <<rigid, midpoint, consumer, orchestrator, seen, excused, account, session>>
    BY <1>3 DEF vars
  <2>2. SetupTyped /\ WishesTyped /\ MessagesTyped /\ MarksTyped /\ Routes /\ Held
    BY Before
  <2>3. /\ SetupTyped' /\ family' = family /\ approval' = approval /\ broker' = broker
        /\ Natives' = Natives /\ Posted' = Posted
    BY <2>1, <2>2, RigidStays
  <2>4. Held'
    BY <2>1, <2>2, <2>3, IdlingKeeps
  <2>5. MarksTyped'
    BY <2>1, <2>2 DEF MarksTyped, midpoint, consumer, orchestrator
  <2>6. WishesTyped'
    BY <2>1, <2>2, <2>3 DEF WishesTyped, midpoint, orchestrator
  <2>7. MessagesTyped'
    BY <2>1, <2>2, <2>3 DEF MessagesTyped, consumer, orchestrator
  <2>8. Routes'
    BY <2>1, <2>2, <2>3 DEF Routes, Working, consumer, orchestrator, Nothing
  <2>9. QED
    BY <2>3, <2>4, <2>5, <2>6, <2>7, <2>8 DEF Inv
<1>4. QED
  BY <1>1, <1>2, <1>3, MidPointSteps, ConnectorSteps, ApproveStep, ProvisionedStep,
     CrashConsumerStep DEF Next

LEMMA InvIsType == Inv => DeliveryTypeOK
<1> SUFFICES ASSUME Inv PROVE DeliveryTypeOK
  OBVIOUS
<1>1. /\ SetupTyped /\ WishesTyped /\ MessagesTyped /\ MarksTyped /\ Routes /\ Held
      /\ queue \in Seq(Posted) /\ todo \in Seq(Natives) /\ ops \in Seq(Natives)
  BY Before
<1>2. \A i \in DOMAIN queue : queue[i] \in Messages
  BY <1>1, PostedIsMessage
<1>3. taken = NoMessage \/ taken \in Messages
  BY <1>1, PostedIsMessage DEF MessagesTyped
<1>4. (\A i \in DOMAIN todo : todo[i] \in SubMessages) /\ (\A i \in DOMAIN ops : ops[i] \in SubMessages)
  BY <1>1 DEF Natives
<1>5. SessionTypeOK /\ account \in [Targets -> Accounts]
  BY <1>1 DEF Held, SessionTyped, CallTyped, SessionTypeOK, AccountTyped
<1>6. IF approval THEN ~Working ELSE ops = <<>> /\ gone = {} /\ Holds(snapshot) = {}
  BY <1>1 DEF Routes, Holds, Nothing
<1>7. Working => taken # NoMessage /\ todo # <<>> /\ Head(todo).target = session.target
  BY <1>1 DEF Routes
<1>8. QED
  BY <1>1, <1>2, <1>3, <1>4, <1>5, <1>6, <1>7
  DEF DeliveryTypeOK, WishesTyped, MarksTyped, Routes

\* Messages, accounts and the connector's call stay what the proof outlines say of
\* them, whichever of the consumer, the API, a post or a crash takes the next step.
THEOREM AlwaysInv == Spec => []Inv
  BY InitInv, NextInv, PTL DEF Spec

(* Type correctness: the shape of every message on its way, of the accounts*)
(* and of the call in progress; with approval the consumer never makes a   *)
(* call itself, without it nothing ever waits.                             *)
THEOREM DeliveryTyped == Spec => []DeliveryTypeOK
  BY AlwaysInv, InvIsType, PTL

(* When a call of any of the five connectors returns success, the account  *)
(* is what the request asked for, whatever an earlier call that failed or  *)
(* was cut off left on it, and whatever was lost, repeated or reordered    *)
(* before.                                                                 *)
THEOREM SuccessKeepsItsWord == Spec => []SuccessIsExact
<1>1. Inv => SuccessIsExact
  BY HeldIsExact DEF Inv
<1>2. QED
  BY <1>1, AlwaysInv, PTL

===============================================================================
