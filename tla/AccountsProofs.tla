---------------------------- MODULE AccountsProofs ----------------------------
(***************************************************************************)
(* That the accounts follow MidPoint (AccountsAgree), for any targets of   *)
(* the five families, any entitlements, any number of messages and crashes *)
(* and every combination of faults: whichever way an operation goes, over  *)
(* the cache, Redis or removedRoles, and in whichever order operations of  *)
(* several messages are decided.                                           *)
(***************************************************************************)
EXTENDS DeliveryProofs

-----------------------------------------------------------------------------
\* AccountsAgree.  What the last of the operations on a target makes of it, and
\* what is known of an account where none is pending.

Pending(t) == Left(t, todo) \/ InHand(t)
LastIn(s, i, t) == /\ i \in DOMAIN s /\ s[i].target = t
                   /\ \A j \in DOMAIN s : j > i => s[j].target # t
BoundFor(t, w) ==
    /\ \A i \in DOMAIN todo : todo[i].target = t => Meets(todo[i], w)
    /\ ~Left(t, todo) => /\ \A i \in DOMAIN ops : LastIn(ops, i, t) => Meets(ops[i], w)
                         /\ ~Waiting(t) /\ Running(t) => Meets(session, w)
                         /\ ~InHand(t) => Agrees(t, w)
Bare(t) == ~Usable(t) \/ account[t].member = {}

\* The consumer has a message of the target before it, one it will not drop.
Behind(t) == IF broker = "kafka"
             THEN /\ ~Left(t, todo)
                  /\ \E i \in DOMAIN queue : queue[i].task.target = t /\ queue[i] \notin recorded
             ELSE taken = NoMessage /\ queue # <<>>
\* The departure of the target, if there is to be one, finds it.
Traced(t) == \/ BoundFor(t, Absent) \/ t \in cache
             \/ cache = {} /\ snapshot[t] # Absent /\ ~Pending(t)
Follows(t) ==
    /\ ~Behind(t) => BoundFor(t, seen[t])
    /\ broker = "rabbitmq" => Traced(t)
    /\ ~InHand(t) /\ snapshot[t] # Absent =>
          /\ Agrees(t, snapshot[t])
          /\ t \in cleanup /\ family[t] # "odoo" /\ snapshot[t].ents = {} => Bare(t)
FollowInv == \A t \in Targets \ excused : Follows(t)

-----------------------------------------------------------------------------
\* A call that is done has done what its operation is for.

LEMMA MeetsIs ==
  ASSUME NEW s, NEW w, Meets(s, w), w # Absent
  PROVE  s.op # "DELETE" /\ w.ents = s.want /\ w.on = s.on
  BY DEF Meets

LEMMA DoneSettles ==
  ASSUME Held, session.pc = "done", ~session.refused, session.named,
         ~Enables(session),
         NEW w, Meets(session, w)
  PROVE  Agrees(session.target, w)
<1> DEFINE s == session
           t == session.target
           f == family[t]
           a == account[t]
<1>1. session # Idle
  BY DEF Idle
<1>2. s \in Sessions /\ Plan(f, s, a) /\ Fits(f, a) /\ a \in Accounts
  BY <1>1, InCall DEF Here
<1>3. /\ s.op = "DELETE" => GoneFrom(f, a)
      /\ s.op # "DELETE" => AsAsked(f, s, a)
  BY <1>2 DEF Plan, DonePlan
<1>4. CASE s.op = "DELETE"
  <2>1. w = Absent
    BY <1>4 DEF Meets
  <2>2. ~Usable(t)
    BY <1>3, <1>4, NoAccountIsOne DEF GoneFrom, Usable
  <2>3. QED
    BY <2>1, <2>2 DEF Agrees
<1>5. CASE s.op # "DELETE" /\ w # Absent
  <2>1. w.ents = s.want /\ w.on = s.on
    BY <1>5, MeetsIs
  <2>2. a.exists \/ (f = "ldap" /\ s.want = {})
    BY <1>3, <1>5 DEF AsAsked
  <2>3. CASE Disables(t) /\ f # "odoo"
    <3>1. s.op \in Operations /\ s.on \in BOOLEAN /\ a.enabled \in BOOLEAN
      BY <1>2, CallFields, AccountFields
    <3>2. Switched(s, a)
      BY <1>3, <1>5, <2>3 DEF Disables, AsAsked
    <3>3. s.on \/ s.op = "UPDATE"
      BY <1>5, <3>1 DEF Enables, Operations
    <3>4. a.enabled = s.on
      BY <3>1, <3>2, <3>3 DEF Switched
    <3>5. QED
      BY <1>5, <2>1, <2>2, <2>3, <3>4 DEF Agrees, Usable, Disables
  <2>4. CASE f = "odoo"
    <3>1. s.op \in Operations /\ s.on \in BOOLEAN /\ a.enabled \in BOOLEAN
      BY <1>2, CallFields, AccountFields
    <3>2. (s.before.exists => Switched(s, a)) /\ (s.on => a.enabled)
      BY <1>3, <1>5, <2>4 DEF AsAsked
    <3>3. s.on \/ (s.op = "UPDATE" /\ s.before.exists)
      BY <1>5, <2>4, <3>1 DEF Enables, Operations
    <3>4. a.enabled = s.on
      BY <3>1, <3>2, <3>3 DEF Switched
    <3>5. QED
      BY <1>5, <2>1, <2>2, <2>4, <3>4 DEF Agrees, Usable, Disables
  <2>5. CASE ~Disables(t)
    BY <1>5, <2>1, <2>2, <2>5 DEF Agrees, Usable, Disables
  <2>6. QED
    BY <2>3, <2>4, <2>5
<1>6. CASE s.op # "DELETE" /\ w = Absent
  <2>1. s.op = "UPDATE" /\ t \in cleanup /\ s.want = {}
    BY <1>6, DeliveryAssumption, CallFields, <1>2 DEF Meets
  <2>2. f # "odoo" => ~Usable(t) \/ a.member = {}
    BY <1>2, <1>3, <2>1 DEF Plan, PgPlan, LdapPlan, AsAsked, Usable, Has, Asks, Kept, LdapKept, Priv, Role
  <2>3. QED
    BY <1>6, <2>1, <2>2 DEF Agrees
<1>7. QED
  BY <1>4, <1>5, <1>6

LEMMA DoneBares ==
  ASSUME Held, session.pc = "done", ~session.refused, session.named, session.op # "DELETE",
         session.want = {}, family[session.target] # "odoo",
         session.op = "CREATE" => session.before.member = {}
  PROVE  Bare(session.target)
<1> DEFINE s == session
           t == session.target
           f == family[t]
           a == account[t]
<1>1. session # Idle
  BY DEF Idle
<1>2. s \in Sessions /\ Plan(f, s, a) /\ s.op \in {"CREATE", "UPDATE"}
  BY <1>1, InCall, CallFields DEF Here, Operations
<1>3. AsAsked(f, s, a)
  BY <1>2 DEF Plan, DonePlan
<1>4. CASE f = "postgresql"
  BY <1>2, <1>4 DEF Plan, PgPlan, Role, Bare
<1>5. CASE f = "ldap"
  BY <1>2, <1>3, <1>5 DEF Plan, LdapPlan, AsAsked, Usable, Has, Asks, Kept, LdapKept, Bare
<1>6. CASE f \notin {"postgresql", "ldap"}
  BY <1>2, <1>3, <1>6 DEF AsAsked, Has, Asks, Kept, Role, Priv, Bare
<1>7. QED
  BY <1>4, <1>5, <1>6

-----------------------------------------------------------------------------
\* Sequences of operations: the first is taken off, one is added or taken out.

Distinct(s) == \A i, j \in DOMAIN s : s[i].target = s[j].target => i = j
Without(s, i) == SubSeq(s, 1, i - 1) \o SubSeq(s, i + 1, Len(s))

LEMMA TailOf ==
  ASSUME NEW S, NEW s \in Seq(S), s # <<>>, Distinct(s)
  PROVE  /\ Distinct(Tail(s)) /\ Left(Head(s).target, s) /\ Head(s) = s[1] /\ 1 \in DOMAIN s
         /\ \A i \in DOMAIN Tail(s) : i + 1 \in DOMAIN s /\ Tail(s)[i] = s[i + 1]
         /\ \A t : Left(t, Tail(s)) <=> Left(t, s) /\ t # Head(s).target
<1>1. /\ Tail(s) \in Seq(S) /\ Len(Tail(s)) = Len(s) - 1
      /\ \A i \in 1..Len(Tail(s)) : Tail(s)[i] = s[i + 1]
  BY HeadTailProperties
<1>2. DOMAIN s = 1..Len(s) /\ DOMAIN Tail(s) = 1..Len(Tail(s)) /\ Len(s) \in Nat /\ Len(s) >= 1
  BY <1>1
<1>3. \A i \in DOMAIN Tail(s) : i + 1 \in DOMAIN s /\ i \in Nat /\ Tail(s)[i] = s[i + 1]
  BY <1>1, <1>2
<1>4. Head(s) = s[1] /\ 1 \in DOMAIN s
  BY <1>2
<1>5. Distinct(Tail(s))
  <2>1. SUFFICES ASSUME NEW i \in DOMAIN Tail(s), NEW j \in DOMAIN Tail(s),
                        Tail(s)[i].target = Tail(s)[j].target
                 PROVE  i = j
    BY DEF Distinct
  <2>2. s[i + 1].target = s[j + 1].target /\ i + 1 \in DOMAIN s /\ j + 1 \in DOMAIN s
    BY <1>3, <2>1
  <2>3. i + 1 = j + 1
    BY <2>2 DEF Distinct
  <2>4. QED
    BY <1>3, <2>3
<1>6. ASSUME NEW t PROVE Left(t, Tail(s)) <=> Left(t, s) /\ t # Head(s).target
  <2>1. ASSUME NEW i \in DOMAIN Tail(s), Tail(s)[i].target = t
        PROVE  Left(t, s) /\ t # Head(s).target
    <3>1. i + 1 \in DOMAIN s /\ s[i + 1].target = t /\ i \in Nat /\ i >= 1
      BY <1>2, <1>3, <2>1
    <3>2. s[1].target # t
      BY <1>4, <3>1 DEF Distinct
    <3>3. QED
      BY <1>4, <3>1, <3>2 DEF Left
  <2>2. ASSUME NEW i \in DOMAIN s, s[i].target = t, t # Head(s).target
        PROVE  Left(t, Tail(s))
    <3>1. i # 1
      BY <1>4, <2>2
    <3>2. i - 1 \in DOMAIN Tail(s) /\ i = (i - 1) + 1
      BY <1>1, <1>2, <3>1
    <3>3. Tail(s)[i - 1] = s[i]
      BY <1>3, <3>2
    <3>4. QED
      BY <2>2, <3>2, <3>3 DEF Left
  <2>3. QED
    BY <2>1, <2>2 DEF Left
<1>7. Left(Head(s).target, s)
  BY <1>4 DEF Left
<1>8. QED
  BY <1>3, <1>4, <1>5, <1>6, <1>7

LEMMA AppendOf ==
  ASSUME NEW S, NEW s \in Seq(S), NEW m \in S
  PROVE  LET n == Append(s, m)
         IN /\ \A i \in DOMAIN s : i \in DOMAIN n /\ n[i] = s[i]
            /\ Len(s) + 1 \in DOMAIN n /\ n[Len(s) + 1] = m
            /\ \A i \in DOMAIN n : i \in DOMAIN s \/ i = Len(s) + 1
            /\ \A i, t : LastIn(n, i, t) => IF t = m.target THEN i = Len(s) + 1 ELSE LastIn(s, i, t)
<1> DEFINE n == Append(s, m)
<1>1. /\ n \in Seq(S) /\ Len(n) = Len(s) + 1 /\ DOMAIN s = 1..Len(s) /\ DOMAIN n = 1..Len(n)
      /\ \A i \in 1..Len(s) : n[i] = s[i]
      /\ n[Len(s) + 1] = m /\ Len(s) \in Nat
  BY AppendProperties
<1> HIDE DEF n
<1>2. /\ \A i \in DOMAIN s : i \in DOMAIN n /\ n[i] = s[i] /\ Len(s) + 1 > i
      /\ Len(s) + 1 \in DOMAIN n
      /\ \A i \in DOMAIN n : i \in DOMAIN s \/ i = Len(s) + 1
  BY <1>1
<1>3. ASSUME NEW i, NEW t, LastIn(n, i, t)
      PROVE  IF t = m.target THEN i = Len(s) + 1 ELSE LastIn(s, i, t)
  <2>1. i \in DOMAIN n /\ n[i].target = t /\ \A j \in DOMAIN n : j > i => n[j].target # t
    BY <1>3 DEF LastIn
  <2>2. CASE t = m.target
    BY <1>1, <1>2, <2>1, <2>2
  <2>3. CASE t # m.target
    BY <1>1, <1>2, <2>1, <2>3 DEF LastIn
  <2>4. QED
    BY <2>2, <2>3
<1>4. QED
  BY <1>1, <1>2, <1>3 DEF n

LEMMA WithoutOf ==
  ASSUME NEW S, NEW s \in Seq(S), NEW i \in DOMAIN s
  PROVE  LET n == Without(s, i)
             Old(j) == IF j < i THEN j ELSE j + 1
         IN /\ n \in Seq(S)
            /\ \A j \in DOMAIN n : Old(j) \in DOMAIN s \ {i} /\ n[j] = s[Old(j)]
            /\ \A j \in DOMAIN s \ {i} : \E k \in DOMAIN n : j = Old(k)
            /\ \A j, k \in DOMAIN n : j < k => Old(j) < Old(k)
            /\ \A j, k \in DOMAIN n : Old(j) < Old(k) => j < k
<1> DEFINE n == Without(s, i)
           Old(j) == IF j < i THEN j ELSE j + 1
           p == SubSeq(s, 1, i - 1)
           q == SubSeq(s, i + 1, Len(s))
<1>1. DOMAIN s = 1..Len(s) /\ Len(s) \in Nat /\ i \in 1..Len(s)
  OBVIOUS
<1>2. p \in Seq(S) /\ Len(p) = i - 1 /\ \A j \in 1..(i - 1) : p[j] = s[j]
  <2>1. \A j \in 1..(i - 1) : s[j] \in S
    BY <1>1
  <2>2. /\ p \in Seq(S) /\ Len(p) = IF 1 <= i - 1 THEN (i - 1) - 1 + 1 ELSE 0
        /\ \A j \in 1..((i - 1) - 1 + 1) : p[j] = s[1 + j - 1]
    BY <1>1, <2>1, SubSeqProperties
  <2>3. QED
    BY <1>1, <2>2
<1>3. q \in Seq(S) /\ Len(q) = Len(s) - i /\ \A j \in 1..(Len(s) - i) : q[j] = s[i + j]
  <2>1. \A j \in (i + 1)..Len(s) : s[j] \in S
    BY <1>1
  <2>2. /\ q \in Seq(S) /\ Len(q) = IF i + 1 <= Len(s) THEN Len(s) - (i + 1) + 1 ELSE 0
        /\ \A j \in 1..(Len(s) - (i + 1) + 1) : q[j] = s[(i + 1) + j - 1]
    BY <1>1, <2>1, SubSeqProperties
  <2>3. QED
    BY <1>1, <2>2
<1> HIDE DEF p, q
<1>4. /\ n \in Seq(S) /\ Len(n) = Len(p) + Len(q)
      /\ \A j \in 1..Len(p) + Len(q) : n[j] = IF j <= Len(p) THEN p[j] ELSE q[j - Len(p)]
  BY <1>2, <1>3, ConcatProperties DEF Without, p, q
<1> HIDE DEF n
<1>5. DOMAIN n = 1..(Len(s) - 1)
  BY <1>1, <1>2, <1>3, <1>4
<1>6. ASSUME NEW j \in DOMAIN n PROVE Old(j) \in DOMAIN s \ {i} /\ n[j] = s[Old(j)]
  <2>1. Old(j) \in DOMAIN s \ {i}
    BY <1>1, <1>5
  <2>2. CASE j < i
    BY <1>1, <1>2, <1>3, <1>4, <1>5, <2>2
  <2>3. CASE ~(j < i)
    <3>1. j - Len(p) \in 1..(Len(s) - i) /\ ~(j <= Len(p)) /\ i + (j - Len(p)) = j + 1
      BY <1>1, <1>2, <1>5, <2>3
    <3>2. n[j] = q[j - Len(p)]
      BY <1>1, <1>2, <1>3, <1>4, <1>5, <3>1
    <3>3. q[j - Len(p)] = s[j + 1]
      BY <1>3, <3>1
    <3>4. QED
      BY <2>1, <2>3, <3>2, <3>3
  <2>4. QED
    BY <2>1, <2>2, <2>3
<1>7. ASSUME NEW j \in DOMAIN s \ {i} PROVE \E k \in DOMAIN n : j = Old(k)
  <2>1. CASE j < i
    <3>1. j \in DOMAIN n /\ j = Old(j)
      BY <1>1, <1>5, <2>1
    <3>2. QED
      BY <3>1
  <2>2. CASE ~(j < i)
    <3>1. j - 1 \in DOMAIN n /\ j = Old(j - 1)
      BY <1>1, <1>5, <2>2
    <3>2. QED
      BY <3>1
  <2>3. QED
    BY <2>1, <2>2
<1>8. \A j, k \in DOMAIN n : (j < k => Old(j) < Old(k)) /\ (Old(j) < Old(k) => j < k)
  BY <1>1, <1>5
<1>9. QED
  BY <1>4, <1>6, <1>7, <1>8 DEF n

-----------------------------------------------------------------------------
\* What else is known: of the operations of one message, of the last message,
\* of the first one, and of creations without groups.

SameOp(s, m) == s.op = m.op /\ s.want = m.want /\ s.on = m.on
Lines ==
    /\ Distinct(todo)
    /\ Working => SameOp(session, Head(todo))
    /\ broker = "kafka" => \A i \in DOMAIN todo : todo[i].target = taken.task.target
    /\ broker = "rabbitmq" =>
          /\ \A i \in DOMAIN queue : queue[i].op = "DELETE" => queue[i].want = Nothing
          /\ taken # NoMessage /\ taken.op = "DELETE" => taken.want = Nothing

\* A target to be cleaned up is left by a DELETE of the user only, which is the end.
Closed == posts = MaxPosts(faults, approval)
Over == /\ Closed /\ \A i \in DOMAIN queue : queue[i].op = "DELETE"
        /\ taken # NoMessage => taken.op = "DELETE"
Leaves(t) == \/ t \in gone \/ (Running(t) /\ session.op = "DELETE")
             \/ \E i \in DOMAIN ops : ops[i].target = t /\ ops[i].op = "DELETE"
             \/ \E i \in DOMAIN todo : todo[i].target = t /\ todo[i].op = "DELETE"
End == broker = "rabbitmq" =>
    /\ posts \in Nat
    /\ \A i \in DOMAIN queue : queue[i].op = "DELETE" => i = Len(queue) /\ Closed
    /\ taken # NoMessage /\ taken.op = "DELETE" =>
          queue = <<>> /\ Closed /\ \A i \in DOMAIN todo : todo[i].op = "DELETE"
    /\ \A t \in cleanup : Leaves(t) => Over

\* Everything there is comes from the message m, the creation of the user.
Given(m, t) == IF m.want[t] = Absent THEN {} ELSE m.want[t].ents
Creates(s, m) == s.op = "CREATE" /\ s.want = Given(m, s.target)
FromFirst(m) ==
    /\ gone = {}
    /\ \A t \in Targets : account[t].member \subseteq Given(m, t)
    /\ \A t \in Targets \ TargetsForMessage(m) : account[t] = NoAccount /\ ~InHand(t)
    /\ \A i \in DOMAIN ops : Creates(ops[i], m)
    /\ session # Idle => /\ Creates(session, m)
                         /\ session.before.member \subseteq Given(m, session.target)
AllOf(m) == \A i \in DOMAIN todo : Creates(todo[i], m) /\ todo[i].target \in TargetsForMessage(m)
Blank == /\ queue = <<>> /\ taken = NoMessage /\ ops = <<>> /\ session = Idle /\ gone = {}
         /\ \A t \in Targets : account[t] = NoAccount
Queued(m) == \E i \in DOMAIN queue : queue[i] = m
Start == broker = "rabbitmq" =>
    /\ posts = 0 => Blank
    /\ \A i \in DOMAIN queue : queue[i].op = "CREATE" =>
          i = 1 /\ taken = NoMessage /\ \A t \in Targets \ excused : ~InHand(t)
    /\ \A m \in UserPosts : m.op = "CREATE" =>
          /\ Queued(m) => FromFirst(m)
          /\ taken = m => FromFirst(m) /\ AllOf(m)

\* A creation without groups finds the account of a target to be cleaned up without.
EmptyCreate(s) == s.op = "CREATE" /\ s.want = {}
FirstIn(s, i, t) == \A j \in DOMAIN s : j < i => s[j].target # t
CleanFor(t) ==
    /\ \A i \in DOMAIN todo : todo[i].target = t /\ EmptyCreate(todo[i]) =>
          ~InHand(t) /\ account[t].member = {}
    /\ \A i \in DOMAIN ops : ops[i].target = t /\ EmptyCreate(ops[i]) =>
          ~Running(t) /\ account[t].member = {} /\ FirstIn(ops, i, t)
    /\ Running(t) /\ EmptyCreate(session) => session.before.member = {}
CleanInv == approval => \A t \in cleanup \ excused : CleanFor(t)

Rest == Lines /\ End /\ Start /\ CleanInv /\ FollowInv

-----------------------------------------------------------------------------
\* What a step leaves alone on a target.

SameTodo(t) ==
    /\ \A i \in DOMAIN todo' : todo'[i].target = t => \E j \in DOMAIN todo : todo'[i] = todo[j]
    /\ Left(t, todo') <=> Left(t, todo)
SameOps(t) ==
    /\ \A i \in DOMAIN ops' : ops'[i].target = t =>
          \E j \in DOMAIN ops : /\ ops'[i] = ops[j]
                                /\ LastIn(ops', i, t) => LastIn(ops, j, t)
                                /\ FirstIn(ops, j, t) => FirstIn(ops', i, t)
    /\ Waiting(t)' <=> Waiting(t)
SameCall(t) ==
    /\ Running(t)' <=> Running(t)
    /\ Running(t) => SameOp(session', session) /\ session'.before = session.before
    /\ ~Running(t) => account'[t] = account[t]
Same(t) == SameTodo(t) /\ SameOps(t) /\ SameCall(t)

LEMMA TodoStays == ASSUME NEW t, todo' = todo PROVE SameTodo(t)
  BY DEF SameTodo
LEMMA OpsStay == ASSUME NEW t, ops' = ops PROVE SameOps(t)
  BY DEF SameOps, Waiting
LEMMA CallStays == ASSUME NEW t, session' = session, account' = account PROVE SameCall(t)
  BY DEF SameCall, Running, SameOp
LEMMA CallElsewhere ==
  ASSUME NEW t, account' = account, session = Idle \/ session.target # t,
         session' = Idle \/ session'.target # t
  PROVE  SameCall(t)
  BY DEF SameCall, Running

LEMMA TodoTail ==
  ASSUME todo \in Seq(Natives), todo # <<>>, Distinct(todo), todo' = Tail(todo),
         NEW t, t # Head(todo).target
  PROVE  SameTodo(t)
<1>1. \A i \in DOMAIN Tail(todo) : i + 1 \in DOMAIN todo /\ Tail(todo)[i] = todo[i + 1]
  BY TailOf
<1>2. Left(t, Tail(todo)) <=> Left(t, todo)
  BY TailOf
<1>3. QED
  BY <1>1, <1>2 DEF SameTodo

LEMMA TodoDropped ==
  ASSUME todo' = <<>>, NEW t, ~Left(t, todo)
  PROVE  SameTodo(t)
  BY DEF SameTodo, Left

LEMMA OpsAppend ==
  ASSUME ops \in Seq(Natives), NEW m \in Natives, ops' = Append(ops, m), NEW t, t # m.target
  PROVE  SameOps(t)
<1>1. /\ \A i \in DOMAIN ops : i \in DOMAIN ops' /\ ops'[i] = ops[i]
      /\ Len(ops) + 1 \in DOMAIN ops' /\ ops'[Len(ops) + 1] = m
      /\ \A i \in DOMAIN ops' : i \in DOMAIN ops \/ i = Len(ops) + 1
      /\ \A i : LastIn(ops', i, t) => LastIn(ops, i, t)
  BY AppendOf
<1>2. Waiting(t)' <=> Waiting(t)
  BY <1>1 DEF Waiting
<1>3. ASSUME NEW i \in DOMAIN ops', ops'[i].target = t
      PROVE  /\ i \in DOMAIN ops /\ ops'[i] = ops[i]
             /\ FirstIn(ops, i, t) => FirstIn(ops', i, t)
  <2>1. i \in DOMAIN ops /\ ops'[i] = ops[i]
    BY <1>1, <1>3
  <2>2. \A j \in DOMAIN ops' : j \in DOMAIN ops \/ ops'[j].target # t
    BY <1>1
  <2>3. QED
    BY <1>1, <2>1, <2>2 DEF FirstIn
<1>4. QED
  BY <1>1, <1>2, <1>3 DEF SameOps

LEMMA OpsWithout ==
  ASSUME ops \in Seq(Natives), NEW i \in DOMAIN ops, ops' = Without(ops, i),
         NEW t, t # ops[i].target
  PROVE  SameOps(t)
<1> DEFINE Old(j) == IF j < i THEN j ELSE j + 1
<1>1. /\ ops' \in Seq(Natives)
      /\ \A j \in DOMAIN ops' : Old(j) \in DOMAIN ops \ {i} /\ ops'[j] = ops[Old(j)]
      /\ \A j \in DOMAIN ops \ {i} : \E k \in DOMAIN ops' : j = Old(k)
      /\ \A j, k \in DOMAIN ops' : j < k => Old(j) < Old(k)
      /\ \A j, k \in DOMAIN ops' : Old(j) < Old(k) => j < k
  BY WithoutOf
<1> HIDE DEF Old
<1>2. \A j \in DOMAIN ops : j = i \/ \E k \in DOMAIN ops' : j = Old(k) /\ ops'[k] = ops[j]
  BY <1>1
<1>3. Waiting(t)' <=> Waiting(t)
  BY <1>1, <1>2 DEF Waiting
<1>4. ASSUME NEW j \in DOMAIN ops', ops'[j].target = t
      PROVE  /\ LastIn(ops', j, t) => LastIn(ops, Old(j), t)
             /\ FirstIn(ops, Old(j), t) => FirstIn(ops', j, t)
  <2>1. ASSUME LastIn(ops', j, t) PROVE LastIn(ops, Old(j), t)
    <3>1. ASSUME NEW h \in DOMAIN ops, h > Old(j) PROVE ops[h].target # t
      <4>1. CASE h = i
        BY <4>1
      <4>2. CASE h # i
        <5>1. PICK k \in DOMAIN ops' : h = Old(k) /\ ops'[k] = ops[h]
          BY <1>2, <4>2
        <5>2. Old(j) \in Int /\ h \in Int /\ j \in Int /\ k \in Int
          BY <1>1
        <5>3. k > j
          BY <1>1, <3>1, <5>1, <5>2
        <5>4. QED
          BY <2>1, <5>1, <5>3 DEF LastIn
      <4>3. QED
        BY <4>1, <4>2
    <3>2. QED
      BY <1>1, <1>4, <3>1 DEF LastIn
  <2>2. ASSUME FirstIn(ops, Old(j), t) PROVE FirstIn(ops', j, t)
    BY <1>1, <2>2 DEF FirstIn
  <2>3. QED
    BY <2>1, <2>2
<1>5. QED
  BY <1>1, <1>3, <1>4 DEF SameOps

LEMMA SameBound ==
  ASSUME NEW t, NEW w, Same(t), BoundFor(t, w), family' = family, cleanup' = cleanup
  PROVE  BoundFor(t, w)'
<1>1. ASSUME NEW i \in DOMAIN todo', todo'[i].target = t PROVE Meets(todo[i], w)'
  BY <1>1 DEF Same, SameTodo, BoundFor, Meets
<1>2. ASSUME ~Left(t, todo'), NEW i \in DOMAIN ops', LastIn(ops', i, t) PROVE Meets(ops[i], w)'
  <2>1. ops'[i].target = t
    BY <1>2 DEF LastIn
  <2>2. PICK j \in DOMAIN ops : ops'[i] = ops[j] /\ LastIn(ops, j, t)
    BY <1>2, <2>1 DEF Same, SameOps
  <2>3. Meets(ops[j], w)
    BY <1>2, <2>2 DEF Same, SameTodo, BoundFor
  <2>4. QED
    BY <2>2, <2>3 DEF Meets
<1>3. ASSUME ~Left(t, todo'), ~Waiting(t)', Running(t)' PROVE Meets(session, w)'
  <2>1. Meets(session, w) /\ SameOp(session', session)
    BY <1>3 DEF Same, SameTodo, SameOps, SameCall, BoundFor
  <2>2. session'.target = t /\ session.target = t
    BY <1>3 DEF Running, Same, SameCall
  <2>3. QED
    BY <2>1, <2>2 DEF Meets, SameOp
<1>4. ASSUME ~Left(t, todo'), ~InHand(t)' PROVE Agrees(t, w)'
  <2>1. ~Left(t, todo) /\ ~InHand(t) /\ account'[t] = account[t]
    BY <1>4 DEF Same, SameTodo, SameOps, SameCall, InHand
  <2>2. Agrees(t, w)
    BY <2>1 DEF BoundFor
  <2>3. QED
    BY <2>1, <2>2 DEF Agrees, Disables, Usable
<1>5. QED
  BY <1>1, <1>2, <1>3, <1>4 DEF BoundFor

LEMMA SameHand ==
  ASSUME NEW t, Same(t)
  PROVE  (InHand(t)' <=> InHand(t)) /\ (Pending(t)' <=> Pending(t))
  BY DEF Same, SameTodo, SameOps, SameCall, InHand, Pending

LEMMA BoundSeen ==
  ASSUME NEW t, NEW w, w = seen'[t], BoundFor(t, w)'
  PROVE  BoundFor(t, seen[t])'
  BY DEF BoundFor, Agrees, Disables, Usable, Meets

LEMMA SameFollows ==
  ASSUME NEW t, Same(t), Follows(t), family' = family, cleanup' = cleanup, broker' = broker,
         seen'[t] = seen[t], snapshot'[t] = snapshot[t], cache' = cache \/ broker = "kafka",
         Behind(t) => Behind(t)'
  PROVE  Follows(t)'
<1>1. (InHand(t)' <=> InHand(t)) /\ (Pending(t)' <=> Pending(t))
  BY SameHand
<1>2. ~Behind(t)' => BoundFor(t, seen[t])'
  <2>1. ASSUME NEW w, w = seen[t], BoundFor(t, w) PROVE BoundFor(t, seen[t])'
    BY <2>1, SameBound, BoundSeen
  <2>2. QED
    BY <2>1 DEF Follows
<1>3. broker' = "rabbitmq" => Traced(t)'
  <2>1. BoundFor(t, Absent) => BoundFor(t, Absent)'
    BY SameBound
  <2>2. QED
    BY <1>1, <2>1 DEF Follows, Traced
<1>4. ASSUME ~InHand(t)', snapshot'[t] # Absent
      PROVE  /\ Agrees(t, snapshot[t])'
             /\ t \in cleanup' /\ family'[t] # "odoo" /\ snapshot'[t].ents = {} => Bare(t)'
  <2>1. /\ ~InHand(t) /\ Agrees(t, snapshot[t])
        /\ t \in cleanup /\ family[t] # "odoo" /\ snapshot[t].ents = {} => Bare(t)
    BY <1>1, <1>4 DEF Follows
  <2>2. account'[t] = account[t]
    BY <2>1 DEF InHand, Same, SameCall
  <2>3. QED
    BY <2>1, <2>2 DEF Agrees, Disables, Usable, Bare
<1>5. QED
  BY <1>2, <1>3, <1>4 DEF Follows

LEMMA SameClean ==
  ASSUME NEW t, Same(t), CleanFor(t)
  PROVE  CleanFor(t)'
<1>1. (InHand(t)' <=> InHand(t)) /\ (Running(t)' <=> Running(t))
  BY SameHand DEF Same, SameCall
<1>2. ASSUME NEW i \in DOMAIN todo', todo'[i].target = t, EmptyCreate(todo'[i])
      PROVE  ~InHand(t)' /\ account'[t].member = {}
  <2>1. ~InHand(t) /\ account[t].member = {}
    BY <1>2 DEF Same, SameTodo, CleanFor
  <2>2. QED
    BY <1>1, <2>1 DEF InHand, Same, SameCall
<1>3. ASSUME NEW i \in DOMAIN ops', ops'[i].target = t, EmptyCreate(ops'[i])
      PROVE  ~Running(t)' /\ account'[t].member = {} /\ FirstIn(ops', i, t)
  <2>1. PICK j \in DOMAIN ops : ops'[i] = ops[j] /\ (FirstIn(ops, j, t) => FirstIn(ops', i, t))
    BY <1>3 DEF Same, SameOps
  <2>2. ~Running(t) /\ account[t].member = {} /\ FirstIn(ops, j, t)
    BY <1>3, <2>1 DEF CleanFor
  <2>3. QED
    BY <1>1, <2>1, <2>2 DEF Same, SameCall
<1>4. Running(t)' /\ EmptyCreate(session') => session'.before.member = {}
  BY <1>1 DEF CleanFor, Same, SameCall, SameOp, EmptyCreate
<1>5. QED
  BY <1>2, <1>3, <1>4 DEF CleanFor

-----------------------------------------------------------------------------
\* The first state, and the steps that change no operation and no account.

LEMMA RestInit == Init => Rest
<1> SUFFICES ASSUME Init PROVE Rest
  OBVIOUS
<1>1. /\ todo = <<>> /\ queue = <<>> /\ taken = NoMessage /\ ops = <<>> /\ session = Idle
      /\ posts = 0 /\ seen = Nothing /\ snapshot = Nothing /\ gone = {}
      /\ \A t \in Targets : account[t] = NoAccount
  BY DEF Init
<1>2. \A t : ~Waiting(t) /\ ~Running(t) /\ ~InHand(t) /\ ~Left(t, todo) /\ ~Pending(t)
  BY <1>1 DEF Waiting, Running, InHand, Left, Pending
<1>3. \A t \in Targets : Agrees(t, Absent)
  BY <1>1, NoAccountIsOne DEF Agrees, Usable
<1>4. \A t \in Targets : BoundFor(t, Absent)
  BY <1>1, <1>2, <1>3 DEF BoundFor
<1>5. FollowInv
  <2>1. ASSUME NEW t \in Targets PROVE Follows(t)
    <3>1. seen[t] = Absent /\ snapshot[t] = Absent
      BY <1>1 DEF Nothing
    <3>2. BoundFor(t, seen[t])
      BY <1>4, <3>1
    <3>3. QED
      BY <1>4, <3>1, <3>2 DEF Follows, Traced
  <2>2. QED
    BY <2>1 DEF FollowInv
<1>6. Lines
  BY <1>1 DEF Lines, Distinct, Working
<1>7. End
  BY <1>1, <1>2 DEF End, Leaves
<1>8. Start
  <2>1. \A m \in UserPosts : ~Queued(m) /\ taken # m
    BY <1>1, DeliveryAssumption DEF Queued, UserPosts, UserMessages, Messages
  <2>2. QED
    BY <1>1, <2>1 DEF Start, Blank
<1>9. CleanInv
  BY <1>1, <1>2 DEF CleanInv, CleanFor
<1>10. QED
  BY <1>5, <1>6, <1>7, <1>8, <1>9 DEF Rest

LEMMA QuietRest ==
  ASSUME FollowInv, CleanInv,
         UNCHANGED <<rigid, todo, ops, session, account, excused, snapshot, cache, seen>>,
         \A t \in Targets : Behind(t) => Behind(t)'
  PROVE  FollowInv' /\ CleanInv'
<1>1. \A t : Same(t)
  BY TodoStays, OpsStay, CallStays DEF Same
<1>2. family' = family /\ cleanup' = cleanup /\ broker' = broker /\ approval' = approval
  BY DEF rigid
<1>3. FollowInv'
  <2>1. ASSUME NEW t \in Targets \ excused' PROVE Follows(t)'
    <3>1. Follows(t)
      BY <2>1 DEF FollowInv
    <3>2. QED
      BY <1>1, <1>2, <3>1, SameFollows
  <2>2. QED
    BY <2>1 DEF FollowInv
<1>4. CleanInv'
  <2>1. ASSUME approval, NEW t \in cleanup \ excused PROVE CleanFor(t)'
    BY <1>1, <2>1, SameClean DEF CleanInv
  <2>2. QED
    BY <1>2, <2>1 DEF CleanInv
<1>5. QED
  BY <1>3, <1>4

LEMMA GivenIsRigid ==
  ASSUME family' = family, NEW m
  PROVE  TargetsForMessage(m)' = TargetsForMessage(m)
  BY DEF TargetsForMessage, AttributeTargets, Holds

\* The account and the operations unchanged, what comes from the first message does.
LEMMA FirstQuiet ==
  ASSUME family' = family, UNCHANGED <<gone, account, ops, session>>, NEW m, FromFirst(m)
  PROVE  FromFirst(m)'
<1>1. TargetsForMessage(m)' = TargetsForMessage(m)
  BY GivenIsRigid
<1>2. \A t : InHand(t)' <=> InHand(t)
  BY DEF InHand, Waiting, Running
<1>3. QED
  BY <1>1, <1>2 DEF FromFirst, Creates

\* Steps between two messages: the queue stays, and operations are only done with.
Remains == \A i \in DOMAIN todo' : \E j \in DOMAIN todo : todo'[i] = todo[j]
Within == UNCHANGED <<rigid, posts, queue>> /\ (taken' = taken \/ taken' = NoMessage)

LEMMA RigidParts ==
  ASSUME UNCHANGED rigid
  PROVE  /\ family' = family /\ cleanup' = cleanup /\ broker' = broker /\ approval' = approval
         /\ faults' = faults
  BY DEF rigid

LEMMA UserPostsStay == ASSUME UNCHANGED rigid PROVE UserPosts' = UserPosts
  BY RigidParts DEF UserPosts

LEMMA LinesStay ==
  ASSUME Lines, Within, todo \in Seq(Natives),
         \/ todo' = <<>>
         \/ todo # <<>> /\ todo' = Tail(todo) /\ taken' = taken
         \/ todo' = todo /\ taken' = taken,
         Working' => SameOp(session', Head(todo'))
  PROVE  Lines'
<1>1. broker' = broker /\ queue' = queue
  BY RigidParts DEF Within
<1>2. Distinct(todo') /\ (broker = "kafka" => \A i \in DOMAIN todo' : todo'[i].target = taken'.task.target)
  <2>1. CASE todo' = <<>>
    BY <2>1 DEF Distinct
  <2>2. CASE todo' = Tail(todo) /\ taken' = taken /\ todo # <<>>
    <3>1. Distinct(Tail(todo)) /\ \A i \in DOMAIN Tail(todo) : i + 1 \in DOMAIN todo /\ Tail(todo)[i] = todo[i + 1]
      BY <2>2, TailOf DEF Lines
    <3>2. QED
      BY <2>2, <3>1 DEF Lines
  <2>3. CASE todo' = todo /\ taken' = taken
    BY <2>3 DEF Lines
  <2>4. QED
    BY <2>1, <2>2, <2>3
<1>3. broker = "rabbitmq" /\ taken' # NoMessage /\ taken'.op = "DELETE" => taken'.want = Nothing
  BY DEF Lines, Within
<1>4. Nothing' = Nothing
  BY DEF Nothing
<1>5. QED
  BY <1>1, <1>2, <1>3, <1>4 DEF Lines

LEMMA EndStays ==
  ASSUME End, Within, Remains, \A t \in cleanup : Leaves(t)' => Leaves(t)
  PROVE  End'
<1>1. broker' = broker /\ cleanup' = cleanup /\ queue' = queue /\ posts' = posts /\ (Closed' <=> Closed)
  BY RigidParts DEF Within, Closed
<1>2. Over => Over'
  BY <1>1 DEF Over, Within
<1>3. QED
  BY <1>1, <1>2 DEF End, Within, Remains

LEMMA StartStays ==
  ASSUME Start, Within, Remains, Blank => Blank',
         \A m \in UserPosts : m.op = "CREATE" /\ FromFirst(m) /\ (taken = m \/ Queued(m))
                              /\ (taken = m => AllOf(m)) => FromFirst(m)',
         \/ taken # NoMessage
         \/ \A t \in Targets \ excused' : InHand(t)' => InHand(t) /\ t \notin excused
  PROVE  Start'
<1>1. broker' = broker /\ family' = family /\ queue' = queue /\ posts' = posts /\ UserPosts' = UserPosts
  BY RigidParts, UserPostsStay DEF Within
<1> SUFFICES ASSUME broker = "rabbitmq" PROVE Start'
  BY <1>1 DEF Start
<1>2. posts' = 0 => Blank'
  BY <1>1 DEF Start
<1>3. ASSUME NEW i \in DOMAIN queue', queue'[i].op = "CREATE"
      PROVE  i = 1 /\ taken' = NoMessage /\ \A t \in Targets \ excused' : ~InHand(t)'
  BY <1>1, <1>3 DEF Start, Within
<1>4. ASSUME NEW m \in UserPosts, m.op = "CREATE", Queued(m)'
      PROVE  FromFirst(m)'
  <2>1. Queued(m)
    BY <1>1, <1>4 DEF Queued
  <2>2. taken = NoMessage /\ FromFirst(m)
    BY <1>4, <2>1 DEF Start, Queued
  <2>3. taken # m
    BY <2>2, DeliveryAssumption DEF UserPosts, UserMessages, Messages
  <2>4. QED
    BY <1>4, <2>1, <2>2, <2>3
<1>5. ASSUME NEW m \in UserPosts, m.op = "CREATE", taken' = m
      PROVE  FromFirst(m)' /\ AllOf(m)'
  <2>1. taken = m
    BY <1>5, DeliveryAssumption DEF UserPosts, UserMessages, Messages, Within
  <2>2. FromFirst(m) /\ AllOf(m)
    BY <1>5, <2>1 DEF Start
  <2>3. TargetsForMessage(m)' = TargetsForMessage(m)
    BY <1>1, GivenIsRigid
  <2>4. AllOf(m)'
    BY <2>2, <2>3 DEF AllOf, Creates, Remains
  <2>5. QED
    BY <1>5, <2>1, <2>2, <2>4
<1>6. QED
  BY <1>1, <1>2, <1>3, <1>4, <1>5 DEF Start

-----------------------------------------------------------------------------
\* The targets one by one.
Fine(t) == Follows(t) /\ (approval /\ t \in cleanup => CleanFor(t))

LEMMA FineBefore ==
  ASSUME FollowInv, CleanInv, NEW t \in Targets \ excused
  PROVE  Fine(t)
  BY DEF Fine, FollowInv, CleanInv

LEMMA FineAfter ==
  ASSUME SetupTyped', \A t \in Targets \ excused' : Fine(t)'
  PROVE  FollowInv' /\ CleanInv'
  BY DEF Fine, FollowInv, CleanInv, SetupTyped

LEMMA Untouched ==
  ASSUME UNCHANGED rigid, cache' = cache \/ broker = "kafka", NEW t, Fine(t), Same(t),
         seen'[t] = seen[t], snapshot'[t] = snapshot[t], Behind(t) => Behind(t)'
  PROVE  Fine(t)'
<1>1. family' = family /\ cleanup' = cleanup /\ broker' = broker /\ approval' = approval
  BY RigidParts
<1>2. Follows(t)'
  BY <1>1, SameFollows DEF Fine
<1>3. approval /\ t \in cleanup => CleanFor(t)'
  BY SameClean DEF Fine
<1>4. QED
  BY <1>1, <1>2, <1>3 DEF Fine

\* Where the queue and the message taken stay, so does what is before the consumer.
LEMMA BehindStays ==
  ASSUME UNCHANGED <<rigid, queue, recorded>>, taken' = taken \/ taken # NoMessage,
         NEW t, Left(t, todo') => Left(t, todo), Behind(t)
  PROVE  Behind(t)'
  BY RigidParts DEF Behind, Left

LEMMA Apart ==
  ASSUME UNCHANGED <<rigid, queue, recorded, cache>>, taken' = taken \/ taken # NoMessage,
         NEW t, Fine(t), Same(t), seen'[t] = seen[t], snapshot'[t] = snapshot[t]
  PROVE  Fine(t)'
<1>1. Behind(t) => Behind(t)'
  BY BehindStays DEF Same, SameTodo
<1>2. QED
  BY <1>1, Untouched

-----------------------------------------------------------------------------
LEMMA ConnectorRest ==
  ASSUME Inv, Rest, ConnectorStep
  PROVE  Rest'
<1>1. /\ session # Idle
      /\ UNCHANGED <<rigid, midpoint, consumer, orchestrator, crashes, seen, excused>>
  BY DEF ConnectorStep
<1>2. /\ UNCHANGED <<rigid, posts, queue, recorded, taken, todo, cache, snapshot, gone, ops, seen, excused>>
  BY <1>1 DEF midpoint, consumer, orchestrator
<1>3. GoesOn /\ session' # Idle
  BY ConnectorKeeps, IdleIsNoCall DEF Inv, GoesOn
<1>4. Inv'
  BY NextInv DEF Next
<1>5. \A t \in Targets : Same(t)
  <2>1. ASSUME NEW t \in Targets PROVE SameCall(t)
    BY <1>1, <1>3 DEF SameCall, Running, SameOp, GoesOn
  <2>2. QED
    BY <1>2, <2>1, TodoStays, OpsStay DEF Same
<1>6. FollowInv' /\ CleanInv'
  <2>1. ASSUME NEW t \in Targets \ excused' PROVE Fine(t)'
    <3>1. Fine(t)
      BY <1>2, FineBefore DEF Rest
    <3>2. Behind(t) => Behind(t)'
      BY <1>2, BehindStays
    <3>3. QED
      BY <1>2, <1>5, <3>1, <3>2, Untouched
  <2>2. QED
    BY <1>4, <2>1, FineAfter DEF Inv
<1>7. Within /\ Remains
  BY <1>2 DEF Within, Remains
<1>8. Lines'
  <2>1. Working' => SameOp(session', Head(todo'))
    BY <1>1, <1>2, <1>3 DEF Working, SameOp, GoesOn, Rest, Lines
  <2>2. QED
    BY <1>2, <1>7, <2>1, LinesStay, Before DEF Rest
<1>9. End'
  <2>1. \A t : Leaves(t)' => Leaves(t)
    BY <1>1, <1>2, <1>3 DEF Leaves, Running, GoesOn
  <2>2. QED
    BY <1>7, <2>1, EndStays DEF Rest
<1>10. Start'
  <2>1. ~Blank
    BY <1>1 DEF Blank
  <2>2. ASSUME NEW m, FromFirst(m) PROVE FromFirst(m)'
    <3>1. /\ Creates(session, m) /\ session.before.member \subseteq Given(m, session.target)
          /\ session.target \in Targets
      BY <1>1, <2>2, InCall, CallFields DEF FromFirst, Inv
    <3>2. session.target \in TargetsForMessage(m)
      BY <1>1, <2>2, <3>1 DEF FromFirst, InHand, Running
    <3>3. account'[session.target].member \subseteq Given(m, session.target)
      <4>1. Plan(family[session.target], session, account[session.target])'
        BY <1>3, <1>4 DEF Inv, Held, PlanInv
      <4>2. account'[session.target].member \subseteq session.before.member \cup session.want
        BY <1>3, <4>1 DEF Plan, GoesOn
      <4>3. QED
        BY <3>1, <4>2 DEF Creates
    <3>4. TargetsForMessage(m)' = TargetsForMessage(m)
      BY <1>2, GivenIsRigid, RigidParts
    <3>5. \A t \in Targets : InHand(t)' <=> InHand(t)
      BY <1>5, SameHand
    <3>6. \A t \in Targets : t # session.target => account'[t] = account[t]
      BY <1>3 DEF GoesOn
    <3>7. gone' = gone /\ ops' = ops /\ Creates(session', m) /\ session'.before = session.before
          /\ session'.target = session.target
      BY <1>2, <1>3, <3>1 DEF GoesOn, Creates
    <3>8. \A t \in Targets : account'[t].member \subseteq Given(m, t)
      BY <2>2, <3>3, <3>6 DEF FromFirst
    <3>9. \A t \in Targets \ TargetsForMessage(m)' : account'[t] = NoAccount /\ ~InHand(t)'
      BY <2>2, <3>2, <3>4, <3>5, <3>6 DEF FromFirst
    <3>10. \A i \in DOMAIN ops' : Creates(ops'[i], m)
      BY <2>2, <3>7 DEF FromFirst
    <3>11. QED
      BY <2>2, <3>1, <3>7, <3>8, <3>9, <3>10 DEF FromFirst, Creates
  <2>3. \A t \in Targets \ excused' : InHand(t)' => InHand(t) /\ t \notin excused
    BY <1>2, <1>5, SameHand
  <2>4. QED
    BY <1>7, <2>1, <2>2, <2>3, StartStays DEF Rest
<1>11. QED
  BY <1>6, <1>8, <1>9, <1>10 DEF Rest

LEMMA AckRest ==
  ASSUME Inv, Rest, Ack
  PROVE  Rest'
<1>1. /\ taken # NoMessage /\ todo = <<>> /\ taken' = NoMessage
      /\ UNCHANGED <<rigid, posts, queue, recorded, todo, cache, ops, snapshot, gone, seen, excused,
                     account, session>>
  BY DEF Ack, midpoint, orchestrator
<1>2. FollowInv' /\ CleanInv'
  BY <1>1, BehindStays, QuietRest DEF Rest
<1>3. Within /\ Remains
  BY <1>1 DEF Within, Remains
<1>4. Lines'
  <2>1. ~Working'
    BY <1>1, Before DEF Routes, Working
  <2>2. QED
    BY <1>1, <1>3, <2>1, LinesStay, Before DEF Rest
<1>5. End'
  <2>1. \A t : Leaves(t)' => Leaves(t)
    BY <1>1 DEF Leaves, Running
  <2>2. QED
    BY <1>3, <2>1, EndStays DEF Rest
<1>6. Start'
  <2>1. ~Blank
    BY <1>1 DEF Blank
  <2>2. \A m : FromFirst(m) => FromFirst(m)'
    BY <1>1, FirstQuiet, RigidParts
  <2>3. QED
    BY <1>1, <1>3, <2>1, <2>2, StartStays DEF Rest
<1>7. QED
  BY <1>2, <1>4, <1>5, <1>6 DEF Rest

LEMMA StutterRest ==
  ASSUME Inv, Rest, UNCHANGED vars
  PROVE  Rest'
<1>1. UNCHANGED <<rigid, posts, queue, recorded, taken, todo, cache, ops, snapshot, gone, seen, excused, account, session>>
  BY DEF vars, midpoint, consumer, orchestrator
<1>2. FollowInv' /\ CleanInv'
  BY <1>1, BehindStays, QuietRest DEF Rest
<1>3. Within /\ Remains
  BY <1>1 DEF Within, Remains
<1>4. Lines'
  <2>1. Working' => SameOp(session', Head(todo'))
    BY <1>1 DEF Rest, Lines, Working, SameOp
  <2>2. QED
    BY <1>1, <1>3, <2>1, LinesStay, Before DEF Rest
<1>5. End'
  <2>1. \A t : Leaves(t)' => Leaves(t)
    BY <1>1 DEF Leaves, Running
  <2>2. QED
    BY <1>3, <2>1, EndStays DEF Rest
<1>6. Start'
  <2>1. Blank => Blank'
    BY <1>1 DEF Blank
  <2>2. \A m : FromFirst(m) => FromFirst(m)'
    BY <1>1, FirstQuiet, RigidParts
  <2>3. \A t : InHand(t)' <=> InHand(t)
    BY <1>1 DEF InHand, Waiting, Running
  <2>4. QED
    BY <1>1, <1>3, <2>1, <2>2, <2>3, StartStays DEF Rest
<1>7. QED
  BY <1>2, <1>4, <1>5, <1>6 DEF Rest

\* MidPoint posts.
LEMMA QueueGrows ==
  ASSUME queue \in Seq(Posted), NEW m, queue' = Append(queue, m)
  PROVE  /\ \A i \in DOMAIN queue : i \in DOMAIN queue' /\ queue'[i] = queue[i]
         /\ \A i \in DOMAIN queue' : i \in DOMAIN queue \/ (i = Len(queue') /\ queue'[i] = m)
         /\ queue = <<>> => DOMAIN queue' = {1}
         /\ queue' # <<>>
<1>1. queue \in Seq(Posted \cup {m})
  OBVIOUS
<1>2. /\ queue' \in Seq(Posted \cup {m}) /\ Len(queue') = Len(queue) + 1
      /\ \A i \in 1..Len(queue) : queue'[i] = queue[i]
      /\ queue'[Len(queue) + 1] = m
  BY <1>1, AppendProperties
<1>3. DOMAIN queue = 1..Len(queue) /\ DOMAIN queue' = 1..Len(queue') /\ Len(queue) \in Nat
  BY <1>1, <1>2
<1>4. queue = <<>> => Len(queue) = 0
  OBVIOUS
<1>5. QED
  BY <1>2, <1>3, <1>4

LEMMA PostNativeRest ==
  ASSUME Inv, Rest, PostNative
  PROVE  Rest'
<1>1. /\ broker = "kafka" /\ broker' = broker
      /\ UNCHANGED <<rigid, todo, taken, recorded, cache, ops, snapshot, seen, excused, account, session>>
  BY RigidParts DEF PostNative, orchestrator
<1>2. \E m : queue' = Append(queue, m)
  BY DEF PostNative, Post
<1>3. \A t : Behind(t) => Behind(t)'
  BY <1>1, <1>2, Before, QueueGrows DEF Behind
<1>4. FollowInv' /\ CleanInv'
  BY <1>1, <1>3, QuietRest DEF Rest
<1>5. Lines'
  BY <1>1 DEF Rest, Lines, Working, SameOp, Distinct
<1>6. End' /\ Start'
  BY <1>1 DEF End, Start
<1>7. QED
  BY <1>4, <1>5, <1>6 DEF Rest

LEMMA PostUserRest ==
  ASSUME Inv, Rest, PostUser
  PROVE  Rest'
<1>1. /\ broker = "rabbitmq" /\ posts < MaxPosts(faults, approval)
      /\ UNCHANGED <<rigid, todo, taken, cache, ops, snapshot, gone, seen, excused, account, session>>
  BY DEF PostUser, orchestrator
<1>2. broker' = broker /\ family' = family /\ cleanup' = cleanup
      /\ MaxPosts(faults, approval)' = MaxPosts(faults, approval)
  BY <1>1, RigidParts
<1>3. PICK m : /\ queue' = Append(queue, m)
               /\ \/ posts = 0 /\ m.op = "CREATE" /\ posts' = 1
                  \/ posts > 0 /\ m.op = "UPDATE" /\ posts' = posts + 1
                  \/ posts > 0 /\ m.op = "DELETE" /\ m.want = Nothing
                     /\ posts' = MaxPosts(faults, approval)
  <2>1. ASSUME NEW w, posts = 0, Post(Message("CREATE", w, {}, TRUE, TRUE)), posts' = 1
        PROVE  \E m : queue' = Append(queue, m) /\ m.op = "CREATE"
    BY <2>1 DEF Post, Message
  <2>2. ASSUME NEW w, NEW removed, NEW pw, Post(Message("UPDATE", w, removed, pw, TRUE))
        PROVE  \E m : queue' = Append(queue, m) /\ m.op = "UPDATE"
    BY <2>2 DEF Post, Message
  <2>3. ASSUME NEW named, NEW removed, Post(Message("DELETE", Nothing, removed, FALSE, named))
        PROVE  \E m : queue' = Append(queue, m) /\ m.op = "DELETE" /\ m.want = Nothing
    BY <2>3 DEF Post, Message
  <2>4. QED
    BY <2>1, <2>2, <2>3 DEF PostUser
<1>4. posts \in Nat /\ MaxPosts(faults, approval) \in Nat /\ ~Closed
  BY <1>1, Before DEF Rest, End, SetupTyped, Closed
<1>5. /\ \A i \in DOMAIN queue : i \in DOMAIN queue' /\ queue'[i] = queue[i]
      /\ \A i \in DOMAIN queue' : i \in DOMAIN queue \/ (i = Len(queue') /\ queue'[i] = m)
      /\ queue = <<>> => DOMAIN queue' = {1}
      /\ queue' # <<>>
  BY <1>3, Before, QueueGrows
<1>6. posts' \in Nat /\ posts' # 0
  BY <1>1, <1>3, <1>4
<1>7. FollowInv' /\ CleanInv'
  <2>1. \A t : Behind(t) => Behind(t)'
    BY <1>1, <1>2, <1>5 DEF Behind
  <2>2. QED
    BY <1>1, <2>1, QuietRest DEF Rest
<1>8. Lines'
  <2>1. \A i \in DOMAIN queue' : queue'[i].op = "DELETE" => queue'[i].want = Nothing
    BY <1>1, <1>3, <1>5 DEF Rest, Lines
  <2>2. Nothing' = Nothing
    BY DEF Nothing
  <2>3. QED
    BY <1>1, <1>2, <2>1, <2>2 DEF Rest, Lines, Working, SameOp, Distinct
<1>9. End'
  <2>1. \A i \in DOMAIN queue' : queue'[i].op = "DELETE" => i = Len(queue') /\ Closed'
    BY <1>1, <1>2, <1>3, <1>4, <1>5 DEF Rest, End, Closed
  <2>2. ~(taken' # NoMessage /\ taken'.op = "DELETE")
    BY <1>1, <1>4 DEF Rest, End
  <2>3. \A t \in cleanup' : ~Leaves(t)'
    <3>1. \A t \in cleanup : ~Leaves(t)
      BY <1>1, <1>4 DEF Rest, End, Over
    <3>2. \A t : Leaves(t)' <=> Leaves(t)
      BY <1>1 DEF Leaves, Running
    <3>3. QED
      BY <1>2, <3>1, <3>2
  <2>4. QED
    BY <1>6, <2>1, <2>2, <2>3 DEF End
<1>10. Start'
  <2>1. UserPosts' = UserPosts
    BY <1>1, UserPostsStay
  <2>2. \A t : InHand(t)' <=> InHand(t)
    BY <1>1 DEF InHand, Waiting, Running
  <2>3. m.op = "CREATE" => Blank
    BY <1>1, <1>3 DEF Rest, Start
  <2>4. Blank => \A t : ~InHand(t)
    BY DEF Blank, InHand, Waiting, Running
  <2>5. ASSUME NEW i \in DOMAIN queue', queue'[i].op = "CREATE"
        PROVE  i = 1 /\ taken' = NoMessage /\ \A t \in Targets \ excused' : ~InHand(t)'
    <3>1. CASE i \in DOMAIN queue
      BY <1>1, <1>5, <2>2, <2>5, <3>1 DEF Rest, Start
    <3>2. CASE i \notin DOMAIN queue
      <4>1. Blank /\ queue = <<>>
        BY <1>5, <2>3, <2>5, <3>2 DEF Blank
      <4>2. QED
        BY <1>1, <1>5, <2>2, <2>4, <4>1 DEF Blank
    <3>3. QED
      BY <3>1, <3>2
  <2>6. ASSUME NEW c \in UserPosts, c.op = "CREATE", Queued(c)' PROVE FromFirst(c)'
    <3>1. CASE Queued(c)
      BY <1>1, <1>2, <2>6, <3>1, FirstQuiet DEF Rest, Start
    <3>2. CASE ~Queued(c)
      <4>1. c = m
        BY <1>5, <2>6, <3>2 DEF Queued
      <4>2. FromFirst(c)
        BY <2>3, <2>4, <2>6, <4>1, NoAccountIsOne DEF Blank, FromFirst
      <4>3. QED
        BY <1>1, <1>2, <4>2, FirstQuiet
    <3>3. QED
      BY <3>1, <3>2
  <2>7. ASSUME NEW c \in UserPosts, c.op = "CREATE", taken' = c PROVE FromFirst(c)' /\ AllOf(c)'
    <3>1. FromFirst(c) /\ AllOf(c)
      BY <1>1, <2>7 DEF Rest, Start
    <3>2. FromFirst(c)' /\ TargetsForMessage(c)' = TargetsForMessage(c)
      BY <1>1, <1>2, <3>1, FirstQuiet, GivenIsRigid
    <3>3. QED
      BY <1>1, <3>1, <3>2 DEF AllOf, Creates
  <2>8. QED
    BY <1>6, <2>1, <2>5, <2>6, <2>7 DEF Start
<1>11. QED
  BY <1>7, <1>8, <1>9, <1>10 DEF Rest

-----------------------------------------------------------------------------
\* The consumer handles its operations.

\* The first of the operations, as it is stored.
LEMMA FirstOf ==
  ASSUME Inv, Rest, todo # <<>>
  PROVE  LET m == Head(todo)
             c == Converted(m)
         IN /\ m \in Natives /\ c \in Natives /\ c.target = m.target /\ m.target \in Targets
            /\ Left(m.target, todo) /\ ~Left(m.target, Tail(todo)) /\ taken # NoMessage
            /\ m = todo[1] /\ 1 \in DOMAIN todo
            /\ ~approval => c = m
            /\ m.target \in cleanup => c = m
            /\ c.op = "UPDATE" => c = m
            /\ c.op = "DELETE" => m.op = "DELETE"
            /\ \A w : Meets(m, w) => Meets(c, w)
            /\ \A i \in DOMAIN Tail(todo) : \E j \in DOMAIN todo : Tail(todo)[i] = todo[j]
<1> DEFINE m == Head(todo)
           c == Converted(m)
<1>1. /\ SetupTyped /\ Routes /\ MarksTyped /\ todo \in Seq(Natives) /\ m \in Natives
  BY Before
<1>2. /\ Left(m.target, todo) /\ ~Left(m.target, Tail(todo)) /\ m = todo[1] /\ 1 \in DOMAIN todo
      /\ \A i \in DOMAIN Tail(todo) : i + 1 \in DOMAIN todo /\ Tail(todo)[i] = todo[i + 1]
  BY <1>1, TailOf DEF Rest, Lines
<1>3. c \in Natives /\ c.target = m.target /\ m.target \in Targets /\ taken # NoMessage
  BY <1>1, ConvertedIsNative, NativeFields DEF Routes
<1>4. c = m \/ (m.op = "UPDATE" /\ m.target \in gone /\ c = [m EXCEPT !.op = "CREATE"])
  BY DEF Converted
<1>5. ~approval => c = m
  BY <1>1, <1>4 DEF Routes
<1>6. m.target \in cleanup => c = m
  <2>1. SUFFICES ASSUME m.target \in cleanup, m.target \in gone, m.op = "UPDATE" PROVE FALSE
    BY <1>4
  <2>2. broker = "rabbitmq" /\ Leaves(m.target)
    BY <1>1, <2>1 DEF SetupTyped, Leaves
  <2>3. Over
    BY <2>1, <2>2 DEF Rest, End
  <2>4. taken.op = "DELETE"
    BY <1>3, <2>3 DEF Over
  <2>5. m.op = "DELETE"
    BY <1>2, <1>3, <2>2, <2>4 DEF Rest, End
  <2>6. QED
    BY <2>1, <2>5
<1>7. m \in [target : Targets, op : Operations, pw : BOOLEAN, named : BOOLEAN,
             want : SUBSET Ents, on : BOOLEAN, removed : SUBSET Targets]
  BY <1>1 DEF Natives, SubMessages
<1>8. c = m \/ (m.op = "UPDATE" /\ c.op = "CREATE" /\ c.want = m.want /\ c.on = m.on /\ c # m)
  BY <1>4, <1>7
<1>9. ASSUME NEW w, Meets(m, w) PROVE Meets(c, w)
  BY <1>3, <1>6, <1>8, <1>9 DEF Meets
<1>10. (c.op = "UPDATE" => c = m) /\ (c.op = "DELETE" => m.op = "DELETE")
  BY <1>8
<1>11. QED
  BY <1>1, <1>2, <1>3, <1>5, <1>6, <1>9, <1>10

LEMMA HandleSkippedRest ==
  ASSUME Inv, Rest, HandleSkipped
  PROVE  Rest'
<1>0. PICK m, t : m = Head(todo) /\ t = m.target
  OBVIOUS
<1>1. /\ todo # <<>> /\ todo' = Tail(todo) /\ Skipped(Converted(m))
      /\ excused' = IF InHand(t) THEN excused \cup {t} ELSE excused
      /\ UNCHANGED <<rigid, posts, queue, recorded, taken, cache, ops, snapshot, gone, seen, account, session>>
  BY <1>0 DEF HandleSkipped, Opened, midpoint, orchestrator
<1>2. /\ m \in Natives /\ t \in Targets /\ ~Left(t, Tail(todo)) /\ Left(t, todo)
      /\ taken # NoMessage /\ m = todo[1] /\ 1 \in DOMAIN todo /\ m.target = t
      /\ Converted(m).op = "UPDATE" => Converted(m) = m
      /\ Remains
  BY <1>0, <1>1, FirstOf DEF Remains
<1>3. approval /\ ~Working
  BY <1>0, <1>1, SkippedIsApproval
<1>4. Inv' /\ broker' = broker /\ family' = family /\ cleanup' = cleanup /\ approval' = approval
  BY <1>1, NextInv, RigidParts DEF Next, ConsumerStep
<1>5. m.op = "UPDATE" /\ (snapshot[t] = [ents |-> m.want, on |-> m.on] \/ Waiting(t))
  BY <1>1, <1>2 DEF Skipped, Waits, Waiting
<1>6. FollowInv' /\ CleanInv'
  <2>1. ASSUME NEW u \in Targets \ excused', u # t PROVE Fine(u)'
    <3>1. Fine(u)
      BY <1>1, <2>1, FineBefore DEF Rest
    <3>2. Same(u)
      BY <1>0, <1>1, <2>1, TodoTail, OpsStay, CallStays, Before DEF Same, Rest, Lines
    <3>3. QED
      BY <1>1, <2>1, <3>1, <3>2, Apart
  <2>2. ASSUME t \notin excused' PROVE Fine(t)'
    <3>1. ~InHand(t) /\ ~InHand(t)' /\ Fine(t) /\ ~Left(t, todo')
      BY <1>1, <1>2, <2>2, FineBefore DEF Rest, InHand, Waiting, Running
    <3>2. snapshot[t] = [ents |-> m.want, on |-> m.on] /\ snapshot[t] # Absent
      BY <1>2, <1>5, <3>1, NativeFields, DeliveryAssumption DEF InHand
    <3>3. /\ Agrees(t, snapshot[t])
          /\ t \in cleanup /\ family[t] # "odoo" /\ m.want = {} => Bare(t)
      BY <3>1, <3>2 DEF Fine, Follows
    <3>4. ASSUME NEW w, BoundFor(t, w) PROVE BoundFor(t, w)'
      <4>1. Meets(m, w)
        BY <1>2, <3>4 DEF BoundFor
      <4>2. Agrees(t, w)
        <5>1. w = snapshot[t] \/ (w = Absent /\ t \in cleanup /\ m.want = {})
          BY <1>2, <1>5, <3>2, <4>1 DEF Meets
        <5>2. QED
          BY <3>3, <5>1 DEF Agrees, Bare
      <4>3. QED
        BY <1>1, <1>4, <3>1, <4>2 DEF BoundFor, Left, LastIn, InHand, Waiting, Agrees, Disables, Usable
    <3>5. ~Behind(t)' => BoundFor(t, seen[t])'
      <4>1. ASSUME NEW w, w = seen[t], BoundFor(t, w) PROVE BoundFor(t, seen[t])'
        BY <1>1, <3>4, <4>1, BoundSeen
      <4>2. Behind(t) => Behind(t)'
        BY <1>1, <3>1, BehindStays
      <4>3. QED
        BY <3>1, <4>1, <4>2 DEF Fine, Follows
    <3>6. broker = "rabbitmq" => Traced(t)'
      <4>1. BoundFor(t, Absent) => BoundFor(t, Absent)'
        BY <3>4
      <4>2. Pending(t)
        BY <1>2 DEF Pending
      <4>3. QED
        BY <1>1, <3>1, <4>1, <4>2 DEF Fine, Follows, Traced
    <3>7. /\ Agrees(t, snapshot[t])'
          /\ t \in cleanup' /\ family'[t] # "odoo" /\ snapshot'[t].ents = {} => Bare(t)'
      BY <1>1, <1>4, <3>2, <3>3 DEF Agrees, Disables, Usable, Bare
    <3>8. Follows(t)'
      BY <1>4, <3>5, <3>6, <3>7 DEF Follows
    <3>9. CleanFor(t)'
      BY <3>1 DEF CleanFor, Left, InHand, Waiting, Running
    <3>10. QED
      BY <3>8, <3>9 DEF Fine
  <2>3. QED
    BY <1>4, <2>1, <2>2, FineAfter DEF Inv
<1>7. Within
  BY <1>1 DEF Within
<1>8. Lines'
  BY <1>1, <1>3, <1>7, LinesStay, Before DEF Working, Rest
<1>9. End'
  <2>1. \A u : Leaves(u)' => Leaves(u)
    BY <1>1, <1>2 DEF Leaves, Running, Remains
  <2>2. QED
    BY <1>2, <1>7, <2>1, EndStays DEF Rest
<1>10. Start'
  <2>1. ~Blank
    BY <1>2 DEF Blank
  <2>2. \A c : FromFirst(c) => FromFirst(c)'
    BY <1>1, <1>4, FirstQuiet
  <2>3. QED
    BY <1>2, <1>7, <2>1, <2>2, StartStays DEF Rest
<1>11. QED
  BY <1>6, <1>8, <1>9, <1>10 DEF Rest

LEMMA HandleApprovalRest ==
  ASSUME Inv, Rest, HandleApproval
  PROVE  Rest'
<1>0. PICK m, c, t : m = Head(todo) /\ c = Converted(m) /\ t = m.target
  OBVIOUS
<1>1. /\ todo # <<>> /\ todo' = Tail(todo) /\ approval /\ ops' = Append(ops, c)
      /\ UNCHANGED <<rigid, posts, queue, recorded, taken, cache, snapshot, gone, seen, excused, account, session>>
  BY <1>0 DEF HandleApproval, Opened, midpoint
<1>2. /\ m \in Natives /\ c \in Natives /\ c.target = t
      /\ t \in Targets /\ ~Left(t, Tail(todo)) /\ Left(t, todo)
      /\ taken # NoMessage /\ m = todo[1] /\ 1 \in DOMAIN todo /\ m.target = t
      /\ t \in cleanup => c = m
      /\ c.op = "DELETE" => m.op = "DELETE"
      /\ \A w : Meets(m, w) => Meets(c, w)
      /\ Remains
  BY <1>0, <1>1, FirstOf DEF Remains
<1>3. ~Working /\ ops \in Seq(Natives) /\ todo \in Seq(Natives)
  BY <1>1, Before DEF Routes
<1>4. Inv' /\ broker' = broker /\ family' = family /\ cleanup' = cleanup /\ approval' = approval
  BY <1>1, NextInv, RigidParts DEF Next, ConsumerStep
<1>5. /\ \A i \in DOMAIN ops : i \in DOMAIN ops' /\ ops'[i] = ops[i]
      /\ Len(ops) + 1 \in DOMAIN ops' /\ ops'[Len(ops) + 1] = c
      /\ \A i \in DOMAIN ops' : i \in DOMAIN ops \/ i = Len(ops) + 1
      /\ \A i, u : LastIn(ops', i, u) =>
            IF u = c.target THEN i = Len(ops) + 1 ELSE LastIn(ops, i, u)
  BY <1>1, <1>2, <1>3, AppendOf
<1>6. FollowInv' /\ CleanInv'
  <2>1. ASSUME NEW u \in Targets \ excused', u # t PROVE Fine(u)'
    <3>1. Fine(u)
      BY <1>1, <2>1, FineBefore DEF Rest
    <3>2. Same(u)
      BY <1>0, <1>1, <1>2, <1>3, <2>1, TodoTail, OpsAppend, CallStays DEF Same, Rest, Lines
    <3>3. QED
      BY <1>1, <2>1, <3>1, <3>2, Apart
  <2>2. ASSUME t \notin excused' PROVE Fine(t)'
    <3>1. Fine(t) /\ ~Left(t, todo') /\ Waiting(t)' /\ InHand(t)'
      BY <1>1, <1>2, <1>5, <2>2, FineBefore DEF Rest, InHand, Waiting
    <3>2. ASSUME NEW w, BoundFor(t, w) PROVE BoundFor(t, w)'
      <4>1. Meets(c, w)
        BY <1>2, <3>2 DEF BoundFor
      <4>2. Meets(c, w)'
        BY <1>2, <1>4, <4>1 DEF Meets
      <4>3. \A i \in DOMAIN ops' : LastIn(ops', i, t) => Meets(ops[i], w)'
        BY <1>2, <1>4, <1>5, <4>1 DEF Meets
      <4>4. QED
        BY <3>1, <4>3 DEF BoundFor, Left
    <3>3. ~Behind(t)' => BoundFor(t, seen[t])'
      <4>1. ASSUME NEW w, w = seen[t], BoundFor(t, w) PROVE BoundFor(t, seen[t])'
        BY <1>1, <3>2, <4>1, BoundSeen
      <4>2. Behind(t) => Behind(t)'
        BY <1>1, <3>1, BehindStays
      <4>3. QED
        BY <3>1, <4>1, <4>2 DEF Fine, Follows
    <3>4. broker = "rabbitmq" => Traced(t)'
      <4>1. BoundFor(t, Absent) => BoundFor(t, Absent)'
        BY <3>2
      <4>2. Pending(t)
        BY <1>2 DEF Pending
      <4>3. QED
        BY <1>1, <3>1, <4>1, <4>2 DEF Fine, Follows, Traced
    <3>5. Follows(t)'
      BY <1>4, <3>1, <3>3, <3>4 DEF Follows
    <3>6. ASSUME t \in cleanup PROVE CleanFor(t)'
      <4>1. CleanFor(t) /\ c = m
        BY <1>1, <1>2, <3>1, <3>6 DEF Fine
      <4>2. \A i \in DOMAIN todo' : todo'[i].target # t
        BY <3>1 DEF Left
      <4>3. ASSUME NEW i \in DOMAIN ops', ops'[i].target = t, EmptyCreate(ops'[i])
            PROVE  ~Running(t)' /\ account'[t].member = {} /\ FirstIn(ops', i, t)
        <5>1. CASE i \in DOMAIN ops
          <6>1. ~Running(t) /\ account[t].member = {} /\ FirstIn(ops, i, t)
            BY <1>5, <4>1, <4>3, <5>1 DEF CleanFor
          <6>2. \A j \in DOMAIN ops' : j < i => j \in DOMAIN ops
            BY <1>3, <1>5, <5>1
          <6>3. QED
            BY <1>1, <1>5, <6>1, <6>2 DEF FirstIn, Running
        <5>2. CASE i \notin DOMAIN ops
          <6>1. i = Len(ops) + 1 /\ EmptyCreate(m)
            BY <1>5, <4>1, <4>3, <5>2
          <6>2. ~InHand(t) /\ account[t].member = {}
            BY <1>2, <4>1, <6>1 DEF CleanFor
          <6>3. \A j \in DOMAIN ops' : j < i => ops'[j].target # t
            BY <1>5, <6>1, <6>2 DEF InHand, Waiting
          <6>4. QED
            BY <1>1, <6>2, <6>3 DEF FirstIn, Running, InHand
        <5>3. QED
          BY <5>1, <5>2
      <4>4. Running(t)' /\ EmptyCreate(session') => session'.before.member = {}
        BY <1>1, <4>1 DEF CleanFor, Running
      <4>5. QED
        BY <4>2, <4>3, <4>4 DEF CleanFor
    <3>7. QED
      BY <1>4, <3>5, <3>6 DEF Fine
  <2>3. QED
    BY <1>4, <2>1, <2>2, FineAfter DEF Inv
<1>7. Within
  BY <1>1 DEF Within
<1>8. Lines'
  BY <1>1, <1>3, <1>7, LinesStay DEF Working, Rest
<1>9. End'
  <2>1. ASSUME NEW u, Leaves(u)' PROVE Leaves(u)
    <3>1. CASE \E i \in DOMAIN ops' : ops'[i].target = u /\ ops'[i].op = "DELETE"
      BY <1>2, <1>5, <3>1 DEF Leaves
    <3>2. CASE ~(\E i \in DOMAIN ops' : ops'[i].target = u /\ ops'[i].op = "DELETE")
      BY <1>1, <1>2, <2>1, <3>2 DEF Leaves, Running, Remains
    <3>3. QED
      BY <3>1, <3>2
  <2>2. QED
    BY <1>2, <1>7, <2>1, EndStays DEF Rest
<1>10. Start'
  <2>1. ~Blank
    BY <1>2 DEF Blank
  <2>2. ASSUME NEW d, FromFirst(d), AllOf(d) PROVE FromFirst(d)'
    <3>1. c = m /\ Creates(c, d) /\ t \in TargetsForMessage(d)
      BY <1>0, <1>2, <2>2 DEF FromFirst, AllOf, Converted
    <3>2. TargetsForMessage(d)' = TargetsForMessage(d)
      BY <1>4, GivenIsRigid
    <3>3. \A i \in DOMAIN ops' : Creates(ops'[i], d)
      BY <1>5, <2>2, <3>1 DEF FromFirst
    <3>4. \A u \in Targets \ TargetsForMessage(d) : ~InHand(u)'
      BY <1>1, <1>2, <1>5, <2>2, <3>1 DEF FromFirst, InHand, Waiting, Running
    <3>5. QED
      BY <1>1, <2>2, <3>2, <3>3, <3>4 DEF FromFirst, Creates
  <2>3. ASSUME broker = "rabbitmq", NEW d \in UserPosts, d.op = "CREATE", Queued(d) PROVE FALSE
    BY <1>2, <2>3 DEF Rest, Start, Queued
  <2>4. QED
    BY <1>2, <1>7, <2>1, <2>2, <2>3, StartStays, <1>4 DEF Rest, Start
<1>11. QED
  BY <1>6, <1>8, <1>9, <1>10 DEF Rest

LEMMA HandleNowRest ==
  ASSUME Inv, Rest, HandleNow
  PROVE  Rest'
<1>0. PICK m, t : m = Head(todo) /\ t = m.target
  OBVIOUS
<1>1. /\ todo # <<>> /\ ~approval /\ session = Idle /\ Open("consumer", Converted(m))
      /\ UNCHANGED <<rigid, posts, queue, recorded, taken, todo, cache, ops, snapshot, gone, seen, excused, account>>
  BY <1>0 DEF HandleNow, Opened, midpoint, consumer, orchestrator
<1>2. /\ m \in Natives /\ t \in Targets /\ Left(t, todo) /\ Converted(m) = m
      /\ taken # NoMessage /\ m = todo[1] /\ 1 \in DOMAIN todo /\ m.target = t
  BY <1>0, <1>1, FirstOf
<1>3. Inv' /\ broker' = broker /\ family' = family /\ cleanup' = cleanup /\ approval' = approval
  BY <1>1, NextInv, RigidParts DEF Next, ConsumerStep
<1>4. /\ session' # Idle /\ session'.target = t /\ SameOp(session', m)
      /\ session'.before = account[t]
  BY <1>1, <1>2 DEF Open, SameOp, Idle
<1>5. FollowInv' /\ CleanInv'
  <2>1. ASSUME NEW u \in Targets \ excused', u # t PROVE Fine(u)'
    <3>1. Fine(u)
      BY <1>1, <2>1, FineBefore DEF Rest
    <3>2. Same(u)
      BY <1>1, <1>4, <2>1, TodoStays, OpsStay, CallElsewhere DEF Same
    <3>3. QED
      BY <1>1, <2>1, <3>1, <3>2, Apart
  <2>2. ASSUME t \notin excused' PROVE Fine(t)'
    <3>1. Fine(t) /\ Left(t, todo)' /\ Running(t)' /\ InHand(t)'
      BY <1>1, <1>2, <1>4, <2>2, FineBefore DEF Rest, Running, InHand, Left
    <3>2. ASSUME NEW w, BoundFor(t, w) PROVE BoundFor(t, w)'
      BY <1>1, <1>3, <3>1, <3>2 DEF BoundFor, Meets
    <3>3. ~Behind(t)' => BoundFor(t, seen[t])'
      <4>1. ASSUME NEW w, w = seen[t], BoundFor(t, w) PROVE BoundFor(t, seen[t])'
        BY <1>1, <3>2, <4>1, BoundSeen
      <4>2. Behind(t) => Behind(t)'
        BY <1>1, BehindStays
      <4>3. QED
        BY <3>1, <4>1, <4>2 DEF Fine, Follows
    <3>4. broker = "rabbitmq" => Traced(t)'
      <4>1. BoundFor(t, Absent) => BoundFor(t, Absent)'
        BY <3>2
      <4>2. Pending(t)
        BY <1>2 DEF Pending
      <4>3. QED
        BY <1>1, <3>1, <4>1, <4>2 DEF Fine, Follows, Traced
    <3>5. QED
      BY <1>1, <1>3, <3>1, <3>3, <3>4 DEF Fine, Follows
  <2>3. QED
    BY <1>3, <2>1, <2>2, FineAfter DEF Inv
<1>6. Within /\ Remains
  BY <1>1 DEF Within, Remains
<1>7. Lines'
  BY <1>0, <1>1, <1>4, <1>6, LinesStay, Before DEF Rest
<1>8. End'
  <2>1. ASSUME NEW u, Leaves(u)' PROVE Leaves(u)
    BY <1>1, <1>2, <1>4, <2>1 DEF Leaves, Running, SameOp
  <2>2. QED
    BY <1>6, <2>1, EndStays DEF Rest
<1>9. Start'
  <2>1. ~Blank
    BY <1>2 DEF Blank
  <2>2. ASSUME NEW d, FromFirst(d), AllOf(d) PROVE FromFirst(d)'
    <3>1. Creates(m, d) /\ t \in TargetsForMessage(d)
      BY <1>2, <2>2 DEF AllOf
    <3>2. TargetsForMessage(d)' = TargetsForMessage(d)
      BY <1>3, GivenIsRigid
    <3>3. Creates(session', d) /\ session'.before.member \subseteq Given(d, t)
      BY <1>2, <1>4, <2>2, <3>1 DEF Creates, SameOp, FromFirst
    <3>4. \A u \in Targets \ TargetsForMessage(d) : ~InHand(u)'
      BY <1>1, <1>4, <2>2, <3>1 DEF FromFirst, InHand, Waiting, Running
    <3>5. QED
      BY <1>1, <1>4, <2>2, <3>2, <3>3, <3>4 DEF FromFirst, Creates
  <2>3. ASSUME broker = "rabbitmq", NEW d \in UserPosts, d.op = "CREATE", Queued(d) PROVE FALSE
    BY <1>2, <2>3 DEF Rest, Start, Queued
  <2>4. QED
    BY <1>2, <1>6, <2>1, <2>2, <2>3, StartStays, <1>3 DEF Rest, Start
<1>10. QED
  BY <1>5, <1>7, <1>8, <1>9 DEF Rest

LEMMA OutcomeIs ==
  ASSUME NEW rest, NEW t, t = session.target
  PROVE  /\ \A u : u # t => (u \in Outcome(session, rest) <=> u \in excused)
         /\ t \notin Outcome(session, rest) =>
               /\ ~session.refused /\ session.named /\ ~Enables(session)
               /\ Rights(session, rest) \/ t \notin excused
  BY DEF Outcome

LEMMA HandleDoneRest ==
  ASSUME Inv, Rest, HandleDone
  PROVE  Rest'
<1>0. PICK m, t : m = Head(todo) /\ t = m.target
  OBVIOUS
<1>1. /\ Working /\ session.pc = "done" /\ todo' = Tail(todo) /\ session' = Idle
      /\ excused' = Outcome(session, Tail(todo))
      /\ UNCHANGED <<rigid, posts, queue, recorded, taken, cache, ops, snapshot, gone, seen, account>>
  BY DEF HandleDone, midpoint, orchestrator
<1>2. /\ ~approval /\ ops = <<>> /\ gone = {} /\ snapshot = Nothing
      /\ todo # <<>> /\ t = session.target /\ SameOp(session, m) /\ Held
      /\ todo \in Seq(Natives)
  BY <1>0, <1>1, Before DEF Routes, Rest, Lines
<1>3. /\ m \in Natives /\ t \in Targets /\ ~Left(t, Tail(todo)) /\ Left(t, todo)
      /\ taken # NoMessage /\ m = todo[1] /\ 1 \in DOMAIN todo /\ m.target = t
      /\ Remains
  BY <1>0, <1>1, <1>2, FirstOf DEF Remains
<1>4. Inv' /\ broker' = broker /\ family' = family /\ cleanup' = cleanup /\ approval' = approval
  BY <1>1, NextInv, RigidParts DEF Next, ConsumerStep
<1>5. FollowInv' /\ CleanInv'
  <2>1. ASSUME NEW u \in Targets \ excused', u # t PROVE Fine(u)'
    <3>1. Fine(u)
      BY <1>1, <1>2, <2>1, FineBefore, OutcomeIs DEF Rest
    <3>2. Same(u)
      BY <1>0, <1>1, <1>2, <2>1, TodoTail, OpsStay, CallElsewhere DEF Same, Rest, Lines
    <3>3. QED
      BY <1>1, <2>1, <3>1, <3>2, Apart
  <2>2. ASSUME t \notin excused' PROVE Fine(t)'
    <3>1. /\ ~session.refused /\ session.named /\ ~Enables(session)
          /\ Rights(session, Tail(todo)) \/ t \notin excused
      BY <1>1, <1>2, <2>2, OutcomeIs
    <3>2. ~Left(t, todo') /\ ~InHand(t)' /\ snapshot'[t] = Absent
      BY <1>1, <1>2, <1>3 DEF InHand, Waiting, Running, Nothing
    <3>3. ASSUME NEW w, Meets(session, w) PROVE BoundFor(t, w)'
      <4>1. Agrees(t, w)
        BY <1>1, <1>2, <3>1, <3>3, DoneSettles
      <4>2. QED
        BY <1>1, <1>4, <3>2, <4>1 DEF BoundFor, Agrees, Disables, Usable, Left, InHand, Waiting, LastIn
    <3>4. ASSUME t \notin excused, NEW w, BoundFor(t, w) PROVE Meets(session, w)
      BY <1>2, <1>3, <3>4 DEF BoundFor, Meets, SameOp
    <3>5. t \notin excused => Fine(t)
      BY <1>3, FineBefore DEF Rest
    <3>6. ~Behind(t)' => BoundFor(t, seen[t])'
      <4>1. ASSUME NEW w, w = seen[t], Meets(session, w) PROVE BoundFor(t, seen[t])'
        BY <1>1, <3>3, <4>1, BoundSeen
      <4>2. Behind(t) => Behind(t)'
        BY <1>1, <3>2, BehindStays
      <4>3. QED
        BY <1>2, <3>1, <3>4, <3>5, <4>1, <4>2 DEF Fine, Follows, Rights
    <3>7. broker = "rabbitmq" => Traced(t)'
      <4>1. Meets(session, Absent) => BoundFor(t, Absent)'
        BY <3>3
      <4>2. CASE Rights(session, Tail(todo)) /\ broker = "rabbitmq"
        <5>1. Meets(session, Absent) \/ t \in cache
          BY <1>2, <4>2 DEF Rights, Findable
        <5>2. QED
          BY <1>1, <4>1, <5>1 DEF Traced
      <4>3. CASE t \notin excused /\ broker = "rabbitmq"
        <5>1. BoundFor(t, Absent) \/ t \in cache
          BY <1>2, <1>3, <3>5, <4>3 DEF Fine, Follows, Traced, Nothing
        <5>2. QED
          BY <1>1, <3>4, <4>1, <4>3, <5>1 DEF Traced
      <4>4. QED
        BY <3>1, <4>2, <4>3
    <3>8. QED
      BY <1>2, <1>4, <3>2, <3>6, <3>7 DEF Fine, Follows
  <2>3. QED
    BY <1>4, <2>1, <2>2, FineAfter DEF Inv
<1>6. Within
  BY <1>1 DEF Within
<1>7. Lines'
  BY <1>1, <1>2, <1>6, LinesStay DEF Working, Rest
<1>8. End'
  <2>1. ASSUME NEW u, Leaves(u)' PROVE Leaves(u)
    BY <1>1, <1>3, <2>1 DEF Leaves, Running, Remains
  <2>2. QED
    BY <1>3, <1>6, <2>1, EndStays DEF Rest
<1>9. Start'
  <2>1. ~Blank
    BY <1>3 DEF Blank
  <2>2. ASSUME NEW d, FromFirst(d) PROVE FromFirst(d)'
    <3>1. TargetsForMessage(d)' = TargetsForMessage(d)
      BY <1>4, GivenIsRigid
    <3>2. QED
      BY <1>1, <1>2, <2>2, <3>1 DEF FromFirst, Creates, InHand, Waiting, Running
  <2>3. QED
    BY <1>3, <1>6, <2>1, <2>2, StartStays DEF Rest
<1>10. QED
  BY <1>5, <1>7, <1>8, <1>9 DEF Rest

LEMMA RejectedRest ==
  ASSUME Inv, Rest, Rejected, todo # <<>>, session' = IF Working THEN Idle ELSE session,
         Next, UNCHANGED <<rigid, midpoint, orchestrator, seen, account>>
  PROVE  Rest'
<1>1. /\ taken' = NoMessage /\ todo' = <<>>
      /\ excused' = excused \cup {todo[i].target : i \in DOMAIN todo}
      /\ UNCHANGED <<rigid, posts, queue, recorded, cache, ops, snapshot, gone, seen, account>>
  BY DEF Rejected, midpoint, orchestrator
<1>2. /\ taken # NoMessage /\ todo \in Seq(Natives) /\ Head(todo) = todo[1] /\ 1 \in DOMAIN todo
      /\ Working => Head(todo).target = session.target
  BY Before, FirstOf DEF Routes
<1>3. Inv' /\ broker' = broker /\ family' = family /\ cleanup' = cleanup /\ approval' = approval
  BY NextInv, RigidParts
<1>4. FollowInv' /\ CleanInv'
  <2>1. ASSUME NEW u \in Targets \ excused' PROVE Fine(u)'
    <3>1. Fine(u) /\ ~Left(u, todo)
      BY <1>1, <2>1, FineBefore DEF Rest, Left
    <3>2. ~Working \/ u # session.target
      BY <1>2, <3>1 DEF Left
    <3>3. Same(u)
      BY <1>1, <3>1, <3>2, TodoDropped, OpsStay, CallElsewhere, CallStays DEF Same
    <3>4. QED
      BY <1>1, <1>2, <2>1, <3>1, <3>3, Apart
  <2>2. QED
    BY <1>3, <2>1, FineAfter DEF Inv
<1>5. Within /\ Remains
  BY <1>1 DEF Within, Remains
<1>6. ~Working'
  BY DEF Working
<1>7. Lines'
  BY <1>1, <1>2, <1>5, <1>6, LinesStay DEF Rest
<1>8. End'
  <2>1. ASSUME NEW u, Leaves(u)' PROVE Leaves(u)
    BY <1>1, <2>1 DEF Leaves, Running
  <2>2. QED
    BY <1>5, <2>1, EndStays DEF Rest
<1>9. Start'
  <2>1. ~Blank
    BY <1>2 DEF Blank
  <2>2. ASSUME NEW d, FromFirst(d) PROVE FromFirst(d)'
    <3>1. TargetsForMessage(d)' = TargetsForMessage(d)
      BY <1>3, GivenIsRigid
    <3>2. QED
      BY <1>1, <2>2, <3>1 DEF FromFirst, Creates, InHand, Waiting, Running
  <2>3. QED
    BY <1>2, <1>5, <2>1, <2>2, StartStays DEF Rest
<1>10. QED
  BY <1>4, <1>7, <1>8, <1>9 DEF Rest

LEMMA HandleFailedRest == ASSUME Inv, Rest, HandleFailed PROVE Rest'
<1>1. todo # <<>>
  BY Before DEF HandleFailed, Routes
<1>2. Next /\ UNCHANGED <<rigid, midpoint, orchestrator, seen, account>>
  BY DEF Next, ConsumerStep, HandleFailed
<1>3. Rejected /\ session' = IF Working THEN Idle ELSE session
  BY DEF HandleFailed
<1>4. QED
  BY <1>1, <1>2, <1>3, RejectedRest

LEMMA HandleRaisesRest == ASSUME Inv, Rest, HandleRaises PROVE Rest'
<1>1. Next /\ UNCHANGED <<rigid, midpoint, orchestrator, seen, account>>
  BY DEF Next, ConsumerStep, HandleRaises
<1>2. Rejected /\ todo # <<>> /\ session' = IF Working THEN Idle ELSE session
  BY DEF HandleRaises
<1>3. QED
  BY <1>1, <1>2, RejectedRest

-----------------------------------------------------------------------------
\* The API makes the calls that were approved.

LEMMA ApproveRest ==
  ASSUME Inv, Rest, Approve
  PROVE  Rest'
<1>1. /\ session = Idle
      /\ UNCHANGED <<rigid, posts, queue, recorded, taken, todo, cache, snapshot, gone, seen, account>>
  BY DEF Approve, midpoint, consumer
<1>2. PICK i \in DOMAIN ops :
         /\ Open("api", ops[i]) /\ ops' = Without(ops, i)
         /\ \/ excused' = excused /\ \A j \in 1..(i - 1) : ops[j].target # ops[i].target
            \/ excused' = excused \cup {ops[i].target}
  BY DEF Approve, Without
<1>3. PICK t : t = ops[i].target
  OBVIOUS
<1>4. /\ ops \in Seq(Natives) /\ todo \in Seq(Natives) /\ ops # <<>> /\ approval
      /\ t \in Targets /\ DOMAIN ops = 1..Len(ops) /\ Len(ops) \in Nat
  BY <1>2, <1>3, Before, NativeFields DEF Routes
<1>5. Inv' /\ broker' = broker /\ family' = family /\ cleanup' = cleanup /\ approval' = approval
  BY <1>1, NextInv, RigidParts DEF Next
<1>6. /\ session' # Idle /\ session'.target = t /\ SameOp(session', ops[i])
      /\ session'.before = account[t] /\ session'.by = "api"
  BY <1>2, <1>3 DEF Open, SameOp, Idle
<1> DEFINE Old(j) == IF j < i THEN j ELSE j + 1
<1>7. /\ ops' \in Seq(Natives)
      /\ \A j \in DOMAIN ops' : Old(j) \in DOMAIN ops \ {i} /\ ops'[j] = ops[Old(j)]
      /\ \A j \in DOMAIN ops \ {i} : \E k \in DOMAIN ops' : j = Old(k)
      /\ \A j, k \in DOMAIN ops' : j < k => Old(j) < Old(k)
      /\ \A j, k \in DOMAIN ops' : Old(j) < Old(k) => j < k
  <2>1. ops' = Without(ops, i) /\ ops \in Seq(Natives)
    BY <1>2, <1>4
  <2>2. QED
    BY <2>1, WithoutOf
<1> HIDE DEF Old
<1>8. \A j \in DOMAIN ops : j = i \/ \E k \in DOMAIN ops' : j = Old(k) /\ ops'[k] = ops[j]
  BY <1>7
<1>9. Waiting(t) /\ Running(t)' /\ \A u : InHand(t)' /\ InHand(t) /\ (u # t => (InHand(u)' <=> InHand(u)))
  <2>1. \A u : u # t => SameOps(u)
    BY <1>2, <1>3, <1>4, OpsWithout
  <2>2. QED
    BY <1>1, <1>2, <1>3, <1>6, <2>1 DEF InHand, Waiting, Running, SameOps
<1>10. FollowInv' /\ CleanInv'
  <2>1. ASSUME NEW u \in Targets \ excused', u # t PROVE Fine(u)'
    <3>1. Fine(u)
      BY <1>2, <2>1, FineBefore DEF Rest
    <3>2. Same(u)
      BY <1>1, <1>2, <1>3, <1>4, <1>6, <2>1, TodoStays, OpsWithout, CallElsewhere DEF Same
    <3>3. QED
      BY <1>1, <2>1, <3>1, <3>2, Apart
  <2>2. ASSUME t \notin excused' PROVE Fine(t)'
    <3>1. Fine(t) /\ \A j \in DOMAIN ops : j < i => ops[j].target # t
      BY <1>2, <1>3, <1>4, <2>2, FineBefore DEF Rest
    <3>2. ASSUME NEW w, BoundFor(t, w) PROVE BoundFor(t, w)'
      <4>1. ASSUME ~Left(t, todo), NEW k \in DOMAIN ops', LastIn(ops', k, t) PROVE Meets(ops[k], w)'
        <5>1. Old(k) \in DOMAIN ops /\ ops'[k] = ops[Old(k)] /\ ops'[k].target = t /\ Old(k) # i
          BY <1>7, <4>1 DEF LastIn
        <5>2. ASSUME NEW h \in DOMAIN ops, h > Old(k) PROVE ops[h].target # t
          <6>1. h # i
            BY <1>4, <3>1, <5>1, <5>2
          <6>2. PICK g \in DOMAIN ops' : h = Old(g) /\ ops'[g] = ops[h]
            BY <1>8, <6>1
          <6>3. Old(k) \in Int /\ h \in Int /\ g > k
            <7>1. Old(k) \in Int /\ h \in Int
              BY <1>4, <5>1
            <7>2. k \in Int /\ g \in Int /\ k < g
              BY <1>7, <5>2, <6>2, <7>1
            <7>3. QED
              BY <7>1, <7>2
          <6>4. QED
            BY <4>1, <6>2, <6>3 DEF LastIn
        <5>3. Meets(ops[Old(k)], w)
          BY <3>2, <4>1, <5>1, <5>2 DEF BoundFor, LastIn
        <5>4. QED
          BY <1>5, <5>1, <5>3 DEF Meets
      <4>2. ASSUME ~Left(t, todo), ~Waiting(t)' PROVE Meets(session, w)'
        <5>1. \A h \in DOMAIN ops : h > i => ops[h].target # t
          BY <1>4, <1>8, <4>2 DEF Waiting
        <5>2. Meets(ops[i], w)
          BY <1>3, <3>2, <4>2, <5>1 DEF BoundFor, LastIn
        <5>3. QED
          BY <1>3, <1>5, <1>6, <5>2 DEF Meets, SameOp
      <4>3. QED
        BY <1>1, <1>5, <1>9, <3>2, <4>1, <4>2 DEF BoundFor, Meets, Left
    <3>3. ~Behind(t)' => BoundFor(t, seen[t])'
      <4>1. ASSUME NEW w, w = seen[t], BoundFor(t, w) PROVE BoundFor(t, seen[t])'
        BY <1>1, <3>2, <4>1, BoundSeen
      <4>2. Behind(t) => Behind(t)'
        BY <1>1, BehindStays
      <4>3. QED
        BY <3>1, <4>1, <4>2 DEF Fine, Follows
    <3>4. broker = "rabbitmq" => Traced(t)'
      <4>1. BoundFor(t, Absent) => BoundFor(t, Absent)'
        BY <3>2
      <4>2. Pending(t)
        BY <1>9 DEF Pending
      <4>3. QED
        BY <1>1, <3>1, <4>1, <4>2 DEF Fine, Follows, Traced
    <3>5. ASSUME t \in cleanup PROVE CleanFor(t)'
      <4>1. CleanFor(t)
        BY <1>4, <3>1, <3>5 DEF Fine
      <4>2. \A h \in DOMAIN todo' : ~(todo'[h].target = t /\ EmptyCreate(todo'[h]))
        BY <1>1, <1>9, <4>1 DEF CleanFor
      <4>3. ASSUME NEW k \in DOMAIN ops', ops'[k].target = t, EmptyCreate(ops'[k]) PROVE FALSE
        <5>1. Old(k) \in DOMAIN ops \ {i} /\ ops'[k] = ops[Old(k)]
          BY <1>7
        <5>2. FirstIn(ops, Old(k), t)
          BY <4>1, <4>3, <5>1 DEF CleanFor
        <5>3. i < Old(k)
          BY <1>4, <3>1, <4>3, <5>1
        <5>4. QED
          BY <1>3, <5>2, <5>3 DEF FirstIn
      <4>4. Running(t)' /\ EmptyCreate(session') => session'.before.member = {}
        BY <1>3, <1>6, <4>1 DEF CleanFor, EmptyCreate, SameOp
      <4>5. QED
        BY <4>2, <4>3, <4>4 DEF CleanFor
    <3>6. QED
      BY <1>5, <1>9, <3>3, <3>4, <3>5 DEF Fine, Follows
  <2>3. QED
    BY <1>5, <2>1, <2>2, FineAfter DEF Inv
<1>11. Within /\ Remains
  BY <1>1 DEF Within, Remains
<1>12. Lines'
  BY <1>1, <1>4, <1>6, <1>11, LinesStay DEF Rest, Working
<1>13. End'
  <2>1. ASSUME NEW u, Leaves(u)' PROVE Leaves(u)
    BY <1>1, <1>2, <1>3, <1>6, <1>7, <2>1 DEF Leaves, Running, SameOp
  <2>2. QED
    BY <1>11, <2>1, EndStays DEF Rest
<1>14. Start'
  <2>1. ~Blank
    BY <1>4 DEF Blank
  <2>2. ASSUME NEW d, FromFirst(d) PROVE FromFirst(d)'
    <3>1. Creates(ops[i], d) /\ account[t].member \subseteq Given(d, t)
      BY <1>2, <1>4, <2>2 DEF FromFirst
    <3>2. TargetsForMessage(d)' = TargetsForMessage(d)
      BY <1>5, GivenIsRigid
    <3>3. Creates(session', d) /\ session'.before.member \subseteq Given(d, session'.target)
      BY <1>3, <1>6, <3>1 DEF Creates, SameOp
    <3>4. \A u \in Targets \ TargetsForMessage(d) : ~InHand(u)'
      BY <1>9, <2>2 DEF FromFirst
    <3>5. \A k \in DOMAIN ops' : Creates(ops'[k], d)
      BY <1>7, <2>2 DEF FromFirst
    <3>6. QED
      BY <1>1, <2>2, <3>2, <3>3, <3>4, <3>5 DEF FromFirst, Creates
  <2>3. \A u \in Targets \ excused' : InHand(u)' => InHand(u) /\ u \notin excused
    BY <1>2, <1>9
  <2>4. QED
    BY <1>11, <2>1, <2>2, <2>3, StartStays DEF Rest
<1>15. QED
  BY <1>10, <1>12, <1>13, <1>14 DEF Rest

LEMMA ApiLostRest ==
  ASSUME Inv, Rest, session # Idle, session.by = "api", session' = Idle,
         excused' = excused \cup {session.target}, Next,
         UNCHANGED <<rigid, midpoint, consumer, orchestrator, seen, account>>
  PROVE  Rest'
<1>1. UNCHANGED <<rigid, posts, queue, recorded, taken, todo, cache, ops, snapshot, gone, seen, account>>
  BY DEF midpoint, consumer, orchestrator
<1>2. Inv' /\ broker' = broker /\ family' = family /\ cleanup' = cleanup /\ approval' = approval
  BY NextInv, RigidParts
<1>3. FollowInv' /\ CleanInv'
  <2>1. ASSUME NEW u \in Targets \ excused' PROVE Fine(u)'
    <3>1. Fine(u)
      BY <2>1, FineBefore DEF Rest
    <3>2. Same(u)
      BY <1>1, <2>1, TodoStays, OpsStay, CallElsewhere DEF Same
    <3>3. QED
      BY <1>1, <2>1, <3>1, <3>2, Apart
  <2>2. QED
    BY <1>2, <2>1, FineAfter DEF Inv
<1>4. Within /\ Remains
  BY <1>1 DEF Within, Remains
<1>5. Lines'
  BY <1>1, <1>4, Before, LinesStay DEF Rest, Working
<1>6. End'
  <2>1. ASSUME NEW u, Leaves(u)' PROVE Leaves(u)
    BY <1>1, <2>1 DEF Leaves, Running
  <2>2. QED
    BY <1>4, <2>1, EndStays DEF Rest
<1>7. Start'
  <2>1. ~Blank
    BY DEF Blank
  <2>2. ASSUME NEW d, FromFirst(d) PROVE FromFirst(d)'
    <3>1. TargetsForMessage(d)' = TargetsForMessage(d)
      BY <1>2, GivenIsRigid
    <3>2. QED
      BY <1>1, <2>2, <3>1 DEF FromFirst, Creates, InHand, Waiting, Running
  <2>3. \A u \in Targets \ excused' : InHand(u)' => InHand(u) /\ u \notin excused
    BY <1>1 DEF InHand, Waiting, Running
  <2>4. QED
    BY <1>4, <2>1, <2>2, <2>3, StartStays DEF Rest
<1>8. QED
  BY <1>3, <1>5, <1>6, <1>7 DEF Rest

LEMMA ProvisioningFailedRest == ASSUME Inv, Rest, ProvisioningFailed PROVE Rest'
<1>1. Next
  BY DEF Next
<1>2. QED
  BY <1>1, ApiLostRest DEF ProvisioningFailed

LEMMA CrashApiRest == ASSUME Inv, Rest, CrashApi PROVE Rest'
<1>1. Next
  BY DEF Next
<1>2. QED
  BY <1>1, ApiLostRest DEF CrashApi

LEMMA ProvisionedRest ==
  ASSUME Inv, Rest, Provisioned
  PROVE  Rest'
<1>0. PICK t : t = session.target
  OBVIOUS
<1>1. /\ session # Idle /\ session.by = "api" /\ session.pc = "done" /\ session' = Idle
      /\ excused' = Outcome(session, todo)
      /\ UNCHANGED <<rigid, posts, queue, recorded, taken, todo, cache, ops, seen, account>>
  BY DEF Provisioned, midpoint, consumer
<1>2. /\ approval /\ ~Working /\ t \in Targets /\ Held /\ snapshot \in [Targets -> WishSet]
      /\ todo \in Seq(Natives) /\ session.op \in Operations /\ session.want \subseteq Ents
      /\ session.on \in BOOLEAN
  BY <1>0, <1>1, Before, InCall, CallFields DEF Routes, WishesTyped, Working
<1>3. Inv' /\ broker' = broker /\ family' = family /\ cleanup' = cleanup /\ approval' = approval
  BY <1>1, NextInv, RigidParts DEF Next
<1>4. /\ \A u : u # t => snapshot'[u] = snapshot[u]
      /\ session.named /\ session.op # "DELETE" =>
            snapshot'[t] = [ents |-> session.want, on |-> session.on]
      /\ session.named /\ session.op = "DELETE" => snapshot'[t] = Absent
      /\ gone' \subseteq gone \cup {t} /\ (session.op # "DELETE" => gone' \subseteq gone)
  <2>1. CASE ~session.named
    BY <2>1 DEF Provisioned
  <2>2. CASE session.named /\ session.op = "DELETE"
    <3>1. snapshot' = [snapshot EXCEPT ![t] = Absent] /\ gone' = gone \cup {t}
      BY <1>0, <2>2 DEF Provisioned
    <3>2. QED
      BY <1>2, <2>2, <3>1
  <2>3. CASE session.named /\ session.op # "DELETE"
    <3>1. /\ snapshot' = [snapshot EXCEPT ![t] = [ents |-> session.want, on |-> session.on]]
          /\ gone' = IF session.op = "CREATE" THEN gone \ {t} ELSE gone
      BY <1>0, <2>3 DEF Provisioned
    <3>2. QED
      BY <1>2, <2>3, <3>1
  <2>4. QED
    BY <2>1, <2>2, <2>3
<1>5. Running(t) /\ Pending(t) /\ ~Running(t)' /\ (Waiting(t)' <=> Waiting(t))
      /\ (Left(t, todo)' <=> Left(t, todo))
  BY <1>0, <1>1 DEF Running, Pending, InHand, Waiting, Left
<1>6. /\ \A u : u # t /\ u \notin excused' => u \notin excused
      /\ t \notin excused' => /\ ~session.refused /\ session.named /\ ~Enables(session)
                              /\ Rights(session, todo) \/ t \notin excused
  BY <1>0, <1>1, OutcomeIs
<1>7. FollowInv' /\ CleanInv'
  <2>1. ASSUME NEW u \in Targets \ excused', u # t PROVE Fine(u)'
    <3>1. Fine(u)
      BY <1>6, <2>1, FineBefore DEF Rest
    <3>2. Same(u)
      BY <1>0, <1>1, <2>1, TodoStays, OpsStay, CallElsewhere DEF Same
    <3>3. QED
      BY <1>1, <1>4, <2>1, <3>1, <3>2, Apart
  <2>2. ASSUME t \notin excused' PROVE Fine(t)'
    <3>1. /\ ~session.refused /\ session.named /\ ~Enables(session)
          /\ Rights(session, todo) \/ t \notin excused
      BY <1>6, <2>2
    <3>2. \A w : Meets(session, w) => Agrees(t, w)
      BY <1>0, <1>1, <1>2, <3>1, DoneSettles
    <3>3. ASSUME t \notin excused, NEW w, BoundFor(t, w) PROVE BoundFor(t, w)'
      <4>1. ~Left(t, todo) /\ ~Waiting(t) => Agrees(t, w)
        BY <1>5, <3>2, <3>3 DEF BoundFor
      <4>2. ~Left(t, todo)' /\ ~InHand(t)' => Agrees(t, w)'
        BY <1>1, <1>3, <1>5, <4>1 DEF InHand, Agrees, Disables, Usable
      <4>3. QED
        BY <1>1, <1>3, <1>5, <3>3, <4>2 DEF BoundFor, Meets, Left
    <3>4. ASSUME Rights(session, todo), NEW w, Meets(session, w) PROVE BoundFor(t, w)'
      <4>1. ~Left(t, todo)' /\ ~Waiting(t)' /\ Agrees(t, w)
        BY <1>0, <1>5, <3>2, <3>4 DEF Rights
      <4>2. QED
        BY <1>1, <1>3, <1>5, <4>1 DEF BoundFor, Agrees, Disables, Usable, Left, Waiting, LastIn
    <3>5. t \notin excused => Fine(t)
      BY <1>2, FineBefore DEF Rest
    <3>6. ~Behind(t)' => BoundFor(t, seen[t])'
      <4>1. ASSUME NEW w, w = seen[t], BoundFor(t, w)' PROVE BoundFor(t, seen[t])'
        BY <1>1, <4>1, BoundSeen
      <4>2. Behind(t) => Behind(t)'
        BY <1>1, BehindStays
      <4>3. Rights(session, todo) => Meets(session, seen[t])
        BY <1>0 DEF Rights
      <4>4. QED
        BY <3>1, <3>3, <3>4, <3>5, <4>1, <4>2, <4>3 DEF Fine, Follows
    <3>7. broker = "rabbitmq" => Traced(t)'
      <4>1. CASE t \notin excused /\ broker = "rabbitmq"
        <5>1. BoundFor(t, Absent) \/ t \in cache
          BY <1>5, <3>5, <4>1 DEF Fine, Follows, Traced
        <5>2. QED
          BY <1>1, <3>3, <4>1, <5>1 DEF Traced
      <4>2. CASE Rights(session, todo) /\ broker = "rabbitmq"
        <5>1. \/ seen[t] = Absent \/ t \in cache \/ cache = {}
          BY <1>0, <4>2 DEF Rights, Findable
        <5>2. Meets(session, seen[t]) /\ ~Waiting(t) /\ ~Left(t, todo)
          BY <1>0, <4>2 DEF Rights
        <5>3. Meets(session, Absent) => Traced(t)'
          BY <3>4, <4>2 DEF Traced
        <5>4. session.op = "DELETE" => Meets(session, Absent)
          BY <5>2 DEF Meets
        <5>5. session.op # "DELETE" => snapshot'[t] # Absent /\ ~Pending(t)'
          BY <1>2, <1>4, <1>5, <3>1, <5>2, DeliveryAssumption DEF Pending, InHand
        <5>6. QED
          BY <1>1, <5>1, <5>2, <5>3, <5>4, <5>5 DEF Traced
      <4>3. QED
        BY <3>1, <4>1, <4>2
    <3>8. ASSUME snapshot'[t] # Absent
          PROVE  /\ Agrees(t, snapshot[t])'
                 /\ t \in cleanup' /\ family'[t] # "odoo" /\ snapshot'[t].ents = {} => Bare(t)'
      <4>1. session.op # "DELETE" /\ snapshot'[t] = [ents |-> session.want, on |-> session.on]
        BY <1>4, <3>1, <3>8
      <4>2. Meets(session, [ents |-> session.want, on |-> session.on])
        BY <4>1 DEF Meets
      <4>3. Agrees(t, [ents |-> session.want, on |-> session.on])
        BY <3>2, <4>2
      <4>4. Agrees(t, snapshot[t])'
        BY <1>1, <1>3, <4>1, <4>3 DEF Agrees, Disables, Usable
      <4>5. ASSUME t \in cleanup, family[t] # "odoo", session.want = {} PROVE Bare(t)
        <5>1. session.op = "CREATE" => session.before.member = {}
          BY <1>0, <1>2, <1>5, <3>1, <3>5, <4>5 DEF Rights, Fine, CleanFor, EmptyCreate
        <5>2. QED
          BY <1>0, <1>1, <1>2, <3>1, <4>1, <4>5, <5>1, DoneBares
      <4>6. QED
        BY <1>1, <1>3, <4>1, <4>4, <4>5 DEF Bare, Usable
    <3>9. ASSUME t \in cleanup PROVE CleanFor(t)'
      <4>1. \A i \in DOMAIN todo' : ~(todo'[i].target = t /\ EmptyCreate(todo'[i]))
        BY <1>0, <1>1, <1>2, <1>5, <3>1, <3>5, <3>9 DEF Fine, CleanFor, InHand, Rights, Left
      <4>2. \A i \in DOMAIN ops' : ~(ops'[i].target = t /\ EmptyCreate(ops'[i]))
        BY <1>0, <1>1, <1>2, <1>5, <3>1, <3>5, <3>9 DEF Fine, CleanFor, InHand, Rights, Waiting
      <4>3. QED
        BY <1>5, <4>1, <4>2 DEF CleanFor
    <3>10. QED
      BY <1>3, <3>6, <3>7, <3>8, <3>9 DEF Fine, Follows
  <2>3. QED
    BY <1>3, <2>1, <2>2, FineAfter DEF Inv
<1>8. Within /\ Remains
  BY <1>1 DEF Within, Remains
<1>9. Lines'
  BY <1>1, <1>2, <1>8, LinesStay DEF Rest, Working
<1>10. End'
  <2>1. ASSUME NEW u, Leaves(u)' PROVE Leaves(u)
    BY <1>1, <1>4, <1>5, <2>1 DEF Leaves, Running
  <2>2. QED
    BY <1>8, <2>1, EndStays DEF Rest
<1>11. Start'
  <2>1. ~Blank
    BY <1>1 DEF Blank
  <2>2. ASSUME NEW d, FromFirst(d) PROVE FromFirst(d)'
    <3>1. TargetsForMessage(d)' = TargetsForMessage(d)
      BY <1>3, GivenIsRigid
    <3>2. gone' = {}
      BY <1>1, <1>4, <2>2 DEF FromFirst, Creates
    <3>3. QED
      BY <1>1, <2>2, <3>1, <3>2 DEF FromFirst, Creates, InHand, Waiting, Running
  <2>3. \A u \in Targets \ excused' : InHand(u)' => InHand(u) /\ u \notin excused
    <3>1. ASSUME NEW u \in Targets \ excused', InHand(u)' PROVE InHand(u) /\ u \notin excused
      <4>1. InHand(u)
        BY <1>1, <3>1 DEF InHand, Waiting, Running
      <4>2. u = t => u \notin excused
        BY <1>0, <1>5, <1>6, <3>1 DEF InHand, Rights
      <4>3. QED
        BY <1>6, <3>1, <4>1, <4>2
    <3>2. QED
      BY <3>1
  <2>4. QED
    BY <1>8, <2>1, <2>2, <2>3, StartStays DEF Rest
<1>12. QED
  BY <1>7, <1>9, <1>10, <1>11 DEF Rest

-----------------------------------------------------------------------------
\* Crashes of the consumer.

LEMMA CrashConsumerRest ==
  ASSUME Inv, Rest, CrashConsumer
  PROVE  Rest'
<1>1. /\ taken' = NoMessage /\ todo' = <<>> /\ cache' = {}
      /\ session' = IF Working THEN Idle ELSE session
      /\ UNCHANGED <<rigid, posts, ops, snapshot, gone, seen, account>>
  BY DEF CrashConsumer, midpoint, orchestrator
<1>2. Inv' /\ broker' = broker /\ family' = family /\ cleanup' = cleanup /\ approval' = approval
  BY <1>1, NextInv, RigidParts DEF Next
<1>3. /\ SetupTyped /\ Routes /\ queue \in Seq(Posted) /\ handled \in Seq(Posted)
      /\ todo \in Seq(Natives)
  BY Before
<1>4. ~Working' /\ \A u : InHand(u)' => InHand(u)
  BY <1>1 DEF InHand, Waiting, Running, Working
<1>5. CASE broker = "rabbitmq"
  <2>1. /\ queue' = InProgress \o queue
        /\ excused' = excused \cup {u \in Targets : snapshot[u] = Absent \/ InHand(u)}
    BY <1>5 DEF CrashConsumer
  <2>2. /\ taken = NoMessage => queue' = queue
        /\ taken # NoMessage => /\ queue' # <<>> /\ DOMAIN queue' = 1..(Len(queue) + 1)
                                /\ queue'[1] = taken /\ Len(queue') = Len(queue) + 1
                                /\ \A i \in DOMAIN queue' : i # 1 =>
                                      i - 1 \in DOMAIN queue /\ queue'[i] = queue[i - 1]
    <3>1. CASE taken = NoMessage
      BY <1>3, <2>1, <3>1 DEF InProgress
    <3>2. CASE taken # NoMessage
      <4>1. <<taken>> \in Seq(Posted) /\ Len(<<taken>>) = 1 /\ <<taken>>[1] = taken
        BY <3>2, Before DEF MessagesTyped
      <4>2. queue' = <<taken>> \o queue
        BY <2>1, <3>2 DEF InProgress
      <4>3. /\ queue' \in Seq(Posted) /\ Len(queue') = 1 + Len(queue)
            /\ \A i \in 1..(1 + Len(queue)) :
                  queue'[i] = IF i <= 1 THEN <<taken>>[i] ELSE queue[i - 1]
        BY <1>3, <4>1, <4>2, ConcatProperties
      <4>4. DOMAIN queue = 1..Len(queue) /\ DOMAIN queue' = 1..Len(queue') /\ Len(queue) \in Nat
        BY <1>3, <4>3
      <4>5. QED
        BY <3>2, <4>1, <4>3, <4>4
    <3>3. QED
      BY <3>1, <3>2
  <2>3. FollowInv' /\ CleanInv'
    <3>1. ASSUME NEW u \in Targets \ excused' PROVE Fine(u)'
      <4>1. Fine(u) /\ snapshot[u] # Absent /\ ~InHand(u) /\ ~InHand(u)' /\ ~Left(u, todo)'
        BY <1>1, <1>4, <2>1, <3>1, FineBefore DEF Rest, Left
      <4>2. ~Behind(u)' => BoundFor(u, seen[u])'
        <5>1. SUFFICES ASSUME ~Behind(u)' PROVE BoundFor(u, seen[u])'
          OBVIOUS
        <5>2. taken = NoMessage /\ queue = <<>> /\ todo = <<>>
          BY <1>1, <1>2, <1>3, <1>5, <2>2, <5>1 DEF Behind, Routes
        <5>3. ~Behind(u) /\ ~Left(u, todo)
          BY <1>5, <5>2 DEF Behind, Left
        <5>4. Agrees(u, seen[u])
          BY <4>1, <5>3 DEF Fine, Follows, BoundFor
        <5>5. QED
          BY <1>1, <1>2, <4>1, <5>4 DEF BoundFor, Agrees, Disables, Usable, Left, InHand, Waiting, LastIn
      <4>3. Traced(u)'
        BY <1>1, <4>1 DEF Traced, Pending
      <4>4. /\ Agrees(u, snapshot[u])'
            /\ u \in cleanup' /\ family'[u] # "odoo" /\ snapshot'[u].ents = {} => Bare(u)'
        BY <1>1, <1>2, <4>1 DEF Fine, Follows, Agrees, Disables, Bare, Usable
      <4>5. CleanFor(u)'
        BY <1>1, <4>1 DEF CleanFor, InHand, Waiting
      <4>6. QED
        BY <4>2, <4>3, <4>4, <4>5 DEF Fine, Follows
    <3>2. QED
      BY <1>2, <3>1, FineAfter DEF Inv
  <2>4. Lines'
    <3>1. \A i \in DOMAIN queue' : queue'[i].op = "DELETE" => queue'[i].want = Nothing
      BY <1>5, <2>2 DEF Rest, Lines
    <3>2. Nothing' = Nothing
      BY DEF Nothing
    <3>3. QED
      BY <1>1, <1>2, <1>4, <1>5, <3>1, <3>2 DEF Lines, Distinct
  <2>5. End'
    <3>1. Closed' <=> Closed
      BY <1>1 DEF Closed, rigid
    <3>2. \A i \in DOMAIN queue' : queue'[i].op = "DELETE" => i = Len(queue') /\ Closed'
      <4>1. CASE taken = NoMessage
        BY <1>5, <2>2, <3>1, <4>1 DEF Rest, End
      <4>2. CASE taken # NoMessage
        <5>1. ASSUME NEW i \in DOMAIN queue', queue'[i].op = "DELETE"
              PROVE  i = Len(queue') /\ Closed'
          <6>1. CASE i = 1
            <7>1. queue = <<>> /\ Closed
              BY <1>5, <2>2, <4>2, <5>1, <6>1 DEF Rest, End
            <7>2. QED
              BY <2>2, <3>1, <4>2, <6>1, <7>1
          <6>2. CASE i # 1
            <7>1. i - 1 = Len(queue) /\ Closed
              BY <1>5, <2>2, <4>2, <5>1, <6>2 DEF Rest, End
            <7>2. i \in Int /\ Len(queue) \in Int
              BY <1>3, <2>2, <4>2, <5>1
            <7>3. QED
              BY <2>2, <3>1, <4>2, <7>1, <7>2
          <6>3. QED
            BY <6>1, <6>2
        <5>2. QED
          BY <5>1
      <4>3. QED
        BY <4>1, <4>2
    <3>3. \A u \in cleanup : Leaves(u)' => Over'
      <4>1. \A u : Leaves(u)' => Leaves(u)
        BY <1>1 DEF Leaves, Running
      <4>2. Over => Over'
        BY <1>1, <2>2, <3>1 DEF Over
      <4>3. QED
        BY <1>5, <4>1, <4>2 DEF Rest, End
    <3>4. QED
      BY <1>1, <1>2, <1>5, <3>2, <3>3 DEF Rest, End
  <2>6. Start'
    <3>1. Blank => Blank'
      BY <1>1, <2>2 DEF Blank, Working
    <3>2. ASSUME NEW i \in DOMAIN queue', queue'[i].op = "CREATE"
          PROVE  i = 1 /\ \A u \in Targets \ excused' : ~InHand(u)'
      <4>1. i = 1
        BY <1>5, <2>2, <3>2 DEF Rest, Start
      <4>2. QED
        BY <1>4, <2>1, <4>1
    <3>3. ASSUME NEW d, FromFirst(d) PROVE FromFirst(d)'
      <4>1. TargetsForMessage(d)' = TargetsForMessage(d)
        BY <1>2, GivenIsRigid
      <4>2. QED
        BY <1>1, <1>4, <3>3, <4>1 DEF FromFirst, Creates
    <3>4. ASSUME NEW d \in UserPosts, d.op = "CREATE", Queued(d)' PROVE FromFirst(d)'
      <4>1. Queued(d) \/ taken = d
        BY <2>2, <3>4 DEF Queued
      <4>2. QED
        BY <1>5, <3>3, <3>4, <4>1 DEF Rest, Start
    <3>5. ASSUME NEW d \in UserPosts PROVE taken' # d
      BY <1>1, <3>5, DeliveryAssumption DEF UserPosts, UserMessages, Messages
    <3>6. UserPosts' = UserPosts
      BY <1>1, UserPostsStay
    <3>7. QED
      BY <1>1, <1>5, <3>1, <3>2, <3>4, <3>5, <3>6 DEF Start, Rest
  <2>7. QED
    BY <2>3, <2>4, <2>5, <2>6 DEF Rest
<1>6. CASE broker = "kafka"
  <2>1. /\ recorded' = recorded
        /\ excused' = excused \/ excused' = excused \cup {taken.task.target}
        /\ \A i \in DOMAIN queue : \E j \in DOMAIN queue' : queue'[j] = queue[i]
        /\ taken # NoMessage /\ taken.task.target \notin excused' =>
              /\ \E j \in DOMAIN queue' : queue'[j] = taken
              /\ todo # <<>> => taken \notin recorded
    <3>1. ASSUME NEW n \in 0..Len(handled),
                 queue' = SubSeq(handled, n + 1, Len(handled)) \o InProgress \o queue
          PROVE  /\ \A i \in DOMAIN queue : \E j \in DOMAIN queue' : queue'[j] = queue[i]
                 /\ taken # NoMessage => \E j \in DOMAIN queue' : queue'[j] = taken
      <4> DEFINE h == SubSeq(handled, n + 1, Len(handled))
                 p == InProgress
      <4>1. h \in Seq(Posted)
        <5>1. \A i \in (n + 1)..Len(handled) : handled[i] \in Posted
          BY <1>3
        <5>2. QED
          BY <1>3, <5>1, SubSeqProperties
      <4>2. p \in Seq(Posted) /\ (taken # NoMessage => Len(p) = 1 /\ p[1] = taken)
        BY Before DEF InProgress, MessagesTyped
      <4>3. queue' = (h \o p) \o queue
        BY <3>1
      <4> HIDE DEF h, p
      <4>4. /\ h \o p \in Seq(Posted) /\ Len(h \o p) = Len(h) + Len(p)
            /\ \A i \in 1..(Len(h) + Len(p)) :
                  (h \o p)[i] = IF i <= Len(h) THEN h[i] ELSE p[i - Len(h)]
        BY <4>1, <4>2, ConcatProperties
      <4> DEFINE g == h \o p
      <4> HIDE DEF g
      <4>5. g \in Seq(Posted) /\ queue' = g \o queue
        BY <4>3, <4>4 DEF g
      <4>6. /\ queue' \in Seq(Posted) /\ Len(queue') = Len(g) + Len(queue)
            /\ \A i \in 1..(Len(g) + Len(queue)) :
                  queue'[i] = IF i <= Len(g) THEN g[i] ELSE queue[i - Len(g)]
        BY <1>3, <4>5, ConcatProperties
      <4>7. \A i \in DOMAIN queue : i + Len(g) \in DOMAIN queue' /\ queue'[i + Len(g)] = queue[i]
        <5>1. ASSUME NEW i \in DOMAIN queue
              PROVE  i + Len(g) \in DOMAIN queue' /\ queue'[i + Len(g)] = queue[i]
          <6>1. i \in 1..Len(queue) /\ Len(g) \in Nat /\ Len(queue) \in Nat
            BY <1>3, <4>5
          <6>2. i + Len(g) \in 1..(Len(g) + Len(queue)) /\ ~(i + Len(g) <= Len(g))
                /\ (i + Len(g)) - Len(g) = i
            BY <6>1
          <6>3. DOMAIN queue' = 1..Len(queue')
            BY <4>6
          <6>4. QED
            BY <4>6, <6>2, <6>3
        <5>2. QED
          BY <5>1
      <4>8. taken # NoMessage => \E i \in DOMAIN queue' : queue'[i] = taken
        <5>1. SUFFICES ASSUME taken # NoMessage PROVE \E i \in DOMAIN queue' : queue'[i] = taken
          OBVIOUS
        <5>2. /\ Len(g) = Len(h) + 1 /\ Len(h) \in Nat /\ Len(queue) \in Nat
          <6>1. Len(g) = Len(h) + Len(p)
            BY <4>4 DEF g
          <6>2. Len(h) \in Nat /\ Len(queue) \in Nat /\ Len(p) = 1
            BY <1>3, <4>1, <4>2, <5>1
          <6>3. QED
            BY <6>1, <6>2
        <5>3. g[Len(h) + 1] = taken
          <6>1. Len(h) + 1 \in 1..(Len(h) + Len(p)) /\ ~(Len(h) + 1 <= Len(h))
                /\ (Len(h) + 1) - Len(h) = 1
            BY <4>2, <5>1, <5>2
          <6>2. (h \o p)[Len(h) + 1] = p[1]
            BY <4>4, <6>1
          <6>3. QED
            BY <4>2, <5>1, <6>2 DEF g
        <5>4. Len(h) + 1 \in DOMAIN queue' /\ queue'[Len(h) + 1] = g[Len(h) + 1]
          <6>1. Len(h) + 1 \in 1..(Len(g) + Len(queue)) /\ Len(h) + 1 <= Len(g)
            BY <5>2
          <6>2. DOMAIN queue' = 1..Len(queue')
            BY <4>6
          <6>3. QED
            BY <4>6, <6>1, <6>2
        <5>5. QED
          BY <5>3, <5>4
      <4>9. QED
        BY <4>7, <4>8
    <3>2. CASE queue' = queue /\ excused' = excused \cup {taken.task.target}
      BY <3>2 DEF CrashConsumer
    <3>3. CASE /\ \E n \in 0..Len(handled) :
                     queue' = SubSeq(handled, n + 1, Len(handled)) \o InProgress \o queue
               /\ excused' = IF todo # <<>> /\ taken \in recorded
                             THEN excused \cup {taken.task.target} ELSE excused
      BY <3>1, <3>3 DEF CrashConsumer
    <3>4. QED
      BY <1>6, <3>2, <3>3 DEF CrashConsumer
  <2>2. ASSUME NEW u \in Targets \ excused' PROVE Fine(u)'
    <3>1. Fine(u)
      BY <2>1, <2>2, FineBefore DEF Rest
    <3>2. cleanup = {} /\ ~Left(u, todo)'
      BY <1>1, <1>3, <1>6 DEF SetupTyped, Left
    <3>3. CASE Left(u, todo)
      <4>1. todo # <<>> /\ taken # NoMessage /\ taken.task.target = u
        BY <1>3, <1>6, <3>3 DEF Routes, Rest, Lines, Left
      <4>2. Behind(u)'
        BY <1>2, <1>6, <2>1, <2>2, <3>2, <4>1 DEF Behind
      <4>3. ASSUME ~InHand(u)', snapshot'[u] # Absent PROVE Agrees(u, snapshot[u])'
        <5>1. approval
          BY <1>1, <1>3, <2>2, <4>3 DEF Routes, Nothing
        <5>2. ~InHand(u)
          BY <1>1, <1>3, <4>3, <5>1 DEF Routes, InHand, Waiting, Running
        <5>3. Agrees(u, snapshot[u])
          BY <1>1, <3>1, <4>3, <5>2 DEF Fine, Follows
        <5>4. QED
          BY <1>1, <1>2, <5>3 DEF Agrees, Disables, Usable
      <4>4. QED
        BY <1>2, <1>6, <3>2, <4>2, <4>3 DEF Fine, Follows
    <3>4. CASE ~Left(u, todo)
      <4>1. ~Working \/ u # session.target
        <5>1. ASSUME Working PROVE Left(session.target, todo)
          BY <1>3, <5>1 DEF Routes, Left
        <5>2. QED
          BY <3>4, <5>1
      <4>2. Same(u)
        BY <1>1, <3>4, <4>1, TodoDropped, OpsStay, CallElsewhere, CallStays DEF Same
      <4>3. Behind(u) => Behind(u)'
        BY <1>2, <1>6, <2>1, <3>2 DEF Behind
      <4>4. QED
        BY <1>1, <1>6, <3>1, <4>2, <4>3, Untouched
    <3>5. QED
      BY <3>3, <3>4
  <2>3. FollowInv' /\ CleanInv'
    BY <1>2, <2>2, FineAfter DEF Inv
  <2>4. Lines'
    BY <1>1, <1>2, <1>4, <1>6 DEF Lines, Distinct
  <2>5. End' /\ Start'
    BY <1>2, <1>6 DEF End, Start
  <2>6. QED
    BY <2>3, <2>4, <2>5 DEF Rest
<1>7. QED
  BY <1>3, <1>5, <1>6 DEF SetupTyped

-----------------------------------------------------------------------------
\* The consumer takes a message.

\* The first message taken off the queue, what is said of the others stays.
LEMMA QueueTail ==
  ASSUME queue \in Seq(Posted), queue # <<>>, queue' = Tail(queue),
         NEW i \in DOMAIN queue, queue[i] # Head(queue)
  PROVE  i - 1 \in DOMAIN queue' /\ queue'[i - 1] = queue[i]
<1>1. /\ Tail(queue) \in Seq(Posted) /\ Len(Tail(queue)) = Len(queue) - 1
      /\ \A j \in 1..Len(Tail(queue)) : Tail(queue)[j] = queue[j + 1]
  BY HeadTailProperties
<1>2. i \in 1..Len(queue) /\ i # 1 /\ Len(queue) \in Nat
  OBVIOUS
<1>3. i - 1 \in 1..Len(Tail(queue)) /\ (i - 1) + 1 = i
  BY <1>1, <1>2
<1>4. DOMAIN queue' = 1..Len(Tail(queue))
  BY <1>1
<1>5. QED
  BY <1>1, <1>3, <1>4

LEMMA TakeAgainRest ==
  ASSUME Inv, Rest, TakeAgain
  PROVE  Rest'
<1>1. /\ broker = "kafka" /\ broker' = broker /\ queue # <<>> /\ Head(queue) \in recorded
      /\ queue' = Tail(queue)
      /\ UNCHANGED <<rigid, todo, taken, recorded, cache, ops, snapshot, seen, excused, account, session>>
  BY RigidParts DEF TakeAgain, midpoint, orchestrator
<1>2. ASSUME NEW t, Behind(t) PROVE Behind(t)'
  <2>1. PICK i \in DOMAIN queue : queue[i].task.target = t /\ queue[i] \notin recorded
    BY <1>1, <1>2 DEF Behind
  <2>2. i - 1 \in DOMAIN queue' /\ queue'[i - 1] = queue[i]
    BY <1>1, <2>1, QueueTail, Before
  <2>3. QED
    BY <1>1, <1>2, <2>1, <2>2 DEF Behind, Left
<1>3. FollowInv' /\ CleanInv'
  BY <1>1, <1>2, QuietRest DEF Rest
<1>4. Lines'
  BY <1>1 DEF Rest, Lines, Working, SameOp, Distinct
<1>5. End' /\ Start'
  BY <1>1 DEF End, Start
<1>6. QED
  BY <1>3, <1>4, <1>5 DEF Rest

\* What gets its row is the message that was taken, so nothing waits on its target.
LEMMA CreateOperationRest ==
  ASSUME Inv, Rest, CreateOperation
  PROVE  Rest'
<1>1. /\ broker = "kafka" /\ broker' = broker /\ todo # <<>>
      /\ recorded' = recorded \cup {taken}
      /\ UNCHANGED <<rigid, todo, taken, queue, cache, ops, snapshot, seen, excused, account, session>>
  BY RigidParts DEF CreateOperation, midpoint, orchestrator
<1>2. ASSUME NEW t, Behind(t) PROVE Behind(t)'
  <2>1. PICK i \in DOMAIN queue : queue[i].task.target = t /\ queue[i] \notin recorded
    BY <1>1, <1>2 DEF Behind
  <2>2. ~Left(t, todo)
    BY <1>1, <1>2 DEF Behind
  <2>3. taken.task.target # t
    <3>1. 1 \in DOMAIN todo
      BY <1>1, FirstOf
    <3>2. QED
      BY <1>1, <2>2, <3>1 DEF Rest, Lines, Left
  <2>4. QED
    BY <1>1, <2>1, <2>2, <2>3 DEF Behind, Left
<1>3. FollowInv' /\ CleanInv'
  BY <1>1, <1>2, QuietRest DEF Rest
<1>4. Lines'
  BY <1>1 DEF Rest, Lines, Working, SameOp, Distinct
<1>5. End' /\ Start'
  BY <1>1 DEF End, Start
<1>6. QED
  BY <1>3, <1>4, <1>5 DEF Rest

LEMMA TakeNativeRest ==
  ASSUME Inv, Rest, TakeNative
  PROVE  Rest'
<1>1. PICK h, m, t : h = Head(queue) /\ m = h.task /\ t = m.target
  OBVIOUS
<1>2. /\ broker = "kafka" /\ taken = NoMessage /\ queue # <<>>
      /\ taken' = h /\ queue' = Tail(queue) /\ todo' = <<m>>
      /\ seen' = IF Stale(h) THEN seen
                 ELSE [seen EXCEPT ![t] = IF m.op = "DELETE" THEN Absent
                                          ELSE [ents |-> m.want, on |-> m.on]]
      /\ excused' = IF Stale(h) THEN excused \cup {t} ELSE excused
      /\ UNCHANGED <<rigid, posts, recorded, cache, ops, snapshot, gone, account, session>>
  BY <1>1 DEF TakeNative, midpoint, orchestrator
<1>3. Inv' /\ broker' = broker /\ family' = family /\ cleanup' = cleanup /\ approval' = approval
  BY <1>2, NextInv, RigidParts DEF Next, ConsumerStep
<1>4. /\ queue \in Seq(Posted) /\ m \in Natives /\ cleanup = {} /\ todo = <<>> /\ t \in Targets
      /\ seen \in [Targets -> WishSet]
  BY <1>1, <1>2, Before, NativeFields DEF Posted, NativePosts, SetupTyped, Routes, WishesTyped
<1>5. todo'[1] = m /\ DOMAIN todo' = {1} /\ ~Working
  BY <1>2, <1>4, Before DEF Routes
<1>6. ASSUME NEW u \in Targets \ excused' PROVE Fine(u)'
  <2>1. Fine(u)
    BY <1>2, <1>6, FineBefore DEF Rest
  <2>2. CASE u # t
    <3>1. Same(u)
      <4>1. SameTodo(u)
        BY <1>1, <1>4, <1>5, <2>2 DEF SameTodo, Left
      <4>2. QED
        BY <1>2, <4>1, OpsStay, CallStays DEF Same
    <3>2. Behind(u) => Behind(u)'
      <4>1. SUFFICES ASSUME NEW i \in DOMAIN queue, queue[i].task.target = u, queue[i] \notin recorded
                     PROVE  \E j \in DOMAIN queue' : queue'[j].task.target = u /\ queue'[j] \notin recorded'
        BY <1>1, <1>2, <1>3, <1>5, <2>2 DEF Behind, Left
      <4>2. i - 1 \in DOMAIN queue' /\ queue'[i - 1] = queue[i]
        BY <1>1, <1>2, <1>4, <2>2, <4>1, QueueTail
      <4>3. QED
        BY <1>2, <4>1, <4>2
    <3>3. seen'[u] = seen[u]
      BY <1>2, <1>4, <2>2
    <3>4. QED
      BY <1>2, <2>1, <3>1, <3>2, <3>3, Untouched
  <2>3. CASE u = t
    <3>1. Left(t, todo)' /\ \A i \in DOMAIN todo' : todo'[i] = m
      BY <1>1, <1>5 DEF Left
    <3>2. ASSUME NEW w, w = seen'[t] PROVE BoundFor(t, w)'
      <4>1. ~Stale(h)
        BY <1>2, <1>6, <2>3
      <4>2. m.op = "DELETE" => w = Absent
        BY <1>2, <1>4, <3>2, <4>1
      <4>3. m.op # "DELETE" => w = [ents |-> m.want, on |-> m.on]
        BY <1>2, <1>4, <3>2, <4>1
      <4>4. \A i \in DOMAIN todo' : Meets(todo[i], w)'
        BY <3>1, <4>2, <4>3 DEF Meets
      <4>5. QED
        BY <3>1, <4>4 DEF BoundFor
    <3>3. BoundFor(t, seen[t])'
      BY <3>2, BoundSeen
    <3>4. ASSUME ~InHand(t)', snapshot'[t] # Absent PROVE Agrees(t, snapshot[t])'
      <4>1. ~InHand(t)
        BY <1>2, <3>4 DEF InHand, Waiting, Running
      <4>2. Agrees(t, snapshot[t])
        BY <1>2, <2>1, <2>3, <3>4, <4>1 DEF Fine, Follows
      <4>3. QED
        BY <1>2, <1>3, <4>2 DEF Agrees, Disables, Usable
    <3>5. QED
      BY <1>2, <1>3, <1>4, <2>3, <3>3, <3>4 DEF Fine, Follows
  <2>4. QED
    BY <2>2, <2>3
<1>7. FollowInv' /\ CleanInv'
  BY <1>3, <1>6, FineAfter DEF Inv
<1>8. Lines'
  BY <1>1, <1>2, <1>3, <1>5 DEF Lines, Distinct, Working
<1>9. End' /\ Start'
  BY <1>2, <1>3 DEF End, Start
<1>10. QED
  BY <1>7, <1>8, <1>9 DEF Rest

\* An order of some targets names each of them once.
LEMMA OrdersCover ==
  ASSUME NEW S \in SUBSET Targets, NEW s \in Orders(S)
  PROVE  /\ \A i \in DOMAIN s : s[i] \in S
         /\ \A i, j \in DOMAIN s : s[i] = s[j] => i = j
         /\ \A t \in S : \E i \in DOMAIN s : s[i] = t
<1>1. IsFiniteSet(S)
  BY DeliveryAssumption, FS_Subset
<1> DEFINE n == Cardinality(S)
<1>2. n \in Nat
  BY <1>1, FS_CardinalityType
<1>3. s \in [1..n -> S] /\ \A i, j \in DOMAIN s : s[i] = s[j] => i = j
  BY DEF Orders
<1>4. DOMAIN s = 1..n /\ \A i \in DOMAIN s : s[i] \in S
  BY <1>3
<1>5. ASSUME NEW t \in S, \A i \in DOMAIN s : s[i] # t PROVE FALSE
  <2>1. s \in [1..n -> S \ {t}]
    BY <1>3, <1>4, <1>5
  <2>2. IsFiniteSet(S \ {t}) /\ Cardinality(S \ {t}) = n - 1
    BY <1>1, FS_RemoveElement
  <2>3. IsFiniteSet(1..n) /\ Cardinality(1..n) = n
    <3>1. 1 \in Int /\ n \in Int
      BY <1>2
    <3>2. /\ IsFiniteSet(1..n)
          /\ Cardinality(1..n) = IF 1 > n THEN 0 ELSE n - 1 + 1
      BY <3>1, FS_Interval
    <3>3. QED
      BY <1>2, <3>2
  <2>4. Cardinality(S \ {t}) < Cardinality(1..n)
    BY <1>2, <2>2, <2>3
  <2> DEFINE I == 1..n
             T == S \ {t}
  <2>5. IsFiniteSet(I) /\ IsFiniteSet(T) /\ Cardinality(T) < Cardinality(I) /\ s \in [I -> T]
    BY <2>1, <2>2, <2>3, <2>4
  <2> HIDE DEF I, T
  <2>6. \E i, j \in I : i # j /\ s[i] = s[j]
    BY <2>5, FS_PigeonHole
  <2>7. QED
    BY <1>3, <1>4, <2>6 DEF I
<1>6. QED
  BY <1>3, <1>4, <1>5

LEMMA OrderOf ==
  ASSUME NEW S \in SUBSET Targets, NEW s \in Orders(S), NEW q,
         DOMAIN q = DOMAIN s, \A i \in DOMAIN s : q[i].target = s[i]
  PROVE  /\ Distinct(q) /\ \A i \in DOMAIN q : q[i].target \in S
         /\ \A t : Left(t, q) <=> t \in S
<1>1. /\ \A i \in DOMAIN s : s[i] \in S
      /\ \A i, j \in DOMAIN s : s[i] = s[j] => i = j
      /\ \A t \in S : \E i \in DOMAIN s : s[i] = t
  BY OrdersCover
<1>2. QED
  BY <1>1 DEF Distinct, Left

LEMMA JoinOf ==
  ASSUME NEW A, NEW p \in Seq(A), NEW q \in Seq(A), Distinct(p), Distinct(q),
         \A t : ~(Left(t, p) /\ Left(t, q)), NEW n \in Seq(A), n = p \o q
  PROVE  /\ Distinct(n)
         /\ \A i \in DOMAIN n : \/ \E j \in DOMAIN p : n[i] = p[j]
                                \/ \E j \in DOMAIN q : n[i] = q[j]
         /\ \A t : Left(t, n) <=> Left(t, p) \/ Left(t, q)
<1>1. /\ n \in Seq(A) /\ Len(n) = Len(p) + Len(q)
      /\ \A i \in 1..(Len(p) + Len(q)) : n[i] = IF i <= Len(p) THEN p[i] ELSE q[i - Len(p)]
  BY ConcatProperties
<1>2. /\ DOMAIN p = 1..Len(p) /\ DOMAIN q = 1..Len(q) /\ DOMAIN n = 1..Len(n)
      /\ Len(p) \in Nat /\ Len(q) \in Nat
  BY <1>1
<1>3. \A i \in DOMAIN n : \/ i \in DOMAIN p /\ n[i] = p[i]
                          \/ i \notin DOMAIN p /\ i - Len(p) \in DOMAIN q /\ n[i] = q[i - Len(p)]
  BY <1>1, <1>2
<1>4. \A i \in DOMAIN p : i \in DOMAIN n /\ n[i] = p[i]
  BY <1>1, <1>2
<1>5. \A i \in DOMAIN q : i + Len(p) \in DOMAIN n /\ n[i + Len(p)] = q[i]
  <2>1. ASSUME NEW i \in DOMAIN q
        PROVE  i + Len(p) \in DOMAIN n /\ n[i + Len(p)] = q[i]
    <3>1. i + Len(p) \in 1..(Len(p) + Len(q)) /\ ~(i + Len(p) <= Len(p)) /\ (i + Len(p)) - Len(p) = i
      BY <1>2
    <3>2. QED
      BY <1>1, <1>2, <3>1
  <2>2. QED
    BY <2>1
<1>6. Distinct(n)
  <2>1. SUFFICES ASSUME NEW i \in DOMAIN n, NEW j \in DOMAIN n, n[i].target = n[j].target
                 PROVE  i = j
    BY DEF Distinct
  <2>2. CASE i \in DOMAIN p /\ j \in DOMAIN p
    BY <1>4, <2>1, <2>2 DEF Distinct
  <2>3. CASE i \notin DOMAIN p /\ j \notin DOMAIN p
    <3>1. /\ i - Len(p) \in DOMAIN q /\ n[i] = q[i - Len(p)]
          /\ j - Len(p) \in DOMAIN q /\ n[j] = q[j - Len(p)]
      BY <1>3, <2>3
    <3>2. i - Len(p) = j - Len(p)
      BY <2>1, <3>1 DEF Distinct
    <3>3. QED
      BY <1>2, <3>2
  <2>4. CASE i \in DOMAIN p /\ j \notin DOMAIN p
    BY <1>3, <2>1, <2>4 DEF Left
  <2>5. CASE i \notin DOMAIN p /\ j \in DOMAIN p
    BY <1>3, <2>1, <2>5 DEF Left
  <2>6. QED
    BY <2>2, <2>3, <2>4, <2>5
<1>7. \A i \in DOMAIN n : \/ \E j \in DOMAIN p : n[i] = p[j]
                          \/ \E j \in DOMAIN q : n[i] = q[j]
  BY <1>3
<1>8. \A t : Left(t, n) <=> Left(t, p) \/ Left(t, q)
  <2>1. ASSUME NEW t PROVE Left(t, n) => Left(t, p) \/ Left(t, q)
    BY <1>7 DEF Left
  <2>2. ASSUME NEW t PROVE Left(t, p) => Left(t, n)
    BY <1>4 DEF Left
  <2>3. ASSUME NEW t PROVE Left(t, q) => Left(t, n)
    BY <1>5 DEF Left
  <2>4. QED
    BY <2>1, <2>2, <2>3
<1>9. QED
  BY <1>6, <1>7, <1>8

\* What a message is turned into: at most one operation on a target, which asks
\* for what the message wants there.
Leads(s, m) ==
    /\ s.target \in Targets /\ s.want = Given(m, s.target)
    /\ s.on = (m.want[s.target] = Absent \/ m.want[s.target].on)
    /\ m.op = "DELETE" => s.op = "DELETE"
    /\ m.op = "CREATE" => s.op = "CREATE" /\ s.target \in TargetsForMessage(m)
    /\ m.op = "UPDATE" =>
          IF s.target \in TargetsForMessage(m) THEN s.op = "UPDATE"
          ELSE s.op = IF s.target \in cleanup THEN "UPDATE" ELSE "DELETE"

LEMMA ProjectIs ==
  ASSUME NEW m, NEW t, NEW op, NEW named, NEW s, s = Project(m, t, op, named)
  PROVE  /\ s.target = t /\ s.op = op /\ s.want = Given(m, t)
         /\ s.on = (m.want[t] = Absent \/ m.want[t].on)
  BY DEF Project, Given

LEMMA ParseLeads ==
  ASSUME SetupTyped, cache \subseteq Targets, NEW m \in UserPosts, NEW redisUp, Parse(m, redisUp)
  PROVE  /\ Distinct(todo') /\ \A i \in DOMAIN todo' : Leads(todo'[i], m)
         /\ m.op = "DELETE" => \A t : Left(t, todo') <=> t \in DeleteTargets(m, Remembered(redisUp))
         /\ m.op = "UPDATE" =>
               /\ cache' = TargetsForMessage(m)
               /\ \A t : Left(t, todo') <=> t \in Removed(m, Remembered(redisUp)) \cup TargetsForMessage(m)
         /\ m.op = "CREATE" =>
               /\ TargetsForMessage(m) # {} => cache' = TargetsForMessage(m)
               /\ \A t : Left(t, todo') <=> t \in TargetsForMessage(m)
<1> DEFINE redis == Remembered(redisUp)
<1>1. /\ m.op \in {"DELETE", "UPDATE", "CREATE"} /\ m.named \in BOOLEAN /\ m.removed \subseteq Targets
      /\ TargetsForMessage(m) \subseteq Targets
  BY UserFields, RoutesAreTargets DEF Operations
<1>2. redis \subseteq Targets
  BY HoldsAreTargets DEF Remembered
<1>3. CASE m.op = "DELETE"
  <2>1. \E s \in Orders(DeleteTargets(m, redis)) :
           todo' = [i \in DOMAIN s |-> Project(m, s[i], "DELETE", Named(m, redisUp))]
    BY <1>3, Zenon DEF Parse
  <2>2. PICK s \in Orders(DeleteTargets(m, redis)) :
           todo' = [i \in DOMAIN s |-> Project(m, s[i], "DELETE", Named(m, redisUp))]
    BY <2>1
  <2>3. DeleteTargets(m, redis) \in SUBSET Targets
    BY <1>1, <1>2 DEF DeleteTargets
  <2>4. DOMAIN todo' = DOMAIN s
        /\ \A i \in DOMAIN s : todo'[i] = Project(m, s[i], "DELETE", Named(m, redisUp))
    BY <2>2
  <2>5. \A i \in DOMAIN s : /\ todo'[i].target = s[i] /\ todo'[i].op = "DELETE"
                            /\ todo'[i].want = Given(m, s[i])
                            /\ todo'[i].on = (m.want[s[i]] = Absent \/ m.want[s[i]].on)
    BY <2>4, ProjectIs
  <2>6. /\ Distinct(todo') /\ \A i \in DOMAIN todo' : todo'[i].target \in DeleteTargets(m, redis)
        /\ \A t : Left(t, todo') <=> t \in DeleteTargets(m, redis)
    BY <2>3, <2>4, <2>5, OrderOf
  <2>7. \A i \in DOMAIN todo' : Leads(todo'[i], m)
    BY <1>3, <2>3, <2>4, <2>5, <2>6 DEF Leads
  <2>8. QED
    BY <1>3, <2>6, <2>7
<1>4. CASE m.op = "UPDATE"
  <2>1. /\ \E d \in Orders(Removed(m, redis)), s \in Orders(TargetsForMessage(m)) :
              todo' = [i \in DOMAIN d |-> Departure(m, d[i])]
                      \o [i \in DOMAIN s |-> Project(m, s[i], "UPDATE", TRUE)]
        /\ cache' = TargetsForMessage(m)
    BY <1>4, Zenon DEF Parse
  <2>2. PICK d \in Orders(Removed(m, redis)), s \in Orders(TargetsForMessage(m)) :
           todo' = [i \in DOMAIN d |-> Departure(m, d[i])]
                   \o [i \in DOMAIN s |-> Project(m, s[i], "UPDATE", TRUE)]
    BY <2>1
  <2>3. Removed(m, redis) \in SUBSET Targets
    BY <1>1, <1>2 DEF Removed
  <2>4. \A t \in Targets : Project(m, t, "UPDATE", TRUE) \in Natives /\ Departure(m, t) \in Natives
    BY ProjectIsNative DEF Departure, Operations
  <2> DEFINE p == [i \in DOMAIN d |-> Departure(m, d[i])]
             q == [i \in DOMAIN s |-> Project(m, s[i], "UPDATE", TRUE)]
  <2>5. p = [i \in DOMAIN d |-> p[i]] /\ \A i \in DOMAIN d : d[i] \in Targets => p[i] \in Natives
    BY <2>4
  <2>6. q = [i \in DOMAIN s |-> q[i]] /\ \A i \in DOMAIN s : s[i] \in Targets => q[i] \in Natives
    BY <2>4
  <2>7. /\ todo' = p \o q /\ DOMAIN p = DOMAIN d /\ DOMAIN q = DOMAIN s
        /\ \A i \in DOMAIN d : p[i] = Departure(m, d[i])
        /\ \A i \in DOMAIN s : q[i] = Project(m, s[i], "UPDATE", TRUE)
    BY <2>2
  <2> HIDE DEF p, q
  <2>8. p \in Seq(Natives) /\ q \in Seq(Natives)
    BY <1>1, <2>3, <2>5, <2>6, OrdersGive
  <2>9. \A i \in DOMAIN p : /\ p[i].target = d[i] /\ p[i].want = Given(m, d[i])
                            /\ p[i].op = IF d[i] \in cleanup THEN "UPDATE" ELSE "DELETE"
                            /\ p[i].on = (m.want[d[i]] = Absent \/ m.want[d[i]].on)
    <3>1. \A t : /\ Departure(m, t).target = t /\ Departure(m, t).want = Given(m, t)
                 /\ Departure(m, t).op = IF t \in cleanup THEN "UPDATE" ELSE "DELETE"
                 /\ Departure(m, t).on = (m.want[t] = Absent \/ m.want[t].on)
      BY DEF Departure, Project, Given
    <3>2. QED
      BY <2>7, <3>1
  <2>10. \A i \in DOMAIN q : /\ q[i].target = s[i] /\ q[i].want = Given(m, s[i])
                             /\ q[i].op = "UPDATE"
                             /\ q[i].on = (m.want[s[i]] = Absent \/ m.want[s[i]].on)
    <3>1. ASSUME NEW i \in DOMAIN q
          PROVE  /\ q[i].target = s[i] /\ q[i].want = Given(m, s[i]) /\ q[i].op = "UPDATE"
                 /\ q[i].on = (m.want[s[i]] = Absent \/ m.want[s[i]].on)
      <4>1. q[i] = Project(m, s[i], "UPDATE", TRUE)
        BY <2>7
      <4>2. QED
        BY <4>1 DEF Project, Given
    <3>2. QED
      BY <3>1
  <2>11. /\ Distinct(p) /\ \A i \in DOMAIN p : p[i].target \in Removed(m, redis)
         /\ \A t : Left(t, p) <=> t \in Removed(m, redis)
    BY <2>3, <2>7, <2>9, OrderOf
  <2>12. /\ Distinct(q) /\ \A i \in DOMAIN q : q[i].target \in TargetsForMessage(m)
         /\ \A t : Left(t, q) <=> t \in TargetsForMessage(m)
    BY <1>1, <2>7, <2>10, OrderOf
  <2>13. \A t : ~(Left(t, p) /\ Left(t, q))
    BY <2>11, <2>12 DEF Removed
  <2>14. /\ Distinct(todo')
         /\ \A i \in DOMAIN todo' : \/ \E j \in DOMAIN p : todo'[i] = p[j]
                                    \/ \E j \in DOMAIN q : todo'[i] = q[j]
         /\ \A t : Left(t, todo') <=> Left(t, p) \/ Left(t, q)
    <3>1. Distinct(p) /\ Distinct(q) /\ todo' = p \o q /\ todo' \in Seq(Natives)
      BY <2>7, <2>8, <2>11, <2>12, ConcatProperties
    <3>2. \A t : ~(Left(t, p) /\ Left(t, q))
      BY <2>13
    <3>3. PICK n \in Seq(Natives) : n = todo' /\ n = p \o q
      BY <3>1
    <3>4. Distinct(n)
      BY <2>8, <3>1, <3>2, <3>3, JoinOf
    <3>5. \A i \in DOMAIN n : \/ \E j \in DOMAIN p : n[i] = p[j]
                             \/ \E j \in DOMAIN q : n[i] = q[j]
      BY <2>8, <3>1, <3>2, <3>3, JoinOf
    <3>6. \A t : Left(t, n) <=> Left(t, p) \/ Left(t, q)
      BY <2>8, <3>1, <3>2, <3>3, JoinOf
    <3>7. QED
      BY <3>3, <3>4, <3>5, <3>6
  <2>15. \A j \in DOMAIN p : Leads(p[j], m)
    BY <1>4, <2>3, <2>9, <2>11 DEF Leads, Removed
  <2>16. \A j \in DOMAIN q : Leads(q[j], m)
    BY <1>1, <1>4, <2>10, <2>12 DEF Leads
  <2>17. \A i \in DOMAIN todo' : Leads(todo'[i], m)
    BY <2>14, <2>15, <2>16
  <2>18. \A t : Left(t, todo') <=> t \in Removed(m, redis) \cup TargetsForMessage(m)
    BY <2>11, <2>12, <2>14
  <2>19. QED
    BY <1>4, <2>1, <2>14, <2>17, <2>18
<1>5. CASE m.op = "CREATE"
  <2>1. /\ \E s \in Orders(TargetsForMessage(m)) :
              todo' = [i \in DOMAIN s |-> Project(m, s[i], "CREATE", TRUE)]
        /\ cache' = IF TargetsForMessage(m) = {} THEN cache ELSE TargetsForMessage(m)
    BY <1>5, Zenon DEF Parse
  <2>2. PICK s \in Orders(TargetsForMessage(m)) :
           todo' = [i \in DOMAIN s |-> Project(m, s[i], "CREATE", TRUE)]
    BY <2>1
  <2>3. DOMAIN todo' = DOMAIN s
        /\ \A i \in DOMAIN s : todo'[i] = Project(m, s[i], "CREATE", TRUE)
    BY <2>2
  <2>4. \A i \in DOMAIN s : /\ todo'[i].target = s[i] /\ todo'[i].op = "CREATE"
                            /\ todo'[i].want = Given(m, s[i])
                            /\ todo'[i].on = (m.want[s[i]] = Absent \/ m.want[s[i]].on)
    BY <2>3 DEF Project, Given
  <2>5. /\ Distinct(todo') /\ \A i \in DOMAIN todo' : todo'[i].target \in TargetsForMessage(m)
        /\ \A t : Left(t, todo') <=> t \in TargetsForMessage(m)
    BY <1>1, <2>3, <2>4, OrderOf
  <2>6. \A i \in DOMAIN todo' : Leads(todo'[i], m)
    BY <1>1, <1>5, <2>3, <2>4, <2>5 DEF Leads
  <2>7. QED
    BY <1>5, <2>1, <2>5, <2>6
<1>6. QED
  BY <1>1, <1>3, <1>4, <1>5

LEMMA LeadsMeets ==
  ASSUME SetupTyped, NEW m \in UserPosts, m.op = "DELETE" => m.want = Nothing,
         NEW s, Leads(s, m), s.target \notin Misrouted(m)
  PROVE  Meets(s, m.want[s.target])
<1> DEFINE t == s.target
           w == m.want[t]
<1>1. /\ m.op \in Operations /\ m.want \in [Targets -> WishSet] /\ t \in Targets
  BY UserFields DEF Leads
<1>2. CASE m.op = "DELETE"
  BY <1>1, <1>2 DEF Leads, Meets, Nothing
<1>3. CASE m.op # "DELETE" /\ w # Absent
  <2>1. t \in TargetsForMessage(m)
    BY <1>1, <1>3 DEF Misrouted, Holds
  <2>2. s.op # "DELETE"
    BY <1>1, <1>3, <2>1 DEF Leads, Operations
  <2>3. w = [ents |-> w.ents, on |-> w.on] /\ w.on \in BOOLEAN
    BY <1>1, <1>3 DEF WishSet
  <2>4. s.want = w.ents /\ s.on = w.on
    BY <1>3, <2>3 DEF Leads, Given
  <2>5. QED
    BY <2>2, <2>3, <2>4 DEF Meets
<1>4. CASE m.op # "DELETE" /\ w = Absent
  <2>1. t \notin TargetsForMessage(m)
    BY <1>1, <1>4 DEF Misrouted, Holds
  <2>2. m.op = "UPDATE" /\ s.want = {}
    BY <1>1, <1>4, <2>1 DEF Leads, Operations, Given
  <2>3. QED
    BY <1>4, <2>1, <2>2 DEF Leads, Meets
<1>5. QED
  BY <1>2, <1>3, <1>4

LEMMA TakeRest ==
  ASSUME Inv, Rest, Take
  PROVE  Rest'
<1>1. PICK m : m = Head(queue)
  OBVIOUS
<1>2. /\ broker = "rabbitmq" /\ taken = NoMessage /\ queue # <<>>
      /\ taken' = m /\ queue' = Tail(queue) /\ seen' = m.want
      /\ UNCHANGED <<rigid, posts, ops, snapshot, gone, account, session>>
  BY <1>1 DEF Take, midpoint, orchestrator
<1>3. PICK redisUp \in {TRUE} \cup (IF "redis" \in faults THEN {FALSE} ELSE {}), e \in Enriched(m) :
         /\ Parse(e, redisUp)
         /\ excused' = excused \cup Misrouted(m) \cup
                 (IF redisUp THEN {} ELSE Holds(snapshot) \ {todo'[i].target : i \in DOMAIN todo'})
  BY <1>1 DEF Take
<1>4. Inv' /\ broker' = broker /\ family' = family /\ cleanup' = cleanup /\ approval' = approval
  BY <1>2, NextInv, RigidParts DEF Next, ConsumerStep
<1>5. /\ SetupTyped /\ queue \in Seq(Posted) /\ m \in UserPosts /\ todo = <<>> /\ cache \subseteq Targets
      /\ cleanup \subseteq Targets
  BY <1>1, <1>2, Before DEF Posted, SetupTyped, Routes, MarksTyped
<1>6. /\ m.op \in Operations /\ m.want \in [Targets -> WishSet]
      /\ TargetsForMessage(m) \subseteq Targets
  BY <1>5, UserFields, RoutesAreTargets
<1> DEFINE redis == Remembered(redisUp)
<1>7. /\ Distinct(todo') /\ \A i \in DOMAIN todo' : Leads(todo'[i], m)
      /\ m.op = "DELETE" => \A t : Left(t, todo') <=> t \in DeleteTargets(e, redis)
      /\ m.op = "UPDATE" =>
            /\ cache' = TargetsForMessage(m)
            /\ \A t : Left(t, todo') <=> t \in Removed(m, redis) \cup TargetsForMessage(m)
      /\ m.op = "CREATE" =>
            /\ TargetsForMessage(m) # {} => cache' = TargetsForMessage(m)
            /\ \A t : Left(t, todo') <=> t \in TargetsForMessage(m)
  <2>1. /\ e \in UserPosts /\ e.op = m.op /\ e.want = m.want /\ (m.op # "DELETE" => e = m)
    BY <1>5, EnrichedIs
  <2>2. /\ Distinct(todo') /\ \A i \in DOMAIN todo' : Leads(todo'[i], e)
        /\ m.op = "DELETE" => \A t : Left(t, todo') <=> t \in DeleteTargets(e, redis)
    BY <1>3, <1>5, <2>1, ParseLeads
  <2>3. \A i \in DOMAIN todo' : Leads(todo'[i], m)
    <3>1. CASE m.op = "DELETE"
      BY <2>1, <2>2, <3>1 DEF Leads, Given
    <3>2. CASE m.op # "DELETE"
      BY <2>1, <2>2, <3>2
    <3>3. QED
      BY <3>1, <3>2
  <2>4. CASE e = m
    BY <1>3, <1>5, <2>2, <2>3, <2>4, ParseLeads
  <2>5. CASE m.op = "DELETE"
    BY <2>2, <2>3, <2>5
  <2>6. QED
    BY <2>1, <2>4, <2>5
<1>8. /\ m = queue[1] /\ 1 \in DOMAIN queue /\ Len(queue) \in Nat /\ Len(queue') = Len(queue) - 1
      /\ \A i \in DOMAIN queue' : /\ i \in Nat /\ i >= 1 /\ i + 1 \in DOMAIN queue
                                  /\ queue'[i] = queue[i + 1]
      /\ Len(queue') = 0 => queue' = <<>>
  <2>1. /\ queue' \in Seq(Posted) /\ Len(queue') = Len(queue) - 1
        /\ \A i \in 1..Len(queue') : queue'[i] = queue[i + 1]
    BY <1>2, <1>5, HeadTailProperties
  <2>2. DOMAIN queue = 1..Len(queue) /\ DOMAIN queue' = 1..Len(queue') /\ Len(queue) \in Nat
        /\ Len(queue) >= 1
    BY <1>2, <1>5, <2>1
  <2>3. m = queue[1]
    BY <1>1, <1>2, <1>5
  <2>4. QED
    BY <2>1, <2>2, <2>3
<1>9. m.op = "DELETE" => m.want = Nothing
  BY <1>2, <1>8 DEF Rest, Lines
<1>10. Queued(m) /\ (m.op = "CREATE" => FromFirst(m) /\ \A u \in Targets \ excused : ~InHand(u))
  BY <1>2, <1>5, <1>8 DEF Queued, Rest, Start
<1>11. taken' # NoMessage
  BY <1>2, <1>5, DeliveryAssumption DEF UserPosts, UserMessages, Messages
<1>12. ~Working' /\ \A u : InHand(u)' <=> InHand(u)
  BY <1>2, <1>5, Before DEF Routes, Working, InHand, Waiting, Running
<1>13. ASSUME NEW t \in Targets \ excused' PROVE Fine(t)'
  <2>1. Fine(t) /\ t \notin excused /\ t \notin Misrouted(m) /\ ~Left(t, todo)
        /\ (redisUp = TRUE \/ snapshot[t] = Absent \/ Left(t, todo'))
    <3>1. t \notin excused /\ t \notin Misrouted(m) /\ ~Left(t, todo)
      BY <1>3, <1>5, <1>13 DEF Left
    <3>2. Fine(t)
      BY <3>1, FineBefore DEF Rest
    <3>3. ASSUME redisUp # TRUE, snapshot[t] # Absent PROVE Left(t, todo')
      <4>1. redisUp = FALSE
        BY <3>3
      <4>2. t \in {todo'[i].target : i \in DOMAIN todo'}
        BY <1>3, <1>13, <3>3, <4>1 DEF Holds
      <4>3. QED
        BY <4>2 DEF Left
    <3>4. QED
      BY <3>1, <3>2, <3>3
  <2>2. ~Behind(t)'
    BY <1>2, <1>4, <1>11 DEF Behind
  <2>3. ASSUME NEW w, w = m.want[t] PROVE BoundFor(t, w)'
    <3>1. CASE Left(t, todo')
      <4>1. \A i \in DOMAIN todo' : todo'[i].target = t => Meets(todo'[i], w)
        BY <1>5, <1>7, <1>9, <2>1, <2>3, LeadsMeets
      <4>2. \A i \in DOMAIN todo' : todo'[i].target = t => Meets(todo[i], w)'
        BY <1>4, <4>1 DEF Meets
      <4>3. QED
        BY <3>1, <4>2 DEF BoundFor, Left
    <3>2. CASE ~Left(t, todo')
      <4>1. w = Absent
        BY <1>6, <1>7, <1>9, <2>1, <2>3, <3>2 DEF Operations, Misrouted, Holds, Nothing
      <4>2. BoundFor(t, Absent)
        <5>1. CASE m.op = "CREATE"
          <6>1. t \notin TargetsForMessage(m)
            BY <1>7, <3>2, <5>1
          <6>2. account[t] = NoAccount /\ ~InHand(t)
            BY <1>10, <5>1, <6>1 DEF FromFirst
          <6>3. Agrees(t, Absent)
            BY <6>2, NoAccountIsOne DEF Agrees, Usable
          <6>4. QED
            BY <1>5, <6>2, <6>3 DEF BoundFor, InHand, Waiting, LastIn
        <5>2. CASE m.op = "UPDATE"
          <6>1. t \notin cache /\ t \notin redis
            BY <1>7, <3>2, <5>2 DEF Removed
          <6>2. snapshot[t] = Absent
            BY <2>1, <3>2, <6>1 DEF Remembered, Holds
          <6>3. QED
            BY <1>2, <2>1, <6>1, <6>2 DEF Fine, Follows, Traced
        <5>3. CASE m.op = "DELETE"
          <6>1. t \notin (IF cache # {} THEN cache ELSE redis)
            BY <1>7, <3>2, <5>3 DEF DeleteTargets
          <6>2. t \notin cache /\ (cache = {} => snapshot[t] = Absent)
            BY <2>1, <3>2, <6>1 DEF Remembered, Holds
          <6>3. QED
            BY <1>2, <2>1, <6>2 DEF Fine, Follows, Traced
        <5>4. QED
          BY <1>6, <5>1, <5>2, <5>3 DEF Operations
      <4>3. /\ \A i \in DOMAIN ops : LastIn(ops, i, t) => Meets(ops[i], w)
            /\ ~Waiting(t) /\ Running(t) => Meets(session, w)
            /\ ~InHand(t) => Agrees(t, w)
        BY <2>1, <4>1, <4>2 DEF BoundFor
      <4>4. \A i \in DOMAIN todo' : todo'[i].target # t
        BY <3>2 DEF Left
      <4>5. /\ \A i \in DOMAIN ops' : LastIn(ops', i, t) => Meets(ops[i], w)'
            /\ ~Waiting(t)' /\ Running(t)' => Meets(session, w)'
        BY <1>2, <1>4, <4>3 DEF Meets, Waiting, Running
      <4>6. ~InHand(t)' => Agrees(t, w)'
        BY <1>2, <1>4, <1>12, <4>3 DEF Agrees, Disables, Usable
      <4>7. QED
        BY <4>4, <4>5, <4>6 DEF BoundFor
    <3>3. QED
      BY <3>1, <3>2
  <2>4. BoundFor(t, seen[t])'
    BY <1>2, <2>3, BoundSeen
  <2>5. Traced(t)'
    <3>1. CASE m.want[t] = Absent
      BY <2>3, <3>1 DEF Traced
    <3>2. CASE m.want[t] # Absent
      <4>1. t \in TargetsForMessage(m) /\ m.op # "DELETE"
        BY <1>9, <2>1, <3>2 DEF Misrouted, Holds, Nothing
      <4>2. t \in cache'
        BY <1>6, <1>7, <4>1 DEF Operations
      <4>3. QED
        BY <4>2 DEF Traced
    <3>3. QED
      BY <3>1, <3>2
  <2>6. ASSUME ~InHand(t)', snapshot'[t] # Absent
        PROVE  /\ Agrees(t, snapshot[t])'
               /\ t \in cleanup' /\ family'[t] # "odoo" /\ snapshot'[t].ents = {} => Bare(t)'
    <3>1. /\ Agrees(t, snapshot[t])
          /\ t \in cleanup /\ family[t] # "odoo" /\ snapshot[t].ents = {} => Bare(t)
      BY <1>2, <1>12, <2>1, <2>6 DEF Fine, Follows
    <3>2. QED
      BY <1>2, <1>4, <3>1 DEF Agrees, Disables, Usable, Bare
  <2>7. ASSUME approval, t \in cleanup PROVE CleanFor(t)'
    <3>1. CleanFor(t)
      BY <2>1, <2>7 DEF Fine
    <3>2. ASSUME NEW i \in DOMAIN todo', todo'[i].target = t, EmptyCreate(todo'[i])
          PROVE  ~InHand(t)' /\ account'[t].member = {}
      <4>1. m.op = "CREATE"
        BY <1>6, <1>7, <2>7, <3>2 DEF Leads, EmptyCreate, Operations
      <4>2. ~InHand(t) /\ account[t].member \subseteq Given(m, t)
        BY <1>10, <2>1, <4>1 DEF FromFirst
      <4>3. Given(m, t) = {}
        BY <1>7, <3>2 DEF Leads, EmptyCreate
      <4>4. QED
        BY <1>2, <1>12, <4>2, <4>3
    <3>3. QED
      BY <1>2, <3>1, <3>2 DEF CleanFor, Running, FirstIn
  <2>8. QED
    BY <1>4, <2>4, <2>5, <2>6, <2>7 DEF Fine, Follows
<1>14. FollowInv' /\ CleanInv'
  BY <1>4, <1>13, FineAfter DEF Inv
<1>15. Lines'
  <2>1. \A i \in DOMAIN queue' : queue'[i].op = "DELETE" => queue'[i].want = Nothing
    BY <1>2, <1>8 DEF Rest, Lines
  <2>2. Nothing' = Nothing
    BY DEF Nothing
  <2>3. QED
    BY <1>2, <1>4, <1>7, <1>9, <1>12, <2>1, <2>2 DEF Lines
<1>16. End'
  <2>1. (Closed' <=> Closed) /\ posts' \in Nat
    BY <1>2 DEF Closed, rigid, Rest, End
  <2>2. \A i \in DOMAIN queue' : queue'[i].op = "DELETE" => i = Len(queue') /\ Closed'
    <3>1. ASSUME NEW i \in DOMAIN queue', queue'[i].op = "DELETE" PROVE i = Len(queue') /\ Closed'
      <4>1. i + 1 = Len(queue) /\ Closed
        BY <1>2, <1>8, <3>1 DEF Rest, End
      <4>2. QED
        BY <1>8, <2>1, <4>1
    <3>2. QED
      BY <3>1
  <2>3. m.op = "DELETE" => queue' = <<>> /\ Closed' /\ \A i \in DOMAIN todo' : todo'[i].op = "DELETE"
    <3>1. SUFFICES ASSUME m.op = "DELETE"
                   PROVE  queue' = <<>> /\ Closed' /\ \A i \in DOMAIN todo' : todo'[i].op = "DELETE"
      OBVIOUS
    <3>2. 1 = Len(queue) /\ Closed
      BY <1>2, <1>8, <3>1 DEF Rest, End
    <3>3. Len(queue') = 0
      BY <1>8, <3>2
    <3>4. QED
      BY <1>7, <1>8, <2>1, <3>1, <3>2, <3>3 DEF Leads
  <2>4. ASSUME NEW t \in cleanup, Leaves(t)' PROVE Over'
    <3>1. CASE m.op = "DELETE"
      BY <1>2, <2>3, <3>1 DEF Over
    <3>2. CASE m.op # "DELETE"
      <4>1. \A i \in DOMAIN todo' : ~(todo'[i].target = t /\ todo'[i].op = "DELETE")
        BY <1>6, <1>7, <2>4, <3>2 DEF Leads, Operations
      <4>2. Leaves(t)
        BY <1>2, <2>4, <4>1 DEF Leaves, Running
      <4>3. Over
        BY <1>2, <2>4, <4>2 DEF Rest, End
      <4>4. QED
        BY <1>8, <3>2, <4>3 DEF Over
    <3>3. QED
      BY <3>1, <3>2
  <2>5. QED
    BY <1>2, <1>4, <2>1, <2>2, <2>3, <2>4 DEF End
<1>17. Start'
  <2>1. posts' # 0
    BY <1>2 DEF Rest, Start, Blank
  <2>2. \A i \in DOMAIN queue' : queue'[i].op # "CREATE"
    <3>1. ASSUME NEW i \in DOMAIN queue', queue'[i].op = "CREATE" PROVE FALSE
      <4>1. i + 1 = 1
        BY <1>2, <1>8, <3>1 DEF Rest, Start
      <4>2. QED
        BY <1>8, <4>1
    <3>2. QED
      BY <3>1
  <2>3. ASSUME NEW d, d.op = "CREATE", taken' = d PROVE FromFirst(d)' /\ AllOf(d)'
    <3>1. d = m /\ FromFirst(d)
      BY <1>2, <1>10, <2>3
    <3>2. FromFirst(d)' /\ TargetsForMessage(d)' = TargetsForMessage(d)
      BY <1>2, <1>4, <3>1, FirstQuiet, GivenIsRigid
    <3>3. AllOf(d)'
      BY <1>7, <2>3, <3>1, <3>2 DEF AllOf, Leads, Creates
    <3>4. QED
      BY <3>2, <3>3
  <2>4. QED
    BY <2>1, <2>2, <2>3 DEF Start, Queued
<1>18. QED
  BY <1>14, <1>15, <1>16, <1>17 DEF Rest

-----------------------------------------------------------------------------
LEMMA NextRest == Inv /\ Rest /\ [Next]_vars => Rest'
<1> SUFFICES ASSUME Inv, Rest, [Next]_vars PROVE Rest'
  OBVIOUS
<1>1. CASE ConsumerStep
  BY <1>1, TakeRest, TakeNativeRest, TakeAgainRest, CreateOperationRest, HandleSkippedRest,
     HandleApprovalRest, HandleNowRest, HandleDoneRest, HandleFailedRest, HandleRaisesRest, AckRest DEF ConsumerStep
<1>2. QED
  BY <1>1, StutterRest, PostUserRest, PostNativeRest, ConnectorRest, ApproveRest,
     ProvisionedRest, ProvisioningFailedRest, CrashConsumerRest, CrashApiRest DEF Next

LEMMA RestAgrees == Inv /\ Rest => AccountsAgree
<1> SUFFICES ASSUME Inv, Rest, queue = <<>>, taken = NoMessage,
                    NEW t \in Targets \ excused, ~InHand(t)
             PROVE  Agrees(t, seen[t])
  BY DEF AccountsAgree
<1>1. todo = <<>>
  BY Before DEF Routes
<1>2. ~Behind(t) /\ ~Left(t, todo)
  BY <1>1 DEF Behind, Left
<1>3. QED
  BY <1>2 DEF Rest, FollowInv, Follows, BoundFor

\* Whatever is posted, decided, lost or restarted, what is known of the operations
\* in hand and of the accounts without one stays true.
THEOREM AlwaysRest == Spec => [](Inv /\ Rest)
<1>1. Init => Inv /\ Rest
  BY InitInv, RestInit
<1>2. Inv /\ Rest /\ [Next]_vars => (Inv /\ Rest)'
  BY NextInv, NextRest
<1>3. QED
  BY <1>1, <1>2, PTL DEF Spec

\* Once the consumer has caught up and nothing is pending on a target, its account
\* is what the last message wanted, enabled or disabled, unless the last operation
\* on it is known to have failed, to be lost or to be out of order (excused): the
\* targets a user lost are found again from the cache, Redis or removedRoles
\* (_targets_for_message, _parse_midpoint_format), and a message of Kafka that comes
\* again is dropped only where its operation was done or is known to be lost.
THEOREM AccountsFollow == Spec => []AccountsAgree
  BY AlwaysRest, RestAgrees, PTL
===============================================================================
