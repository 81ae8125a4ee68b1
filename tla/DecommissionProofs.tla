--------------------------- MODULE DecommissionProofs ---------------------------
(***************************************************************************)
(* What is proved of a decommission, for every set of targets, accounts    *)
(* and requests served at once: type correctness under every combination   *)
(* of faults and, under those in which it is promised, that an operation   *)
(* begin cancelled stays cancelled, that an account is asked to be deleted *)
(* once, and that a target is only removed when its accounts are gone,     *)
(* with nothing left of it anywhere else.                                  *)
(***************************************************************************)
EXTENDS TargetDecommission, FiniteSetTheorems, TLAPS

-----------------------------------------------------------------------------
\* Types.  DecommissionTypeOK is not inductive: begin and process_all write what
\* their coroutine holds in memory.

OpSteps == {"asking", "rest", "answered", "calling", "closing", "marking"}

BeginSteps   == {"list", "cancel", "requests", "scan", "create", "ask"}
ProcessSteps == {"statuses", "hold", "block", "mark", "roles", "rows", "inventory", "keys",
                 "remove", "drop"}
Steps == BeginSteps \cup ProcessSteps \cup {"idle", "next", "load", "answered"}

Coroutines ==
    [job : {"none", "begin", "process"}, pc : Steps, t : Targets \cup {None},
     todo : SUBSET Targets, latest : [Accounts -> OperationType \cup {None}],
     left : SUBSET (Accounts \cup Nat), made : SUBSET Nat]

\* The steps of a job, and what each of them has in memory.
StepTyped(c) ==
    /\ c.job = "none" => c.pc = "idle"
    /\ c.job = "begin" => c.pc \in BeginSteps \cup {"next"}
    /\ c.job = "process" => c.pc \in ProcessSteps \cup {"load", "answered"}
    /\ c.pc \in BeginSteps \cup ProcessSteps => c.t \in Targets
    /\ c.pc = "cancel" => c.left \subseteq RowsOf(c.t)
    /\ c.pc \in {"create", "ask"} => c.left \subseteq AccountsOf(c.t)
    /\ c.made \subseteq DOMAIN op
    /\ c.pc \in {"next", "list", "cancel", "requests", "scan"} => c.made = {}

CatalogTyped == overlay \in Entries /\ cache \in Entries /\ Listed = OnFile
OpTyped      == op \in Seq(OperationType) /\ Len(op) <= MaxRows[faults]
StateTyped   == /\ state \in [Targets -> Decommissions \cup {None}]
                /\ \A t \in Targets : state[t] # None => state[t].ops \subseteq DOMAIN op
WorldTyped   == /\ request \in [Targets -> {"none", "PENDING", "CANCELLED"}]
                /\ inventory \subseteq Targets /\ role \subseteq Targets /\ known \subseteq Targets
                /\ account \subseteq Accounts /\ snapshot \subseteq Accounts
HistoryTyped == cancelled \subseteq DOMAIN op /\ gone \subseteq Targets
CoTyped      == co \in [Handlers -> Coroutines] /\ \A h \in Handlers : StepTyped(co[h])
WorkerTyped  == /\ worker \in [pc : {"sleep", "processing", "sync", "post", "save"},
                               t : Targets \cup {None}, known : SUBSET Targets,
                               todo : SUBSET Targets]
                /\ worker.pc = "post" => worker.t \in Targets

TypeInv == /\ faults \in FaultSets
           /\ CatalogTyped /\ OpTyped /\ StateTyped /\ WorldTyped /\ HistoryTyped
           /\ CoTyped /\ WorkerTyped

-----------------------------------------------------------------------------
\* Rows are added and change their status, never their account or kind.

Grows == /\ DOMAIN op \subseteq DOMAIN op'
         /\ \A i \in DOMAIN op : /\ op'[i].a = op[i].a /\ op'[i].kind = op[i].kind
                                 /\ op'[i].deco = op[i].deco

LEMMA RowOf ==
    ASSUME op \in Seq(OperationType), NEW i \in DOMAIN op
    PROVE  /\ op[i] \in OperationType /\ i \in Nat /\ i \in 1..Len(op)
           /\ op[i].a \in Accounts /\ op[i].status \in Statuses /\ op[i].step \in OpSteps
           /\ op[i].kind \in {"write", "delete"} /\ op[i].deco \in BOOLEAN
<1>1. i \in 1..Len(op) /\ op[i] \in OperationType
  OBVIOUS
<1> QED
  BY <1>1 DEF OperationType, OpSteps

LEMMA RowChange ==
    ASSUME op \in Seq(OperationType), NEW i \in DOMAIN op, NEW s \in Statuses,
           NEW p \in OpSteps, Row(i, s, p)
    PROVE  /\ op' \in Seq(OperationType) /\ Len(op') = Len(op) /\ DOMAIN op' = DOMAIN op
           /\ op'[i].status = s /\ op'[i].step = p
           /\ \A j \in DOMAIN op : j # i => op'[j] = op[j]
           /\ Grows
<1> DEFINE r == [op[i] EXCEPT !.status = s, !.step = p]
<1>1. op[i] \in OperationType /\ i \in 1..Len(op)
  BY RowOf
<1>2. /\ r \in OperationType /\ r.status = s /\ r.step = p
      /\ r.a = op[i].a /\ r.kind = op[i].kind /\ r.deco = op[i].deco
  BY <1>1 DEF OperationType, OpSteps
<1>3. op' = [op EXCEPT ![i] = r]
  BY <1>1 DEF Row
<1> HIDE DEF r
<1>4. op' \in Seq(OperationType) /\ Len(op') = Len(op) /\ DOMAIN op' = DOMAIN op
  BY <1>1, <1>2, <1>3
<1>5. op'[i] = r /\ \A j \in DOMAIN op : j # i => op'[j] = op[j]
  BY <1>1, <1>3
<1> QED
  BY <1>2, <1>4, <1>5 DEF Grows

LEMMA RowAdded ==
    ASSUME op \in Seq(OperationType), NEW a \in Accounts, NEW k \in {"write", "delete"},
           NEW d \in BOOLEAN, op' = Append(op, New(a, k, d))
    PROVE  /\ op' \in Seq(OperationType) /\ Len(op') = Len(op) + 1 /\ Len(op) \in Nat
           /\ DOMAIN op' = 1..Len(op) + 1 /\ DOMAIN op = 1..Len(op)
           /\ op'[Len(op) + 1] = New(a, k, d)
           /\ \A j \in DOMAIN op : op'[j] = op[j]
           /\ Grows
<1>1. New(a, k, d) \in OperationType
  BY DEF New, OperationType, Statuses
<1>2. /\ op' \in Seq(OperationType) /\ Len(op') = Len(op) + 1 /\ Len(op) \in Nat
      /\ DOMAIN op' = 1..Len(op) + 1 /\ DOMAIN op = 1..Len(op)
      /\ op'[Len(op) + 1] = New(a, k, d)
      /\ \A j \in DOMAIN op : op'[j] = op[j]
  BY <1>1
<1> QED
  BY <1>2 DEF Grows

\* What a coroutine holds stays typed, whatever rows are added or change.
LEMMA StepStays ==
    ASSUME op \in Seq(OperationType), Grows
    PROVE  \A c \in Coroutines : StepTyped(c) => StepTyped(c)'
<1>1. \A t \in Targets : RowsOf(t) \subseteq RowsOf(t)'
  BY DEF RowsOf, Grows
<1>2. \A t \in Targets : AccountsOf(t)' = AccountsOf(t)
  BY DEF AccountsOf
<1> QED
  BY <1>1, <1>2 DEF StepTyped, Grows, BeginSteps, ProcessSteps

LEMMA OthersKeep ==
    ASSUME CoTyped, op \in Seq(OperationType), Grows, UNCHANGED co
    PROVE  CoTyped'
<1>1. ASSUME NEW h \in Handlers
      PROVE  StepTyped(co[h])'
  <2>1. PICK c \in Coroutines : c = co[h] /\ StepTyped(c)
    BY DEF CoTyped
  <2>2. StepTyped(c)' /\ co'[h] = c
    BY <2>1, StepStays
  <2> QED
    BY <2>2 DEF StepTyped
<1> QED
  BY <1>1 DEF CoTyped

\* A coroutine's new value replaces its old one and leaves the others alone.
LEMMA Became ==
    ASSUME CoTyped, NEW h \in Handlers, NEW c, Become(h, c)
    PROVE  /\ co' = [co EXCEPT ![h] = c] /\ co'[h] = c
           /\ \A g \in Handlers : g # h => co'[g] = co[g]
  BY DEF CoTyped, Become

LEMMA BecomeKeeps ==
    ASSUME CoTyped, op \in Seq(OperationType), Grows,
           NEW h \in Handlers, co'[h] \in Coroutines, StepTyped(co[h])',
           co' = [co EXCEPT ![h] = co'[h]]
    PROVE  CoTyped'
<1>1. \A g \in Handlers : g # h => co'[g] = co[g]
  BY DEF CoTyped
<1>2. co' \in [Handlers -> Coroutines]
  BY DEF CoTyped
<1>3. ASSUME NEW g \in Handlers, g # h
      PROVE  StepTyped(co[g])'
  <2>1. PICK c \in Coroutines : c = co[g] /\ StepTyped(c)
    BY DEF CoTyped
  <2>2. StepTyped(c)' /\ co'[g] = c
    BY <1>1, <1>3, <2>1, StepStays
  <2> QED
    BY <2>2 DEF StepTyped
<1> QED
  BY <1>2, <1>3 DEF CoTyped

LEMMA CoOf ==
    ASSUME CoTyped, NEW h \in Handlers
    PROVE  /\ co[h] \in Coroutines /\ StepTyped(co[h])
           /\ co[h].pc \in Steps /\ co[h].todo \subseteq Targets /\ co[h].made \subseteq Nat
           /\ co[h].latest \in [Accounts -> OperationType \cup {None}]
  BY DEF CoTyped, Coroutines

LEMMA SameRows ==
    ASSUME op \in Seq(OperationType), UNCHANGED op
    PROVE  Grows
  BY DEF Grows

LEMMA IdleTyped == Idle \in Coroutines /\ Idle.made = {} /\ Idle.left = {} /\ Idle.todo = {}
  BY DEF Idle, Coroutines, Steps

\* A request is over.
LEMMA FinishTyped ==
    ASSUME CoTyped, op \in Seq(OperationType), Grows, NEW h \in Handlers, Finish(h)
    PROVE  CoTyped'
<1>1. co' = [co EXCEPT ![h] = Idle] /\ co'[h] = Idle
  BY DEF Finish, Become, CoTyped
<1>2. StepTyped(Idle)'
  BY DEF StepTyped, Idle, BeginSteps, ProcessSteps
<1>3. StepTyped(co[h])'
  BY <1>1, <1>2 DEF StepTyped
<1> QED
  BY <1>1, <1>3, IdleTyped, BecomeKeeps

\* A request goes on with its next call, and what it holds.
LEMMA GotoTyped ==
    ASSUME CoTyped, op \in Seq(OperationType), Grows, NEW h \in Handlers, NEW p \in Steps,
           Goto(h, p), StepTyped([co[h] EXCEPT !.pc = p])
    PROVE  CoTyped'
<1> DEFINE c == [co[h] EXCEPT !.pc = p]
<1>1. co' = [co EXCEPT ![h] = c] /\ co'[h] = c
  BY DEF Goto, Become, CoTyped
<1>2. c \in Coroutines
  BY CoOf DEF Coroutines
<1>3. PICK d \in Coroutines : d = c /\ StepTyped(d)
  BY <1>2
<1>4. StepTyped(d)'
  BY <1>3, StepStays
<1>5. StepTyped(co[h])'
  BY <1>1, <1>3, <1>4 DEF StepTyped
<1> QED
  BY <1>1, <1>2, <1>5, BecomeKeeps

LEMMA BecomeTyped ==
    ASSUME CoTyped, op \in Seq(OperationType), Grows, NEW h \in Handlers,
           NEW c \in Coroutines, StepTyped(c), Become(h, c)
    PROVE  CoTyped'
<1>1. co' = [co EXCEPT ![h] = c] /\ co'[h] = c
  BY DEF Become, CoTyped
<1>2. StepTyped(c)'
  BY StepStays
<1>3. StepTyped(co[h])'
  BY <1>1, <1>2 DEF StepTyped
<1> QED
  BY <1>1, <1>3, BecomeKeeps

\* The latest row of an account is one of its rows, and none comes after it.
\* (The sets of later rows are well founded under inclusion.)
LEMMA LatestRow ==
    ASSUME op \in Seq(OperationType), NEW a \in Accounts,
           Latest(a) # None \/ \E i \in DOMAIN op : op[i].a = a
    PROVE  \E i \in DOMAIN op : /\ Latest(a) = op[i] /\ op[i].a = a
                                /\ \A j \in DOMAIN op : op[j].a = a => j <= i
<1> DEFINE mine     == {i \in DOMAIN op : op[i].a = a}
           later(i) == {j \in mine : j > i}
           T        == {later(i) : i \in mine}
<1>1. mine # {} /\ Latest(a) = op[CHOOSE i \in mine : \A j \in mine : j <= i]
  BY DEF Latest
<1>2. DOMAIN op = 1..Len(op) /\ Len(op) \in Nat
  OBVIOUS
<1>3. IsFiniteSet(1..Len(op)) /\ mine \subseteq 1..Len(op)
  BY <1>2, FS_Interval
<1>4. T \subseteq FiniteSubsetsOf(1..Len(op)) /\ T # {}
  <2>1. ASSUME NEW i \in mine
        PROVE  later(i) \subseteq 1..Len(op) /\ IsFiniteSet(later(i))
    <3>1. later(i) \subseteq 1..Len(op)
      BY <1>3
    <3> QED
      BY <1>3, <3>1, FS_Subset
  <2> QED
    BY <1>1, <2>1 DEF FiniteSubsetsOf
<1>5. PICK U \in T : \A V \in T : <<V, U>> \notin StrictSubsetOrdering(1..Len(op))
  BY <1>4, FS_StrictSubsetOrderingWellFounded, WFMin
<1>6. PICK i \in mine : U = later(i)
  OBVIOUS
<1>7. ASSUME NEW j \in mine, j > i
      PROVE  FALSE
  <2>1. i \in Nat /\ j \in Nat
    BY <1>2
  <2>2. later(j) \subseteq later(i) /\ j \in later(i) /\ j \notin later(j)
    BY <1>2, <1>7, <2>1
  <2>3. later(j) \in T /\ later(j) \subseteq 1..Len(op) /\ U \subseteq 1..Len(op)
    BY <1>2
  <2>4. <<later(j), U>> \in StrictSubsetOrdering(1..Len(op))
    BY <1>6, <2>2, <2>3, Zenon DEF StrictSubsetOrdering
  <2> QED
    BY <1>5, <2>3, <2>4
<1>8. \A j \in mine : j <= i
  BY <1>2, <1>7
<1> DEFINE m == CHOOSE k \in mine : \A j \in mine : j <= k
<1>9. m \in mine /\ \A j \in mine : j <= m
  BY <1>8
<1> HIDE DEF m
<1> QED
  BY <1>1, <1>9 DEF m

-----------------------------------------------------------------------------
\* Operations.

\* A step that changes rows, accounts and snapshots and nothing else.
LEMMA OperationStays ==
    ASSUME TypeInv, Grows, OpTyped', account' \subseteq Accounts, snapshot' \subseteq Accounts,
           UNCHANGED <<catalogVars, request, inventory, state, role, known, co, worker,
                       cancelled, gone, faults>>
    PROVE  TypeInv'
<1>1. CoTyped'
  BY OthersKeep DEF TypeInv, OpTyped
<1>2. StateTyped' /\ HistoryTyped'
  BY DEF TypeInv, StateTyped, HistoryTyped, Grows
<1>3. CatalogTyped' /\ WorldTyped' /\ WorkerTyped' /\ faults' \in FaultSets
  BY DEF TypeInv, CatalogTyped, catalogVars, Listed, OnFile, WorldTyped, WorkerTyped
<1> QED
  BY <1>1, <1>2, <1>3 DEF TypeInv

LEMMA MaxRowsType == ASSUME TypeInv PROVE MaxRows[faults] \in Nat
  BY DecommissionAssumption DEF TypeInv

LEMMA MessageTyped ==
    ASSUME TypeInv, NEW a \in Accounts, NEW kind \in {"write", "delete"}, Message(a, kind)
    PROVE  TypeInv'
<1>1. /\ op' = Append(op, New(a, kind, FALSE)) /\ Len(op) < MaxRows[faults]
      /\ UNCHANGED <<catalogVars, request, inventory, state, role, known, co, worker,
                     cancelled, gone, faults, account, snapshot>>
  BY DEF Message, redis, outside, history
<1>2. op \in Seq(OperationType) /\ FALSE \in BOOLEAN /\ MaxRows[faults] \in Nat
  BY MaxRowsType DEF TypeInv, OpTyped
<1>3. Grows /\ op' \in Seq(OperationType) /\ Len(op') = Len(op) + 1 /\ Len(op) \in Nat
  BY <1>1, <1>2, RowAdded
<1>4. OpTyped'
  <2>1. op' \in Seq(OperationType)'
    BY <1>3 DEF OperationType
  <2>2. faults' = faults
    BY <1>1
  <2>3. Len(op') <= MaxRows[faults']
    BY <1>1, <1>2, <1>3, <2>2
  <2> QED
    BY <2>1, <2>3 DEF OpTyped
<1> QED
  BY <1>1, <1>3, <1>4, OperationStays DEF TypeInv, WorldTyped

\* The steps that write a row.
RowStep(i) ==
    \/ AskApproval(i) \/ Answer(i) \/ Decide(i) \/ Call(i)
    \/ Succeed(i) \/ MarkUser(i) \/ Retry(i)

LEMMA RowStepWrites ==
    ASSUME TypeInv, NEW i \in DOMAIN op, RowStep(i)
    PROVE  /\ \E s \in Statuses, p \in OpSteps : Row(i, s, p)
           /\ account' \in {account, account \cup {op[i].a}, account \ {op[i].a}}
           /\ snapshot' \in {snapshot, snapshot \cup {op[i].a}, snapshot \ {op[i].a}}
           /\ UNCHANGED <<catalogVars, request, inventory, state, role, known, co, worker,
                          cancelled, gone, faults>>
<1> USE DEF redis, outside, history, Statuses, OpSteps
<1>1. op[i].status \in Statuses
  BY RowOf DEF TypeInv, OpTyped
<1>2. CASE AskApproval(i)
  BY <1>2 DEF AskApproval
<1>3. CASE Answer(i)
  BY <1>1, <1>3 DEF Answer
<1>4. CASE Decide(i)
  BY <1>4 DEF Decide
<1>5. CASE Call(i)
  BY <1>1, <1>5 DEF Call
<1>6. CASE Succeed(i)
  BY <1>6 DEF Succeed
<1>7. CASE MarkUser(i)
  BY <1>1, <1>7 DEF MarkUser
<1>8. CASE Retry(i)
  BY <1>8 DEF Retry
<1> QED
  BY <1>2, <1>3, <1>4, <1>5, <1>6, <1>7, <1>8 DEF RowStep

LEMMA RowStepTyped ==
    ASSUME TypeInv, NEW i \in DOMAIN op, RowStep(i)
    PROVE  TypeInv'
<1>1. PICK s \in Statuses, p \in OpSteps : Row(i, s, p)
  BY RowStepWrites
<1>2. Grows /\ OpTyped' /\ op[i].a \in Accounts
  BY <1>1, RowChange, RowOf, RowStepWrites DEF TypeInv, OpTyped
<1>3. account' \subseteq Accounts /\ snapshot' \subseteq Accounts
  BY <1>2, RowStepWrites DEF TypeInv, WorldTyped
<1> QED
  BY <1>2, <1>3, RowStepWrites, OperationStays

LEMMA OperationsTyped ==
    ASSUME TypeInv, Operations
    PROVE  TypeInv'
<1>1. ASSUME NEW a \in Accounts, NEW kind \in {"write", "delete"}, Message(a, kind)
      PROVE  TypeInv'
  BY <1>1, MessageTyped
<1>2. ASSUME NEW i \in DOMAIN op, RowStep(i)
      PROVE  TypeInv'
  BY <1>2, RowStepTyped
<1>3. ASSUME NEW a \in Accounts, Expire(a)
      PROVE  TypeInv'
  <2>1. /\ UNCHANGED <<op, catalogVars, request, inventory, state, role, known, co, worker,
                       cancelled, gone, faults, account>>
        /\ snapshot' \subseteq snapshot
    BY <1>3 DEF Expire, tables, outside, history
  <2>2. Grows /\ OpTyped'
    BY <2>1, SameRows DEF TypeInv, OpTyped
  <2> QED
    BY <2>1, <2>2, OperationStays DEF TypeInv, WorldTyped
<1> QED
  BY <1>1, <1>2, <1>3 DEF Operations, RowStep

-----------------------------------------------------------------------------
\* begin.

LEMMA SameOp ==
    ASSUME TypeInv, UNCHANGED <<op, faults>>
    PROVE  Grows /\ OpTyped' /\ op \in Seq(OperationType) /\ faults' \in FaultSets
  BY SameRows DEF TypeInv, OpTyped, OperationType

\* A step of a coroutine that changes nothing else.
LEMMA OnlyCo ==
    ASSUME TypeInv, CoTyped',
           UNCHANGED <<catalogVars, tables, redis, outside, known, worker, history, faults>>
    PROVE  TypeInv'
<1>1. OpTyped' /\ faults' \in FaultSets
  BY SameOp DEF tables
<1>2. CatalogTyped' /\ StateTyped' /\ WorldTyped' /\ HistoryTyped' /\ WorkerTyped'
  BY DEF TypeInv, CatalogTyped, catalogVars, Listed, OnFile, WorldTyped, WorkerTyped, StateTyped,
         HistoryTyped, tables, redis, outside, history
<1> QED
  BY <1>1, <1>2 DEF TypeInv

LEMMA ListedTargets == Listed \subseteq Targets /\ OnFile \subseteq Targets
  BY DEF Listed, OnFile

LEMMA BeginRequestTyped ==
    ASSUME TypeInv, NEW h \in Handlers, BeginRequest(h)
    PROVE  TypeInv'
<1>1. Grows /\ op \in Seq(OperationType)
  BY SameOp DEF BeginRequest, tables
<1>2. PICK todo \in SUBSET Targets :
          Become(h, [Idle EXCEPT !.job = "begin", !.pc = "next", !.todo = todo])
  BY ListedTargets DEF BeginRequest
<1> DEFINE c == [Idle EXCEPT !.job = "begin", !.pc = "next", !.todo = todo]
<1>3. c \in Coroutines /\ c.job = "begin" /\ c.pc = "next" /\ c.made = {}
  BY IdleTyped DEF Coroutines, Steps, Idle
<1>4. StepTyped(c)
  BY <1>3 DEF StepTyped, BeginSteps, ProcessSteps
<1> HIDE DEF c
<1>5. CoTyped'
  BY <1>1, <1>2, <1>3, <1>4, BecomeTyped DEF TypeInv, c
<1> QED
  BY <1>5, OnlyCo DEF BeginRequest

LEMMA BeginTargetTyped ==
    ASSUME TypeInv, NEW h \in Handlers, BeginTarget(h)
    PROVE  TypeInv'
<1>1. Grows /\ op \in Seq(OperationType)
  BY SameOp DEF BeginTarget, tables
<1>2. co[h] \in Coroutines /\ StepTyped(co[h]) /\ co[h].pc = "next" /\ co[h].job = "begin"
  BY CoOf DEF BeginTarget, At, TypeInv
<1>3. CASE Finish(h)
  BY <1>1, <1>3, FinishTyped, OnlyCo DEF TypeInv, BeginTarget
<1>4. ASSUME NEW t \in co[h].todo,
             Become(h, [co[h] EXCEPT !.todo = @ \ {t}])
      PROVE  TypeInv'
  <2> DEFINE c == [co[h] EXCEPT !.todo = @ \ {t}]
  <2>1. c \in Coroutines /\ StepTyped(c)
    BY <1>2 DEF Coroutines, StepTyped, BeginSteps, ProcessSteps
  <2> QED
    BY <1>1, <1>4, <2>1, BecomeTyped, OnlyCo DEF TypeInv, BeginTarget
<1>5. ASSUME NEW t \in co[h].todo, t \in Listed, state[t] = None,
             Become(h, [co[h] EXCEPT !.todo = @ \ {t}, !.t = t, !.pc = "list"])
      PROVE  TypeInv'
  <2> DEFINE c == [co[h] EXCEPT !.todo = @ \ {t}, !.t = t, !.pc = "list"]
  <2>1. t \in Targets
    BY ListedTargets, <1>5
  <2>2. c \in Coroutines /\ c.pc = "list" /\ c.job = "begin" /\ c.t = t /\ c.made = co[h].made
    BY <1>2, <2>1 DEF Coroutines, Steps, BeginSteps
  <2>3. StepTyped(c)
    BY <1>2, <2>1, <2>2 DEF StepTyped, BeginSteps, ProcessSteps
  <2> QED
    BY <1>1, <1>5, <2>2, <2>3, BecomeTyped, OnlyCo DEF TypeInv, BeginTarget
<1>6. CASE Become(h, Idle)
  BY <1>3, <1>6 DEF Finish
<1> QED
  BY <1>3, <1>4, <1>5, <1>6 DEF BeginTarget

LEMMA LatestTyped ==
    ASSUME TypeInv
    PROVE  [a \in Accounts |-> Latest(a)] \in [Accounts -> OperationType \cup {None}]
<1>1. ASSUME NEW a \in Accounts
      PROVE  Latest(a) \in OperationType \cup {None}
  BY LatestRow, RowOf DEF TypeInv, OpTyped
<1> QED
  BY <1>1

LEMMA ListOperationsTyped ==
    ASSUME TypeInv, NEW h \in Handlers, ListOperations(h)
    PROVE  TypeInv'
<1> DEFINE c == [co[h] EXCEPT !.latest = [a \in Accounts |-> Latest(a)],
                              !.left = Cancellable(co[h].t), !.pc = "cancel"]
<1>1. Grows /\ op \in Seq(OperationType)
  BY SameOp DEF ListOperations, tables
<1>2. co[h] \in Coroutines /\ StepTyped(co[h]) /\ co[h].pc = "list"
  BY CoOf DEF ListOperations, At, TypeInv
<1>3. Cancellable(co[h].t) \subseteq RowsOf(co[h].t) /\ RowsOf(co[h].t) \subseteq Nat
  BY <1>1 DEF Cancellable, RowsOf
<1>4. /\ c \in Coroutines /\ c.pc = "cancel" /\ c.job = co[h].job /\ c.t = co[h].t
      /\ c.made = co[h].made /\ c.left = Cancellable(co[h].t)
  BY <1>2, <1>3, LatestTyped DEF Coroutines, Steps, BeginSteps
<1>5. StepTyped(c)
  BY <1>2, <1>3, <1>4 DEF StepTyped, BeginSteps, ProcessSteps
<1>6. Become(h, c)
  BY DEF ListOperations
<1> HIDE DEF c
<1>7. CoTyped'
  BY <1>1, <1>4, <1>5, <1>6, BecomeTyped DEF TypeInv
<1> QED
  BY <1>7, OnlyCo DEF ListOperations

\* A step that only goes on.
LEMMA GoesOn ==
    ASSUME TypeInv, Grows, NEW h \in Handlers, NEW p \in Steps, Goto(h, p),
           StepTyped([co[h] EXCEPT !.pc = p])
    PROVE  CoTyped'
  BY GotoTyped DEF TypeInv, OpTyped

\* What a coroutine holds at its step.
LEMMA Here ==
    ASSUME TypeInv, NEW h \in Handlers, NEW p \in Steps
    PROVE  LET c == [co[h] EXCEPT !.pc = p] IN
           /\ co[h] \in Coroutines /\ StepTyped(co[h])
           /\ c \in Coroutines /\ c.pc = p /\ c.job = co[h].job /\ c.t = co[h].t
           /\ c.todo = co[h].todo /\ c.left = co[h].left /\ c.made = co[h].made
           /\ c.latest = co[h].latest
  BY CoOf DEF Coroutines, TypeInv

\* It may go on to a step of the same job that needs nothing more in memory.
LEMMA Further ==
    ASSUME TypeInv, NEW h \in Handlers, NEW p \in Steps,
           p \notin {"idle", "cancel", "create", "ask"},
           co[h].job # "none",
           co[h].job = "begin" => p \in BeginSteps,
           co[h].job = "process" => p \in ProcessSteps \cup {"load", "answered"},
           p \in BeginSteps \cup ProcessSteps => co[h].pc \in BeginSteps \cup ProcessSteps,
           p \in {"next", "list", "cancel", "requests", "scan"} =>
               co[h].pc \in {"next", "list", "cancel", "requests", "scan"}
    PROVE  StepTyped([co[h] EXCEPT !.pc = p])
<1> DEFINE c == [co[h] EXCEPT !.pc = p]
<1>1. /\ co[h] \in Coroutines /\ StepTyped(co[h])
      /\ c.pc = p /\ c.job = co[h].job /\ c.t = co[h].t /\ c.made = co[h].made
  BY Here
<1> HIDE DEF c
<1>2. StepTyped(c)
  BY <1>1 DEF StepTyped
<1> QED
  BY <1>2 DEF c

LEMMA CancelOperationsTyped ==
    ASSUME TypeInv, NEW h \in Handlers, CancelOperations(h)
    PROVE  TypeInv'
<1>1. /\ co[h] \in Coroutines /\ StepTyped(co[h]) /\ co[h].pc = "cancel"
      /\ op \in Seq(OperationType)
  BY CoOf DEF CancelOperations, At, TypeInv, OpTyped
<1>2. CASE co[h].left = {} /\ Goto(h, "requests") /\ UNCHANGED <<op, cancelled>>
  <2>1. StepTyped([co[h] EXCEPT !.pc = "requests"])
    BY <1>1, Here DEF StepTyped, BeginSteps, ProcessSteps, Steps
  <2>2. Grows
    BY <1>1, <1>2, SameRows
  <2>3. CoTyped'
    BY <1>2, <2>1, <2>2, GoesOn DEF Steps, BeginSteps
  <2> QED
    BY <1>2, <2>3, OnlyCo DEF CancelOperations, tables, history
<1>3. ASSUME NEW i \in co[h].left, op' = [op EXCEPT ![i].status = "FAILED"],
             cancelled' = cancelled \cup {i}, Become(h, [co[h] EXCEPT !.left = @ \ {i}])
      PROVE  TypeInv'
  <2> DEFINE c == [co[h] EXCEPT !.left = @ \ {i}]
  <2>1. i \in DOMAIN op
    BY <1>1 DEF StepTyped, RowsOf
  <2>2. Row(i, "FAILED", op[i].step)
    <3>1. op[i] = [op[i] EXCEPT !.step = op[i].step]
      BY <1>1, <2>1, RowOf DEF OperationType
    <3> QED
      BY <1>1, <1>3, <2>1, <3>1, RowOf DEF Row, OperationType
  <2>3. op' \in Seq(OperationType) /\ Len(op') = Len(op) /\ DOMAIN op' = DOMAIN op /\ Grows
    BY <1>1, <2>1, <2>2, RowOf, RowChange DEF Statuses
  <2>4. OpTyped'
    BY <2>3 DEF TypeInv, OpTyped, OperationType, CancelOperations
  <2>5. /\ c \in Coroutines /\ c.pc = co[h].pc /\ c.job = co[h].job /\ c.t = co[h].t
        /\ c.made = co[h].made /\ c.left \subseteq co[h].left
    BY <1>1 DEF Coroutines
  <2>6. StepTyped(c)
    BY <1>1, <2>5 DEF StepTyped, BeginSteps, ProcessSteps
  <2> HIDE DEF c
  <2>7. CoTyped'
    BY <1>1, <1>3, <2>3, <2>5, <2>6, BecomeTyped DEF TypeInv, c
  <2>8. StateTyped' /\ HistoryTyped'
    BY <1>3, <2>1, <2>3 DEF TypeInv, StateTyped, HistoryTyped, Grows, CancelOperations, redis
  <2>9. CatalogTyped' /\ WorldTyped' /\ WorkerTyped' /\ faults' \in FaultSets
    BY DEF TypeInv, CatalogTyped, catalogVars, Listed, OnFile, WorldTyped, WorkerTyped,
           CancelOperations, redis, outside
  <2> QED
    BY <2>4, <2>7, <2>8, <2>9 DEF TypeInv
<1> QED
  BY <1>2, <1>3 DEF CancelOperations

LEMMA CancelRequestsTyped ==
    ASSUME TypeInv, NEW h \in Handlers, CancelRequests(h)
    PROVE  TypeInv'
<1>1. Grows /\ OpTyped' /\ faults' \in FaultSets
  BY SameOp DEF CancelRequests
<1>2. StepTyped([co[h] EXCEPT !.pc = "scan"])
  <2>1. "scan" \in Steps /\ co[h].pc = "requests" /\ "scan" \in BeginSteps
    BY DEF Steps, BeginSteps, CancelRequests, At
  <2>2. co[h].job = "begin"
    BY <2>1, Here DEF StepTyped, BeginSteps, ProcessSteps, Coroutines
  <2> QED
    BY <2>1, <2>2, Further DEF BeginSteps
<1>3. CoTyped'
  BY <1>1, <1>2, GoesOn DEF Steps, BeginSteps, CancelRequests
<1>4. WorldTyped'
  BY DEF TypeInv, WorldTyped, CancelRequests, outside, redis
<1>5. CatalogTyped' /\ StateTyped' /\ HistoryTyped' /\ WorkerTyped'
  BY DEF TypeInv, CatalogTyped, catalogVars, Listed, OnFile, WorkerTyped, StateTyped,
         HistoryTyped, CancelRequests, redis, outside, history
<1> QED
  BY <1>1, <1>3, <1>4, <1>5 DEF TypeInv

LEMMA ScanSnapshotsTyped ==
    ASSUME TypeInv, NEW h \in Handlers, ScanSnapshots(h)
    PROVE  TypeInv'
<1> DEFINE c == [co[h] EXCEPT !.left = Candidates(h), !.pc = "create", !.latest = Idle.latest]
<1>1. Grows /\ op \in Seq(OperationType)
  BY SameOp DEF ScanSnapshots, tables
<1>2. co[h] \in Coroutines /\ StepTyped(co[h]) /\ co[h].pc = "scan"
  BY CoOf DEF ScanSnapshots, At, TypeInv
<1>3. Candidates(h) \subseteq AccountsOf(co[h].t) /\ AccountsOf(co[h].t) \subseteq Accounts
  BY DEF Candidates, AccountsOf
<1>4. Idle.latest \in [Accounts -> OperationType \cup {None}]
  BY DEF Idle
<1>5. /\ c \in Coroutines /\ c.pc = "create" /\ c.job = co[h].job /\ c.t = co[h].t
      /\ c.made = co[h].made /\ c.left = Candidates(h)
  BY <1>2, <1>3, <1>4 DEF Coroutines, Steps, BeginSteps
<1>6. StepTyped(c)
  BY <1>2, <1>3, <1>5 DEF StepTyped, BeginSteps, ProcessSteps
<1>7. Become(h, c)
  BY DEF ScanSnapshots
<1> HIDE DEF c
<1>8. CoTyped'
  BY <1>1, <1>5, <1>6, <1>7, BecomeTyped DEF TypeInv
<1> QED
  BY <1>8, OnlyCo DEF ScanSnapshots

LEMMA CreateDeleteTyped ==
    ASSUME TypeInv, NEW h \in Handlers, CreateDelete(h)
    PROVE  TypeInv'
<1>1. /\ co[h] \in Coroutines /\ StepTyped(co[h]) /\ co[h].pc = "create"
      /\ op \in Seq(OperationType) /\ MaxRows[faults] \in Nat
  BY CoOf, MaxRowsType DEF CreateDelete, At, TypeInv, OpTyped
<1>2. PICK a \in co[h].left :
        /\ op' = Append(op, New(a, "delete", TRUE))
        /\ Become(h, [co[h] EXCEPT !.left = @ \ {a}, !.made = @ \cup {Len(op) + 1}, !.pc = "ask"])
  BY DEF CreateDelete
<1> DEFINE c == [co[h] EXCEPT !.left = @ \ {a}, !.made = @ \cup {Len(op) + 1}, !.pc = "ask"]
<1>3. a \in Accounts /\ TRUE \in BOOLEAN
  BY <1>1 DEF StepTyped, AccountsOf
<1>4. /\ op' \in Seq(OperationType) /\ Len(op') = Len(op) + 1 /\ Len(op) \in Nat /\ Grows
      /\ DOMAIN op' = 1..Len(op) + 1 /\ DOMAIN op = 1..Len(op)
  BY <1>1, <1>2, <1>3, RowAdded
<1>5. OpTyped' /\ faults' \in FaultSets
  <2>1. op' \in Seq(OperationType)'
    BY <1>4 DEF OperationType
  <2>2. faults' = faults /\ Len(op) < MaxRows[faults]
    BY DEF CreateDelete
  <2>3. Len(op') <= MaxRows[faults']
    BY <1>1, <1>4, <2>2
  <2> QED
    BY <2>1, <2>2, <2>3 DEF OpTyped, TypeInv
<1>6. /\ c \in Coroutines /\ c.pc = "ask" /\ c.job = co[h].job /\ c.t = co[h].t
      /\ c.made = co[h].made \cup {Len(op) + 1} /\ c.left = co[h].left \ {a}
  <2>1. /\ co[h].made \cup {Len(op) + 1} \in SUBSET Nat
        /\ co[h].left \ {a} \in SUBSET (Accounts \cup Nat)
    BY <1>1, <1>4 DEF Coroutines
  <2>2. "ask" \in Steps
    BY DEF Steps, BeginSteps
  <2> QED
    BY <1>1, <2>1, <2>2 DEF Coroutines
<1>7. co' = [co EXCEPT ![h] = c] /\ co'[h] = c
  BY <1>2, Became DEF TypeInv
<1> HIDE DEF c
<1>8. StepTyped(co[h])'
  <2>1. /\ co[h].job = "begin" /\ co[h].t \in Targets /\ co[h].left \subseteq AccountsOf(co[h].t)
        /\ co[h].made \subseteq 1..Len(op)
    BY <1>1, <1>4 DEF StepTyped, BeginSteps, ProcessSteps, Coroutines
  <2>2. /\ co'[h].job = "begin" /\ co'[h].pc = "ask" /\ co'[h].t = co[h].t
        /\ co'[h].left \subseteq AccountsOf(co[h].t) /\ co'[h].made \subseteq DOMAIN op'
    BY <1>4, <1>6, <1>7, <2>1
  <2> QED
    BY <2>1, <2>2 DEF StepTyped, BeginSteps, ProcessSteps, AccountsOf
<1>9. CoTyped'
  BY <1>1, <1>4, <1>6, <1>7, <1>8, BecomeKeeps DEF TypeInv
<1>10. StateTyped' /\ HistoryTyped'
  BY <1>4 DEF TypeInv, StateTyped, HistoryTyped, Grows, CreateDelete, redis, history
<1>11. CatalogTyped' /\ WorldTyped' /\ WorkerTyped'
  BY DEF TypeInv, CatalogTyped, catalogVars, Listed, OnFile, WorldTyped, WorkerTyped,
         CreateDelete, redis, outside
<1> QED
  BY <1>5, <1>9, <1>10, <1>11 DEF TypeInv

LEMMA AskDeleteTyped ==
    ASSUME TypeInv, NEW h \in Handlers, AskDelete(h)
    PROVE  TypeInv'
<1>1. /\ co[h] \in Coroutines /\ StepTyped(co[h]) /\ co[h].pc = "ask"
      /\ op \in Seq(OperationType) /\ "create" \in Steps
  BY CoOf DEF AskDelete, At, TypeInv, OpTyped, Steps, BeginSteps
<1>2. PICK i \in co[h].made :
        \/ Row(i, "APPROVAL_PENDING", "rest") /\ Goto(h, "create")
        \/ Row(i, "FAILED", "rest") /\ Finish(h)
  BY DEF AskDelete
<1>3. i \in DOMAIN op
  BY <1>1 DEF StepTyped
<1>4. PICK s \in Statuses : Row(i, s, "rest")
  BY <1>2 DEF Statuses
<1>5. op' \in Seq(OperationType) /\ Len(op') = Len(op) /\ DOMAIN op' = DOMAIN op /\ Grows
  BY <1>1, <1>3, <1>4, RowChange DEF OpSteps
<1>6. OpTyped' /\ faults' \in FaultSets
  <2>1. op' \in Seq(OperationType)'
    BY <1>5 DEF OperationType
  <2>2. faults' = faults /\ Len(op) <= MaxRows[faults]
    BY DEF AskDelete, TypeInv, OpTyped
  <2> QED
    BY <1>5, <2>1, <2>2 DEF OpTyped, TypeInv
<1>7. ASSUME Goto(h, "create")
      PROVE  CoTyped'
  <2>1. /\ co[h].job = "begin" /\ co[h].t \in Targets /\ co[h].left \subseteq AccountsOf(co[h].t)
        /\ co[h].made \subseteq DOMAIN op
    BY <1>1 DEF StepTyped, BeginSteps, ProcessSteps, Coroutines
  <2> DEFINE c == [co[h] EXCEPT !.pc = "create"]
  <2>2. /\ c.pc = "create" /\ c.job = co[h].job /\ c.t = co[h].t /\ c.left = co[h].left
        /\ c.made = co[h].made
    BY <1>1, Here
  <2> HIDE DEF c
  <2>3. StepTyped(c)
    BY <2>1, <2>2 DEF StepTyped, BeginSteps, ProcessSteps
  <2> QED
    BY <1>1, <1>5, <1>7, <2>3, GoesOn DEF c
<1>8. CoTyped'
  BY <1>1, <1>2, <1>5, <1>7, FinishTyped DEF TypeInv
<1>9. StateTyped' /\ HistoryTyped'
  BY <1>5 DEF TypeInv, StateTyped, HistoryTyped, Grows, AskDelete, redis, history
<1>10. CatalogTyped' /\ WorldTyped' /\ WorkerTyped'
  BY DEF TypeInv, CatalogTyped, catalogVars, Listed, OnFile, WorldTyped, WorkerTyped,
         AskDelete, redis, outside
<1> QED
  BY <1>6, <1>8, <1>9, <1>10 DEF TypeInv

LEMMA SaveStateTyped ==
    ASSUME TypeInv, NEW h \in Handlers, SaveState(h)
    PROVE  TypeInv'
<1>1. /\ co[h] \in Coroutines /\ StepTyped(co[h]) /\ co[h].pc = "create"
      /\ Grows /\ OpTyped' /\ op \in Seq(OperationType) /\ faults' \in FaultSets
  BY CoOf, SameOp DEF SaveState, At, TypeInv, tables
<1> DEFINE c == [Idle EXCEPT !.job = "begin", !.pc = "next", !.todo = co[h].todo]
<1>2. c \in Coroutines /\ c.job = "begin" /\ c.pc = "next" /\ c.made = {}
  BY <1>1, IdleTyped DEF Coroutines, Steps, Idle
<1>3. StepTyped(c)
  BY <1>2 DEF StepTyped, BeginSteps, ProcessSteps
<1>4. Become(h, c)
  BY DEF SaveState
<1> HIDE DEF c
<1>5. CoTyped'
  BY <1>1, <1>2, <1>3, <1>4, BecomeTyped DEF TypeInv
<1>6. co[h].t \in Targets /\ co[h].made \subseteq DOMAIN op /\ co[h].made \in SUBSET Nat
  BY <1>1 DEF StepTyped, BeginSteps, Coroutines
<1> DEFINE d == [ops |-> co[h].made,
                 status |-> IF co[h].made = {} THEN "CLEANUP_READY" ELSE "WAITING_APPROVALS"]
<1>7. d \in Decommissions /\ d.ops = co[h].made /\ state' = [state EXCEPT ![co[h].t] = d]
  BY <1>6 DEF Decommissions, Stages, SaveState
<1> HIDE DEF d
<1>8. StateTyped' /\ HistoryTyped'
  BY <1>1, <1>6, <1>7 DEF TypeInv, StateTyped, HistoryTyped, Grows, SaveState, history, tables
<1>9. CatalogTyped' /\ WorldTyped' /\ WorkerTyped'
  BY DEF TypeInv, CatalogTyped, catalogVars, Listed, OnFile, WorldTyped, WorkerTyped,
         SaveState, tables, outside
<1> QED
  BY <1>1, <1>5, <1>8, <1>9 DEF TypeInv

LEMMA BeginTyped ==
    ASSUME TypeInv, NEW h \in Handlers, Begin(h)
    PROVE  TypeInv'
  BY BeginTargetTyped, ListOperationsTyped, CancelOperationsTyped, CancelRequestsTyped,
     ScanSnapshotsTyped, CreateDeleteTyped, AskDeleteTyped, SaveStateTyped DEF Begin

-----------------------------------------------------------------------------
\* process_all.

LEMMA ProcessRequestTyped ==
    ASSUME TypeInv, NEW h \in Handlers, ProcessRequest(h)
    PROVE  TypeInv'
<1>1. Grows /\ OpTyped' /\ op \in Seq(OperationType) /\ faults' \in FaultSets
  BY SameOp DEF ProcessRequest, tables
<1> DEFINE c == [Idle EXCEPT !.job = "process", !.pc = "load",
                             !.todo = {t \in Targets : state[t] # None}]
<1>2. c \in Coroutines /\ c.job = "process" /\ c.pc = "load" /\ c.made = {}
  BY IdleTyped DEF Coroutines, Steps, Idle
<1>3. StepTyped(c)
  BY <1>2 DEF StepTyped, BeginSteps, ProcessSteps
<1>4. Become(h, c)
  BY DEF ProcessRequest
<1> HIDE DEF c
<1>5. CoTyped'
  BY <1>1, <1>2, <1>3, <1>4, BecomeTyped DEF TypeInv
<1>6. WorkerTyped'
  BY DEF TypeInv, WorkerTyped, ProcessRequest
<1>7. CatalogTyped' /\ WorldTyped' /\ StateTyped' /\ HistoryTyped'
  BY DEF TypeInv, CatalogTyped, catalogVars, Listed, OnFile, WorldTyped, StateTyped,
         HistoryTyped, ProcessRequest, tables, redis, outside, history
<1> QED
  BY <1>1, <1>5, <1>6, <1>7 DEF TypeInv

LEMMA LoadStateTyped ==
    ASSUME TypeInv, NEW h \in Handlers, LoadState(h)
    PROVE  TypeInv'
<1>1. Grows /\ op \in Seq(OperationType)
  BY SameOp DEF LoadState, tables
<1>2. co[h] \in Coroutines /\ StepTyped(co[h]) /\ co[h].pc = "load"
  BY CoOf DEF LoadState, At, TypeInv
<1>3. co[h].job = "process"
  BY <1>2 DEF StepTyped, BeginSteps, Coroutines
<1>4. CASE Goto(h, "answered")
  <2>1. StepTyped([co[h] EXCEPT !.pc = "answered"])
    BY <1>2, <1>3, Further DEF Steps, BeginSteps, ProcessSteps
  <2> QED
    BY <1>1, <1>4, <2>1, GoesOn, OnlyCo DEF Steps, LoadState
<1>5. ASSUME NEW t \in co[h].todo, Become(h, [co[h] EXCEPT !.todo = @ \ {t}])
      PROVE  TypeInv'
  <2> DEFINE c == [co[h] EXCEPT !.todo = @ \ {t}]
  <2>1. c \in Coroutines /\ StepTyped(c)
    BY <1>2 DEF Coroutines, StepTyped, BeginSteps, ProcessSteps
  <2> QED
    BY <1>1, <1>5, <2>1, BecomeTyped, OnlyCo DEF TypeInv, LoadState
<1>6. ASSUME NEW t \in co[h].todo, state[t] # None,
             Become(h, [co[h] EXCEPT !.todo = @ \ {t}, !.t = t, !.made = state[t].ops,
                                     !.pc = "statuses"])
      PROVE  TypeInv'
  <2> DEFINE c == [co[h] EXCEPT !.todo = @ \ {t}, !.t = t, !.made = state[t].ops,
                                !.pc = "statuses"]
  <2>1. t \in Targets /\ state[t].ops \subseteq DOMAIN op /\ state[t].ops \in SUBSET Nat
    BY <1>2, <1>6 DEF TypeInv, StateTyped, Coroutines, Decommissions
  <2>2. "statuses" \in Steps
    BY DEF Steps, ProcessSteps
  <2>3. /\ c \in Coroutines /\ c.pc = "statuses" /\ c.job = "process" /\ c.t = t
        /\ c.made = state[t].ops
    BY <1>2, <1>3, <2>1, <2>2 DEF Coroutines
  <2>4. StepTyped(c)
    BY <2>1, <2>3 DEF StepTyped, BeginSteps, ProcessSteps
  <2> QED
    BY <1>1, <1>6, <2>3, <2>4, BecomeTyped, OnlyCo DEF TypeInv, LoadState
<1> QED
  BY <1>4, <1>5, <1>6 DEF LoadState

\* A coroutine of process_all at work on a target.
LEMMA AtWork ==
    ASSUME TypeInv, NEW h \in Handlers, co[h].pc \in ProcessSteps
    PROVE  /\ co[h].job = "process" /\ co[h].t \in Targets
           /\ co[h].made \subseteq DOMAIN op /\ co[h].made \in SUBSET Nat
           /\ \A p \in ProcessSteps \cup {"load", "answered"} :
                p \in Steps /\ StepTyped([co[h] EXCEPT !.pc = p])
<1>1. co[h] \in Coroutines /\ StepTyped(co[h])
  BY CoOf DEF TypeInv
<1>2. /\ co[h].job = "process" /\ co[h].t \in Targets
      /\ co[h].made \subseteq DOMAIN op /\ co[h].made \in SUBSET Nat
  BY <1>1 DEF StepTyped, BeginSteps, ProcessSteps, Coroutines
<1>3. ASSUME NEW p \in ProcessSteps \cup {"load", "answered"}
      PROVE  p \in Steps /\ StepTyped([co[h] EXCEPT !.pc = p])
  <2>1. p \in Steps /\ p \notin {"next", "list", "cancel", "requests", "scan", "idle", "create", "ask"}
    BY DEF Steps, ProcessSteps, BeginSteps
  <2> QED
    BY <1>2, <2>1, Further
<1> QED
  BY <1>2, <1>3

\* It goes on with another of its steps, or with the next target.
LEMMA WorkGoesOn ==
    ASSUME TypeInv, Grows, NEW h \in Handlers, co[h].pc \in ProcessSteps,
           (\E p \in ProcessSteps \cup {"load", "answered"} : Goto(h, p)) \/ NextTarget(h)
    PROVE  CoTyped'
<1>1. ASSUME NEW p \in ProcessSteps \cup {"load", "answered"}, Goto(h, p)
      PROVE  CoTyped'
  BY <1>1, AtWork, GoesOn
<1>2. ASSUME NextTarget(h)
      PROVE  CoTyped'
  <2> DEFINE c == [Idle EXCEPT !.job = "process", !.pc = "load", !.todo = co[h].todo]
  <2>1. c \in Coroutines /\ c.job = "process" /\ c.pc = "load" /\ c.made = {}
    BY IdleTyped, CoOf DEF Coroutines, Steps, Idle, TypeInv
  <2>2. StepTyped(c)
    BY <2>1 DEF StepTyped, BeginSteps, ProcessSteps
  <2>3. Become(h, c)
    BY <1>2 DEF NextTarget
  <2> HIDE DEF c
  <2> QED
    BY <2>1, <2>2, <2>3, BecomeTyped DEF TypeInv, OpTyped
<1> QED
  BY <1>1, <1>2

\* The statuses are those of a decommission of its target.
LEMMA SetStateTyped ==
    ASSUME TypeInv, NEW h \in Handlers, co[h].pc \in ProcessSteps, NEW s \in Stages,
           SetState(h, s), UNCHANGED op
    PROVE  StateTyped'
<1> DEFINE d == [ops |-> co[h].made, status |-> s]
<1>1. /\ d \in Decommissions /\ d.ops \subseteq DOMAIN op /\ co[h].t \in Targets
      /\ state' = [state EXCEPT ![co[h].t] = d]
  BY AtWork DEF Decommissions, SetState
<1> HIDE DEF d
<1> QED
  BY <1>1 DEF TypeInv, StateTyped

LEMMA ProcessTyped ==
    ASSUME TypeInv, NEW h \in Handlers, Process(h)
    PROVE  TypeInv'
<1> USE DEF ProcessSteps
<1>1. CASE LoadState(h)
  BY <1>1, LoadStateTyped
<1>2. CASE CheckStatuses(h)
  <2>1. Grows
    BY <1>2, SameOp DEF CheckStatuses, tables
  <2>2. CoTyped'
    BY <1>2, <2>1, WorkGoesOn DEF CheckStatuses, At
  <2> QED
    BY <1>2, <2>2, OnlyCo DEF CheckStatuses
<1>3. CASE Hold(h)
  <2>1. Grows /\ OpTyped' /\ faults' \in FaultSets /\ UNCHANGED op
    BY <1>3, SameOp DEF Hold, tables
  <2>2. CoTyped'
    BY <1>3, <2>1, WorkGoesOn DEF Hold, At
  <2>3. StateTyped'
    BY <1>3, <2>1, SetStateTyped DEF Hold, At, Stages
  <2>4. CatalogTyped' /\ WorldTyped' /\ HistoryTyped' /\ WorkerTyped'
    BY <1>3 DEF TypeInv, CatalogTyped, catalogVars, Listed, OnFile, WorldTyped, WorkerTyped,
                HistoryTyped, Hold, tables, redis, outside, history
  <2> QED
    BY <2>1, <2>2, <2>3, <2>4 DEF TypeInv
<1>4. CASE MarkCleaning(h)
  <2>1. Grows /\ OpTyped' /\ faults' \in FaultSets /\ UNCHANGED op
    BY <1>4, SameOp DEF MarkCleaning, tables
  <2>2. CoTyped'
    BY <1>4, <2>1, WorkGoesOn DEF MarkCleaning, At
  <2>3. StateTyped'
    BY <1>4, <2>1, SetStateTyped DEF MarkCleaning, At, Stages
  <2>4. CatalogTyped' /\ WorldTyped' /\ HistoryTyped' /\ WorkerTyped'
    BY <1>4 DEF TypeInv, CatalogTyped, catalogVars, Listed, OnFile, WorldTyped, WorkerTyped,
                HistoryTyped, MarkCleaning, tables, redis, outside, history
  <2> QED
    BY <2>1, <2>2, <2>3, <2>4 DEF TypeInv
<1>5. CASE CleanMidPoint(h)
  <2>1. Grows /\ OpTyped' /\ faults' \in FaultSets
    BY <1>5, SameOp DEF CleanMidPoint, tables
  <2>2. CoTyped'
    BY <1>5, <2>1, WorkGoesOn DEF CleanMidPoint, At, Raise
  <2>3. role' \subseteq role
    BY <1>5 DEF CleanMidPoint
  <2>4. CatalogTyped' /\ WorldTyped' /\ StateTyped' /\ HistoryTyped' /\ WorkerTyped'
    BY <1>5, <2>3 DEF TypeInv, CatalogTyped, catalogVars, Listed, OnFile, WorldTyped,
                WorkerTyped, StateTyped, HistoryTyped, CleanMidPoint, tables, redis, history
  <2> QED
    BY <2>1, <2>2, <2>4 DEF TypeInv
<1>6. CASE DeleteRows(h)
  <2>1. Grows /\ OpTyped' /\ faults' \in FaultSets
    BY <1>6, SameOp DEF DeleteRows
  <2>2. CoTyped'
    BY <1>6, <2>1, WorkGoesOn DEF DeleteRows, At
  <2>3. WorldTyped'
    BY <1>6 DEF TypeInv, WorldTyped, DeleteRows, redis, outside
  <2>4. CatalogTyped' /\ StateTyped' /\ HistoryTyped' /\ WorkerTyped'
    BY <1>6 DEF TypeInv, CatalogTyped, catalogVars, Listed, OnFile, WorkerTyped, StateTyped,
                HistoryTyped, DeleteRows, redis, history
  <2> QED
    BY <2>1, <2>2, <2>3, <2>4 DEF TypeInv
<1>7. CASE DeleteUserStates(h)
  <2>1. Grows /\ OpTyped' /\ faults' \in FaultSets
    BY <1>7, SameOp DEF DeleteUserStates, tables
  <2>2. CoTyped'
    BY <1>7, <2>1, WorkGoesOn DEF DeleteUserStates, At
  <2>3. CatalogTyped' /\ WorldTyped' /\ StateTyped' /\ HistoryTyped' /\ WorkerTyped'
    BY <1>7 DEF TypeInv, CatalogTyped, catalogVars, Listed, OnFile, WorldTyped, WorkerTyped,
                StateTyped, HistoryTyped, DeleteUserStates, tables, outside, history
  <2> QED
    BY <2>1, <2>2, <2>3 DEF TypeInv
<1>8. CASE RemoveTarget(h)
  <2>1. Grows /\ OpTyped' /\ faults' \in FaultSets
    BY <1>8, SameOp DEF RemoveTarget, tables
  <2>2. CoTyped'
    BY <1>8, <2>1, WorkGoesOn DEF RemoveTarget, At, Raise
  <2>3. co[h].t \in Targets
    BY <1>8, AtWork DEF RemoveTarget, At
  <2>4. CatalogTyped'
    BY <1>8, <2>3 DEF TypeInv, CatalogTyped, catalogVars, Listed, OnFile, Entries, RemoveTarget,
                RemoveRuntime
  <2>5. WorldTyped' /\ HistoryTyped'
    BY <1>8, <2>3 DEF TypeInv, WorldTyped, HistoryTyped, RemoveTarget, tables, redis, outside
  <2>6. StateTyped' /\ WorkerTyped'
    BY <1>8 DEF TypeInv, WorkerTyped, StateTyped, RemoveTarget, tables, redis
  <2> QED
    BY <2>1, <2>2, <2>4, <2>5, <2>6 DEF TypeInv
<1>9. CASE DropState(h)
  <2>1. Grows /\ OpTyped' /\ faults' \in FaultSets
    BY <1>9, SameOp DEF DropState, tables
  <2>2. CoTyped'
    BY <1>9, <2>1, WorkGoesOn DEF DropState, At
  <2>3. StateTyped'
    BY <1>9 DEF TypeInv, StateTyped, DropState, tables
  <2>4. CatalogTyped' /\ WorldTyped' /\ HistoryTyped' /\ WorkerTyped'
    BY <1>9 DEF TypeInv, CatalogTyped, catalogVars, Listed, OnFile, WorldTyped, WorkerTyped,
                HistoryTyped, DropState, tables, outside, history
  <2> QED
    BY <2>1, <2>2, <2>3, <2>4 DEF TypeInv
<1> QED
  BY <1>1, <1>2, <1>3, <1>4, <1>5, <1>6, <1>7, <1>8, <1>9 DEF Process

-----------------------------------------------------------------------------
\* The worker, crashes, the dashboard.

LEMMA WorkerStepTyped ==
    ASSUME TypeInv, Worker
    PROVE  TypeInv'
<1>1. OnFile \subseteq Targets
  BY ListedTargets
<1>2. CASE WorkerGoesOn
  <2>1. Grows /\ OpTyped' /\ faults' \in FaultSets /\ op \in Seq(OperationType)
    BY <1>2, SameOp DEF WorkerGoesOn, tables
  <2>2. CoTyped'
    <3>1. CASE UNCHANGED co
      BY <2>1, <3>1, OthersKeep DEF TypeInv
    <3>2. ASSUME NEW h \in Handlers, Finish(h)
          PROVE  CoTyped'
      BY <2>1, <3>2, FinishTyped DEF TypeInv
    <3> QED
      BY <1>2, <3>1, <3>2 DEF WorkerGoesOn
  <2>3. WorkerTyped'
    BY <1>1, <1>2 DEF TypeInv, WorkerTyped, WorldTyped, WorkerGoesOn
  <2>4. CatalogTyped' /\ WorldTyped' /\ StateTyped' /\ HistoryTyped'
    BY <1>2 DEF TypeInv, CatalogTyped, catalogVars, Listed, OnFile, WorldTyped, StateTyped,
                HistoryTyped, WorkerGoesOn, tables, redis, outside, history
  <2> QED
    BY <2>1, <2>2, <2>3, <2>4 DEF TypeInv
<1>3. CASE ReconcileRows
  <2>1. Grows /\ OpTyped' /\ faults' \in FaultSets /\ op \in Seq(OperationType) /\ UNCHANGED co
    BY <1>3, SameOp DEF ReconcileRows
  <2>2. CoTyped'
    BY <2>1, OthersKeep DEF TypeInv
  <2>3. worker.t \in Targets
    BY <1>3 DEF TypeInv, WorkerTyped, ReconcileRows
  <2>4. WorkerTyped' /\ WorldTyped'
    BY <1>3, <2>3 DEF TypeInv, WorkerTyped, WorldTyped, ReconcileRows, redis, outside
  <2>5. CatalogTyped' /\ StateTyped' /\ HistoryTyped'
    BY <1>3 DEF TypeInv, CatalogTyped, catalogVars, Listed, OnFile, StateTyped, HistoryTyped,
                ReconcileRows, redis, history
  <2> QED
    BY <2>1, <2>2, <2>4, <2>5 DEF TypeInv
<1>4. CASE (\E t \in Targets : UpsertRole(t)) \/ SaveKnown \/ EndCycle
  <2>1. UNCHANGED <<catalogVars, tables, redis, account, co, history, faults>>
    BY <1>4 DEF UpsertRole, SaveKnown, EndCycle, outside
  <2>2. Grows /\ OpTyped' /\ faults' \in FaultSets /\ op \in Seq(OperationType) /\ UNCHANGED co
    BY <2>1, SameOp DEF tables
  <2>3. CoTyped'
    BY <2>2, OthersKeep DEF TypeInv
  <2>4. WorkerTyped' /\ role' \subseteq Targets /\ known' \subseteq Targets
    <3>1. ASSUME NEW t \in Targets, UpsertRole(t)
          PROVE  WorkerTyped' /\ role' \subseteq Targets /\ known' \subseteq Targets
      BY <3>1 DEF TypeInv, WorkerTyped, WorldTyped, UpsertRole
    <3>2. CASE SaveKnown
      BY <3>2 DEF TypeInv, WorkerTyped, WorldTyped, SaveKnown, outside
    <3>3. CASE EndCycle
      BY <3>3 DEF TypeInv, WorkerTyped, WorldTyped, EndCycle, Resting, outside
    <3> QED
      BY <1>4, <3>1, <3>2, <3>3
  <2>5. CatalogTyped' /\ WorldTyped' /\ StateTyped' /\ HistoryTyped'
    BY <2>1, <2>4 DEF TypeInv, CatalogTyped, catalogVars, Listed, OnFile, StateTyped,
                HistoryTyped, WorldTyped, tables, redis, history
  <2> QED
    BY <2>2, <2>3, <2>4, <2>5 DEF TypeInv
<1> QED
  BY <1>2, <1>3, <1>4 DEF Worker

LEMMA CrashTyped ==
    ASSUME TypeInv, Crash
    PROVE  TypeInv'
<1>1. op \in Seq(OperationType) /\ DOMAIN op = 1..Len(op) /\ Len(op) \in Nat
  BY DEF TypeInv, OpTyped
<1> DEFINE row(i) == IF op[i].step = "asking" /\ ~op[i].deco THEN op[i]
                     ELSE [op[i] EXCEPT !.step = "rest"]
<1>2. op' = [i \in DOMAIN op |-> row(i)]
  BY DEF Crash
<1>3. ASSUME NEW i \in DOMAIN op
      PROVE  /\ row(i) \in OperationType /\ row(i).a = op[i].a /\ row(i).kind = op[i].kind
             /\ row(i).deco = op[i].deco
  <2>1. op[i] \in OperationType
    BY <1>1, <1>3, RowOf
  <2> QED
    BY <2>1 DEF OperationType
<1> HIDE DEF row
<1>4. op' \in Seq(OperationType) /\ Len(op') = Len(op) /\ DOMAIN op' = DOMAIN op
  BY <1>1, <1>2, <1>3
<1>5. Grows
  BY <1>2, <1>3, <1>4 DEF Grows
<1>6. OpTyped' /\ faults' \in FaultSets
  <2>1. op' \in Seq(OperationType)'
    BY <1>4 DEF OperationType
  <2>2. faults' = faults /\ Len(op) <= MaxRows[faults]
    BY DEF Crash, TypeInv, OpTyped
  <2> QED
    BY <1>4, <2>1, <2>2 DEF OpTyped, TypeInv
<1>7. CoTyped'
  <2>1. co' = [h \in Handlers |-> Idle]
    BY DEF Crash
  <2>2. StepTyped(Idle)'
    BY DEF StepTyped, Idle, BeginSteps, ProcessSteps
  <2>3. ASSUME NEW h \in Handlers
        PROVE  StepTyped(co[h])'
    BY <2>1, <2>2 DEF StepTyped
  <2>4. co' \in [Handlers -> Coroutines]
    BY <2>1, IdleTyped
  <2> QED
    BY <2>3, <2>4 DEF CoTyped, Coroutines, OperationType
<1>8. StateTyped' /\ HistoryTyped' /\ WorldTyped'
  BY <1>5 DEF TypeInv, StateTyped, HistoryTyped, WorldTyped, Grows, Crash, redis, outside, history
<1>9. WorkerTyped'
  BY ListedTargets DEF TypeInv, WorkerTyped, WorldTyped, Crash
<1>10. CatalogTyped'
  BY DEF TypeInv, CatalogTyped, Crash, Restart, Listed, OnFile, Entries
<1> QED
  BY <1>6, <1>7, <1>8, <1>9, <1>10 DEF TypeInv

LEMMA DashboardTyped ==
    ASSUME TypeInv, Dashboard
    PROVE  TypeInv'
<1>1. Grows /\ OpTyped' /\ faults' \in FaultSets /\ op \in Seq(OperationType) /\ UNCHANGED co
  BY SameOp DEF Dashboard, tables
<1>2. CoTyped'
  BY <1>1, OthersKeep DEF TypeInv
<1>3. ASSUME NEW t \in Targets, AddRuntime(t) \/ UpdateConfig(t)
      PROVE  CatalogTyped'
  BY <1>3 DEF TypeInv, CatalogTyped, AddRuntime, UpdateConfig, Listed, OnFile, Entries
<1>4. CatalogTyped'
  BY <1>3 DEF Dashboard, TypeInv, HistoryTyped
<1>5. WorldTyped' /\ StateTyped' /\ HistoryTyped' /\ WorkerTyped'
  BY DEF TypeInv, StateTyped, HistoryTyped, WorldTyped, WorkerTyped, Dashboard, tables, redis,
         outside, history
<1> QED
  BY <1>1, <1>2, <1>4, <1>5 DEF TypeInv

LEMMA InitTyped ==
    ASSUME Init
    PROVE  TypeInv
<1>1. faults \in FaultSets /\ account \subseteq Accounts /\ snapshot = account
  BY DEF Init
<1>2. /\ IsFiniteSet(account) /\ Cardinality(account) \in Nat
      /\ Cardinality(account) <= Cardinality(Accounts) /\ Cardinality(Accounts) \in Nat
      /\ Cardinality(Accounts) <= MaxRows[faults] /\ MaxRows[faults] \in Nat
  BY <1>1, DecommissionAssumption, FS_Subset, FS_CardinalityType
<1>3. PICK made \in [1..Cardinality(account) -> account] :
         op = [i \in DOMAIN made |-> [a |-> made[i], kind |-> "write", status |-> "SUCCESS",
                                      step |-> "rest", deco |-> FALSE]]
  BY DEF Init
<1>4. OpTyped
  <2> DEFINE n == Cardinality(account)
             row(i) == [a |-> made[i], kind |-> "write", status |-> "SUCCESS",
                        step |-> "rest", deco |-> FALSE]
  <2>1. \A i \in 1..n : row(i) \in OperationType
    BY <1>1, <1>3 DEF OperationType, Statuses
  <2>2. op = [i \in 1..n |-> row(i)]
    BY <1>3
  <2> HIDE DEF row
  <2>3. op \in Seq(OperationType) /\ Len(op) = n
    BY <1>2, <2>1, <2>2
  <2> QED
    BY <1>2, <2>3 DEF OpTyped
<1>5. CatalogTyped
  BY <1>1, DecommissionAssumption DEF Init, CatalogTyped, Entries, Listed, OnFile
<1>6. StateTyped
  <2>1. [ops |-> {}, status |-> "CLEANUP_READY"] \in Decommissions
    BY DEF Decommissions, Stages
  <2> QED
    BY <2>1 DEF Init, StateTyped
<1>7. WorldTyped /\ HistoryTyped
  BY <1>1, ListedTargets DEF Init, WorldTyped, HistoryTyped
<1>8. CoTyped
  BY IdleTyped DEF Init, CoTyped, StepTyped, Idle, BeginSteps, ProcessSteps
<1>9. WorkerTyped
  BY DEF Init, WorkerTyped, Resting
<1> QED
  BY <1>1, <1>4, <1>5, <1>6, <1>7, <1>8, <1>9 DEF TypeInv

LEMMA NextTyped ==
    ASSUME TypeInv, [Next]_vars
    PROVE  TypeInv'
<1>1. CASE UNCHANGED vars
  <2>1. Grows /\ OpTyped' /\ faults' \in FaultSets /\ op \in Seq(OperationType) /\ UNCHANGED co
    BY <1>1, SameOp DEF vars, tables
  <2>2. CoTyped'
    BY <2>1, OthersKeep DEF TypeInv
  <2> QED
    BY <1>1, <2>2, OnlyCo DEF vars
<1>2. ASSUME NEW h \in Handlers, Unheard(h)
      PROVE  TypeInv'
  <2>1. Grows /\ op \in Seq(OperationType)
    BY <1>2, SameOp DEF Unheard, tables
  <2> QED
    BY <1>2, <2>1, FinishTyped, OnlyCo DEF TypeInv, Unheard
<1> QED
  BY <1>1, <1>2, OperationsTyped, WorkerStepTyped, CrashTyped, DashboardTyped,
     BeginRequestTyped, ProcessRequestTyped, BeginTyped, ProcessTyped DEF Next, Serve

\* Every variable keeps its type, and every coroutine has in memory what its
\* step needs: begin and process_all of any targets, beside each other, the
\* worker, the operations and the dashboard, under every fault.
THEOREM TypesStay == Spec => []TypeInv
<1>1. Init => TypeInv
  BY InitTyped
<1>2. TypeInv /\ [Next]_vars => TypeInv'
  BY NextTyped
<1> QED
  BY <1>1, <1>2, PTL DEF Spec

\* The type invariant of the runs: an operation that a decommission waits for is
\* one that exists, the rows stay within their bound, a target's Redis record
\* has a status process_all knows.
THEOREM DecommissionTypeCorrect == Spec => []DecommissionTypeOK
<1>1. TypeInv => DecommissionTypeOK
  BY DEF TypeInv, CatalogTyped, OpTyped, StateTyped, WorldTyped, HistoryTyped, DecommissionTypeOK
<1> QED
  BY <1>1, TypesStay, PTL

-----------------------------------------------------------------------------
\* Which steps leave what alone.

\* A row that is over: nobody serves it, and nobody will.
Over    == {"SUCCESS", "FAILED", "RETRYING", "DLQ"}
Past(i) == op[i].step = "rest" /\ op[i].status \in Over

LEMMA JobOf ==
    ASSUME TypeInv, NEW h \in Handlers
    PROVE  /\ co[h].pc \in BeginSteps => co[h].job = "begin" /\ co[h].t \in Targets
           /\ co[h].pc \in ProcessSteps => co[h].job = "process" /\ co[h].t \in Targets
           /\ co[h].job \in {"none", "begin", "process"}
<1>1. StepTyped(co[h]) /\ co[h] \in Coroutines
  BY CoOf DEF TypeInv
<1> QED
  BY <1>1 DEF StepTyped, Coroutines, BeginSteps, ProcessSteps

\* Only h goes on.
Alone(h) == /\ co' = [co EXCEPT ![h] = co'[h]]
            /\ \A g \in Handlers : g # h => co'[g] = co[g]

LEMMA AloneBecomes ==
    ASSUME TypeInv, NEW h \in Handlers, NEW c, Become(h, c)
    PROVE  Alone(h) /\ co'[h] = c
  BY Became DEF TypeInv, Alone

LEMMA ProcessFrame ==
    ASSUME TypeInv, NEW h \in Handlers, Process(h)
    PROVE  /\ Alone(h) /\ co[h].job = "process" /\ co'[h].job = "process"
           /\ co[h].pc \in ProcessSteps \cup {"load"}
           /\ UNCHANGED <<op, account, cancelled, worker, faults>>
<1>1. UNCHANGED <<op, account, cancelled, worker, faults>>
  BY DEF Process, LoadState, CheckStatuses, Hold, MarkCleaning, CleanMidPoint, DeleteRows,
         DeleteUserStates, RemoveTarget, DropState, tables, outside, history
<1>2. co[h].pc \in ProcessSteps \cup {"load"}
  BY DEF Process, LoadState, CheckStatuses, Hold, MarkCleaning, CleanMidPoint, DeleteRows,
         DeleteUserStates, RemoveTarget, DropState, ProcessSteps, At
<1>3. co[h].job = "process" /\ co[h] \in Coroutines
  <2>1. StepTyped(co[h]) /\ co[h] \in Coroutines
    BY CoOf DEF TypeInv
  <2> QED
    BY <1>2, <2>1 DEF StepTyped, Coroutines, ProcessSteps, BeginSteps
<1>4. \E c : Become(h, c) /\ c.job = "process"
  <2>1. ASSUME NEW p, Goto(h, p)
        PROVE  \E c : Become(h, c) /\ c.job = "process"
    <3>1. Become(h, [co[h] EXCEPT !.pc = p]) /\ [co[h] EXCEPT !.pc = p].job = "process"
      BY <1>3, <2>1 DEF Goto, Coroutines
    <3> QED
      BY <3>1
  <2>2. CASE NextTarget(h)
    <3> DEFINE c == [Idle EXCEPT !.job = "process", !.pc = "load", !.todo = co[h].todo]
    <3>1. Become(h, c) /\ c.job = "process"
      BY <2>2 DEF NextTarget, Idle
    <3> QED
      BY <3>1
  <2>3. CASE LoadState(h)
    <3>1. CASE Goto(h, "answered")
      BY <2>1, <3>1
    <3>2. ASSUME NEW t \in co[h].todo,
                 Become(h, IF state[t] = None THEN [co[h] EXCEPT !.todo = @ \ {t}]
                      ELSE [co[h] EXCEPT !.todo = @ \ {t}, !.t = t, !.made = state[t].ops,
                                         !.pc = "statuses"])
          PROVE  \E c : Become(h, c) /\ c.job = "process"
      <4>1. CASE state[t] = None
        <5>1. [co[h] EXCEPT !.todo = @ \ {t}].job = "process"
          BY <1>3 DEF Coroutines
        <5> QED
          BY <3>2, <4>1, <5>1
      <4>2. CASE state[t] # None
        <5>1. [co[h] EXCEPT !.todo = @ \ {t}, !.t = t, !.made = state[t].ops,
                            !.pc = "statuses"].job = "process"
          BY <1>3 DEF Coroutines
        <5> QED
          BY <3>2, <4>2, <5>1
      <4> QED
        BY <4>1, <4>2
    <3> QED
      BY <2>3, <3>1, <3>2 DEF LoadState
  <2>4. (\E p : Goto(h, p)) \/ NextTarget(h) \/ LoadState(h)
    BY Zenon DEF Process, CheckStatuses, Hold, MarkCleaning, CleanMidPoint, DeleteRows,
           DeleteUserStates, RemoveTarget, DropState, Raise
  <2> QED
    BY <2>1, <2>2, <2>3, <2>4
<1> QED
  BY <1>1, <1>2, <1>3, <1>4, AloneBecomes

\* A step of begin that only its own coroutine and, last, the key notice.
Prepares(h) == BeginTarget(h) \/ ListOperations(h) \/ CancelRequests(h) \/ ScanSnapshots(h)
               \/ SaveState(h)

LEMMA PreparesFrame ==
    ASSUME TypeInv, NEW h \in Handlers, Prepares(h)
    PROVE  /\ Alone(h) /\ co[h].job = "begin" /\ co'[h].job \in {"none", "begin"}
           /\ co'[h].pc \in {"next", "idle", "list", "cancel", "scan", "create"}
           /\ co'[h].pc = "cancel" => ListOperations(h)
           /\ UNCHANGED <<catalogVars, op, snapshot, account, history, worker, faults>>
<1>1. /\ co[h] \in Coroutines /\ StepTyped(co[h])
      /\ co[h].pc \in {"next", "list", "requests", "scan", "create"}
      /\ BeginTarget(h) => co[h].job = "begin"
  BY CoOf DEF Prepares, BeginTarget, ListOperations, CancelRequests, ScanSnapshots, SaveState,
              At, TypeInv
<1>2. co[h].job = "begin"
  BY <1>1 DEF StepTyped, Coroutines, BeginSteps, ProcessSteps, Prepares, BeginTarget
<1>3. UNCHANGED <<catalogVars, op, snapshot, account, history, worker, faults>>
  BY DEF Prepares, BeginTarget, ListOperations, CancelRequests, ScanSnapshots, SaveState,
         tables, redis, outside
<1>4. CASE BeginTarget(h)
  <2>1. CASE Become(h, Idle)
    BY <2>1, AloneBecomes, <1>2, <1>3 DEF Idle
  <2>2. ASSUME NEW t \in co[h].todo, Become(h, [co[h] EXCEPT !.todo = @ \ {t}])
        PROVE  Alone(h) /\ co'[h].job = "begin" /\ co'[h].pc = "next"
    <3> DEFINE c == [co[h] EXCEPT !.todo = @ \ {t}]
    <3>1. c.job = "begin" /\ c.pc = "next"
      BY <1>1, <1>2, <1>4 DEF Coroutines, BeginTarget, At
    <3> HIDE DEF c
    <3>2. Become(h, c)
      BY <2>2 DEF c
    <3> QED
      BY <3>1, <3>2, AloneBecomes
  <2>3. ASSUME NEW t \in co[h].todo,
               Become(h, [co[h] EXCEPT !.todo = @ \ {t}, !.t = t, !.pc = "list"])
        PROVE  Alone(h) /\ co'[h].job = "begin" /\ co'[h].pc = "list"
    <3> DEFINE c == [co[h] EXCEPT !.todo = @ \ {t}, !.t = t, !.pc = "list"]
    <3>1. c.job = "begin" /\ c.pc = "list"
      BY <1>1, <1>2 DEF Coroutines
    <3> HIDE DEF c
    <3>2. Become(h, c)
      BY <2>3 DEF c
    <3> QED
      BY <3>1, <3>2, AloneBecomes
  <2> QED
    BY <1>2, <1>3, <1>4, <2>1, <2>2, <2>3 DEF BeginTarget, Finish
<1>5. CASE ListOperations(h)
  <2> DEFINE c == [co[h] EXCEPT !.latest = [a \in Accounts |-> Latest(a)],
                                !.left = Cancellable(co[h].t), !.pc = "cancel"]
  <2>1. c.job = "begin" /\ c.pc = "cancel"
    BY <1>1, <1>2 DEF Coroutines
  <2> HIDE DEF c
  <2>2. Become(h, c)
    BY <1>5 DEF ListOperations, c
  <2> QED
    BY <1>2, <1>3, <1>5, <2>1, <2>2, AloneBecomes
<1>6. CASE CancelRequests(h)
  <2>1. [co[h] EXCEPT !.pc = "scan"].job = "begin" /\ [co[h] EXCEPT !.pc = "scan"].pc = "scan"
    BY <1>1, <1>2 DEF Coroutines
  <2>2. Become(h, [co[h] EXCEPT !.pc = "scan"])
    BY <1>6 DEF CancelRequests, Goto
  <2> QED
    BY <1>2, <1>3, <2>1, <2>2, AloneBecomes
<1>7. CASE ScanSnapshots(h)
  <2> DEFINE c == [co[h] EXCEPT !.left = Candidates(h), !.pc = "create", !.latest = Idle.latest]
  <2>1. c.job = "begin" /\ c.pc = "create"
    BY <1>1, <1>2 DEF Coroutines
  <2> HIDE DEF c
  <2>2. Become(h, c)
    BY <1>7 DEF ScanSnapshots, c
  <2> QED
    BY <1>2, <1>3, <2>1, <2>2, AloneBecomes
<1>8. CASE SaveState(h)
  <2> DEFINE c == [Idle EXCEPT !.job = "begin", !.pc = "next", !.todo = co[h].todo]
  <2>1. c.job = "begin" /\ c.pc = "next"
    BY DEF Idle
  <2> HIDE DEF c
  <2>2. Become(h, c)
    BY <1>8 DEF SaveState, c
  <2> QED
    BY <1>2, <1>3, <2>1, <2>2, AloneBecomes
<1> QED
  BY <1>4, <1>5, <1>6, <1>7, <1>8 DEF Prepares

\* A step that gives a coroutine its work or ends it.
Opens(h) == BeginRequest(h) \/ ProcessRequest(h) \/ Unheard(h)

LEMMA OpensFrame ==
    ASSUME TypeInv, NEW h \in Handlers, Opens(h)
    PROVE  /\ Alone(h) /\ co'[h].pc \in {"next", "load", "idle"} /\ co'[h].made = {}
           /\ co[h].pc \in {"idle", "answered"}
           /\ co'[h].pc = "next" <=> co'[h].job = "begin"
           /\ co'[h].pc = "load" <=> co'[h].job = "process"
           /\ co'[h].job = "begin" => BeginRequest(h)
           /\ co'[h].job = "process" => ProcessRequest(h)
           /\ UNCHANGED <<catalogVars, op, snapshot, state, account, history, faults>>
<1>1. /\ UNCHANGED <<catalogVars, op, snapshot, state, account, history, faults>>
      /\ co[h].pc \in {"idle", "answered"}
  BY DEF Opens, BeginRequest, ProcessRequest, Unheard, tables, redis, outside, At
<1>2. ASSUME NEW todo, Become(h, [Idle EXCEPT !.job = "begin", !.pc = "next", !.todo = todo])
      PROVE  /\ Alone(h) /\ co'[h].pc = "next" /\ co'[h].job = "begin" /\ co'[h].made = {}
  <2> DEFINE c == [Idle EXCEPT !.job = "begin", !.pc = "next", !.todo = todo]
  <2>1. c.pc = "next" /\ c.job = "begin" /\ c.made = {}
    BY DEF Idle
  <2> QED
    BY <1>2, <2>1, AloneBecomes
<1>3. ASSUME NEW todo, Become(h, [Idle EXCEPT !.job = "process", !.pc = "load", !.todo = todo])
      PROVE  /\ Alone(h) /\ co'[h].pc = "load" /\ co'[h].job = "process" /\ co'[h].made = {}
  <2> DEFINE c == [Idle EXCEPT !.job = "process", !.pc = "load", !.todo = todo]
  <2>1. c.pc = "load" /\ c.job = "process" /\ c.made = {}
    BY DEF Idle
  <2> QED
    BY <1>3, <2>1, AloneBecomes
<1>4. CASE Unheard(h)
  <2>1. Alone(h) /\ co'[h] = Idle
    BY <1>4, AloneBecomes DEF Unheard, Finish
  <2>2. Idle.pc = "idle" /\ Idle.job = "none" /\ Idle.made = {}
    BY DEF Idle
  <2> QED
    BY <1>1, <2>1, <2>2
<1>5. CASE BeginRequest(h)
  <2>1. Alone(h) /\ co'[h].pc = "next" /\ co'[h].job = "begin" /\ co'[h].made = {}
    BY <1>2, <1>5 DEF BeginRequest
  <2> QED
    BY <1>1, <1>5, <2>1
<1>6. CASE ProcessRequest(h)
  <2>1. Alone(h) /\ co'[h].pc = "load" /\ co'[h].job = "process" /\ co'[h].made = {}
    BY <1>3, <1>6 DEF ProcessRequest
  <2> QED
    BY <1>1, <1>6, <2>1
<1> QED
  BY <1>4, <1>5, <1>6 DEF Opens

LEMMA WorkerFrame ==
    ASSUME TypeInv, Worker
    PROVE  /\ UNCHANGED <<catalogVars, op, snapshot, state, account, history, faults>>
           /\ \A g \in Handlers : co'[g] = co[g] \/ (co[g].pc = "answered" /\ co'[g] = Idle)
<1>1. UNCHANGED <<catalogVars, op, snapshot, state, account, history, faults>>
  <2>1. CASE WorkerGoesOn \/ ReconcileRows
    BY <2>1 DEF WorkerGoesOn, ReconcileRows, tables, redis, outside
  <2>2. ASSUME NEW t \in Targets, UpsertRole(t)
        PROVE  UNCHANGED <<catalogVars, op, snapshot, state, account, history, faults>>
    BY <2>2 DEF UpsertRole, tables, redis
  <2>3. CASE SaveKnown \/ EndCycle
    BY <2>3 DEF SaveKnown, EndCycle, tables, redis, outside
  <2> QED
    BY <2>1, <2>2, <2>3 DEF Worker
<1>2. UNCHANGED co \/ \E h \in Handlers : At(h, "answered") /\ Finish(h)
  BY DEF Worker, WorkerGoesOn, UpsertRole, ReconcileRows, SaveKnown, EndCycle
<1>3. ASSUME NEW h \in Handlers, At(h, "answered"), Finish(h)
      PROVE  \A g \in Handlers : co'[g] = co[g] \/ (co[g].pc = "answered" /\ co'[g] = Idle)
  <2>1. Alone(h) /\ co'[h] = Idle
    BY <1>3, AloneBecomes DEF Finish
  <2> QED
    BY <1>3, <2>1 DEF At, Alone
<1> QED
  BY <1>1, <1>2, <1>3

-----------------------------------------------------------------------------
\* Cancelled operations.

Stopped(i) == op[i].step = "rest" /\ op[i].status \in Over \ {"SUCCESS"}
\* A row begin is about to cancel: nobody can start it any more.
Waits(i)   == op[i].step = "rest" /\ op[i].status # "SUCCESS"

CancelInv ==
    "race" \notin faults =>
        /\ \A i \in cancelled : Stopped(i)
        /\ \A h \in Handlers : At(h, "cancel") => \A i \in co[h].left : Waits(i)

LEMMA CancelKept ==
    ASSUME TypeInv, CancelInv, UNCHANGED <<cancelled, faults>>,
           "race" \notin faults => \A i \in cancelled : Stopped(i)',
           \A h \in Handlers : co'[h].pc = "cancel" => co'[h] = co[h],
           "race" \notin faults =>
               \A h \in Handlers : co[h].pc = "cancel" => \A i \in co[h].left : Waits(i)'
    PROVE  CancelInv'
  BY DEF CancelInv, At, Stopped, Waits

LEMMA StillCancelled ==
    ASSUME TypeInv, CancelInv, UNCHANGED <<op, cancelled, faults>>,
           \A h \in Handlers : co'[h].pc = "cancel" => co'[h] = co[h]
    PROVE  CancelInv'
<1>1. "race" \notin faults => /\ \A i \in cancelled : Stopped(i)'
                              /\ \A h \in Handlers : co[h].pc = "cancel" =>
                                     \A i \in co[h].left : Waits(i)'
  BY DEF CancelInv, Stopped, Waits, At
<1> QED
  BY <1>1, CancelKept

\* What begin holds at "cancel" are rows of its target.
LEMMA LeftRows ==
    ASSUME TypeInv, NEW h \in Handlers, co[h].pc = "cancel"
    PROVE  /\ Beginning(co[h].t) /\ co[h].t \in Targets
           /\ \A i \in co[h].left : i \in DOMAIN op /\ Home[op[i].a] = co[h].t
<1>1. StepTyped(co[h]) /\ co[h].job = "begin" /\ co[h].t \in Targets
  BY CoOf, JobOf DEF TypeInv, BeginSteps
<1> QED
  BY <1>1 DEF StepTyped, RowsOf, Beginning

\* A step that serves a row does not touch the rows cancelled or waiting for it.
LEMMA RowStepCancel ==
    ASSUME TypeInv, CancelInv, NEW i \in DOMAIN op, RowStep(i)
    PROVE  CancelInv'
<1>1. PICK s \in Statuses, p \in OpSteps : Row(i, s, p)
  BY RowStepWrites
<1>2. UNCHANGED <<co, cancelled, faults>>
  BY RowStepWrites
<1>3. /\ op'[i].status = s /\ op'[i].step = p
      /\ \A j \in DOMAIN op : j # i => op'[j] = op[j]
  BY <1>1, RowChange DEF TypeInv, OpTyped
<1>4. ASSUME "race" \notin faults, Stopped(i)
      PROVE  Stopped(i)'
  <2>1. Retry(i)
    BY <1>4 DEF RowStep, Stopped, Over, AskApproval, Answer, Decide, Call, Succeed, MarkUser
  <2>2. Row(i, "RETRYING", "rest") \/ Row(i, "DLQ", "rest")
    BY <2>1 DEF Retry
  <2> QED
    BY <2>2, RowChange DEF Stopped, Over, Statuses, OpSteps, TypeInv, OpTyped
<1>5. ASSUME "race" \notin faults, NEW h \in Handlers, co[h].pc = "cancel", i \in co[h].left
      PROVE  Waits(i)'
  <2>1. Waits(i)
    BY <1>5 DEF CancelInv, At
  <2>2. Beginning(Home[op[i].a])
    BY <1>5, LeftRows
  <2>3. ~Answer(i)
    BY <1>5, <2>2 DEF Answer, CanServe, May
  <2>4. Retry(i)
    BY <2>1, <2>3 DEF RowStep, Waits, AskApproval, Decide, Call, Succeed, MarkUser
  <2>5. Row(i, "RETRYING", "rest") \/ Row(i, "DLQ", "rest")
    BY <2>4 DEF Retry
  <2> QED
    BY <2>5, RowChange DEF Waits, Statuses, OpSteps, TypeInv, OpTyped
<1>6. "race" \notin faults => \A j \in cancelled : Stopped(j)'
  <2>1. ASSUME "race" \notin faults, NEW j \in cancelled
        PROVE  Stopped(j)'
    <3>1. Stopped(j) /\ j \in DOMAIN op
      BY <2>1 DEF CancelInv, TypeInv, HistoryTyped
    <3> QED
      BY <1>3, <1>4, <2>1, <3>1 DEF Stopped
  <2> QED
    BY <2>1
<1>7. "race" \notin faults =>
          \A h \in Handlers : co[h].pc = "cancel" => \A j \in co[h].left : Waits(j)'
  <2>1. ASSUME "race" \notin faults, NEW h \in Handlers, co[h].pc = "cancel", NEW j \in co[h].left
        PROVE  Waits(j)'
    <3>1. Waits(j) /\ j \in DOMAIN op
      BY <2>1, LeftRows DEF CancelInv, At
    <3> QED
      BY <1>3, <1>5, <2>1, <3>1 DEF Waits
  <2> QED
    BY <2>1
<1> QED
  BY <1>2, <1>6, <1>7, CancelKept

\* So does one that adds a row, or that writes a row asking for its approval.
LEMMA NewRowCancel ==
    ASSUME TypeInv, CancelInv, UNCHANGED <<cancelled, faults>>,
           \A i \in DOMAIN op : op[i].step = "asking" \/ op'[i] = op[i],
           \A h \in Handlers : co'[h].pc = "cancel" => co'[h] = co[h]
    PROVE  CancelInv'
<1>1. \A i \in cancelled : i \in DOMAIN op
  BY DEF TypeInv, HistoryTyped
<1>2. "race" \notin faults => \A i \in cancelled : Stopped(i)'
  BY <1>1 DEF CancelInv, Stopped
<1>3. ASSUME "race" \notin faults, NEW h \in Handlers, co[h].pc = "cancel", NEW i \in co[h].left
      PROVE  Waits(i)'
  <2>1. Waits(i) /\ i \in DOMAIN op
    BY <1>3, LeftRows DEF CancelInv, At
  <2> QED
    BY <2>1 DEF Waits
<1> QED
  BY <1>2, <1>3, CancelKept

\* What begin does when it asks for a deletion.
LEMMA CreateDeleteFrame ==
    ASSUME TypeInv, NEW h \in Handlers, CreateDelete(h)
    PROVE  /\ Alone(h) /\ co[h].job = "begin" /\ co[h].pc = "create"
           /\ co'[h].job = "begin" /\ co'[h].pc = "ask" /\ co'[h].t = co[h].t
           /\ \E a \in co[h].left :
                /\ op' = Append(op, New(a, "delete", TRUE))
                /\ co'[h].left = co[h].left \ {a} /\ co'[h].made = co[h].made \cup {Len(op) + 1}
                /\ a \in Accounts /\ Home[a] = co[h].t
           /\ UNCHANGED <<catalogVars, snapshot, state, account, history, worker, faults>>
<1>1. co[h] \in Coroutines /\ StepTyped(co[h]) /\ co[h].pc = "create" /\ co[h].job = "begin"
  BY CoOf, JobOf DEF CreateDelete, At, TypeInv, BeginSteps
<1>2. PICK a \in co[h].left :
        /\ op' = Append(op, New(a, "delete", TRUE))
        /\ Become(h, [co[h] EXCEPT !.left = @ \ {a}, !.made = @ \cup {Len(op) + 1}, !.pc = "ask"])
  BY DEF CreateDelete
<1> DEFINE c == [co[h] EXCEPT !.left = @ \ {a}, !.made = @ \cup {Len(op) + 1}, !.pc = "ask"]
<1>3. /\ c.left = co[h].left \ {a} /\ c.made = co[h].made \cup {Len(op) + 1}
      /\ c.job = "begin" /\ c.pc = "ask" /\ c.t = co[h].t
  BY <1>1 DEF Coroutines
<1> HIDE DEF c
<1>4. Alone(h) /\ co'[h] = c
  BY <1>2, AloneBecomes DEF c
<1>5. a \in Accounts /\ Home[a] = co[h].t
  BY <1>1 DEF StepTyped, AccountsOf
<1>6. UNCHANGED <<catalogVars, snapshot, state, account, history, worker, faults>>
  BY DEF CreateDelete, redis, outside
<1> QED
  BY <1>1, <1>2, <1>3, <1>4, <1>5, <1>6

LEMMA AskDeleteFrame ==
    ASSUME TypeInv, NEW h \in Handlers, AskDelete(h)
    PROVE  /\ Alone(h) /\ co[h].job = "begin" /\ co[h].pc = "ask"
           /\ co'[h].pc \in {"create", "idle"} /\ co'[h].job \in {"begin", "none"}
           /\ \E i \in co[h].made :
                /\ i \in DOMAIN op /\ op[i].step = "asking"
                /\ \/ Row(i, "APPROVAL_PENDING", "rest") /\ co'[h] = [co[h] EXCEPT !.pc = "create"]
                   \/ "ask" \in faults /\ Row(i, "FAILED", "rest") /\ co'[h] = Idle
           /\ UNCHANGED <<catalogVars, snapshot, state, account, history, worker, faults>>
<1>1. co[h] \in Coroutines /\ StepTyped(co[h]) /\ co[h].pc = "ask" /\ co[h].job = "begin"
  BY CoOf, JobOf DEF AskDelete, At, TypeInv, BeginSteps
<1>2. UNCHANGED <<catalogVars, snapshot, state, account, history, worker, faults>>
  BY DEF AskDelete, redis, outside
<1>3. PICK i \in co[h].made :
        /\ op[i].step = "asking"
        /\ \/ Row(i, "APPROVAL_PENDING", "rest") /\ Goto(h, "create")
           \/ "ask" \in faults /\ Row(i, "FAILED", "rest") /\ Finish(h)
  BY DEF AskDelete, May
<1>4. i \in DOMAIN op
  BY <1>1 DEF StepTyped
<1>5. CASE Goto(h, "create")
  <2>1. Alone(h) /\ co'[h] = [co[h] EXCEPT !.pc = "create"]
    BY <1>5, AloneBecomes DEF Goto
  <2>2. Row(i, "APPROVAL_PENDING", "rest") \/ (Finish(h) /\ "ask" \in faults /\ Row(i, "FAILED", "rest"))
    BY <1>3
  <2>3. Finish(h) => co'[h] = Idle
    BY AloneBecomes DEF Finish
  <2>4. co'[h].pc = "create" /\ co'[h].job = "begin"
    BY <1>1, <2>1 DEF Coroutines
  <2> QED
    BY <1>1, <1>2, <1>3, <1>4, <2>1, <2>2, <2>3, <2>4
<1>6. CASE Finish(h) /\ "ask" \in faults /\ Row(i, "FAILED", "rest")
  <2>1. Alone(h) /\ co'[h] = Idle
    BY <1>6, AloneBecomes DEF Finish
  <2>2. Idle.pc = "idle" /\ Idle.job = "none"
    BY DEF Idle
  <2> QED
    BY <1>1, <1>2, <1>3, <1>4, <1>6, <2>1, <2>2
<1> QED
  BY <1>3, <1>5, <1>6

LEMMA ListOperationsCancel ==
    ASSUME TypeInv, CancelInv, NEW h \in Handlers, ListOperations(h)
    PROVE  CancelInv'
<1>1. Alone(h) /\ UNCHANGED <<op, cancelled, faults>> /\ co'[h].left = Cancellable(co[h].t)
  <2> DEFINE c == [co[h] EXCEPT !.latest = [a \in Accounts |-> Latest(a)],
                                !.left = Cancellable(co[h].t), !.pc = "cancel"]
  <2>1. c.left = Cancellable(co[h].t)
    BY CoOf DEF Coroutines, TypeInv
  <2> HIDE DEF c
  <2>2. Become(h, c)
    BY DEF ListOperations, c
  <2> QED
    BY <2>1, <2>2, AloneBecomes, PreparesFrame DEF Prepares, history
<1>2. ASSUME "race" \notin faults, NEW i \in Cancellable(co[h].t)
      PROVE  Waits(i)
  <2>1. op[i].step = "rest"
    BY <1>2 DEF ListOperations, May, Cancellable
  <2>2. op[i].status # "SUCCESS"
    BY <1>2 DEF Cancellable, Open
  <2> QED
    BY <2>1, <2>2 DEF Waits
<1> QED
  BY <1>1, <1>2 DEF CancelInv, Alone, At, Waits, Stopped

\* Each row it cancels is at rest, and stays there.
LEMMA CancelOperationsCancel ==
    ASSUME TypeInv, CancelInv, NEW h \in Handlers, CancelOperations(h)
    PROVE  CancelInv'
<1>1. co[h] \in Coroutines /\ co[h].pc = "cancel" /\ op \in Seq(OperationType)
  BY CoOf DEF CancelOperations, At, TypeInv, OpTyped
<1>2. faults' = faults
  BY DEF CancelOperations
<1>3. CASE co[h].left = {} /\ Goto(h, "requests") /\ UNCHANGED <<op, cancelled>>
  <2>1. Alone(h) /\ co'[h] = [co[h] EXCEPT !.pc = "requests"]
    BY <1>3, AloneBecomes DEF Goto
  <2>2. co'[h].pc = "requests"
    BY <1>1, <2>1 DEF Coroutines
  <2> QED
    BY <1>2, <1>3, <2>1, <2>2, StillCancelled DEF Alone
<1>4. ASSUME NEW i \in co[h].left, op' = [op EXCEPT ![i].status = "FAILED"],
             cancelled' = cancelled \cup {i}, Become(h, [co[h] EXCEPT !.left = @ \ {i}])
      PROVE  CancelInv'
  <2>1. i \in DOMAIN op /\ op[i] \in OperationType
    BY <1>1, LeftRows, RowOf
  <2>2. Alone(h) /\ co'[h] = [co[h] EXCEPT !.left = @ \ {i}]
    BY <1>4, AloneBecomes
  <2>3. co'[h].left = co[h].left \ {i}
    BY <1>1, <2>2 DEF Coroutines
  <2>4. /\ op'[i].status = "FAILED" /\ op'[i].step = op[i].step
        /\ \A j \in DOMAIN op : j # i => op'[j] = op[j]
    BY <1>1, <1>4, <2>1 DEF OperationType
  <2>5. ASSUME "race" \notin faults
        PROVE  Stopped(i)' /\ Waits(i)'
    <3>1. Waits(i)
      BY <1>1, <1>4, <2>5 DEF CancelInv, At
    <3> QED
      BY <2>4, <3>1 DEF Waits, Stopped, Over
  <2>6. ASSUME "race" \notin faults, NEW j \in cancelled'
        PROVE  Stopped(j)'
    <3>1. CASE j = i
      BY <2>5, <2>6, <3>1 DEF Stopped
    <3>2. CASE j # i
      <4>1. Stopped(j) /\ j \in DOMAIN op
        BY <1>4, <2>6, <3>2 DEF CancelInv, TypeInv, HistoryTyped
      <4> QED
        BY <2>4, <3>2, <4>1 DEF Stopped
    <3> QED
      BY <3>1, <3>2
  <2>7. ASSUME "race" \notin faults, NEW g \in Handlers, co'[g].pc = "cancel", NEW j \in co'[g].left
        PROVE  Waits(j)'
    <3>1. co[g].pc = "cancel" /\ j \in co[g].left
      BY <1>1, <2>2, <2>3, <2>7 DEF Alone
    <3>2. Waits(j) /\ j \in DOMAIN op
      BY <2>7, <3>1, LeftRows DEF CancelInv, At
    <3> QED
      BY <2>4, <2>5, <2>7, <3>2 DEF Waits
  <2> QED
    BY <1>2, <2>6, <2>7 DEF CancelInv, At, Stopped, Waits
<1> QED
  BY <1>3, <1>4 DEF CancelOperations

LEMMA NextCases ==
    ASSUME [Next]_vars
    PROVE  \/ \E a \in Accounts, kind \in {"write", "delete"} : Message(a, kind)
           \/ \E i \in DOMAIN op : RowStep(i)
           \/ \E a \in Accounts : Expire(a)
           \/ \E h \in Handlers : Opens(h)
           \/ \E h \in Handlers : Prepares(h)
           \/ \E h \in Handlers : CancelOperations(h)
           \/ \E h \in Handlers : CreateDelete(h)
           \/ \E h \in Handlers : AskDelete(h)
           \/ \E h \in Handlers : Process(h)
           \/ Worker \/ Crash \/ Dashboard \/ UNCHANGED vars
<1>1. CASE Operations
  BY <1>1 DEF Operations, RowStep
<1>2. ASSUME NEW h \in Handlers, BeginRequest(h) \/ ProcessRequest(h) \/ Serve(h)
      PROVE  \/ Opens(h) \/ Prepares(h) \/ CancelOperations(h) \/ CreateDelete(h)
             \/ AskDelete(h) \/ Process(h)
  BY <1>2 DEF Serve, Begin, Opens, Prepares
<1> QED
  BY <1>1, <1>2 DEF Next

LEMMA MessageFrame ==
    ASSUME TypeInv, NEW a \in Accounts, NEW kind \in {"write", "delete"}, Message(a, kind)
    PROVE  /\ op' = Append(op, New(a, kind, FALSE)) /\ Home[a] \in OnFile
           /\ Underway(Home[a]) => "late" \in faults
           /\ \A i \in DOMAIN op : op'[i] = op[i]
           /\ UNCHANGED <<catalogVars, snapshot, state, account, co, history, worker, faults>>
<1>1. op' = Append(op, New(a, kind, FALSE)) /\ FALSE \in BOOLEAN /\ op \in Seq(OperationType)
  BY DEF Message, TypeInv, OpTyped
<1>2. \A i \in DOMAIN op : op'[i] = op[i]
  BY <1>1, RowAdded
<1> QED
  BY <1>1, <1>2 DEF Message, redis, outside, history, May

LEMMA CancelPreserved ==
    ASSUME TypeInv, CancelInv, [Next]_vars
    PROVE  CancelInv'
<1>1. ASSUME NEW a \in Accounts, NEW kind \in {"write", "delete"}, Message(a, kind)
      PROVE  CancelInv'
  BY <1>1, MessageFrame, NewRowCancel DEF history
<1>2. ASSUME NEW i \in DOMAIN op, RowStep(i)
      PROVE  CancelInv'
  BY <1>2, RowStepCancel
<1>3. ASSUME NEW a \in Accounts, Expire(a)
      PROVE  CancelInv'
  BY <1>3, StillCancelled DEF Expire, tables, history
<1>4. ASSUME NEW h \in Handlers, Opens(h)
      PROVE  CancelInv'
  BY <1>4, OpensFrame, StillCancelled DEF Alone, history
<1>5. ASSUME NEW h \in Handlers, Prepares(h)
      PROVE  CancelInv'
  <2>1. CASE ListOperations(h)
    BY <2>1, ListOperationsCancel
  <2>2. CASE ~ListOperations(h)
    BY <1>5, <2>2, PreparesFrame, StillCancelled DEF Alone, history
  <2> QED
    BY <2>1, <2>2
<1>6. ASSUME NEW h \in Handlers, CancelOperations(h)
      PROVE  CancelInv'
  BY <1>6, CancelOperationsCancel
<1>7. ASSUME NEW h \in Handlers, CreateDelete(h)
      PROVE  CancelInv'
  <2>1. PICK a \in Accounts : op' = Append(op, New(a, "delete", TRUE))
    BY <1>7, CreateDeleteFrame
  <2>2. TRUE \in BOOLEAN /\ op \in Seq(OperationType)
    BY DEF TypeInv, OpTyped
  <2>3. \A i \in DOMAIN op : op'[i] = op[i]
    BY <2>1, <2>2, RowAdded
  <2> QED
    BY <1>7, <2>3, CreateDeleteFrame, NewRowCancel DEF Alone, history
<1>8. ASSUME NEW h \in Handlers, AskDelete(h)
      PROVE  CancelInv'
  <2>1. PICK i \in DOMAIN op : op[i].step = "asking" /\ \E s \in Statuses : Row(i, s, "rest")
    BY <1>8, AskDeleteFrame DEF Statuses
  <2>2. \A j \in DOMAIN op : op[j].step = "asking" \/ op'[j] = op[j]
    BY <2>1, RowChange DEF TypeInv, OpTyped, OpSteps
  <2>3. co'[h].pc # "cancel"
    BY <1>8, AskDeleteFrame
  <2> QED
    BY <1>8, <2>2, <2>3, AskDeleteFrame, NewRowCancel DEF Alone, history
<1>9. ASSUME NEW h \in Handlers, Process(h)
      PROVE  CancelInv'
  <2>1. co'[h].pc # "cancel"
    <3>1. TypeInv'
      BY NextTyped
    <3>2. StepTyped(co[h])' /\ co'[h].job = "process"
      BY <1>9, <3>1, ProcessFrame DEF TypeInv, CoTyped
    <3> QED
      BY <3>2 DEF StepTyped, ProcessSteps
  <2> QED
    BY <1>9, <2>1, ProcessFrame, StillCancelled DEF Alone
<1>10. CASE Worker
  BY <1>10, WorkerFrame, StillCancelled DEF history, Idle
<1>11. CASE Crash
  <2>1. \A h \in Handlers : co'[h] = Idle
    BY <1>11 DEF Crash
  <2>2. \A i \in DOMAIN op : op'[i] = op[i] \/ op'[i] = [op[i] EXCEPT !.step = "rest"]
    BY <1>11 DEF Crash
  <2>3. \A i \in DOMAIN op : /\ op'[i].status = op[i].status
                             /\ op[i].step = "rest" => op'[i].step = "rest"
    BY <2>2, RowOf DEF TypeInv, OpTyped, OperationType
  <2>4. UNCHANGED <<cancelled, faults>>
    BY <1>11 DEF Crash, history
  <2> QED
    BY <2>1, <2>3, <2>4 DEF CancelInv, At, Idle, Stopped, TypeInv, HistoryTyped
<1>12. CASE Dashboard \/ UNCHANGED vars
  <2>1. UNCHANGED <<op, co, cancelled, faults>>
    BY <1>12 DEF Dashboard, vars, tables, history
  <2> QED
    BY <2>1, StillCancelled
<1> QED
  BY <1>1, <1>2, <1>3, <1>4, <1>5, <1>6, <1>7, <1>8, <1>9, <1>10, <1>11, <1>12, NextCases

\* An operation that begin cancelled is not carried out afterwards, by nobody
\* who had begun to answer it, or reads its row later, or retries it; whatever
\* else fails or overlaps, as long as people answer one operation after the
\* other.
THEOREM CancelledStayDead == Spec => []CancelledIsDead
<1>1. Init => TypeInv /\ CancelInv
  <2>1. Init => CancelInv
    BY DEF Init, CancelInv, At, Idle
  <2> QED
    BY <2>1, InitTyped
<1>2. TypeInv /\ CancelInv /\ [Next]_vars => TypeInv' /\ CancelInv'
  BY NextTyped, CancelPreserved
<1>3. CancelInv => CancelledIsDead
  BY DEF CancelInv, CancelledIsDead, Stopped
<1> QED
  BY <1>1, <1>2, <1>3, PTL DEF Spec

-----------------------------------------------------------------------------
\* One deletion for each account.

Deco(t)        == {i \in RowsOf(t) : op[i].deco}
Asks           == {"create", "ask"}
Creating(h, t) == co[h].pc \in Asks /\ co[h].t = t

\* What begin knows of the deletions of its target, and process_all of its key.
OnceAt(c) ==
    /\ c.pc \in BeginSteps \ Asks => Deco(c.t) = {}
    /\ c.pc \in Asks => \A i \in Deco(c.t) : op[i].a \notin c.left
    /\ c.pc \in ProcessSteps => state[c.t] # None \/ c.t \notin Listed
    /\ c.pc = "drop" => c.t \notin Listed

Single  == {"api", "ask", "double", "readd"} \cap faults = {}
OneBegin == \A g, h \in Handlers : co[g].job = "begin" /\ co[h].job = "begin" => g = h
Kept    == \A t \in Targets : Deco(t) # {} =>
               t \notin Listed \/ state[t] # None \/ \E h \in Handlers : Creating(h, t)
Distinct == \A i, j \in DOMAIN op : op[i].deco /\ op[j].deco /\ op[i].a = op[j].a => i = j

OnceBody == OneBegin /\ Kept /\ Distinct /\ \A h \in Handlers : OnceAt(co[h])
OnceInv  == Single => OnceBody

\* No deletion is added, no target listed, no key lost before its target.
NoDeletion == /\ Grows /\ \A i \in DOMAIN op' : op'[i].deco => i \in DOMAIN op
              /\ Listed' \subseteq Listed
              /\ \A t \in Targets : state[t] # None => state'[t] # None \/ t \notin Listed'

LEMMA SameDeco ==
    ASSUME NoDeletion
    PROVE  /\ \A t : Deco(t)' = Deco(t)
           /\ \A i \in DOMAIN op : op'[i].a = op[i].a
  BY DEF NoDeletion, Deco, RowsOf, Grows

LEMMA OnceAtStays ==
    ASSUME TypeInv, NoDeletion
    PROVE  \A c \in Coroutines : StepTyped(c) /\ OnceAt(c) => OnceAt(c)'
<1>1. ASSUME NEW c \in Coroutines, StepTyped(c), OnceAt(c)
      PROVE  OnceAt(c)'
  <2>1. Deco(c.t)' = Deco(c.t) /\ \A i \in Deco(c.t) : op'[i].a = op[i].a
    BY SameDeco DEF Deco, RowsOf
  <2>2. c.pc \in ProcessSteps => c.t \in Targets
    BY <1>1 DEF StepTyped
  <2>3. c.pc \in ProcessSteps => state'[c.t] # None \/ c.t \notin Listed'
    BY <1>1, <2>2 DEF NoDeletion, OnceAt
  <2> QED
    BY <1>1, <2>1, <2>3 DEF OnceAt, NoDeletion
<1> QED
  BY <1>1

\* A coroutine that goes on without beginning anything.
Continues(h) ==
    /\ co'[h].job = "begin" => co[h].job = "begin" \/ \A g \in Handlers : co[g].job # "begin"
    /\ OnceAt(co[h])'
    /\ co[h].pc \in Asks => \/ co'[h].pc \in Asks /\ co'[h].t = co[h].t
                            \/ state'[co[h].t] # None

LEMMA OnceKept ==
    ASSUME TypeInv, OnceBody, NoDeletion,
           NEW k \in Handlers, Alone(k), Continues(k)
    PROVE  OnceBody'
<1>1. OneBegin'
  BY DEF OnceBody, OneBegin, Continues, Alone
<1>2. Kept'
  <2>1. ASSUME NEW t \in Targets, Deco(t)' # {}, t \in Listed'
        PROVE  state'[t] # None \/ \E h \in Handlers : Creating(h, t)'
    <3>1. state[t] # None \/ \E h \in Handlers : Creating(h, t)
      BY <2>1, SameDeco DEF OnceBody, Kept, NoDeletion
    <3>2. CASE state[t] # None
      BY <2>1, <3>2 DEF NoDeletion
    <3>3. ASSUME NEW h \in Handlers, Creating(h, t)
          PROVE  state'[t] # None \/ Creating(h, t)'
      BY <3>3 DEF Creating, Continues, Alone
    <3> QED
      BY <3>1, <3>2, <3>3
  <2> QED
    BY <2>1 DEF Kept
<1>3. Distinct'
  <2>1. \A i \in DOMAIN op' : op'[i].deco => /\ i \in DOMAIN op /\ op'[i].a = op[i].a
                                             /\ op[i].deco
    BY DEF NoDeletion, Grows
  <2> QED
    BY <2>1 DEF OnceBody, Distinct
<1>4. ASSUME NEW h \in Handlers
      PROVE  OnceAt(co[h])'
  <2>1. CASE co'[h] = co[h]
    <3>1. PICK c \in Coroutines : c = co[h] /\ StepTyped(c) /\ OnceAt(c)
      BY CoOf DEF TypeInv, OnceBody
    <3>2. OnceAt(c)' /\ co'[h] = c
      BY <2>1, <3>1, OnceAtStays
    <3> QED
      BY <3>2 DEF OnceAt
  <2> QED
    BY <2>1 DEF Continues, Alone
<1> QED
  BY <1>1, <1>2, <1>3, <1>4 DEF OnceBody

\* Nobody goes on, or one whose work is done ends.
LEMMA OnceStill ==
    ASSUME TypeInv, OnceBody, NoDeletion,
           \A g \in Handlers : co'[g] = co[g] \/ (co[g].pc = "answered" /\ co'[g] = Idle)
    PROVE  OnceBody'
<1>1. \A g \in Handlers : co'[g].job = "begin" => co[g].job = "begin"
  BY DEF Idle
<1>2. OneBegin'
  BY <1>1 DEF OnceBody, OneBegin
<1>3. \A g \in Handlers, t \in Targets : Creating(g, t) => Creating(g, t)'
  BY DEF Creating, Asks
<1>4. Kept'
  BY <1>3, SameDeco DEF OnceBody, Kept, NoDeletion
<1>5. Distinct'
  <2>1. \A i \in DOMAIN op' : op'[i].deco => /\ i \in DOMAIN op /\ op'[i].a = op[i].a
                                             /\ op[i].deco
    BY DEF NoDeletion, Grows
  <2> QED
    BY <2>1 DEF OnceBody, Distinct
<1>6. ASSUME NEW h \in Handlers
      PROVE  OnceAt(co[h])'
  <2>1. CASE co'[h] = co[h]
    <3>1. PICK c \in Coroutines : c = co[h] /\ StepTyped(c) /\ OnceAt(c)
      BY CoOf DEF TypeInv, OnceBody
    <3>2. OnceAt(c)' /\ co'[h] = c
      BY <2>1, <3>1, OnceAtStays
    <3> QED
      BY <3>2 DEF OnceAt
  <2>2. CASE co'[h] = Idle
    BY <2>2 DEF OnceAt, Idle, BeginSteps, ProcessSteps, Asks
  <2> QED
    BY <2>1, <2>2
<1> QED
  BY <1>2, <1>4, <1>5, <1>6 DEF OnceBody

\* Rows change, nothing else does.
LEMMA RowsOnly ==
    ASSUME TypeInv, Grows, DOMAIN op' = DOMAIN op, UNCHANGED <<catalogVars, state>>
    PROVE  NoDeletion
  BY DEF NoDeletion, catalogVars, Listed

LEMMA SameRowsOnly ==
    ASSUME TypeInv, UNCHANGED <<catalogVars, op, state>>
    PROVE  NoDeletion
  BY SameOp, RowsOnly DEF Grows

LEMMA OpensOnce ==
    ASSUME TypeInv, Single, OnceBody, NEW h \in Handlers, Opens(h)
    PROVE  OnceBody'
<1>1. NoDeletion /\ Alone(h)
  BY OpensFrame, SameRowsOnly
<1>2. co'[h].job = "begin" => \A g \in Handlers : co[g].job # "begin"
  <2>1. co'[h].job = "begin" => BeginRequest(h)
    BY OpensFrame
  <2> QED
    BY <2>1 DEF BeginRequest, May, Single
<1>3. OnceAt(co[h])'
  BY OpensFrame DEF OnceAt, BeginSteps, ProcessSteps, Asks
<1>4. co[h].pc \notin Asks
  BY OpensFrame DEF Asks
<1> QED
  BY <1>1, <1>2, <1>3, <1>4, OnceKept DEF Continues

LEMMA BeginTargetOnce ==
    ASSUME TypeInv, OnceBody, NEW h \in Handlers, BeginTarget(h)
    PROVE  OnceBody'
<1>1. /\ Alone(h) /\ co[h].job = "begin" /\ co[h].pc = "next" /\ NoDeletion
      /\ co[h] \in Coroutines
  BY PreparesFrame, SameRowsOnly, CoOf DEF Prepares, BeginTarget, At, TypeInv, redis
<1>3. \A t \in Targets, c \in Coroutines :
          co'[h] = [c EXCEPT !.todo = @ \ {t}] => co'[h].pc = c.pc
  BY DEF Coroutines
<1>4. \/ co'[h].pc \in {"idle", "next"}
      \/ co'[h].pc = "list" /\ co'[h].t \in Listed /\ state[co'[h].t] = None
  <2>1. CASE Become(h, Idle)
    BY <2>1, AloneBecomes DEF Idle
  <2>2. ASSUME NEW t \in co[h].todo, Become(h, [co[h] EXCEPT !.todo = @ \ {t}])
        PROVE  co'[h].pc = "next"
    BY <1>1, <1>3, <2>2, AloneBecomes DEF Coroutines
  <2>3. ASSUME NEW t \in co[h].todo, t \in Listed, state[t] = None,
               Become(h, [co[h] EXCEPT !.todo = @ \ {t}, !.t = t, !.pc = "list"])
        PROVE  co'[h].pc = "list" /\ co'[h].t \in Listed /\ state[co'[h].t] = None
    <3> DEFINE c == [co[h] EXCEPT !.todo = @ \ {t}, !.t = t, !.pc = "list"]
    <3>1. c.pc = "list" /\ c.t = t
      BY <1>1 DEF Coroutines
    <3>2. co'[h] = c
      BY <2>3, AloneBecomes
    <3> QED
      BY <2>3, <3>1, <3>2
  <2> QED
    BY <2>1, <2>2, <2>3 DEF BeginTarget, Finish
<1>5. ASSUME NEW t \in Listed, state[t] = None
      PROVE  Deco(t)' = {}
  <2>1. ~\E g \in Handlers : Creating(g, t)
    BY <1>1, JobOf DEF Creating, OnceBody, OneBegin, Asks, BeginSteps
  <2>2. Deco(t) = {}
    BY <1>5, <2>1, ListedTargets DEF OnceBody, Kept
  <2> QED
    BY <1>1, <2>2, SameDeco
<1>6. OnceAt(co[h])'
  BY <1>4, <1>5 DEF OnceAt, BeginSteps, ProcessSteps, Asks
<1> QED
  BY <1>1, <1>6, OnceKept DEF Continues, Asks

LEMMA BeginOnce ==
    ASSUME TypeInv, OnceBody, NEW h \in Handlers,
           ListOperations(h) \/ CancelOperations(h) \/ CancelRequests(h) \/ ScanSnapshots(h)
    PROVE  OnceBody'
<1>1. /\ co[h] \in Coroutines /\ co[h].job = "begin"
      /\ co[h].pc \in {"list", "cancel", "requests", "scan"}
  BY CoOf, JobOf DEF ListOperations, CancelOperations, CancelRequests, ScanSnapshots, At, TypeInv,
                     BeginSteps
<1>2. \E c \in Coroutines : /\ Become(h, c) /\ c.t = co[h].t
                            /\ c.pc \in {"cancel", "requests", "scan", "create"}
  <2>1. CASE ListOperations(h)
    <3> DEFINE c == [co[h] EXCEPT !.latest = [a \in Accounts |-> Latest(a)],
                                  !.left = Cancellable(co[h].t), !.pc = "cancel"]
    <3>1. Cancellable(co[h].t) \subseteq Nat
      BY DEF Cancellable, RowsOf, TypeInv, OpTyped
    <3>2. c \in Coroutines /\ c.t = co[h].t /\ c.pc = "cancel"
      BY <1>1, <3>1, LatestTyped DEF Coroutines, Steps, BeginSteps
    <3>3. Become(h, c)
      BY <2>1 DEF ListOperations
    <3> HIDE DEF c
    <3> QED
      BY <3>2, <3>3
  <2>2. CASE ScanSnapshots(h)
    <3> DEFINE c == [co[h] EXCEPT !.left = Candidates(h), !.pc = "create", !.latest = Idle.latest]
    <3>1. Candidates(h) \subseteq Accounts
      BY DEF Candidates, AccountsOf
    <3>2. Idle.latest \in [Accounts -> OperationType \cup {None}]
      BY DEF Idle
    <3>3. c \in Coroutines /\ c.t = co[h].t /\ c.pc = "create"
      BY <1>1, <3>1, <3>2 DEF Coroutines, Steps, BeginSteps
    <3>4. Become(h, c)
      BY <2>2 DEF ScanSnapshots
    <3> HIDE DEF c
    <3> QED
      BY <3>3, <3>4
  <2>3. ASSUME NEW p \in {"requests", "scan"}, Goto(h, p)
        PROVE  \E c \in Coroutines : /\ Become(h, c) /\ c.t = co[h].t
                                     /\ c.pc \in {"cancel", "requests", "scan", "create"}
    <3> DEFINE c == [co[h] EXCEPT !.pc = p]
    <3>1. c \in Coroutines /\ c.t = co[h].t /\ c.pc = p
      BY <1>1 DEF Coroutines, Steps, BeginSteps
    <3>2. Become(h, c)
      BY <2>3 DEF Goto
    <3> HIDE DEF c
    <3> QED
      BY <3>1, <3>2
  <2>4. ASSUME NEW i, Become(h, [co[h] EXCEPT !.left = @ \ {i}]), CancelOperations(h)
        PROVE  \E c \in Coroutines : /\ Become(h, c) /\ c.t = co[h].t
                                     /\ c.pc \in {"cancel", "requests", "scan", "create"}
    <3> DEFINE c == [co[h] EXCEPT !.left = @ \ {i}]
    <3>1. c \in Coroutines /\ c.t = co[h].t /\ c.pc = "cancel"
      BY <1>1, <2>4 DEF Coroutines, CancelOperations, At
    <3>2. Become(h, c)
      BY <2>4
    <3> HIDE DEF c
    <3> QED
      BY <3>1, <3>2
  <2> QED
    BY <2>1, <2>2, <2>3, <2>4 DEF CancelOperations, CancelRequests
<1>3. Alone(h) /\ co'[h].t = co[h].t /\ co'[h].pc \in {"cancel", "requests", "scan", "create"}
  BY <1>2, AloneBecomes
<1>4. NoDeletion
  <2>1. CASE CancelOperations(h) /\ op' # op
    <3>1. PICK i \in co[h].left : op' = [op EXCEPT ![i].status = "FAILED"]
      BY <2>1 DEF CancelOperations
    <3>2. i \in DOMAIN op
      BY <2>1, LeftRows DEF CancelOperations, At
    <3>3. Grows /\ DOMAIN op' = DOMAIN op
      BY <3>1, <3>2, RowOf DEF Grows, TypeInv, OpTyped, OperationType
    <3> QED
      BY <2>1, <3>3, RowsOnly DEF CancelOperations, redis
  <2>2. CASE op' = op
    BY <2>2, SameRowsOnly DEF ListOperations, CancelOperations, CancelRequests, ScanSnapshots, redis
  <2> QED
    BY <2>1, <2>2 DEF ListOperations, CancelRequests, ScanSnapshots, tables
<1>5. Deco(co[h].t)' = {}
  <2>1. Deco(co[h].t) = {}
    BY <1>1 DEF OnceBody, OnceAt, BeginSteps, Asks
  <2>2. PICK t \in Targets : t = co[h].t
    BY <1>1, JobOf DEF BeginSteps
  <2>3. Deco(t)' = {}
    BY <1>4, <2>1, <2>2, SameDeco
  <2> QED
    BY <1>3, <2>2, <2>3 DEF Deco, RowsOf
<1>6. OnceAt(co[h])'
  BY <1>3, <1>5 DEF OnceAt, BeginSteps, ProcessSteps, Asks, Deco, RowsOf
<1> QED
  BY <1>1, <1>3, <1>4, <1>6, OnceKept DEF Continues, Asks

LEMMA Went ==
    ASSUME TypeInv, NEW h \in Handlers, NEW p, Goto(h, p)
    PROVE  /\ Alone(h) /\ co'[h].pc = p /\ co'[h].t = co[h].t /\ co'[h].made = co[h].made
           /\ co'[h].left = co[h].left /\ co'[h].latest = co[h].latest /\ co'[h].job = co[h].job
<1> DEFINE c == [co[h] EXCEPT !.pc = p]
<1>1. /\ c.pc = p /\ c.t = co[h].t /\ c.made = co[h].made /\ c.left = co[h].left
      /\ c.latest = co[h].latest /\ c.job = co[h].job
  BY CoOf DEF Coroutines, TypeInv
<1>2. Become(h, c)
  BY DEF Goto
<1> HIDE DEF c
<1> QED
  BY <1>1, <1>2, AloneBecomes

LEMMA OnToNext ==
    ASSUME TypeInv, NEW h \in Handlers, NextTarget(h)
    PROVE  Alone(h) /\ co'[h].pc = "load" /\ co'[h].made = {} /\ co'[h].job = "process"
<1> DEFINE c == [Idle EXCEPT !.job = "process", !.pc = "load", !.todo = co[h].todo]
<1>1. c.pc = "load" /\ c.made = {} /\ c.job = "process" /\ Become(h, c)
  BY DEF NextTarget, Idle
<1> HIDE DEF c
<1> QED
  BY <1>1, AloneBecomes

\* A key that is written is there, with what the coroutine holds.
LEMMA Written ==
    ASSUME TypeInv, NEW h \in Handlers, NEW s \in Stages, co[h].t \in Targets,
           state' = [state EXCEPT ![co[h].t] = [ops |-> co[h].made, status |-> s]]
    PROVE  /\ state'[co[h].t] # None /\ state'[co[h].t].ops = co[h].made
           /\ \A t \in Targets : t # co[h].t => state'[t] = state[t]
<1>1. [ops |-> co[h].made, status |-> s] \in Decommissions
  BY CoOf DEF Decommissions, TypeInv
<1> QED
  BY <1>1, DecommissionAssumption DEF TypeInv, StateTyped

LEMMA SaveStateFrame ==
    ASSUME TypeInv, NEW h \in Handlers, SaveState(h)
    PROVE  /\ Alone(h) /\ co[h].pc = "create" /\ co[h].left = {} /\ co[h].t \in Targets
           /\ co'[h].pc = "next" /\ co[h].job = "begin" /\ co'[h].made = {}
           /\ state'[co[h].t] # None /\ state'[co[h].t].ops = co[h].made
           /\ \A t \in Targets : t # co[h].t => state'[t] = state[t]
<1>1. co[h].pc = "create" /\ co[h].left = {} /\ co[h].t \in Targets /\ co[h].job = "begin"
  BY JobOf DEF SaveState, At, BeginSteps
<1>2. \E s \in Stages : state' = [state EXCEPT ![co[h].t] = [ops |-> co[h].made, status |-> s]]
  BY DEF SaveState, Stages
<1> DEFINE c == [Idle EXCEPT !.job = "begin", !.pc = "next", !.todo = co[h].todo]
<1>3. c.pc = "next" /\ c.made = {} /\ Become(h, c)
  BY DEF SaveState, Idle
<1> HIDE DEF c
<1>4. Alone(h) /\ co'[h] = c
  BY <1>3, AloneBecomes
<1> QED
  BY <1>1, <1>2, <1>3, <1>4, Written

LEMMA SaveStateOnce ==
    ASSUME TypeInv, OnceBody, NEW h \in Handlers, SaveState(h)
    PROVE  OnceBody'
<1>1. UNCHANGED <<catalogVars, op>> /\ Grows
  BY SameOp DEF SaveState, tables
<1>2. NoDeletion
  BY <1>1, SaveStateFrame DEF NoDeletion, catalogVars, Listed
<1>3. OnceAt(co[h])'
  BY SaveStateFrame DEF OnceAt, BeginSteps, ProcessSteps, Asks
<1> QED
  BY <1>2, <1>3, SaveStateFrame, OnceKept DEF Continues

LEMMA AskDeleteOnce ==
    ASSUME TypeInv, Single, OnceBody, NEW h \in Handlers, AskDelete(h)
    PROVE  OnceBody'
<1>1. PICK i \in DOMAIN op : /\ Row(i, "APPROVAL_PENDING", "rest")
                             /\ co'[h] = [co[h] EXCEPT !.pc = "create"]
  BY AskDeleteFrame DEF Single
<1>2. Grows /\ DOMAIN op' = DOMAIN op
  BY <1>1, RowChange DEF TypeInv, OpTyped, Statuses, OpSteps
<1>3. NoDeletion
  BY <1>2, AskDeleteFrame, RowsOnly
<1>4. /\ co'[h].pc = "create" /\ co'[h].t = co[h].t /\ co'[h].left = co[h].left
      /\ co[h] \in Coroutines /\ StepTyped(co[h])
  BY <1>1, CoOf DEF Coroutines, TypeInv
<1>5. OnceAt(co[h])'
  <2>1. PICK c \in Coroutines : c = co[h] /\ StepTyped(c) /\ OnceAt(c) /\ c.pc = "ask"
    BY <1>4, AskDeleteFrame DEF OnceBody
  <2>2. OnceAt(c)'
    BY <1>3, <2>1, OnceAtStays
  <2>3. \A k \in Deco(c.t)' : op'[k].a \notin c.left
    BY <2>1, <2>2 DEF OnceAt, Asks
  <2> QED
    BY <1>4, <2>1, <2>3 DEF OnceAt, BeginSteps, ProcessSteps, Asks, Deco, RowsOf
<1> QED
  BY <1>3, <1>4, <1>5, AskDeleteFrame, OnceKept DEF Continues, Asks

\* The only step that adds a deletion: of an account that has none.
LEMMA CreateDeleteOnce ==
    ASSUME TypeInv, OnceBody, NEW h \in Handlers, CreateDelete(h)
    PROVE  OnceBody'
<1>1. /\ Alone(h) /\ co[h].job = "begin" /\ co[h].pc = "create"
      /\ co'[h].job = "begin" /\ co'[h].pc = "ask" /\ co'[h].t = co[h].t
      /\ UNCHANGED <<catalogVars, state>> /\ co[h].t \in Targets
  BY CreateDeleteFrame, JobOf DEF BeginSteps
<1>2. PICK a \in co[h].left :
        /\ op' = Append(op, New(a, "delete", TRUE)) /\ a \in Accounts /\ Home[a] = co[h].t
        /\ co'[h].left = co[h].left \ {a}
  BY CreateDeleteFrame
<1>3. TRUE \in BOOLEAN /\ op \in Seq(OperationType)
  BY DEF TypeInv, OpTyped
<1> DEFINE n == Len(op) + 1
<1>4. /\ DOMAIN op' = 1..n /\ DOMAIN op = 1..Len(op) /\ Len(op) \in Nat
      /\ op'[n] = New(a, "delete", TRUE) /\ \A j \in DOMAIN op : op'[j] = op[j]
  BY <1>2, <1>3, RowAdded
<1>5. op'[n].a = a /\ op'[n].deco
  BY <1>4 DEF New
<1>6. DOMAIN op' = DOMAIN op \cup {n} /\ n \notin DOMAIN op
  BY <1>4
<1> HIDE DEF n
<1>7. ASSUME NEW t \in Targets, t # co[h].t
      PROVE  Deco(t)' = Deco(t)
  <2>1. Home[op'[n].a] # t
    BY <1>2, <1>5, <1>7
  <2>2. \A i : i \in Deco(t)' <=> i \in DOMAIN op /\ Home[op[i].a] = t /\ op[i].deco
    BY <1>4, <1>6, <2>1 DEF Deco, RowsOf
  <2> QED
    BY <2>2 DEF Deco, RowsOf
<1>8. Deco(co[h].t)' = Deco(co[h].t) \cup {n}
  <2>1. PICK t \in Targets : t = co[h].t
    BY <1>1
  <2>2. Deco(t)' = Deco(t) \cup {n}
    BY <1>2, <1>4, <1>5, <1>6, <2>1 DEF Deco, RowsOf
  <2>3. Deco(co[h].t)' = Deco(t)'
    BY <1>1, <2>1, <1>2
  <2> QED
    BY <2>1, <2>2, <2>3
<1>9. \A i \in Deco(co[h].t) : op[i].a \notin co[h].left
  BY <1>1 DEF OnceBody, OnceAt, Asks
<1>10. OneBegin'
  BY <1>1 DEF OnceBody, OneBegin, Alone
<1>11. Kept'
  <2>1. ASSUME NEW t \in Targets, t # co[h].t, Deco(t)' # {}
        PROVE  t \notin Listed \/ state[t] # None \/ \E g \in Handlers : Creating(g, t)'
    <3>1. t \notin Listed \/ state[t] # None \/ \E g \in Handlers : Creating(g, t)
      BY <1>7, <2>1 DEF OnceBody, Kept
    <3>2. \A g \in Handlers : Creating(g, t) => Creating(g, t)'
      BY <1>1, <2>1 DEF Creating, Alone
    <3> QED
      BY <3>1, <3>2
  <2>2. Listed' = Listed
    BY <1>1 DEF Listed, catalogVars
  <2>3. PICK t \in Targets : t = co[h].t
    BY <1>1
  <2>4. Creating(h, t)'
    BY <1>1, <2>3 DEF Creating, Asks
  <2> QED
    BY <1>1, <2>1, <2>2, <2>3, <2>4 DEF Kept
<1>12. Distinct'
  <2>1. ASSUME NEW i \in DOMAIN op, op[i].deco, op[i].a = a
        PROVE  FALSE
    <3>1. i \in Deco(co[h].t)
      BY <1>2, <2>1 DEF Deco, RowsOf
    <3> QED
      BY <1>2, <1>9, <2>1, <3>1
  <2> QED
    BY <1>4, <1>5, <1>6, <2>1 DEF OnceBody, Distinct
<1>13. ASSUME NEW g \in Handlers
       PROVE  OnceAt(co[g])'
  <2>1. CASE g = h
    <3>1. \A i \in Deco(co[h].t)' : op'[i].a \notin co'[h].left
      BY <1>2, <1>4, <1>5, <1>8, <1>9 DEF Deco, RowsOf
    <3> QED
      BY <1>1, <2>1, <3>1 DEF OnceAt, BeginSteps, ProcessSteps, Asks
  <2>2. CASE g # h
    <3>1. co'[g] = co[g] /\ co[g].pc \notin BeginSteps
      BY <1>1, <2>2, JobOf DEF OnceBody, OneBegin, Alone
    <3>2. OnceAt(co[g])
      BY DEF OnceBody
    <3> QED
      BY <1>1, <3>1, <3>2 DEF OnceAt, Asks, BeginSteps, Listed, catalogVars
  <2> QED
    BY <2>1, <2>2
<1> QED
  BY <1>10, <1>11, <1>12, <1>13 DEF OnceBody

LEMMA RemoveTargetFrame ==
    ASSUME TypeInv, NEW h \in Handlers, RemoveTarget(h)
    PROVE  /\ UNCHANGED state /\ co[h].t \in Targets
           /\ \/ /\ co[h].t \in Listed /\ gone' = gone \cup {co[h].t} /\ Goto(h, "drop")
                 /\ OnFile' = OnFile \ {co[h].t} /\ Listed' = Listed \ {co[h].t}
              \/ UNCHANGED <<catalogVars, gone>> /\ Goto(h, "answered")
<1>1. co[h].t \in Targets /\ UNCHANGED state
  BY JobOf DEF RemoveTarget, At, ProcessSteps, redis
<1>2. CASE co[h].t \in Listed
  <2>1. RemoveRuntime(co[h].t) /\ gone' = gone \cup {co[h].t} /\ Goto(h, "drop")
    BY <1>2 DEF RemoveTarget
  <2>2. cache' = [cache EXCEPT ![co[h].t] = "absent"] /\ overlay' = cache' /\ Listed = OnFile
    BY <2>1 DEF RemoveRuntime, TypeInv, CatalogTyped
  <2>3. OnFile' = OnFile \ {co[h].t} /\ Listed' = Listed \ {co[h].t}
    BY <1>1, <2>2 DEF OnFile, Listed, TypeInv, CatalogTyped, Entries
  <2> QED
    BY <1>1, <1>2, <2>1, <2>3
<1>3. CASE co[h].t \notin Listed
  BY <1>1, <1>3 DEF RemoveTarget, Raise
<1> QED
  BY <1>2, <1>3

LEMMA LoadStateFrame ==
    ASSUME TypeInv, NEW h \in Handlers, LoadState(h)
    PROVE  /\ Alone(h)
           /\ \/ co'[h].pc \in {"load", "answered"}
              \/ /\ co'[h].pc = "statuses" /\ co'[h].t \in Targets
                 /\ state[co'[h].t] # None /\ co'[h].made = state[co'[h].t].ops
<1>1. co[h] \in Coroutines /\ co[h].pc = "load" /\ Alone(h)
  BY CoOf, ProcessFrame DEF LoadState, At, TypeInv, Process
<1>2. CASE Goto(h, "answered")
  BY <1>1, <1>2, Went
<1>3. ASSUME NEW t \in co[h].todo, state[t] = None, Become(h, [co[h] EXCEPT !.todo = @ \ {t}])
      PROVE  co'[h].pc = "load"
  BY <1>1, <1>3, AloneBecomes DEF Coroutines
<1>4. ASSUME NEW t \in co[h].todo, state[t] # None,
             Become(h, [co[h] EXCEPT !.todo = @ \ {t}, !.t = t, !.made = state[t].ops,
                                     !.pc = "statuses"])
      PROVE  /\ co'[h].pc = "statuses" /\ co'[h].t \in Targets
             /\ state[co'[h].t] # None /\ co'[h].made = state[co'[h].t].ops
  <2> DEFINE c == [co[h] EXCEPT !.todo = @ \ {t}, !.t = t, !.made = state[t].ops,
                                !.pc = "statuses"]
  <2>1. c.pc = "statuses" /\ c.t = t /\ c.made = state[t].ops /\ t \in Targets
    BY <1>1 DEF Coroutines
  <2>2. co'[h] = c
    BY <1>4, AloneBecomes
  <2> HIDE DEF c
  <2> QED
    BY <1>4, <2>1, <2>2
<1> QED
  BY <1>1, <1>2, <1>3, <1>4 DEF LoadState

\* The steps of process_all that neither write a key nor the catalogue.
Looks(h) == CheckStatuses(h) \/ CleanMidPoint(h) \/ DeleteRows(h) \/ DeleteUserStates(h)

LEMMA LooksFrame ==
    ASSUME TypeInv, NEW h \in Handlers, Looks(h)
    PROVE  /\ UNCHANGED <<catalogVars, state, gone>> /\ co[h].pc \in ProcessSteps \ {"drop"}
           /\ Alone(h) /\ co'[h].t = co[h].t /\ co'[h].made = co[h].made
           /\ co'[h].pc \in (ProcessSteps \ {"drop"}) \cup {"answered"}
<1>1. UNCHANGED <<catalogVars, state, gone>> /\ co[h].pc \in ProcessSteps \ {"drop"}
  BY DEF Looks, CheckStatuses, CleanMidPoint, DeleteRows, DeleteUserStates, redis, history, At,
         ProcessSteps
<1>2. \E p \in (ProcessSteps \ {"drop"}) \cup {"answered"} : Goto(h, p)
  BY DEF Looks, CheckStatuses, CleanMidPoint, DeleteRows, DeleteUserStates, Raise, ProcessSteps
<1> QED
  BY <1>1, <1>2, Went

\* The steps that write the key of the target.
Writes(h) == Hold(h) \/ MarkCleaning(h)

LEMMA WritesFrame ==
    ASSUME TypeInv, NEW h \in Handlers, Writes(h)
    PROVE  /\ UNCHANGED <<catalogVars, gone>> /\ co[h].t \in Targets
           /\ co[h].pc \in {"hold", "block", "mark"} /\ Alone(h)
           /\ state'[co[h].t] # None /\ state'[co[h].t].ops = co[h].made
           /\ \A t \in Targets : t # co[h].t => state'[t] = state[t]
           /\ \/ co'[h].pc = "load"
              \/ /\ co'[h].pc = "roles" /\ co[h].pc = "mark"
                 /\ co'[h].t = co[h].t /\ co'[h].made = co[h].made
<1>1. /\ UNCHANGED <<catalogVars, gone>> /\ co[h].pc \in {"hold", "block", "mark"}
      /\ \E s \in Stages : SetState(h, s)
  BY DEF Writes, Hold, MarkCleaning, At, history, Stages
<1>2. co[h].t \in Targets
  BY <1>1, JobOf DEF ProcessSteps
<1>3. /\ state'[co[h].t] # None /\ state'[co[h].t].ops = co[h].made
      /\ \A t \in Targets : t # co[h].t => state'[t] = state[t]
  BY <1>1, <1>2, Written DEF SetState
<1>4. CASE Hold(h)
  BY <1>1, <1>2, <1>3, <1>4, OnToNext DEF Hold
<1>5. CASE MarkCleaning(h)
  BY <1>1, <1>2, <1>3, <1>5, Went DEF MarkCleaning, At
<1> QED
  BY <1>4, <1>5 DEF Writes

LEMMA DropStateFrame ==
    ASSUME TypeInv, NEW h \in Handlers, DropState(h)
    PROVE  /\ UNCHANGED <<catalogVars, gone>> /\ co[h].t \in Targets /\ co[h].pc = "drop"
           /\ Alone(h) /\ co'[h].pc = "load" /\ state'[co[h].t] = None
           /\ \A t \in Targets : t # co[h].t => state'[t] = state[t]
<1>1. co[h].pc = "drop" /\ co[h].t \in Targets
  BY JobOf DEF DropState, At, ProcessSteps
<1>2. state' = [state EXCEPT ![co[h].t] = None] /\ state \in [Targets -> Decommissions \cup {None}]
  BY DEF DropState, TypeInv, StateTyped
<1> QED
  BY <1>1, <1>2, OnToNext DEF DropState, history

LEMMA ProcessOnce ==
    ASSUME TypeInv, OnceBody, NEW h \in Handlers, Process(h)
    PROVE  OnceBody'
<1>1. /\ Alone(h) /\ co[h].job = "process" /\ co'[h].job = "process" /\ UNCHANGED op
      /\ co[h].pc \notin Asks
  BY ProcessFrame DEF ProcessSteps, Asks
<1>2. Grows
  BY <1>1, SameRows DEF TypeInv, OpTyped
<1>3. co[h].pc \in ProcessSteps => /\ state[co[h].t] # None \/ co[h].t \notin Listed
                                   /\ co[h].pc = "drop" => co[h].t \notin Listed
  BY DEF OnceBody, OnceAt
<1>4. OnceAt(co[h])' /\ NoDeletion
  <2>1. CASE LoadState(h)
    <3>1. UNCHANGED <<catalogVars, state>>
      BY <2>1 DEF LoadState, redis
    <3> QED
      BY <1>1, <2>1, <3>1, LoadStateFrame, SameRowsOnly
         DEF OnceAt, BeginSteps, ProcessSteps, Asks
  <2>2. CASE Looks(h)
    <3>1. NoDeletion
      BY <1>1, <2>2, LooksFrame, SameRowsOnly
    <3> QED
      BY <1>3, <2>2, <3>1, LooksFrame
         DEF OnceAt, BeginSteps, ProcessSteps, Asks, catalogVars, Listed
  <2>3. CASE Writes(h)
    <3>1. NoDeletion
      BY <1>1, <1>2, <2>3, WritesFrame DEF NoDeletion, catalogVars, Listed
    <3> QED
      BY <2>3, <3>1, WritesFrame DEF OnceAt, BeginSteps, ProcessSteps, Asks
  <2>4. CASE RemoveTarget(h)
    <3>1. UNCHANGED state /\ Listed' \subseteq Listed
      BY <2>4, RemoveTargetFrame DEF Listed, catalogVars
    <3>2. NoDeletion
      BY <1>1, <1>2, <3>1 DEF NoDeletion
    <3>3. \/ co'[h].pc = "drop" /\ co'[h].t \notin Listed'
          \/ co'[h].pc = "answered"
      BY <2>4, RemoveTargetFrame, Went
    <3> QED
      BY <3>2, <3>3 DEF OnceAt, BeginSteps, ProcessSteps, Asks
  <2>5. CASE DropState(h)
    <3>1. NoDeletion
      BY <1>1, <1>2, <1>3, <2>5, DropStateFrame DEF NoDeletion, catalogVars, Listed, ProcessSteps
    <3> QED
      BY <2>5, <3>1, DropStateFrame DEF OnceAt, BeginSteps, ProcessSteps, Asks
  <2> QED
    BY <2>1, <2>2, <2>3, <2>4, <2>5 DEF Process, Looks, Writes
<1> QED
  BY <1>1, <1>4, OnceKept DEF Continues

LEMMA SameFaults ==
    ASSUME TypeInv, [Next]_vars
    PROVE  faults' = faults
<1>1. ASSUME NEW h \in Handlers, \/ Opens(h) \/ Prepares(h) \/ CancelOperations(h)
                                  \/ CreateDelete(h) \/ AskDelete(h) \/ Process(h)
      PROVE  faults' = faults
  BY <1>1, OpensFrame, PreparesFrame, CreateDeleteFrame, AskDeleteFrame, ProcessFrame
     DEF CancelOperations
<1>2. ASSUME NEW i \in DOMAIN op, RowStep(i)
      PROVE  faults' = faults
  BY <1>2, RowStepWrites
<1> QED
  BY <1>1, <1>2, MessageFrame, WorkerFrame, NextCases DEF Expire, Crash, Dashboard, vars

LEMMA OncePreserved ==
    ASSUME TypeInv, OnceInv, [Next]_vars
    PROVE  OnceInv'
<1> SUFFICES ASSUME Single'
             PROVE  OnceBody'
  BY DEF OnceInv
<1>1. faults' = faults
  BY SameFaults
<1>2. Single /\ OnceBody
  BY <1>1 DEF Single, OnceInv
<1>3. ASSUME NEW a \in Accounts, NEW kind \in {"write", "delete"}, Message(a, kind)
      PROVE  OnceBody'
  <2>1. /\ op' = Append(op, New(a, kind, FALSE)) /\ UNCHANGED <<catalogVars, state, co>>
        /\ FALSE \in BOOLEAN /\ op \in Seq(OperationType)
    BY <1>3, MessageFrame DEF TypeInv, OpTyped
  <2>2. /\ Grows /\ DOMAIN op' = 1..Len(op) + 1 /\ DOMAIN op = 1..Len(op) /\ Len(op) \in Nat
        /\ op'[Len(op) + 1] = New(a, kind, FALSE)
    BY <2>1, RowAdded
  <2>3. NoDeletion
    BY <2>1, <2>2 DEF NoDeletion, New, catalogVars, Listed
  <2> QED
    BY <1>2, <2>1, <2>3, OnceStill
<1>4. ASSUME NEW i \in DOMAIN op, RowStep(i)
      PROVE  OnceBody'
  <2>1. Grows /\ DOMAIN op' = DOMAIN op /\ UNCHANGED <<catalogVars, state, co>>
    BY <1>4, RowStepWrites, RowChange DEF TypeInv, OpTyped
  <2> QED
    BY <1>2, <2>1, RowsOnly, OnceStill
<1>5. ASSUME NEW a \in Accounts, Expire(a)
      PROVE  OnceBody'
  BY <1>2, <1>5, SameRowsOnly, OnceStill DEF Expire, tables
<1>6. ASSUME NEW h \in Handlers, Opens(h)
      PROVE  OnceBody'
  BY <1>2, <1>6, OpensOnce
<1>7. ASSUME NEW h \in Handlers, Prepares(h)
      PROVE  OnceBody'
  BY <1>2, <1>7, BeginTargetOnce, BeginOnce, SaveStateOnce DEF Prepares
<1>8. ASSUME NEW h \in Handlers, CancelOperations(h) \/ CreateDelete(h) \/ AskDelete(h)
      PROVE  OnceBody'
  BY <1>2, <1>8, BeginOnce, CreateDeleteOnce, AskDeleteOnce
<1>9. ASSUME NEW h \in Handlers, Process(h)
      PROVE  OnceBody'
  BY <1>2, <1>9, ProcessOnce
<1>10. CASE Worker
  BY <1>2, <1>10, WorkerFrame, SameRowsOnly, OnceStill
<1>11. ~Crash
  BY <1>2 DEF Single, Crash, May
<1>12. CASE Dashboard
  <2>1. UNCHANGED <<op, state, co>> /\ \E t \in Targets : UpdateConfig(t)
    BY <1>2, <1>12 DEF Dashboard, Single, May, tables, redis
  <2>2. Listed' = Listed
    BY <2>1 DEF UpdateConfig, Listed, TypeInv, CatalogTyped, Entries
  <2>3. NoDeletion
    BY <2>1, <2>2, SameRows DEF NoDeletion, TypeInv, OpTyped
  <2> QED
    BY <1>2, <2>1, <2>3, OnceStill
<1>13. CASE UNCHANGED vars
  BY <1>2, <1>13, SameRowsOnly, OnceStill DEF vars, tables, redis
<1> QED
  BY <1>3, <1>4, <1>5, <1>6, <1>7, <1>8, <1>9, <1>10, <1>11, <1>12, <1>13, NextCases

\* Every account of a target is asked to be deleted once, by however many
\* decommissions of other targets, attempts of the worker and failures of
\* MidPoint: the next begin finds the key, or no target.
THEOREM DeletesAskedOnce == Spec => []OneDelete
<1>1. Init => TypeInv /\ OnceInv
  <2>1. ASSUME Init
        PROVE  OnceInv
    <3>1. \A i \in DOMAIN op : op[i].deco = FALSE
      BY <2>1 DEF Init
    <3>2. \A h \in Handlers : co[h] = Idle
      BY <2>1 DEF Init
    <3> QED
      BY <3>1, <3>2 DEF OnceInv, OnceBody, OneBegin, Kept, Distinct, OnceAt, Idle, Deco, RowsOf,
                        BeginSteps, ProcessSteps, Asks
  <2> QED
    BY <2>1, InitTyped
<1>2. TypeInv /\ OnceInv /\ [Next]_vars => TypeInv' /\ OnceInv'
  BY NextTyped, OncePreserved
<1>3. OnceInv => OneDelete
  BY DEF OnceInv, OnceBody, Single, Distinct, OneDelete
<1> QED
  BY <1>1, <1>2, <1>3, PTL DEF Spec

-----------------------------------------------------------------------------
\* A removed target is empty.  Rows first: the operations of an account are
\* served in their order, so the last one that ran says what the target holds.

Busy(i) == op[i].step \in {"answered", "calling", "closing", "marking"}
Ran(i)  == op[i].status = "SUCCESS" \/ op[i].step = "closing"

Shape(i) ==
    /\ op[i].deco => op[i].kind = "delete"
    /\ op[i].step = "asking" => op[i].status = "PENDING"
    /\ op[i].step = "answered" => op[i].status = "APPROVAL_PENDING"
    /\ op[i].step \in {"calling", "closing"} => op[i].status = "PROCESSING"
    /\ op[i].step = "marking" => op[i].status = "SUCCESS"
    /\ op[i].step = "rest" => op[i].status \in Over \cup {"APPROVAL_PENDING"}

PastBefore(i) == \A j \in DOMAIN op : j < i /\ op[j].a = op[i].a => Past(j)

RowInv == \A i \in DOMAIN op : Shape(i) /\ (Ran(i) \/ Busy(i) => PastBefore(i))

\* What a step may do with a row there is ...
Moved(i) ==
    /\ Past(i) => Past(i)'
    /\ Ran(i) => Ran(i)'
    /\ Ran(i)' => Ran(i) \/ op[i].step = "calling"
    /\ Busy(i)' => Busy(i) \/ CanServe(i)
    /\ op'[i].step = "asking" => op[i].step = "asking"
    /\ Shape(i)'

\* ... and what a row it adds is like.
Added(i) ==
    /\ op'[i].step = "asking" /\ op'[i].status = "PENDING"
    /\ op'[i].deco => op'[i].kind = "delete"
    /\ op'[i].kind = "write" => LET t == Home[op'[i].a] IN t \in OnFile /\ ~Underway(t)

Moves == /\ Grows
         /\ \A i \in DOMAIN op : Moved(i)
         /\ \A i \in DOMAIN op' : i \notin DOMAIN op => Added(i)

LEMMA SameMoved ==
    ASSUME RowInv, NEW i \in DOMAIN op, op'[i] = op[i]
    PROVE  Moved(i)
  BY DEF RowInv, Moved, Past, Ran, Busy, Shape

LEMMA SameRowsMove ==
    ASSUME TypeInv, RowInv, UNCHANGED op
    PROVE  Moves
  BY SameRows, SameMoved DEF Moves, TypeInv, OpTyped

\* A row that is written, and the others that are not.
LEMMA OneMoves ==
    ASSUME TypeInv, RowInv, NEW i \in DOMAIN op, NEW s \in Statuses, NEW p \in OpSteps,
           Row(i, s, p), Moved(i)
    PROVE  Moves
  BY RowChange, SameMoved DEF Moves, TypeInv, OpTyped

LEMMA RowStepMoves ==
    ASSUME TypeInv, RowInv, ~Overlooks, NEW i \in DOMAIN op, RowStep(i)
    PROVE  Moves
<1> USE DEF Statuses, OpSteps, Over
<1>1. op \in Seq(OperationType) /\ Shape(i) /\ "race" \notin faults
  BY DEF TypeInv, OpTyped, RowInv, Overlooks
<1>2. op[i].status \in Statuses /\ op'[i].deco = op[i].deco /\ op'[i].kind = op[i].kind
  <2>1. PICK s \in Statuses, p \in OpSteps : Row(i, s, p)
    BY RowStepWrites
  <2> QED
    BY <1>1, <2>1, RowOf, RowChange DEF Grows
<1>3. CASE AskApproval(i)
  <2>1. Row(i, "APPROVAL_PENDING", "rest") /\ op[i].step = "asking"
    BY <1>3 DEF AskApproval
  <2>2. Moved(i)
    BY <1>1, <1>2, <2>1, RowChange DEF Moved, Past, Ran, Busy, Shape
  <2> QED
    BY <2>1, <2>2, OneMoves
<1>4. CASE Answer(i)
  <2>1. Row(i, "APPROVAL_PENDING", "answered") /\ op[i].step = "rest" /\ CanServe(i)
        /\ op[i].status = "APPROVAL_PENDING"
    BY <1>4 DEF Answer
  <2>2. Moved(i)
    BY <1>1, <1>2, <2>1, RowChange DEF Moved, Past, Ran, Busy, Shape
  <2> QED
    BY <2>1, <2>2, OneMoves
<1>5. CASE Decide(i)
  <2>1. PICK s \in {"PROCESSING", "FAILED"}, p \in {"calling", "rest"} :
            /\ Row(i, s, p) /\ (s = "PROCESSING" <=> p = "calling")
            /\ op[i].step = "answered" /\ CanServe(i)
    BY <1>5 DEF Decide
  <2>2. Moved(i)
    BY <1>1, <1>2, <2>1, RowChange DEF Moved, Past, Ran, Busy, Shape
  <2> QED
    BY <2>1, <2>2, OneMoves
<1>6. CASE Call(i)
  <2>1. PICK s \in {"PROCESSING", "FAILED"}, p \in {"closing", "rest"} :
            /\ Row(i, s, p) /\ (s = "PROCESSING" <=> p = "closing")
            /\ op[i].step = "calling" /\ CanServe(i)
    BY <1>1, <1>6 DEF Call, Shape
  <2>2. Moved(i)
    BY <1>1, <1>2, <2>1, RowChange DEF Moved, Past, Ran, Busy, Shape
  <2> QED
    BY <2>1, <2>2, OneMoves
<1>7. CASE Succeed(i)
  <2>1. Row(i, "SUCCESS", "marking") /\ op[i].step = "closing"
    BY <1>7 DEF Succeed
  <2>2. Moved(i)
    BY <1>1, <1>2, <2>1, RowChange DEF Moved, Past, Ran, Busy, Shape
  <2> QED
    BY <2>1, <2>2, OneMoves
<1>8. CASE MarkUser(i)
  <2>1. Row(i, "SUCCESS", "rest") /\ op[i].step = "marking" /\ op[i].status = "SUCCESS"
    BY <1>1, <1>8 DEF MarkUser, Shape
  <2>2. Moved(i)
    BY <1>1, <1>2, <2>1, RowChange DEF Moved, Past, Ran, Busy, Shape
  <2> QED
    BY <2>1, <2>2, OneMoves
<1>9. CASE Retry(i)
  <2>1. PICK s \in {"RETRYING", "DLQ"} :
            Row(i, s, "rest") /\ op[i].step = "rest" /\ op[i].status \in {"FAILED", "RETRYING"}
    BY <1>9 DEF Retry
  <2>2. Moved(i)
    BY <1>1, <1>2, <2>1, RowChange DEF Moved, Past, Ran, Busy, Shape
  <2> QED
    BY <2>1, <2>2, OneMoves
<1> QED
  BY <1>3, <1>4, <1>5, <1>6, <1>7, <1>8, <1>9 DEF RowStep

LEMMA NewRowMoves ==
    ASSUME TypeInv, RowInv, NEW a \in Accounts, NEW k \in {"write", "delete"}, NEW d \in BOOLEAN,
           op' = Append(op, New(a, k, d)), d => k = "delete",
           k = "write" => Home[a] \in OnFile /\ ~Underway(Home[a])
    PROVE  Moves
<1>1. /\ Grows /\ \A j \in DOMAIN op : op'[j] = op[j]
      /\ DOMAIN op' = 1..Len(op) + 1 /\ DOMAIN op = 1..Len(op) /\ Len(op) \in Nat
      /\ op'[Len(op) + 1] = New(a, k, d)
  BY RowAdded DEF TypeInv, OpTyped
<1>2. Added(Len(op) + 1)
  BY <1>1 DEF Added, New
<1>3. \A i \in DOMAIN op' : i \notin DOMAIN op => i = Len(op) + 1
  BY <1>1
<1> QED
  BY <1>1, <1>2, <1>3, SameMoved DEF Moves

LEMMA CancelMoves ==
    ASSUME TypeInv, CancelInv, RowInv, ~Overlooks, NEW h \in Handlers, CancelOperations(h)
    PROVE  Moves
<1>1. CASE UNCHANGED op
  BY <1>1, SameRowsMove
<1>2. ASSUME NEW i \in co[h].left, op' = [op EXCEPT ![i].status = "FAILED"]
      PROVE  Moves
  <2>1. i \in DOMAIN op /\ op[i].step = "rest" /\ op[i].status # "SUCCESS"
    BY <1>2, LeftRows DEF CancelInv, CancelOperations, At, Overlooks, Waits
  <2>2. op[i] \in OperationType /\ op \in Seq(OperationType) /\ "rest" \in OpSteps
    BY <2>1, RowOf DEF TypeInv, OpTyped, OpSteps
  <2>3. [op[i] EXCEPT !.status = "FAILED"] = [op[i] EXCEPT !.status = "FAILED", !.step = "rest"]
    BY <2>1, <2>2 DEF OperationType
  <2>4. Row(i, "FAILED", "rest")
    BY <1>2, <2>1, <2>2, <2>3 DEF Row
  <2>5. Moved(i)
    BY <2>1, <2>2, <2>4, RowChange DEF Moved, Past, Ran, Busy, Shape, Over, RowInv, Statuses, Grows
  <2> QED
    BY <2>1, <2>2, <2>4, <2>5, OneMoves DEF Statuses
<1> QED
  BY <1>1, <1>2 DEF CancelOperations

LEMMA AskDeleteMoves ==
    ASSUME TypeInv, RowInv, NEW h \in Handlers, AskDelete(h)
    PROVE  Moves
<1>1. PICK i \in DOMAIN op, s \in {"APPROVAL_PENDING", "FAILED"} :
          Row(i, s, "rest") /\ op[i].step = "asking"
  BY AskDeleteFrame
<1>2. op \in Seq(OperationType) /\ "rest" \in OpSteps /\ s \in Statuses /\ Shape(i)
  BY DEF TypeInv, OpTyped, OpSteps, Statuses, RowInv
<1>3. Moved(i)
  BY <1>1, <1>2, RowChange DEF Moved, Past, Ran, Busy, Shape, Over, Grows
<1> QED
  BY <1>1, <1>2, <1>3, OneMoves

LEMMA RowsMove ==
    ASSUME TypeInv, CancelInv, RowInv, ~Overlooks, [Next]_vars
    PROVE  Moves
<1>1. ASSUME NEW a \in Accounts, NEW kind \in {"write", "delete"}, Message(a, kind)
      PROVE  Moves
  BY <1>1, MessageFrame, NewRowMoves DEF Overlooks
<1>2. ASSUME NEW h \in Handlers, CreateDelete(h)
      PROVE  Moves
  BY <1>2, CreateDeleteFrame, NewRowMoves
<1>3. ASSUME NEW h \in Handlers, Opens(h) \/ Prepares(h) \/ Process(h)
      PROVE  Moves
  BY <1>3, OpensFrame, PreparesFrame, ProcessFrame, SameRowsMove
<1>4. ~Crash
  BY DEF Crash, May, Overlooks
<1>5. ASSUME Worker \/ Dashboard \/ UNCHANGED vars
      PROVE  Moves
  BY <1>5, WorkerFrame, SameRowsMove DEF Dashboard, vars, tables
<1>6. ASSUME NEW a \in Accounts, Expire(a)
      PROVE  Moves
  BY <1>6, SameRowsMove DEF Expire, tables
<1>7. ASSUME NEW i \in DOMAIN op, RowStep(i)
      PROVE  Moves
  BY <1>7, RowStepMoves
<1>8. ASSUME NEW h \in Handlers, CancelOperations(h) \/ AskDelete(h)
      PROVE  Moves
  BY <1>8, CancelMoves, AskDeleteMoves
<1> QED
  BY <1>1, <1>2, <1>3, <1>4, <1>5, <1>6, <1>7, <1>8, NextCases

\* Whoever may serve a row has nothing of the account before it to wait for.
LEMMA InOrder ==
    ASSUME TypeInv, ~Overlooks, NEW i \in DOMAIN op, CanServe(i)
    PROVE  PastBefore(i) /\ ~Beginning(Home[op[i].a])
<1>1. /\ ~Beginning(Home[op[i].a])
      /\ \A j \in 1..i - 1 : op[j].a = op[i].a => op[j].status \notin Open /\ op[j].step = "rest"
  BY DEF CanServe, May, Overlooks
<1>2. ASSUME NEW j \in DOMAIN op, j < i, op[j].a = op[i].a
      PROVE  Past(j)
  <2>1. j \in Nat /\ j \in 1..Len(op) /\ i \in Nat /\ op[j].status \in Statuses
    BY RowOf DEF TypeInv, OpTyped
  <2>2. j \in 1..i - 1
    BY <1>2, <2>1
  <2> QED
    BY <1>1, <1>2, <2>1, <2>2 DEF Past, Over, Open, Statuses
<1> QED
  BY <1>1, <1>2 DEF PastBefore

LEMMA RowsPreserved ==
    ASSUME TypeInv, CancelInv, RowInv, ~Overlooks, [Next]_vars
    PROVE  RowInv'
<1>1. Moves /\ TypeInv'
  BY RowsMove, NextTyped
<1>2. DOMAIN op = 1..Len(op) /\ DOMAIN op' = 1..Len(op') /\ Len(op) \in Nat /\ Len(op') \in Nat
  BY <1>1 DEF TypeInv, OpTyped
<1>3. \A i \in DOMAIN op : i \in DOMAIN op' /\ op'[i].a = op[i].a
  BY <1>1 DEF Moves, Grows
<1>4. ASSUME NEW i \in DOMAIN op', NEW j \in DOMAIN op', j < i, i \in DOMAIN op
      PROVE  j \in DOMAIN op
  BY <1>2, <1>4
<1>5. ASSUME NEW i \in DOMAIN op', i \in DOMAIN op
      PROVE  Shape(i)' /\ (Ran(i)' \/ Busy(i)' => PastBefore(i)')
  <2>1. Moved(i)
    BY <1>1, <1>5 DEF Moves
  <2>2. ASSUME Ran(i)' \/ Busy(i)'
        PROVE  PastBefore(i)
    <3>1. CASE CanServe(i)
      BY <1>5, <3>1, InOrder
    <3>2. CASE Ran(i) \/ Busy(i)
      BY <1>5, <3>2 DEF RowInv
    <3> QED
      BY <2>1, <2>2, <3>1, <3>2 DEF Moved, Busy
  <2>3. ASSUME PastBefore(i)
        PROVE  PastBefore(i)'
    <3>1. \A j \in DOMAIN op : Past(j) => Past(j)'
      BY <1>1 DEF Moves, Moved
    <3> QED
      BY <1>3, <1>4, <1>5, <2>3, <3>1 DEF PastBefore, Past
  <2> QED
    BY <2>1, <2>2, <2>3 DEF Moved
<1>6. ASSUME NEW i \in DOMAIN op', i \notin DOMAIN op
      PROVE  Shape(i)' /\ ~Ran(i)' /\ ~Busy(i)'
  BY <1>1, <1>6 DEF Moves, Added, Shape, Ran, Busy
<1> QED
  BY <1>5, <1>6 DEF RowInv

-----------------------------------------------------------------------------
\* Accounts: one is there because the last operation that ran wrote it, and its
\* snapshot is there or about to be.

Last(a, j) == /\ op[j].a = a /\ op[j].kind = "write" /\ Ran(j)
              /\ \A k \in DOMAIN op : k > j /\ op[k].a = a => ~Ran(k)
Noted(a)   == \/ a \in snapshot
              \/ \E i \in DOMAIN op : op[i].a = a /\ op[i].step \in {"closing", "marking"}

AccountInv == \A a \in account : Noted(a) /\ \E j \in DOMAIN op : Last(a, j)

Held(t) == AccountsOf(t) \cap account

\* The row that creates an account, as it is before the call.
Creates(i, a) == /\ op[i].a = a /\ op[i].kind = "write" /\ op[i].step = "calling"
                 /\ CanServe(i) /\ op'[i].step = "closing"

LEMMA CallAccount ==
    ASSUME TypeInv, RowInv, ~Overlooks, NEW i \in DOMAIN op, Call(i)
    PROVE  /\ \/ /\ account' = account /\ op'[i].step = "rest" /\ op'[i].status = "FAILED"
              \/ /\ op[i].kind = "delete" /\ account' = account \ {op[i].a}
                 /\ op'[i].step = "closing"
              \/ account' = account \cup {op[i].a} /\ Creates(i, op[i].a)
           /\ UNCHANGED snapshot /\ op[i].step = "calling"
           /\ \A j \in DOMAIN op : j # i => op'[j] = op[j]
<1>1. /\ op \in Seq(OperationType) /\ op[i].status \in Statuses /\ op[i].kind \in {"write", "delete"}
      /\ "partial" \notin faults /\ "FAILED" \in Statuses /\ "rest" \in OpSteps /\ "closing" \in OpSteps
  BY RowOf DEF TypeInv, OpTyped, Overlooks, Statuses, OpSteps
<1>2. op[i].step = "calling" /\ CanServe(i) /\ UNCHANGED snapshot
  BY DEF Call, redis
<1>3. CASE UNCHANGED account /\ Row(i, "FAILED", "rest")
  BY <1>1, <1>2, <1>3, RowChange
<1>4. CASE /\ Row(i, op[i].status, "closing")
           /\ account' = IF op[i].kind = "delete" THEN account \ {op[i].a}
                         ELSE account \cup {op[i].a}
  <2>1. op'[i].step = "closing" /\ \A j \in DOMAIN op : j # i => op'[j] = op[j]
    BY <1>1, <1>4, RowChange
  <2> QED
    BY <1>1, <1>2, <1>4, <2>1 DEF Creates
<1> QED
  BY <1>1, <1>3, <1>4 DEF Call, May

\* Accounts only change with a call.
LEMMA AccountsMove ==
    ASSUME TypeInv, RowInv, CancelInv, ~Overlooks, [Next]_vars
    PROVE  \A a \in account' :
             \/ \E i \in DOMAIN op : Creates(i, a)
             \/ /\ a \in account
                /\ \A i \in DOMAIN op : op[i].a = a /\ Ran(i)' => Ran(i)
<1>1. ASSUME UNCHANGED account, \A i \in DOMAIN op : op[i].step = "calling" => op'[i] = op[i]
      PROVE  \A a \in account' :
                /\ a \in account
                /\ \A i \in DOMAIN op : op[i].a = a /\ Ran(i)' => Ran(i)
  <2>1. \A i \in DOMAIN op : Ran(i)' => Ran(i)
    <3>1. Moves
      BY RowsMove
    <3> QED
      BY <1>1, <3>1 DEF Moves, Moved, Ran
  <2> QED
    BY <1>1, <2>1
<1>2. ASSUME NEW i \in DOMAIN op, Call(i)
      PROVE  \A a \in account' :
                \/ Creates(i, a)
                \/ a \in account /\ \A j \in DOMAIN op : op[j].a = a /\ Ran(j)' => Ran(j)
  <2>1. \A j \in DOMAIN op : j # i => (Ran(j)' => Ran(j))
    BY <1>2, CallAccount DEF Ran
  <2>2. CASE account' = account /\ op'[i].step = "rest" /\ op'[i].status = "FAILED"
    BY <2>1, <2>2 DEF Ran
  <2>3. CASE op[i].kind = "delete" /\ account' = account \ {op[i].a}
    BY <2>1, <2>3
  <2>4. CASE account' = account \cup {op[i].a} /\ Creates(i, op[i].a)
    BY <2>1, <2>4
  <2> QED
    BY <1>2, <2>2, <2>3, <2>4, CallAccount
<1>3. ASSUME NEW i \in DOMAIN op, RowStep(i), ~Call(i)
      PROVE  UNCHANGED account /\ \A j \in DOMAIN op : op[j].step = "calling" => op'[j] = op[j]
  <2>1. op[i].step # "calling" /\ UNCHANGED account
    BY <1>3 DEF RowStep, AskApproval, Answer, Decide, Succeed, MarkUser, Retry, outside
  <2>2. \A j \in DOMAIN op : j # i => op'[j] = op[j]
    BY <1>3, RowStepWrites, RowChange DEF TypeInv, OpTyped
  <2> QED
    BY <2>1, <2>2
<1>4. ASSUME NEW h \in Handlers, CancelOperations(h)
      PROVE  UNCHANGED account /\ \A j \in DOMAIN op : op[j].step = "calling" => op'[j] = op[j]
  <2>1. CASE UNCHANGED op
    BY <1>4, <2>1 DEF CancelOperations, outside
  <2>2. ASSUME NEW i \in co[h].left, op' = [op EXCEPT ![i].status = "FAILED"]
        PROVE  UNCHANGED account /\ \A j \in DOMAIN op : op[j].step = "calling" => op'[j] = op[j]
    <3>1. i \in DOMAIN op /\ op[i].step = "rest"
      BY <1>4, <2>2, LeftRows DEF CancelInv, CancelOperations, At, Overlooks, Waits
    <3> QED
      BY <1>4, <2>2, <3>1 DEF CancelOperations, outside
  <2> QED
    BY <1>4, <2>1, <2>2 DEF CancelOperations
<1>5. ASSUME NEW h \in Handlers, CreateDelete(h)
      PROVE  UNCHANGED account /\ \A j \in DOMAIN op : op'[j] = op[j]
  <2>1. PICK a \in Accounts : op' = Append(op, New(a, "delete", TRUE)) /\ UNCHANGED account
    BY <1>5, CreateDeleteFrame
  <2> QED
    BY <2>1, RowAdded DEF TypeInv, OpTyped
<1>6. ASSUME NEW h \in Handlers, AskDelete(h)
      PROVE  UNCHANGED account /\ \A j \in DOMAIN op : op[j].step = "calling" => op'[j] = op[j]
  <2>1. PICK i \in DOMAIN op, s \in Statuses : Row(i, s, "rest") /\ op[i].step = "asking"
    BY <1>6, AskDeleteFrame DEF Statuses
  <2> QED
    BY <1>6, <2>1, RowChange, AskDeleteFrame DEF TypeInv, OpTyped, OpSteps
<1>7. ASSUME NEW h \in Handlers, Opens(h) \/ Prepares(h) \/ Process(h)
      PROVE  UNCHANGED <<account, op>>
  BY <1>7, OpensFrame, PreparesFrame, ProcessFrame
<1>8. ~Crash
  BY DEF Crash, May, Overlooks
<1>9. ASSUME Worker \/ Dashboard \/ UNCHANGED vars \/ \E a \in Accounts : Expire(a)
      PROVE  UNCHANGED <<account, op>>
  BY <1>9, WorkerFrame DEF Dashboard, vars, tables, outside, Expire
<1>10. ASSUME NEW a \in Accounts, NEW kind \in {"write", "delete"}, Message(a, kind)
       PROVE  UNCHANGED account /\ \A j \in DOMAIN op : op'[j] = op[j]
  BY <1>10, MessageFrame
<1> QED
  BY <1>1, <1>2, <1>3, <1>4, <1>5, <1>6, <1>7, <1>8, <1>9, <1>10, NextCases

LEMMA LastStays ==
    ASSUME TypeInv, CancelInv, RowInv, AccountInv, ~Overlooks, [Next]_vars
    PROVE  \A a \in account' : \E j \in DOMAIN op' : Last(a, j)'
<1>1. Moves /\ TypeInv'
  BY RowsMove, NextTyped
<1>2. \A i \in DOMAIN op : i \in DOMAIN op' /\ op'[i].a = op[i].a /\ op'[i].kind = op[i].kind
  BY <1>1 DEF Moves, Grows
<1>3. \A k \in DOMAIN op' : Ran(k)' => k \in DOMAIN op
  BY <1>1 DEF Moves, Added, Ran
<1>4. ASSUME NEW a, NEW i \in DOMAIN op, Creates(i, a)
      PROVE  Last(a, i)'
  <2>1. op'[i].a = a /\ op'[i].kind = "write" /\ Ran(i)'
    BY <1>2, <1>4 DEF Creates, Ran
  <2>2. ASSUME NEW k \in DOMAIN op', k > i, op'[k].a = a, Ran(k)'
        PROVE  FALSE
    <3>1. k \in DOMAIN op /\ op[k].a = op[i].a /\ i < k
      BY <1>2, <1>3, <1>4, <2>2 DEF Creates
    <3>2. Ran(k) \/ Busy(k)
      BY <1>1, <2>2, <3>1 DEF Moves, Moved, Busy
    <3>3. Past(i)
      BY <3>1, <3>2 DEF RowInv, PastBefore
    <3> QED
      BY <1>4, <3>3 DEF Creates, Past
  <2> QED
    BY <2>1, <2>2 DEF Last
<1>5. ASSUME NEW a \in account, \A i \in DOMAIN op : op[i].a = a /\ Ran(i)' => Ran(i)
      PROVE  \E j \in DOMAIN op' : Last(a, j)'
  <2>1. PICK j \in DOMAIN op : Last(a, j)
    BY DEF AccountInv
  <2>2. op'[j].a = a /\ op'[j].kind = "write" /\ Ran(j)'
    BY <1>1, <1>2, <2>1 DEF Last, Moves, Moved
  <2>3. \A k \in DOMAIN op' : k > j /\ op'[k].a = a => ~Ran(k)'
    BY <1>2, <1>3, <1>5, <2>1 DEF Last
  <2>4. Last(a, j)'
    BY <2>2, <2>3 DEF Last
  <2> QED
    BY <1>2, <2>4
<1> QED
  BY <1>2, <1>4, <1>5, AccountsMove

\* The keys of a target are only removed when it holds no account.
KeysEmpty == \A h \in Handlers : co[h].pc = "keys" => Held(co[h].t) = {}

\* A row about to store or remove the snapshot of its account is the last that
\* ran: a removal is of an account that is not there.
LEMMA RemovesNone ==
    ASSUME TypeInv, RowInv, AccountInv, NEW i \in DOMAIN op,
           op[i].step = "marking", op[i].kind = "delete"
    PROVE  op[i].a \notin account
<1> SUFFICES ASSUME op[i].a \in account
             PROVE  FALSE
  OBVIOUS
<1>1. PICK j \in DOMAIN op : Last(op[i].a, j)
  BY DEF AccountInv
<1>2. Ran(i) /\ i # j
  BY <1>1 DEF RowInv, Shape, Ran, Last
<1>3. ~(i > j)
  BY <1>1, <1>2 DEF Last
<1>4. i \in Nat /\ j \in Nat
  BY DEF TypeInv, OpTyped
<1>5. i < j
  BY <1>2, <1>3, <1>4
<1>6. Past(i)
  BY <1>1, <1>5 DEF RowInv, PastBefore, Last
<1> QED
  BY <1>6 DEF Past

LEMMA NotedStays ==
    ASSUME TypeInv, CancelInv, RowInv, AccountInv, KeysEmpty, ~Overlooks, [Next]_vars
    PROVE  \A a \in account' : Noted(a)'
<1>1. Moves
  BY RowsMove
<1>2. ASSUME NEW a \in account', NEW i \in DOMAIN op, Creates(i, a)
      PROVE  Noted(a)'
  BY <1>1, <1>2 DEF Moves, Grows, Creates, Noted
\* A step that keeps the snapshots, and the rows about to write one.
<1>3. ASSUME NEW a \in account, a \in snapshot => a \in snapshot',
             \A i \in DOMAIN op : op[i].step \in {"closing", "marking"} =>
                 op'[i].step \in {"closing", "marking"}
      PROVE  Noted(a)'
  <2>1. Noted(a)
    BY DEF AccountInv
  <2> QED
    BY <1>1, <1>3, <2>1 DEF Noted, Moves, Grows
<1>4. ASSUME NEW i \in DOMAIN op, RowStep(i), ~MarkUser(i)
      PROVE  /\ UNCHANGED snapshot
             /\ \A j \in DOMAIN op : op[j].step \in {"closing", "marking"} =>
                    op'[j].step \in {"closing", "marking"}
  <2>1. \A j \in DOMAIN op : j # i => op'[j] = op[j]
    BY <1>4, RowStepWrites, RowChange DEF TypeInv, OpTyped
  <2>2. UNCHANGED snapshot
    BY <1>4 DEF RowStep, AskApproval, Answer, Decide, Call, Succeed, Retry, redis
  <2>3. CASE Succeed(i)
    BY <2>1, <2>2, <2>3, RowChange DEF Succeed, TypeInv, OpTyped, Statuses, OpSteps
  <2>4. CASE ~Succeed(i)
    BY <1>4, <2>1, <2>2, <2>4 DEF RowStep, AskApproval, Answer, Decide, Call, Retry
  <2> QED
    BY <2>3, <2>4
<1>5. ASSUME NEW i \in DOMAIN op, MarkUser(i), NEW a \in account'
      PROVE  Noted(a)'
  <2>1. /\ op[i].step = "marking" /\ account' = account
        /\ snapshot' = IF op[i].kind = "delete" THEN snapshot \ {op[i].a} ELSE snapshot \cup {op[i].a}
    BY <1>5 DEF MarkUser, outside
  <2>2. \A j \in DOMAIN op : j # i => op'[j] = op[j]
    BY <1>5, RowStepWrites, RowChange DEF RowStep, TypeInv, OpTyped
  <2>3. CASE op[i].a = a
    <3>1. op[i].kind # "delete"
      BY <1>5, <2>1, <2>3, RemovesNone
    <3> QED
      BY <2>1, <2>3, <3>1 DEF Noted
  <2>4. CASE op[i].a # a
    <3>1. Noted(a) /\ (a \in snapshot => a \in snapshot')
      BY <1>5, <2>1, <2>4 DEF AccountInv
    <3> QED
      BY <1>1, <2>2, <2>4, <3>1 DEF Noted, Moves, Grows
  <2> QED
    BY <2>3, <2>4
<1>6. ASSUME NEW h \in Handlers, Process(h), NEW a \in account'
      PROVE  Noted(a)'
  <2>1. UNCHANGED <<op, account>>
    BY <1>6, ProcessFrame
  <2>2. CASE UNCHANGED snapshot
    BY <1>3, <1>6, <2>1, <2>2
  <2>3. CASE DeleteUserStates(h)
    <3>1. a \notin AccountsOf(co[h].t) /\ snapshot' = snapshot \ AccountsOf(co[h].t)
      BY <1>6, <2>1, <2>3 DEF DeleteUserStates, At, KeysEmpty, Held
    <3> QED
      BY <1>3, <1>6, <2>1, <3>1
  <2> QED
    BY <1>6, <2>2, <2>3 DEF Process, LoadState, CheckStatuses, Hold, MarkCleaning, CleanMidPoint,
       DeleteRows, RemoveTarget, DropState, redis
<1>7. ASSUME NEW h \in Handlers, CancelOperations(h)
      PROVE  /\ UNCHANGED snapshot
             /\ \A j \in DOMAIN op : op[j].step \in {"closing", "marking"} =>
                    op'[j].step \in {"closing", "marking"}
  <2>1. CASE UNCHANGED op
    BY <1>7, <2>1 DEF CancelOperations, redis
  <2>2. ASSUME NEW i \in co[h].left, op' = [op EXCEPT ![i].status = "FAILED"]
        PROVE  \A j \in DOMAIN op : op[j].step \in {"closing", "marking"} =>
                    op'[j].step \in {"closing", "marking"}
    <3>1. i \in DOMAIN op /\ op[i].step = "rest"
      BY <1>7, <2>2, LeftRows DEF CancelInv, CancelOperations, At, Overlooks, Waits
    <3> QED
      BY <2>2, <3>1
  <2> QED
    BY <1>7, <2>1, <2>2 DEF CancelOperations, redis
<1>8. ASSUME NEW h \in Handlers, CreateDelete(h)
      PROVE  UNCHANGED snapshot /\ \A j \in DOMAIN op : op'[j] = op[j]
  <2>1. PICK a \in Accounts : op' = Append(op, New(a, "delete", TRUE)) /\ UNCHANGED snapshot
    BY <1>8, CreateDeleteFrame
  <2> QED
    BY <2>1, RowAdded DEF TypeInv, OpTyped
<1>9. ASSUME NEW h \in Handlers, AskDelete(h)
      PROVE  /\ UNCHANGED snapshot
             /\ \A j \in DOMAIN op : op[j].step \in {"closing", "marking"} =>
                    op'[j].step \in {"closing", "marking"}
  <2>1. PICK i \in DOMAIN op, s \in Statuses : Row(i, s, "rest") /\ op[i].step = "asking"
    BY <1>9, AskDeleteFrame DEF Statuses
  <2> QED
    BY <1>9, <2>1, RowChange, AskDeleteFrame DEF TypeInv, OpTyped, OpSteps
<1>10. ASSUME NEW h \in Handlers, Opens(h) \/ Prepares(h)
       PROVE  UNCHANGED <<snapshot, op>>
  BY <1>10, OpensFrame, PreparesFrame
<1>11. ~Crash /\ \A a \in Accounts : ~Expire(a)
  BY DEF Crash, Expire, May, Overlooks
<1>12. ASSUME Worker \/ Dashboard \/ UNCHANGED vars
       PROVE  UNCHANGED <<snapshot, op>>
  BY <1>12, WorkerFrame DEF Dashboard, vars, tables, redis
<1>13. ASSUME NEW a \in Accounts, NEW kind \in {"write", "delete"}, Message(a, kind)
       PROVE  UNCHANGED snapshot /\ \A j \in DOMAIN op : op'[j] = op[j]
  BY <1>13, MessageFrame
<1>14. ASSUME NEW a \in account', ~\E i \in DOMAIN op : Creates(i, a)
       PROVE  a \in account
  BY <1>14, AccountsMove
<1> QED
  BY <1>2, <1>3, <1>4, <1>5, <1>6, <1>7, <1>8, <1>9, <1>10, <1>11, <1>12, <1>13, <1>14, NextCases

LEMMA AccountsPreserved ==
    ASSUME TypeInv, CancelInv, RowInv, AccountInv, KeysEmpty, ~Overlooks, [Next]_vars
    PROVE  AccountInv'
  BY LastStays, NotedStays DEF AccountInv

-----------------------------------------------------------------------------
\* Targets: once nothing is left to write an account of one, nobody will.

Dead(t)  == \A i \in RowsOf(t) : op[i].kind = "write" => Past(i)
Final(i) == /\ op[i].kind = "delete"
            /\ \A k \in DOMAIN op : k > i /\ op[k].a = op[i].a => op[k].kind = "delete"
\* The deletions in M are of every account the target still holds.
Covers(t, M)  == \A a \in Held(t) : \E i \in M : op[i].a = a
Settled(t, M) == Dead(t) /\ M \subseteq RowsOf(t) /\ (\A i \in M : Final(i)) /\ Covers(t, M)

\* No message comes for the target.
Closed(t) == Underway(t) \/ t \notin OnFile

\* What a step does, as far as the targets notice.
Evolves ==
    /\ Moves /\ TypeInv'
    /\ \A a \in account' : a \in account \/ \E i \in DOMAIN op : Creates(i, a)

LEMMA TargetsEvolve ==
    ASSUME TypeInv, CancelInv, RowInv, ~Overlooks, [Next]_vars
    PROVE  Evolves
  BY RowsMove, AccountsMove, NextTyped DEF Evolves

LEMMA RowsOfStay ==
    ASSUME Grows, NEW t
    PROVE  RowsOf(t) \subseteq RowsOf(t)' /\ AccountsOf(t)' = AccountsOf(t)
           /\ \A i \in RowsOf(t)' : i \in DOMAIN op => i \in RowsOf(t)
  BY DEF RowsOf, AccountsOf, Grows

\* While begin is at work on a target, or when it is dead, it gets no account.
LEMMA HeldShrinks ==
    ASSUME TypeInv, ~Overlooks, Evolves, NEW t \in Targets, Dead(t) \/ Beginning(t)
    PROVE  Held(t)' \subseteq Held(t)
<1>1. ASSUME NEW a \in AccountsOf(t), NEW i \in DOMAIN op, Creates(i, a)
      PROVE  FALSE
  <2>1. i \in RowsOf(t) /\ op[i].kind = "write" /\ op[i].step = "calling" /\ CanServe(i)
        /\ Home[op[i].a] = t
    BY <1>1 DEF Creates, RowsOf, AccountsOf
  <2>2. ~Beginning(t)
    BY <2>1, InOrder
  <2>3. ~Past(i)
    BY <2>1 DEF Past
  <2> QED
    BY <2>1, <2>2, <2>3 DEF Dead
<1>2. AccountsOf(t)' = AccountsOf(t)
  BY RowsOfStay DEF Evolves, Moves
<1> QED
  BY <1>1, <1>2 DEF Held, Evolves

LEMMA DeadStays ==
    ASSUME Evolves, NEW t \in Targets, Closed(t), Dead(t)
    PROVE  Dead(t)'
<1>1. ASSUME NEW i \in RowsOf(t)', op'[i].kind = "write"
      PROVE  Past(i)'
  <2>1. i \in DOMAIN op
    BY <1>1 DEF Evolves, Moves, Added, RowsOf, Closed
  <2>2. i \in RowsOf(t) /\ op[i].kind = "write"
    BY <1>1, <2>1, RowsOfStay DEF Evolves, Moves, Grows
  <2> QED
    BY <2>1, <2>2 DEF Dead, Evolves, Moves, Moved
<1> QED
  BY <1>1 DEF Dead

LEMMA NewKind ==
    ASSUME TypeInv', NEW k \in DOMAIN op'
    PROVE  op'[k].kind \in {"write", "delete"}
<1>1. op' \in Seq(OperationType)
  BY DEF TypeInv, OpTyped, OperationType
<1>2. op'[k] \in OperationType
  BY <1>1
<1> QED
  BY <1>2 DEF OperationType

LEMMA FinalStays ==
    ASSUME TypeInv, Evolves, NEW t \in Targets, Closed(t), NEW i \in RowsOf(t), Final(i)
    PROVE  Final(i)'
<1>1. i \in DOMAIN op /\ Home[op[i].a] = t /\ op'[i].a = op[i].a /\ op'[i].kind = "delete"
  BY DEF Evolves, Moves, Grows, RowsOf, Final
<1>2. ASSUME NEW k \in DOMAIN op', k > i, op'[k].a = op'[i].a, op'[k].kind # "delete"
      PROVE  FALSE
  <2>1. CASE k \in DOMAIN op
    BY <1>1, <1>2, <2>1 DEF Evolves, Moves, Grows, Final
  <2>2. CASE k \notin DOMAIN op
    <3>1. Added(k)
      BY <1>2, <2>2 DEF Evolves, Moves
    <3>2. op'[k].kind \in {"write", "delete"}
      BY <1>2, NewKind DEF Evolves
    <3> QED
      BY <1>1, <1>2, <3>1, <3>2 DEF Added, Closed
  <2> QED
    BY <2>1, <2>2
<1> QED
  BY <1>1, <1>2 DEF Final

LEMMA SettledStays ==
    ASSUME TypeInv, ~Overlooks, Evolves, NEW t \in Targets, Closed(t), NEW M, Settled(t, M)
    PROVE  Settled(t, M)' /\ Held(t)' \subseteq Held(t)
<1>1. Dead(t)' /\ Held(t)' \subseteq Held(t)
  BY DeadStays, HeldShrinks DEF Settled
<1>2. M \subseteq RowsOf(t)'
  BY RowsOfStay DEF Settled, Evolves, Moves
<1>3. \A i \in M : Final(i)'
  BY FinalStays DEF Settled
<1>4. \A i \in M : op'[i].a = op[i].a
  BY DEF Settled, RowsOf, Evolves, Moves, Grows
<1>5. Covers(t, M)'
  BY <1>1, <1>4 DEF Settled, Covers
<1> QED
  BY <1>1, <1>2, <1>3, <1>5 DEF Settled

\* When all the deletions succeeded the target is empty: no write ran after them.
LEMMA Emptied ==
    ASSUME TypeInv, AccountInv, NEW t \in Targets, NEW M, Settled(t, M),
           \A i \in M : op[i].status = "SUCCESS"
    PROVE  Held(t) = {}
<1> SUFFICES ASSUME NEW a \in Held(t)
             PROVE  FALSE
  OBVIOUS
<1>1. PICK i \in M : op[i].a = a
  BY DEF Settled, Covers
<1>2. PICK j \in DOMAIN op : Last(a, j)
  BY DEF AccountInv, Held
<1>3. i \in DOMAIN op /\ Final(i) /\ Ran(i)
  BY <1>1 DEF Settled, RowsOf, Ran
<1>4. i \in Nat /\ j \in Nat
  BY <1>3 DEF TypeInv, OpTyped
<1>5. ~(i > j) /\ ~(j > i) /\ i # j
  BY <1>1, <1>2, <1>3 DEF Last, Final
<1> QED
  BY <1>4, <1>5

\* What begin knows at each step ...
Calm(t)    == \A i \in RowsOf(t) : ~Busy(i) /\ (op[i].step = "asking" => op[i].kind = "delete")
Deleted(r) == r # None /\ r.kind = "delete" /\ r.status = "SUCCESS"

BeginSafe(c) ==
    /\ c.pc \in {"cancel", "requests", "scan"} =>
         Calm(c.t) /\ \A a \in Held(c.t) : ~Deleted(c.latest[a])
    /\ c.pc = "cancel" => \A i \in RowsOf(c.t) : op[i].kind = "write" => Past(i) \/ i \in c.left
    /\ c.pc \in {"requests", "scan"} => Dead(c.t)
    /\ c.pc \in Asks =>
         /\ Dead(c.t) /\ c.made \subseteq RowsOf(c.t) /\ \A i \in c.made : Final(i)
         /\ \A a \in Held(c.t) : a \in c.left \/ \E i \in c.made : op[i].a = a

\* ... and process_all: its target keeps its key, or is gone for good.
Hangs(t) == state[t] # None \/ (t \notin OnFile /\ "readd" \notin faults)

ProcessSafe(c) ==
    /\ c.pc \in ProcessSteps \ {"drop"} => Settled(c.t, c.made) /\ Hangs(c.t)
    /\ c.pc \in {"mark", "roles", "rows", "inventory", "keys", "remove"} => Held(c.t) = {}
    /\ c.pc = "drop" => "readd" \in faults \/ c.t \notin OnFile

LEMMA CalmStays ==
    ASSUME TypeInv, ~Overlooks, Evolves, NEW t \in Targets, Beginning(t), Calm(t)
    PROVE  Calm(t)'
<1>1. ASSUME NEW i \in RowsOf(t)', i \in DOMAIN op
      PROVE  ~Busy(i)' /\ (op'[i].step = "asking" => op'[i].kind = "delete")
  <2>1. i \in RowsOf(t) /\ Home[op[i].a] = t /\ op'[i].kind = op[i].kind /\ Moved(i)
    BY <1>1, RowsOfStay DEF Evolves, Moves, Grows, RowsOf
  <2>2. ~CanServe(i)
    BY <1>1, <2>1, InOrder
  <2> QED
    BY <2>1, <2>2 DEF Calm, Moved, Busy
<1>2. ASSUME NEW i \in RowsOf(t)', i \notin DOMAIN op
      PROVE  ~Busy(i)' /\ (op'[i].step = "asking" => op'[i].kind = "delete")
  <2>1. Added(i) /\ Home[op'[i].a] = t /\ op'[i].kind \in {"write", "delete"}
    BY <1>2, NewKind DEF Evolves, Moves, RowsOf
  <2> QED
    BY <2>1 DEF Added, Busy, Underway
<1> QED
  BY <1>1, <1>2 DEF Calm, Busy

LEMMA BeginSafeStays ==
    ASSUME TypeInv, ~Overlooks, Evolves, NEW c \in Coroutines, BeginSafe(c),
           c.pc \in BeginSteps => c.t \in Targets /\ Beginning(c.t)
    PROVE  BeginSafe(c)'
<1>1. CASE c.pc \in BeginSteps
  <2> DEFINE t == c.t
  <2>1. t \in Targets /\ Beginning(t) /\ Closed(t)
    BY <1>1 DEF Closed, Underway
  <2> HIDE DEF t
  <2>2. Held(t)' \subseteq Held(t)
    BY <2>1, HeldShrinks
  <2>3. Calm(t) => Calm(t)'
    BY <2>1, CalmStays
  <2>4. Dead(t) => Dead(t)'
    BY <2>1, DeadStays
  <2>5. ASSUME c.pc = "cancel", NEW i \in RowsOf(t)', op'[i].kind = "write"
        PROVE  Past(i)' \/ i \in c.left
    <3>1. i \in DOMAIN op
      BY <2>1, <2>5 DEF Evolves, Moves, Added, RowsOf, Closed
    <3>2. i \in RowsOf(t) /\ op[i].kind = "write"
      BY <2>5, <3>1, RowsOfStay DEF Evolves, Moves, Grows
    <3>3. Past(i) \/ i \in c.left
      BY <2>5, <3>2 DEF BeginSafe, t
    <3> QED
      BY <3>1, <3>3 DEF Evolves, Moves, Moved
  <2>6. ASSUME c.pc \in Asks
        PROVE  /\ c.made \subseteq RowsOf(t)' /\ \A i \in c.made : Final(i)'
               /\ \A a \in Held(t)' : a \in c.left \/ \E i \in c.made : op'[i].a = a
    <3>1. c.made \subseteq RowsOf(t) /\ \A i \in c.made : Final(i)
      BY <2>6 DEF BeginSafe, t
    <3>2. \A i \in c.made : op'[i].a = op[i].a
      BY <3>1 DEF RowsOf, Evolves, Moves, Grows
    <3>3. \A a \in Held(t) : a \in c.left \/ \E i \in c.made : op[i].a = a
      BY <2>6 DEF BeginSafe, t
    <3>4. RowsOf(t) \subseteq RowsOf(t)'
      BY RowsOfStay DEF Evolves, Moves
    <3> QED
      BY <2>1, <2>2, <3>1, <3>2, <3>3, <3>4, FinalStays
  <2>7. /\ c.pc \in {"cancel", "requests", "scan"} =>
             Calm(t) /\ \A a \in Held(t) : ~Deleted(c.latest[a])
        /\ c.pc \in {"requests", "scan"} => Dead(t)
        /\ c.pc \in Asks => Dead(t)
    BY DEF BeginSafe, t
  <2>8. /\ c.pc \in {"cancel", "requests", "scan"} =>
             Calm(t)' /\ \A a \in Held(t)' : ~Deleted(c.latest[a])
        /\ c.pc \in {"requests", "scan"} => Dead(t)'
        /\ c.pc \in Asks => Dead(t)'
    BY <2>2, <2>3, <2>4, <2>7
  <2> QED
    BY <2>5, <2>6, <2>8 DEF BeginSafe, t, Deleted
<1>2. CASE c.pc \notin BeginSteps
  BY <1>2 DEF BeginSafe, BeginSteps, Asks
<1> QED
  BY <1>1, <1>2

LEMMA ProcessSafeStays ==
    ASSUME TypeInv, ~Overlooks, Evolves, UNCHANGED faults, NEW c \in Coroutines, ProcessSafe(c),
           c.pc \in ProcessSteps => c.t \in Targets,
           c.pc \in ProcessSteps \ {"drop"} => Hangs(c.t)',
           "readd" \in faults \/ OnFile' \subseteq OnFile
    PROVE  ProcessSafe(c)'
<1>1. CASE c.pc \in ProcessSteps \ {"drop"}
  <2>1. PICK t \in Targets : t = c.t
    BY <1>1
  <2>2. PICK M : M = c.made
    OBVIOUS
  <2>3. Settled(t, M) /\ Hangs(t)
    BY <1>1, <2>1, <2>2 DEF ProcessSafe
  <2>4. Closed(t)
    BY <2>3 DEF Hangs, Closed, Underway
  <2>5. Settled(t, M)' /\ Held(t)' \subseteq Held(t)
    BY <2>1, <2>3, <2>4, SettledStays
  <2>6. Settled(c.t, c.made)'
    BY <2>1, <2>2, <2>5
  <2>7. Held(c.t) = {} => Held(c.t)' = {}
    BY <2>1, <2>5
  <2> QED
    BY <1>1, <2>6, <2>7 DEF ProcessSafe
<1>2. CASE c.pc = "drop"
  BY <1>2 DEF ProcessSafe
<1>3. CASE c.pc \notin ProcessSteps
  BY <1>3 DEF ProcessSafe, ProcessSteps
<1> QED
  BY <1>1, <1>2, <1>3

OneProcess ==
    "abandon" \notin faults => \A g \in Handlers : co[g].job = "process" =>
        worker.pc = "processing" /\ \A h \in Handlers : co[h].job = "process" => g = h

KeyInv     == \A t \in Targets : state[t] # None => Settled(t, state[t].ops)
RemovedInv == \A t \in Removed : Dead(t) /\ Held(t) = {}
CoSafe     == \A h \in Handlers : BeginSafe(co[h]) /\ ProcessSafe(co[h])

GoneBody == RowInv /\ AccountInv /\ KeyInv /\ CoSafe /\ OneProcess /\ RemovedInv
GoneInv  == ~Overlooks => GoneBody

\* Who writes the key of a target, and who lists or removes it.
LEMMA KeyMoves ==
    ASSUME TypeInv, [Next]_vars, NEW t \in Targets, state'[t] # state[t]
    PROVE  \E h \in Handlers : co[h].t = t /\ (SaveState(h) \/ Writes(h) \/ DropState(h))
<1>1. ASSUME NEW h \in Handlers, Prepares(h)
      PROVE  SaveState(h) /\ co[h].t = t
  <2>1. SaveState(h)
    BY <1>1 DEF Prepares, BeginTarget, ListOperations, CancelRequests, ScanSnapshots, redis
  <2> QED
    BY <2>1, SaveStateFrame
<1>2. ASSUME NEW h \in Handlers, Process(h)
      PROVE  co[h].t = t /\ (Writes(h) \/ DropState(h))
  <2>1. ~LoadState(h) /\ ~Looks(h) /\ ~RemoveTarget(h)
    BY LooksFrame, RemoveTargetFrame DEF LoadState, redis
  <2> QED
    BY <1>2, <2>1, WritesFrame, DropStateFrame DEF Process, Looks, Writes
<1>3. ASSUME NEW h \in Handlers, \/ Opens(h) \/ CancelOperations(h) \/ CreateDelete(h)
                                 \/ AskDelete(h)
      PROVE  FALSE
  BY <1>3, OpensFrame, CreateDeleteFrame, AskDeleteFrame DEF CancelOperations, redis
<1>4. ASSUME NEW i \in DOMAIN op, RowStep(i)
      PROVE  FALSE
  BY <1>4, RowStepWrites
<1>5. ~Crash
  BY DEF Crash, redis
<1>6. ~Worker /\ ~Dashboard /\ ~(UNCHANGED vars)
  BY WorkerFrame DEF Dashboard, vars, redis
<1>7. ASSUME NEW a \in Accounts, Expire(a)
      PROVE  FALSE
  BY <1>7 DEF Expire
<1>8. ASSUME NEW a \in Accounts, NEW kind \in {"write", "delete"}, Message(a, kind)
      PROVE  FALSE
  BY <1>8, MessageFrame
<1> QED
  BY <1>1, <1>2, <1>3, <1>4, <1>5, <1>6, <1>7, <1>8, NextCases

LEMMA FileMoves ==
    ASSUME TypeInv, [Next]_vars
    PROVE  \/ gone' = gone /\ (OnFile' = OnFile \/ ("readd" \in faults /\ OnFile \subseteq OnFile'))
           \/ \E h \in Handlers : /\ RemoveTarget(h) /\ gone' = gone \cup {co[h].t}
                                  /\ OnFile' = OnFile \ {co[h].t}
<1>1. ASSUME NEW h \in Handlers, Process(h)
      PROVE  \/ gone' = gone /\ OnFile' = OnFile
             \/ RemoveTarget(h) /\ gone' = gone \cup {co[h].t} /\ OnFile' = OnFile \ {co[h].t}
  <2>1. CASE LoadState(h)
    BY <2>1 DEF LoadState, catalogVars, history, OnFile
  <2>2. CASE Looks(h) \/ Writes(h) \/ DropState(h)
    BY <2>2, LooksFrame, WritesFrame, DropStateFrame DEF catalogVars, OnFile
  <2>3. CASE RemoveTarget(h)
    BY <2>3, RemoveTargetFrame DEF catalogVars, OnFile
  <2> QED
    BY <1>1, <2>1, <2>2, <2>3 DEF Process, Looks, Writes
<1>2. ASSUME NEW h \in Handlers, \/ Opens(h) \/ Prepares(h) \/ CancelOperations(h)
                                 \/ CreateDelete(h) \/ AskDelete(h)
      PROVE  gone' = gone /\ OnFile' = OnFile
  <2>1. UNCHANGED <<catalogVars, gone>>
    BY <1>2, OpensFrame, PreparesFrame, CreateDeleteFrame, AskDeleteFrame
       DEF CancelOperations, history
  <2> QED
    BY <2>1 DEF catalogVars, OnFile
<1>3. ASSUME NEW i \in DOMAIN op, RowStep(i)
      PROVE  gone' = gone /\ OnFile' = OnFile
  BY <1>3, RowStepWrites DEF catalogVars, OnFile
<1>4. ASSUME Crash
      PROVE  gone' = gone /\ OnFile' = OnFile
  BY <1>4 DEF Crash, Restart, history, OnFile
<1>5. ASSUME Worker \/ UNCHANGED vars \/ \E a \in Accounts : Expire(a)
      PROVE  gone' = gone /\ OnFile' = OnFile
  BY <1>5, WorkerFrame DEF vars, history, Expire, catalogVars, OnFile
<1>6. ASSUME NEW a \in Accounts, NEW kind \in {"write", "delete"}, Message(a, kind)
      PROVE  gone' = gone /\ OnFile' = OnFile
  BY <1>6, MessageFrame DEF history, catalogVars, OnFile
<1>7. CASE Dashboard
  <2>1. gone' = gone
    BY <1>7 DEF Dashboard, history
  <2>2. ASSUME NEW t \in Targets, UpdateConfig(t)
        PROVE  OnFile' = OnFile
    BY <2>2 DEF UpdateConfig, OnFile
  <2>3. ASSUME NEW t \in Targets, AddRuntime(t)
        PROVE  OnFile \subseteq OnFile'
    BY <2>3 DEF AddRuntime, OnFile, TypeInv, CatalogTyped, Entries
  <2> QED
    BY <1>7, <2>1, <2>2, <2>3 DEF Dashboard, May, TypeInv, HistoryTyped
<1> QED
  BY <1>1, <1>2, <1>3, <1>4, <1>5, <1>6, <1>7, NextCases

LEMMA HangsStays ==
    ASSUME TypeInv, ~Overlooks, [Next]_vars, GoneBody, NEW t \in Targets, Hangs(t),
           NEW g \in Handlers, co[g].job = "process", co[g].pc # "drop"
    PROVE  Hangs(t)'
<1>1. faults' = faults /\ ("readd" \in faults \/ OnFile' \subseteq OnFile)
  BY SameFaults, FileMoves
<1>2. CASE t \notin OnFile /\ "readd" \notin faults
  BY <1>1, <1>2 DEF Hangs
<1>3. CASE state[t] # None /\ state'[t] = None
  <2>1. PICK h \in Handlers : co[h].t = t /\ (SaveState(h) \/ Writes(h) \/ DropState(h))
    BY <1>3, KeyMoves
  <2>2. DropState(h) /\ co[h].pc = "drop" /\ co[h].job = "process"
    BY <1>3, <2>1, SaveStateFrame, WritesFrame, DropStateFrame, JobOf DEF ProcessSteps
  <2>3. "abandon" \in faults
    BY <2>2 DEF GoneBody, OneProcess
  <2>4. "readd" \notin faults
    BY <2>3 DEF Overlooks
  <2>5. t \notin OnFile
    BY <2>1, <2>2, <2>4 DEF GoneBody, CoSafe, ProcessSafe
  <2> QED
    BY <1>1, <2>4, <2>5 DEF Hangs
<1> QED
  BY <1>2, <1>3 DEF Hangs

\* The coroutine that goes on is safe when what it goes on with already is.
LEMMA GoesOnSafely ==
    ASSUME TypeInv, ~Overlooks, [Next]_vars, GoneBody, Evolves, NEW h \in Handlers, Alone(h),
           BeginSafe(co'[h]), ProcessSafe(co'[h]),
           co[h].job = "begin" /\ co'[h].pc \in BeginSteps => co'[h].t = co[h].t,
           co[h].job = "begin" => co'[h].pc \notin ProcessSteps,
           co[h].job = "process" => co'[h].pc \notin BeginSteps,
           co[h].job = "none" => co'[h].pc \notin BeginSteps \cup ProcessSteps,
           co[h].pc = "drop" => co'[h].pc = "load"
    PROVE  BeginSafe(co[h])' /\ ProcessSafe(co[h])'
<1>1. PICK c \in Coroutines : c = co'[h]
  BY DEF Evolves, TypeInv, CoTyped, Coroutines, OperationType
<1>2. c.pc \in BeginSteps \cup ProcessSteps => c.t \in Targets
  BY <1>1 DEF Evolves, TypeInv, CoTyped, StepTyped
<1>3. c.pc \in BeginSteps => Beginning(c.t)
  BY <1>1, JobOf DEF Beginning, BeginSteps, ProcessSteps
<1>4. BeginSafe(c)'
  BY <1>1, <1>2, <1>3, BeginSafeStays
<1>5. c.pc \in ProcessSteps \ {"drop"} => Hangs(c.t)'
  BY <1>1, <1>2, HangsStays, JobOf DEF ProcessSafe, ProcessSteps
<1>6. UNCHANGED faults /\ ("readd" \in faults \/ OnFile' \subseteq OnFile)
  BY SameFaults, FileMoves
<1>7. ProcessSafe(c)'
  BY <1>1, <1>2, <1>5, <1>6, ProcessSafeStays
<1> QED
  BY <1>1, <1>4, <1>7 DEF BeginSafe, ProcessSafe

LEMMA OthersStaySafe ==
    ASSUME TypeInv, ~Overlooks, [Next]_vars, GoneBody, Evolves, NEW g \in Handlers,
           co'[g] = co[g]
    PROVE  BeginSafe(co[g])' /\ ProcessSafe(co[g])'
<1>1. PICK c \in Coroutines : c = co[g]
  BY CoOf DEF TypeInv
<1>2. BeginSafe(c) /\ ProcessSafe(c)
  BY <1>1 DEF GoneBody, CoSafe
<1>3. /\ c.pc \in BeginSteps => c.t \in Targets /\ Beginning(c.t)
      /\ c.pc \in ProcessSteps => c.t \in Targets
  BY <1>1, JobOf DEF Beginning
<1>4. BeginSafe(c)'
  BY <1>2, <1>3, BeginSafeStays
<1>5. c.pc \in ProcessSteps \ {"drop"} => Hangs(c.t)'
  BY <1>1, <1>2, <1>3, HangsStays, JobOf DEF ProcessSafe
<1>6. UNCHANGED faults /\ ("readd" \in faults \/ OnFile' \subseteq OnFile)
  BY SameFaults, FileMoves
<1>7. ProcessSafe(c)'
  BY <1>2, <1>3, <1>5, <1>6, ProcessSafeStays
<1> QED
  BY <1>1, <1>4, <1>7 DEF BeginSafe, ProcessSafe

LEMMA ListFrame ==
    ASSUME TypeInv, NEW h \in Handlers, ListOperations(h)
    PROVE  /\ Alone(h) /\ co[h].job = "begin" /\ co[h].t \in Targets /\ co'[h].t = co[h].t
           /\ co'[h].pc = "cancel" /\ co'[h].left = Cancellable(co[h].t)
           /\ \A a \in Accounts : co'[h].latest[a] = Latest(a)
<1> DEFINE c == [co[h] EXCEPT !.latest = [a \in Accounts |-> Latest(a)],
                              !.left = Cancellable(co[h].t), !.pc = "cancel"]
<1>1. co[h] \in Coroutines /\ co[h].job = "begin" /\ co[h].t \in Targets
  BY CoOf, JobOf DEF ListOperations, At, TypeInv, BeginSteps
<1>2. /\ c.latest = [a \in Accounts |-> Latest(a)] /\ c.left = Cancellable(co[h].t)
      /\ c.pc = "cancel" /\ c.t = co[h].t
  BY <1>1 DEF Coroutines
<1> HIDE DEF c
<1>3. Become(h, c)
  BY DEF ListOperations, c
<1>4. Alone(h) /\ co'[h] = c
  BY <1>3, AloneBecomes
<1> QED
  BY <1>1, <1>2, <1>4

\* The rows as begin lists them: nobody serves one, the writes that are not over
\* are those it will cancel, and no account it holds was deleted last.
LEMMA ListSafe ==
    ASSUME TypeInv, ~Overlooks, GoneBody, NEW h \in Handlers, ListOperations(h)
    PROVE  BeginSafe(co'[h]) /\ ProcessSafe(co'[h])
<1>1. PICK t \in Targets : t = co[h].t
  BY ListFrame
<1>2. \A i \in RowsOf(t) : op[i].step = "rest"
  BY <1>1 DEF ListOperations, May, Overlooks
<1>3. Calm(t)
  BY <1>2 DEF Calm, Busy
<1>4. ASSUME NEW a \in Held(t), Deleted(Latest(a))
      PROVE  FALSE
  <2>1. PICK j \in DOMAIN op : Last(a, j)
    BY DEF GoneBody, AccountInv, Held
  <2>2. PICK i \in DOMAIN op : /\ Latest(a) = op[i] /\ op[i].a = a
                               /\ \A k \in DOMAIN op : op[k].a = a => k <= i
    BY <1>4, LatestRow DEF Deleted, Held, AccountsOf, TypeInv, OpTyped
  <2>3. Ran(i) /\ op[i].kind = "delete" /\ j <= i /\ i # j
    BY <1>4, <2>1, <2>2 DEF Deleted, Ran, Last
  <2>4. i \in Nat /\ j \in Nat
    BY DEF TypeInv, OpTyped
  <2>5. i > j
    BY <2>3, <2>4
  <2> QED
    BY <2>1, <2>2, <2>3, <2>5 DEF Last
<1>5. \A a \in Held(t) : a \in Accounts /\ ~Deleted(co'[h].latest[a])
  BY <1>4, ListFrame DEF Held, AccountsOf
<1>6. ASSUME NEW i \in RowsOf(t), op[i].kind = "write"
      PROVE  Past(i) \/ i \in Cancellable(t)
  <2>1. i \in DOMAIN op /\ Shape(i) /\ op[i].step = "rest"
    BY <1>2 DEF GoneBody, RowInv, RowsOf
  <2>2. ~op[i].deco
    BY <1>6, <2>1 DEF Shape
  <2> QED
    BY <2>1, <2>2 DEF Shape, Past, Cancellable, Open
<1> QED
  BY <1>1, <1>3, <1>5, <1>6, ListFrame DEF BeginSafe, ProcessSafe, Asks, ProcessSteps

\* What the scan finds: every account there is, for each of them is in a
\* snapshot once nobody is about to write one.
LEMMA ScanSafe ==
    ASSUME TypeInv, ~Overlooks, GoneBody, NEW h \in Handlers, ScanSnapshots(h)
    PROVE  BeginSafe(co'[h]) /\ ProcessSafe(co'[h]) /\ co'[h].pc = "create" /\ co'[h].t = co[h].t
<1> DEFINE c == [co[h] EXCEPT !.left = Candidates(h), !.pc = "create", !.latest = Idle.latest]
<1>1. co[h] \in Coroutines /\ StepTyped(co[h]) /\ co[h].pc = "scan" /\ BeginSafe(co[h])
  BY CoOf DEF ScanSnapshots, At, TypeInv, GoneBody, CoSafe
<1>2. c.left = Candidates(h) /\ c.pc = "create" /\ c.t = co[h].t /\ c.made = {}
  BY <1>1 DEF Coroutines, StepTyped
<1>3. co'[h] = c
  BY AloneBecomes DEF ScanSnapshots
<1> HIDE DEF c
<1>4. PICK t : t = co[h].t
  OBVIOUS
<1>5. Calm(t) /\ Dead(t) /\ \A a \in Held(t) : ~Deleted(co[h].latest[a])
  BY <1>1, <1>4 DEF BeginSafe
<1>6. ASSUME NEW a \in Held(t)
      PROVE  a \in Candidates(h)
  <2>1. Noted(a) /\ a \in AccountsOf(t) /\ a \in Accounts /\ Home[a] = t
    BY DEF GoneBody, AccountInv, Held, AccountsOf
  <2>2. a \in snapshot
    BY <1>5, <2>1 DEF Noted, Calm, Busy, RowsOf
  <2> QED
    BY <1>4, <1>5, <2>1, <2>2 DEF Candidates, Deleted
<1> QED
  BY <1>2, <1>3, <1>4, <1>5, <1>6 DEF BeginSafe, ProcessSafe, Asks, ProcessSteps

LEMMA RequestsSafe ==
    ASSUME TypeInv, GoneBody, NEW h \in Handlers,
           \/ CancelRequests(h)
           \/ CancelOperations(h) /\ co[h].left = {}
    PROVE  /\ BeginSafe(co'[h]) /\ ProcessSafe(co'[h]) /\ co'[h].t = co[h].t /\ Alone(h)
           /\ co'[h].pc \in {"requests", "scan"}
<1>1. BeginSafe(co[h])
  BY DEF GoneBody, CoSafe
<1>2. CASE CancelRequests(h)
  <2>1. co'[h].t = co[h].t /\ co'[h].latest = co[h].latest /\ co'[h].pc = "scan" /\ Alone(h)
    BY <1>2, Went DEF CancelRequests
  <2>2. co[h].pc = "requests"
    BY <1>2 DEF CancelRequests, At
  <2> QED
    BY <1>1, <2>1, <2>2 DEF BeginSafe, ProcessSafe, Asks, ProcessSteps
<1>3. CASE CancelOperations(h) /\ co[h].left = {}
  <2>1. co[h].pc = "cancel" /\ Goto(h, "requests")
    BY <1>3 DEF CancelOperations, At
  <2>2. co'[h].t = co[h].t /\ co'[h].latest = co[h].latest /\ co'[h].pc = "requests" /\ Alone(h)
    BY <2>1, Went
  <2>3. Dead(co[h].t)
    BY <1>1, <1>3, <2>1 DEF BeginSafe, Dead
  <2> QED
    BY <1>1, <2>1, <2>2, <2>3 DEF BeginSafe, ProcessSafe, Asks, ProcessSteps
<1> QED
  BY <1>2, <1>3

\* A row that is cancelled is over; the others were, or are still to be.
LEMMA CancelRowSafe ==
    ASSUME TypeInv, CancelInv, ~Overlooks, GoneBody, Evolves, NEW h \in Handlers,
           NEW i \in co[h].left, co[h].pc = "cancel",
           op' = [op EXCEPT ![i].status = "FAILED"],
           Become(h, [co[h] EXCEPT !.left = @ \ {i}])
    PROVE  Alone(h) /\ BeginSafe(co[h])' /\ ProcessSafe(co[h])'
<1>1. PICK c \in Coroutines : c = co[h] /\ c.pc = "cancel"
  BY CoOf DEF TypeInv
<1>2. BeginSafe(c)'
  <2>1. BeginSafe(c) /\ c.t \in Targets /\ Beginning(c.t)
    BY <1>1, LeftRows DEF GoneBody, CoSafe
  <2> QED
    BY <2>1, BeginSafeStays
<1>3. /\ Alone(h) /\ co'[h].pc = "cancel" /\ co'[h].t = c.t /\ co'[h].latest = c.latest
      /\ co'[h].left = c.left \ {i}
  <2> DEFINE d == [co[h] EXCEPT !.left = @ \ {i}]
  <2>1. d.pc = "cancel" /\ d.t = c.t /\ d.latest = c.latest /\ d.left = c.left \ {i}
    BY <1>1 DEF Coroutines
  <2>2. Become(h, d)
    OBVIOUS
  <2> HIDE DEF d
  <2> QED
    BY <2>1, <2>2, AloneBecomes
<1>4. Past(i)'
  <2>1. i \in DOMAIN op /\ op[i].step = "rest"
    BY LeftRows DEF CancelInv, At, Overlooks, Waits
  <2>2. op[i] \in OperationType
    BY <2>1, RowOf DEF TypeInv, OpTyped
  <2>3. op'[i].step = "rest" /\ op'[i].status = "FAILED"
    BY <2>1, <2>2 DEF OperationType
  <2> QED
    BY <2>3 DEF Past, Over
<1>5. \A k \in RowsOf(c.t)' : op'[k].kind = "write" => Past(k)' \/ k \in c.left \ {i}
  BY <1>1, <1>2, <1>4 DEF BeginSafe
<1>6. Calm(c.t)' /\ \A a \in Held(c.t)' : ~Deleted(c.latest[a])
  BY <1>1, <1>2 DEF BeginSafe, Deleted
<1> QED
  BY <1>3, <1>5, <1>6 DEF BeginSafe, ProcessSafe, Asks, ProcessSteps, Deleted

\* The deletion of an account is the last row of it.
LEMMA CreateDeleteSafe ==
    ASSUME TypeInv, ~Overlooks, GoneBody, Evolves, NEW h \in Handlers, CreateDelete(h)
    PROVE  BeginSafe(co[h])' /\ ProcessSafe(co[h])'
<1>1. PICK c \in Coroutines : c = co[h] /\ c.pc = "create" /\ StepTyped(c)
  BY CoOf, CreateDeleteFrame DEF TypeInv
<1>2. PICK t \in Targets : t = c.t /\ Beginning(t)
  BY <1>1, JobOf DEF Beginning, BeginSteps
<1>3. BeginSafe(c)'
  BY <1>1, <1>2, BeginSafeStays DEF GoneBody, CoSafe
<1>4. PICK a \in c.left : /\ op' = Append(op, New(a, "delete", TRUE))
                          /\ co'[h].left = c.left \ {a} /\ co'[h].made = c.made \cup {Len(op) + 1}
                          /\ a \in Accounts /\ Home[a] = t
  BY <1>1, <1>2, CreateDeleteFrame
<1>5. PICK n \in Nat : /\ n = Len(op) + 1 /\ DOMAIN op' = 1..n
                       /\ op'[n] = New(a, "delete", TRUE)
  <2>1. TRUE \in BOOLEAN /\ op \in Seq(OperationType)
    BY DEF TypeInv, OpTyped
  <2>2. /\ Len(op) \in Nat /\ DOMAIN op' = 1..Len(op) + 1
        /\ op'[Len(op) + 1] = New(a, "delete", TRUE)
    BY <1>4, <2>1, RowAdded
  <2>3. Len(op) + 1 \in Nat
    BY <2>2
  <2> QED
    BY <2>2, <2>3
<1>6. op'[n].a = a /\ op'[n].kind = "delete" /\ n \in DOMAIN op'
  BY <1>5 DEF New, TypeInv, OpTyped
<1>7. n \in RowsOf(t)' /\ Final(n)'
  <2>1. \A k \in DOMAIN op' : ~(k > n)
    BY <1>5
  <2> QED
    BY <1>4, <1>6, <2>1 DEF RowsOf, Final
<1>8. /\ Dead(t)' /\ c.made \subseteq RowsOf(t)' /\ \A i \in c.made : Final(i)'
      /\ \A b \in Held(t)' : b \in c.left \/ \E i \in c.made : op'[i].a = b
  BY <1>1, <1>2, <1>3 DEF BeginSafe, Asks
<1>9. co'[h].pc = "ask" /\ co'[h].t = t
  BY <1>1, <1>2, CreateDeleteFrame
<1>10. /\ co'[h].made \subseteq RowsOf(t)' /\ \A i \in co'[h].made : Final(i)'
       /\ \A b \in Held(t)' : b \in co'[h].left \/ \E i \in co'[h].made : op'[i].a = b
  BY <1>4, <1>5, <1>6, <1>7, <1>8
<1> QED
  BY <1>8, <1>9, <1>10 DEF BeginSafe, ProcessSafe, Asks, ProcessSteps

LEMMA AskDeleteSafe ==
    ASSUME TypeInv, ~Overlooks, GoneBody, Evolves, NEW h \in Handlers, AskDelete(h)
    PROVE  BeginSafe(co[h])' /\ ProcessSafe(co[h])'
<1>1. PICK c \in Coroutines : c = co[h] /\ c.pc = "ask"
  BY CoOf, AskDeleteFrame DEF TypeInv
<1>2. BeginSafe(c)'
  <2>1. BeginSafe(c) /\ c.t \in Targets /\ Beginning(c.t)
    BY <1>1, JobOf DEF GoneBody, CoSafe, Beginning, BeginSteps
  <2> QED
    BY <2>1, BeginSafeStays
<1>3. CASE co'[h] = [c EXCEPT !.pc = "create"]
  <2>1. /\ co'[h].pc = "create" /\ co'[h].t = c.t /\ co'[h].left = c.left
        /\ co'[h].made = c.made
    BY <1>3 DEF Coroutines
  <2> QED
    BY <1>1, <1>2, <2>1 DEF BeginSafe, ProcessSafe, Asks, ProcessSteps
<1>4. CASE co'[h] = Idle
  <2>1. co'[h].pc = "idle"
    BY <1>4 DEF Idle
  <2> QED
    BY <2>1 DEF BeginSafe, ProcessSafe, Asks, ProcessSteps
<1> QED
  BY <1>1, <1>3, <1>4, AskDeleteFrame

LEMMA BeginTargetFrame ==
    ASSUME TypeInv, NEW h \in Handlers, BeginTarget(h)
    PROVE  Alone(h) /\ co'[h].pc \in {"idle", "next", "list"}
<1>1. Prepares(h) /\ co[h].pc = "next"
  BY DEF Prepares, BeginTarget, At
<1>2. co[h] \in Coroutines /\ Alone(h)
  BY <1>1, CoOf, PreparesFrame DEF TypeInv
<1>3. CASE Finish(h) \/ Become(h, Idle)
  BY <1>2, <1>3, AloneBecomes DEF Finish, Idle
<1>4. ASSUME NEW t \in co[h].todo, Become(h, [co[h] EXCEPT !.todo = @ \ {t}])
      PROVE  co'[h].pc = "next"
  BY <1>1, <1>2, <1>4, AloneBecomes DEF Coroutines
<1>5. ASSUME NEW t \in co[h].todo,
             Become(h, [co[h] EXCEPT !.todo = @ \ {t}, !.t = t, !.pc = "list"])
      PROVE  co'[h].pc = "list"
  <2> DEFINE c == [co[h] EXCEPT !.todo = @ \ {t}, !.t = t, !.pc = "list"]
  <2>1. c.pc = "list"
    BY <1>2 DEF Coroutines
  <2> HIDE DEF c
  <2>2. Become(h, c)
    BY <1>5 DEF c
  <2> QED
    BY <2>1, <2>2, AloneBecomes
<1> QED
  BY <1>2, <1>3, <1>4, <1>5 DEF BeginTarget

LEMMA BeginStaysSafe ==
    ASSUME TypeInv, CancelInv, ~Overlooks, [Next]_vars, GoneBody, Evolves, NEW h \in Handlers,
           Prepares(h) \/ CancelOperations(h) \/ CreateDelete(h) \/ AskDelete(h)
    PROVE  Alone(h) /\ BeginSafe(co[h])' /\ ProcessSafe(co[h])'
<1>1. CASE CreateDelete(h) \/ AskDelete(h)
  BY <1>1, CreateDeleteSafe, AskDeleteSafe, CreateDeleteFrame, AskDeleteFrame
<1>2. CASE \/ ListOperations(h) \/ ScanSnapshots(h) \/ CancelRequests(h)
           \/ CancelOperations(h) /\ co[h].left = {}
  <2>1. /\ Alone(h) /\ BeginSafe(co'[h]) /\ ProcessSafe(co'[h]) /\ co'[h].t = co[h].t
        /\ co'[h].pc \in {"cancel", "requests", "scan", "create"}
    BY <1>2, ListSafe, ScanSafe, RequestsSafe, ListFrame, PreparesFrame DEF Prepares
  <2>2. co[h].pc \in BeginSteps
    BY <1>2 DEF ListOperations, ScanSnapshots, CancelRequests, CancelOperations, At, BeginSteps
  <2>3. co[h].job = "begin" /\ co[h].pc # "drop" /\ co'[h].pc \notin ProcessSteps
    BY <2>1, <2>2, JobOf DEF BeginSteps, ProcessSteps
  <2> QED
    BY <2>1, <2>3, GoesOnSafely
<1>3. CASE BeginTarget(h) \/ SaveState(h)
  <2>1. /\ Alone(h)
        /\ co'[h].pc \notin {"cancel", "requests", "scan"} \cup Asks \cup ProcessSteps
    <3>1. CASE SaveState(h)
      BY <3>1, SaveStateFrame DEF Asks, ProcessSteps
    <3>2. CASE BeginTarget(h)
      BY <3>2, BeginTargetFrame DEF Asks, ProcessSteps
    <3> QED
      BY <1>3, <3>1, <3>2
  <2> QED
    BY <2>1 DEF BeginSafe, ProcessSafe, Asks, ProcessSteps
<1>4. ASSUME NEW i \in co[h].left, CancelOperations(h), op' = [op EXCEPT ![i].status = "FAILED"],
             Become(h, [co[h] EXCEPT !.left = @ \ {i}])
      PROVE  Alone(h) /\ BeginSafe(co[h])' /\ ProcessSafe(co[h])'
  BY <1>4, CancelRowSafe DEF CancelOperations, At
<1> QED
  BY <1>1, <1>2, <1>3, <1>4 DEF Prepares, CancelOperations

\* What process_all knows after a look at its target.
LEMMA LooksSafe ==
    ASSUME TypeInv, ~Overlooks, GoneBody, NEW h \in Handlers, Looks(h)
    PROVE  ProcessSafe(co'[h])
<1>1. /\ co[h].pc \in ProcessSteps \ {"drop"} /\ co'[h].t = co[h].t /\ co'[h].made = co[h].made
      /\ co[h].t \in Targets
  BY LooksFrame, JobOf
<1>2. ProcessSafe(co[h])
  BY DEF GoneBody, CoSafe
<1>3. Settled(co'[h].t, co'[h].made) /\ Hangs(co'[h].t)
  BY <1>1, <1>2 DEF ProcessSafe
<1>4. CASE CheckStatuses(h)
  <2>1. /\ co'[h].pc \in {"mark", "block", "hold"}
        /\ co'[h].pc = "mark" => \A i \in co[h].made : op[i].status = "SUCCESS"
    BY <1>4, Went DEF CheckStatuses
  <2>2. co'[h].pc = "mark" => Held(co'[h].t) = {}
    BY <1>1, <1>3, <2>1, Emptied DEF GoneBody
  <2> QED
    BY <1>3, <2>1, <2>2 DEF ProcessSafe
<1>5. CASE CleanMidPoint(h) \/ DeleteRows(h) \/ DeleteUserStates(h)
  <2>1. /\ co[h].pc \in {"roles", "rows", "inventory", "keys"}
        /\ co'[h].pc \in {"rows", "inventory", "keys", "remove", "answered"}
    BY <1>5, Went DEF CleanMidPoint, DeleteRows, DeleteUserStates, Raise, At
  <2>2. Held(co'[h].t) = {}
    BY <1>1, <1>2, <2>1 DEF ProcessSafe
  <2> QED
    BY <1>3, <2>1, <2>2 DEF ProcessSafe
<1> QED
  BY <1>4, <1>5 DEF Looks

LEMMA ProcessStaysSafe ==
    ASSUME TypeInv, ~Overlooks, [Next]_vars, GoneBody, Evolves, NEW h \in Handlers, Process(h)
    PROVE  Alone(h) /\ BeginSafe(co[h])' /\ ProcessSafe(co[h])'
<1>1. Alone(h) /\ co[h].job = "process" /\ co'[h].job = "process"
  BY ProcessFrame
<1>2. co'[h].pc \notin BeginSteps
  <2>1. StepTyped(co[h])'
    BY DEF Evolves, TypeInv, CoTyped
  <2>2. co'[h].pc \in ProcessSteps \cup {"load", "answered"}
    BY <1>1, <2>1 DEF StepTyped
  <2> QED
    BY <2>2 DEF BeginSteps, ProcessSteps
<1>3. BeginSafe(co[h])' /\ BeginSafe(co'[h])
  BY <1>2 DEF BeginSafe, BeginSteps, Asks
<1>4. CASE LoadState(h)
  <2>1. CASE co'[h].pc = "statuses"
    <3>1. PICK t \in Targets : /\ t = co'[h].t /\ state[t] # None /\ co'[h].made = state[t].ops
      BY <1>4, <2>1, LoadStateFrame
    <3>2. ProcessSafe(co'[h])
      BY <2>1, <3>1 DEF ProcessSafe, GoneBody, KeyInv, Hangs
    <3>3. co[h].pc # "drop"
      BY <1>4 DEF LoadState, At
    <3> QED
      BY <1>1, <1>2, <1>3, <3>2, <3>3, GoesOnSafely
  <2>2. CASE co'[h].pc \in {"load", "answered"}
    BY <1>1, <1>3, <2>2 DEF ProcessSafe, ProcessSteps
  <2> QED
    BY <1>4, <2>1, <2>2, LoadStateFrame
<1>5. CASE Looks(h)
  <2>1. ProcessSafe(co'[h]) /\ co[h].pc # "drop"
    BY <1>5, LooksSafe, LooksFrame
  <2> QED
    BY <1>1, <1>2, <1>3, <2>1, GoesOnSafely
<1>6. CASE Writes(h) /\ co'[h].pc = "roles"
  <2>1. /\ co[h].pc = "mark" /\ co'[h].t = co[h].t /\ co'[h].made = co[h].made
        /\ ProcessSafe(co[h])
    BY <1>6, WritesFrame DEF GoneBody, CoSafe
  <2>2. ProcessSafe(co'[h])
    BY <1>6, <2>1 DEF ProcessSafe, ProcessSteps
  <2> QED
    BY <1>1, <1>2, <1>3, <2>1, <2>2, GoesOnSafely
<1>7. CASE RemoveTarget(h)
  <2>1. PICK t : t = co[h].t
    OBVIOUS
  <2>2. CASE Goto(h, "answered")
    <3>1. co'[h].pc = "answered"
      BY <2>2, Went
    <3> QED
      BY <1>1, <1>3, <3>1 DEF ProcessSafe, ProcessSteps
  <2>3. CASE Goto(h, "drop") /\ OnFile' = OnFile \ {t}
    <3>1. co'[h].pc = "drop" /\ co'[h].t = t
      BY <2>1, <2>3, Went
    <3> QED
      BY <1>1, <1>3, <2>3, <3>1 DEF ProcessSafe, ProcessSteps
  <2> QED
    BY <1>7, <2>1, <2>2, <2>3, RemoveTargetFrame
<1>8. CASE DropState(h) \/ (Writes(h) /\ co'[h].pc = "load")
  <2>1. co'[h].pc = "load"
    BY <1>8, DropStateFrame
  <2> QED
    BY <1>1, <1>3, <2>1 DEF ProcessSafe, ProcessSteps
<1> QED
  BY <1>4, <1>5, <1>6, <1>7, <1>8, WritesFrame DEF Process, Looks, Writes

LEMMA SafeStays ==
    ASSUME TypeInv, CancelInv, ~Overlooks, [Next]_vars, GoneBody, Evolves
    PROVE  CoSafe'
<1>1. ASSUME NEW h \in Handlers, Alone(h), BeginSafe(co[h])', ProcessSafe(co[h])'
      PROVE  CoSafe'
  <2>1. ASSUME NEW g \in Handlers
        PROVE  BeginSafe(co[g])' /\ ProcessSafe(co[g])'
    BY <1>1, OthersStaySafe DEF Alone
  <2> QED
    BY <2>1 DEF CoSafe
<1>2. ASSUME \A g \in Handlers : co'[g] = co[g] \/ co'[g] = Idle
      PROVE  CoSafe'
  <2>1. ASSUME NEW g \in Handlers, co'[g] = Idle
        PROVE  BeginSafe(co[g])' /\ ProcessSafe(co[g])'
    BY <2>1 DEF Idle, BeginSafe, ProcessSafe, Asks, ProcessSteps
  <2>2. ASSUME NEW g \in Handlers
        PROVE  BeginSafe(co[g])' /\ ProcessSafe(co[g])'
    BY <1>2, <2>1, OthersStaySafe
  <2> QED
    BY <2>2 DEF CoSafe
<1>3. ASSUME NEW h \in Handlers, Opens(h)
      PROVE  CoSafe'
  <2>1. Alone(h) /\ co'[h].pc \in {"next", "load", "idle"}
    BY <1>3, OpensFrame
  <2>2. BeginSafe(co[h])' /\ ProcessSafe(co[h])'
    BY <2>1 DEF BeginSafe, ProcessSafe, Asks, ProcessSteps
  <2> QED
    BY <1>1, <2>1, <2>2
<1>4. ASSUME NEW h \in Handlers, \/ Prepares(h) \/ CancelOperations(h) \/ CreateDelete(h)
                                 \/ AskDelete(h) \/ Process(h)
      PROVE  CoSafe'
  BY <1>1, <1>4, BeginStaysSafe, ProcessStaysSafe
<1>5. ASSUME NEW i \in DOMAIN op, RowStep(i)
      PROVE  CoSafe'
  BY <1>2, <1>5, RowStepWrites
<1>6. ~Crash
  BY DEF Crash, May, Overlooks
<1>7. ASSUME Worker \/ Dashboard \/ UNCHANGED vars \/ \E a \in Accounts : Expire(a)
      PROVE  CoSafe'
  BY <1>2, <1>7, WorkerFrame DEF Dashboard, vars, Expire
<1>8. ASSUME NEW a \in Accounts, NEW kind \in {"write", "delete"}, Message(a, kind)
      PROVE  CoSafe'
  BY <1>2, <1>8, MessageFrame
<1> QED
  BY <1>3, <1>4, <1>5, <1>6, <1>7, <1>8, NextCases

\* A key holds the deletions of every account its target still has.
LEMMA KeysStaySettled ==
    ASSUME TypeInv, ~Overlooks, [Next]_vars, GoneBody, Evolves
    PROVE  KeyInv'
<1> SUFFICES ASSUME NEW t \in Targets, state'[t] # None
             PROVE  Settled(t, state[t].ops)'
  BY DEF KeyInv
<1>1. ASSUME NEW M, Settled(t, M), Closed(t), state'[t].ops = M
      PROVE  Settled(t, state[t].ops)'
  <2>1. Settled(t, M)'
    BY <1>1, SettledStays
  <2> QED
    BY <1>1, <2>1
<1>2. CASE state'[t] = state[t]
  <2>1. Settled(t, state[t].ops) /\ Closed(t)
    BY <1>2 DEF GoneBody, KeyInv, Closed, Underway
  <2>2. PICK M : M = state[t].ops
    OBVIOUS
  <2>3. Settled(t, M)
    BY <2>1, <2>2
  <2> QED
    BY <1>1, <1>2, <2>1, <2>2, <2>3
<1>3. CASE state'[t] # state[t]
  <2>1. PICK h \in Handlers : co[h].t = t /\ (SaveState(h) \/ Writes(h) \/ DropState(h))
    BY <1>3, KeyMoves
  <2>2. PICK M : M = co[h].made
    OBVIOUS
  <2>3. BeginSafe(co[h]) /\ ProcessSafe(co[h])
    BY DEF GoneBody, CoSafe
  <2>4. CASE SaveState(h)
    <3>1. co[h].pc = "create" /\ co[h].left = {} /\ co[h].job = "begin" /\ state'[t].ops = M
      BY <2>1, <2>2, <2>4, SaveStateFrame
    <3>2. Settled(t, M)
      BY <2>1, <2>2, <2>3, <3>1 DEF BeginSafe, Settled, Covers, Asks
    <3>3. Closed(t)
      BY <2>1, <3>1 DEF Closed, Underway, Beginning
    <3> QED
      BY <1>1, <3>1, <3>2, <3>3
  <2>5. CASE Writes(h)
    <3>1. co[h].pc \in {"hold", "block", "mark"} /\ state'[t].ops = M
      BY <2>1, <2>2, <2>5, WritesFrame
    <3>2. Settled(t, M) /\ Closed(t)
      BY <2>1, <2>2, <2>3, <3>1 DEF ProcessSafe, ProcessSteps, Hangs, Closed, Underway
    <3> QED
      BY <1>1, <3>1, <3>2
  <2>6. ~DropState(h)
    BY <2>1, DropStateFrame
  <2> QED
    BY <2>1, <2>4, <2>5, <2>6
<1> QED
  BY <1>2, <1>3

\* The worker waits for the process_all it asked for.
LEMMA OneProcessStays ==
    ASSUME TypeInv, OneProcess, [Next]_vars
    PROVE  OneProcess'
<1>1. ASSUME UNCHANGED worker,
             \A g \in Handlers : co'[g].job = "process" => co[g].job = "process"
      PROVE  OneProcess'
  BY <1>1, SameFaults DEF OneProcess
<1>2. ASSUME NEW h \in Handlers, Opens(h)
      PROVE  OneProcess'
  <2>1. Alone(h) /\ (co'[h].pc = "load" <=> co'[h].job = "process")
    BY <1>2, OpensFrame
  <2>2. CASE co'[h].job = "process"
    <3>1. ~BeginRequest(h) /\ ~Unheard(h)
      <4>1. ASSUME BeginRequest(h)
            PROVE  co'[h].pc = "next"
        <5>1. PICK todo : Become(h, [Idle EXCEPT !.job = "begin", !.pc = "next", !.todo = todo])
          BY <4>1 DEF BeginRequest
        <5> DEFINE c == [Idle EXCEPT !.job = "begin", !.pc = "next", !.todo = todo]
        <5>2. c.pc = "next" /\ Become(h, c)
          BY <5>1 DEF Idle
        <5> HIDE DEF c
        <5> QED
          BY <5>2, AloneBecomes
      <4>2. Unheard(h) => co'[h].pc = "idle"
        BY AloneBecomes DEF Unheard, Finish, Idle
      <4> QED
        BY <2>1, <2>2, <4>1, <4>2
    <3>2. worker.pc = "sleep" /\ worker' = [worker EXCEPT !.pc = "processing"]
      BY <1>2, <3>1 DEF Opens, ProcessRequest
    <3>3. worker'.pc = "processing"
      BY <3>2 DEF TypeInv, WorkerTyped
    <3>4. "abandon" \notin faults => \A g \in Handlers : co[g].job # "process"
      BY <3>2 DEF OneProcess
    <3> QED
      BY <2>1, <3>3, <3>4, SameFaults DEF OneProcess, Alone
  <2>3. CASE co'[h].job # "process"
    <3>1. UNCHANGED worker
      <4>1. ~ProcessRequest(h)
        <5> DEFINE c == [Idle EXCEPT !.job = "process", !.pc = "load",
                                     !.todo = {t \in Targets : state[t] # None}]
        <5>1. c.pc = "load" /\ (ProcessRequest(h) => Become(h, c))
          BY DEF ProcessRequest, Idle
        <5> HIDE DEF c
        <5>2. ProcessRequest(h) => co'[h].pc = "load"
          BY <5>1, AloneBecomes
        <5> QED
          BY <2>1, <2>3, <5>2
      <4> QED
        BY <1>2, <4>1 DEF Opens, BeginRequest, Unheard
    <3> QED
      BY <1>1, <2>1, <2>3, <3>1 DEF Alone
  <2> QED
    BY <2>2, <2>3
<1>3. ASSUME NEW h \in Handlers, \/ Prepares(h) \/ CancelOperations(h) \/ CreateDelete(h)
                                 \/ AskDelete(h) \/ Process(h)
      PROVE  OneProcess'
  <2>1. CASE Prepares(h) \/ CreateDelete(h) \/ AskDelete(h) \/ Process(h)
    <3>1. UNCHANGED worker /\ Alone(h) /\ (co'[h].job = "process" => co[h].job = "process")
      BY <2>1, PreparesFrame, CreateDeleteFrame, AskDeleteFrame, ProcessFrame
    <3> QED
      BY <1>1, <3>1 DEF Alone
  <2>2. CASE CancelOperations(h)
    <3>1. UNCHANGED worker /\ \E c : Become(h, c) /\ c.job = co[h].job
      <4>1. co[h] \in Coroutines
        BY CoOf DEF TypeInv
      <4>2. /\ [co[h] EXCEPT !.pc = "requests"].job = co[h].job
            /\ \A i : [co[h] EXCEPT !.left = @ \ {i}].job = co[h].job
        BY <4>1 DEF Coroutines
      <4> QED
        BY <2>2, <4>2 DEF CancelOperations, Goto
    <3>2. Alone(h) /\ co'[h].job = co[h].job
      BY <3>1, AloneBecomes
    <3> QED
      BY <1>1, <3>1, <3>2 DEF Alone
  <2> QED
    BY <1>3, <2>1, <2>2
<1>4. CASE Worker
  <2>1. CASE worker.pc = "processing" /\ "abandon" \notin faults
    <3>1. PICK h \in Handlers : At(h, "answered") /\ Finish(h)
      BY <1>4, <2>1 DEF Worker, WorkerGoesOn, UpsertRole, ReconcileRows, SaveKnown, EndCycle, May
    <3>2. Alone(h) /\ co'[h].job = "none"
      BY <3>1, AloneBecomes DEF Finish, Idle
    <3>3. co[h].job = "process"
      <4>1. StepTyped(co[h]) /\ co[h] \in Coroutines
        BY CoOf DEF TypeInv
      <4> QED
        BY <3>1, <4>1 DEF StepTyped, At, Coroutines, BeginSteps
    <3> QED
      BY <2>1, <3>2, <3>3 DEF OneProcess, Alone
  <2>2. CASE worker.pc # "processing" /\ "abandon" \notin faults
    <3>1. UNCHANGED co
      BY <1>4, <2>2 DEF Worker, WorkerGoesOn, UpsertRole, ReconcileRows, SaveKnown, EndCycle
    <3> QED
      BY <2>2, <3>1 DEF OneProcess
  <2> QED
    BY <2>1, <2>2, SameFaults DEF OneProcess
<1>5. ASSUME NEW i \in DOMAIN op, RowStep(i)
      PROVE  OneProcess'
  BY <1>1, <1>5, RowStepWrites
<1>6. ASSUME Crash
      PROVE  OneProcess'
  BY <1>6 DEF Crash, OneProcess, Idle
<1>7. ASSUME Dashboard \/ UNCHANGED vars \/ \E a \in Accounts : Expire(a)
      PROVE  OneProcess'
  BY <1>1, <1>7 DEF Dashboard, vars, Expire
<1>8. ASSUME NEW a \in Accounts, NEW kind \in {"write", "delete"}, Message(a, kind)
      PROVE  OneProcess'
  BY <1>1, <1>8, MessageFrame
<1> QED
  BY <1>2, <1>3, <1>4, <1>5, <1>6, <1>7, <1>8, NextCases

\* A target is removed by a process_all that saw its deletions succeed, and stays
\* empty as long as nobody creates it again.
LEMMA RemovedStayEmpty ==
    ASSUME TypeInv, ~Overlooks, [Next]_vars, GoneBody, Evolves
    PROVE  RemovedInv'
<1>1. ASSUME NEW t \in Targets, Dead(t), Held(t) = {}, Closed(t)
      PROVE  Dead(t)' /\ Held(t)' = {}
  BY <1>1, DeadStays, HeldShrinks
<1>2. ASSUME NEW t \in Removed
      PROVE  Dead(t)' /\ Held(t)' = {}
  BY <1>1, <1>2 DEF GoneBody, RemovedInv, Removed, Closed, TypeInv, HistoryTyped
<1>3. CASE gone' = gone /\ OnFile \subseteq OnFile'
  BY <1>2, <1>3 DEF RemovedInv, Removed
<1>4. ASSUME NEW h \in Handlers, RemoveTarget(h), gone' = gone \cup {co[h].t},
             OnFile' = OnFile \ {co[h].t}
      PROVE  RemovedInv'
  <2>1. PICK t \in Targets : t = co[h].t
    BY <1>4, RemoveTargetFrame
  <2>2. co[h].pc = "remove" /\ ProcessSafe(co[h])
    BY <1>4 DEF RemoveTarget, At, GoneBody, CoSafe
  <2>3. Dead(t) /\ Held(t) = {} /\ Closed(t)
    BY <2>1, <2>2 DEF ProcessSafe, ProcessSteps, Settled, Hangs, Closed, Underway
  <2>4. Dead(t)' /\ Held(t)' = {}
    BY <1>1, <2>3
  <2> QED
    BY <1>2, <1>4, <2>1, <2>4 DEF RemovedInv, Removed
<1> QED
  BY <1>3, <1>4, FileMoves

LEMMA GonePreserved ==
    ASSUME TypeInv, CancelInv, GoneInv, [Next]_vars
    PROVE  GoneInv'
<1> SUFFICES ASSUME ~Overlooks, GoneBody
             PROVE  GoneBody'
  BY SameFaults DEF GoneInv, Overlooks
<1>1. RowInv /\ AccountInv
  BY DEF GoneBody
<1>2. KeysEmpty
  BY DEF GoneBody, CoSafe, ProcessSafe, KeysEmpty
<1>3. Evolves
  BY <1>1, TargetsEvolve
<1>4. RowInv' /\ AccountInv'
  BY <1>1, <1>2, RowsPreserved, AccountsPreserved
<1>5. KeyInv' /\ CoSafe' /\ OneProcess' /\ RemovedInv'
  BY <1>3, KeysStaySettled, SafeStays, OneProcessStays, RemovedStayEmpty DEF GoneBody
<1> QED
  BY <1>4, <1>5 DEF GoneBody

LEMMA GoneInit ==
    ASSUME Init
    PROVE  GoneInv
<1>1. TypeInv
  BY InitTyped
<1>2. \A i \in DOMAIN op : op[i].status = "SUCCESS" /\ op[i].step = "rest" /\ op[i].deco = FALSE
  BY DEF Init
<1>3. \A i \in DOMAIN op : op[i].kind = "write" /\ op[i].a \in account
  BY DEF Init
<1>4. /\ snapshot = account /\ gone = {} /\ \A h \in Handlers : co[h] = Idle
      /\ \A t \in Targets : state[t] # None => AccountsOf(t) = {} /\ state[t].ops = {}
  BY DEF Init
<1>5. \A a \in account : \E i \in DOMAIN op : op[i].a = a
  BY DEF Init
<1>6. RowInv
  BY <1>2 DEF RowInv, Shape, PastBefore, Past, Over
<1>7. AccountInv
  <2>1. ASSUME NEW a \in account
        PROVE  \E j \in DOMAIN op : Last(a, j)
    <3>1. PICK j \in DOMAIN op : op[j].a = a /\ \A k \in DOMAIN op : op[k].a = a => k <= j
      BY <1>1, <1>5, LatestRow DEF TypeInv, OpTyped, WorldTyped
    <3>2. \A k \in DOMAIN op : ~(k > j /\ op[k].a = a)
      BY <1>1, <3>1 DEF TypeInv, OpTyped
    <3> QED
      BY <1>2, <1>3, <3>1, <3>2 DEF Last, Ran
  <2> QED
    BY <1>4, <2>1 DEF AccountInv, Noted
<1>8. KeyInv
  <2>1. ASSUME NEW t \in Targets, state[t] # None
        PROVE  RowsOf(t) = {} /\ Held(t) = {} /\ state[t].ops = {}
    BY <1>1, <1>3, <1>4, <2>1 DEF RowsOf, Held, AccountsOf, TypeInv, WorldTyped
  <2> QED
    BY <2>1 DEF KeyInv, Settled, Dead, Covers
<1>9. CoSafe /\ OneProcess
  BY <1>4 DEF CoSafe, OneProcess, BeginSafe, ProcessSafe, Idle, Asks, ProcessSteps
<1>10. RemovedInv
  BY <1>4 DEF RemovedInv, Removed
<1> QED
  BY <1>6, <1>7, <1>8, <1>9, <1>10 DEF GoneInv, GoneBody

\* A target a decommission removed holds no account, whatever is rejected or
\* fails, however many begins and attempts of the worker overlap and also when
\* the target is created again and removed again: everything but the ways to
\* overlook an account that AccountsGone names.
THEOREM RemovedAreEmpty == Spec => []AccountsGone
<1>1. Init => TypeInv /\ CancelInv /\ GoneInv
  <2>1. Init => CancelInv
    BY DEF Init, CancelInv, At, Idle
  <2> QED
    BY <2>1, InitTyped, GoneInit
<1>2. TypeInv /\ CancelInv /\ GoneInv /\ [Next]_vars => TypeInv' /\ CancelInv' /\ GoneInv'
  BY NextTyped, CancelPreserved, GonePreserved
<1>3. GoneInv => AccountsGone
  BY DEF GoneInv, GoneBody, RemovedInv, Held, AccountsGone
<1> QED
  BY <1>1, <1>2, <1>3, PTL DEF Spec

-----------------------------------------------------------------------------
\* Nothing of a removed target is left.  That is about more than the accounts,
\* and holds under more faults: also when the API stops, an operation fails
\* half-way or a snapshot expires.  So the argument is another one.

Quiet == {"late", "race", "abandon"} \cap faults = {}

DecosDelete == \A i \in DOMAIN op : op[i].deco => op[i].kind = "delete"

\* What is over stays over, and a write is only added to a target in use.
Settles == /\ Grows
           /\ \A i \in DOMAIN op : Past(i) => Past(i)'
           /\ \A i \in DOMAIN op' : i \notin DOMAIN op /\ op'[i].kind = "write" =>
                 LET t == Home[op'[i].a] IN t \in OnFile /\ ~Underway(t)

LEMMA RowsSettle ==
    ASSUME TypeInv, CancelInv, DecosDelete, Quiet, [Next]_vars
    PROVE  Settles /\ DecosDelete'
<1> USE DEF Settles
<1> DEFINE Goal == Settles /\ DecosDelete'
<1>a. op \in Seq(OperationType) /\ DOMAIN op = 1..Len(op) /\ Len(op) \in Nat
  BY DEF TypeInv, OpTyped
<1>b. ASSUME UNCHANGED op
      PROVE  Goal
  BY <1>a, <1>b, SameRows DEF DecosDelete, Past
<1>c. ASSUME NEW i \in DOMAIN op, NEW s \in Statuses, NEW p \in OpSteps, Row(i, s, p),
             Past(i) => p = "rest" /\ s \in Over
      PROVE  Goal
  <2>1. /\ DOMAIN op' = DOMAIN op /\ op'[i].status = s /\ op'[i].step = p /\ Grows
        /\ \A j \in DOMAIN op : j # i => op'[j] = op[j]
    BY <1>a, <1>c, RowChange
  <2> QED
    BY <1>c, <2>1 DEF DecosDelete, Past, Grows
<1>d. ASSUME NEW a \in Accounts, NEW kind \in {"write", "delete"}, NEW d \in BOOLEAN,
             op' = Append(op, New(a, kind, d)), d => kind = "delete",
             kind = "write" => Home[a] \in OnFile /\ ~Underway(Home[a])
      PROVE  Goal
  <2>1. /\ DOMAIN op' = DOMAIN op \cup {Len(op) + 1} /\ op'[Len(op) + 1] = New(a, kind, d)
        /\ \A j \in DOMAIN op : op'[j] = op[j]
        /\ Grows
    BY <1>a, <1>d, RowAdded
  <2>2. /\ op'[Len(op) + 1].a = a /\ op'[Len(op) + 1].kind = kind
        /\ op'[Len(op) + 1].deco = d
    BY <2>1 DEF New
  <2> QED
    BY <1>d, <2>1, <2>2 DEF DecosDelete, Past
<1>1. ASSUME NEW a \in Accounts, NEW kind \in {"write", "delete"}, Message(a, kind)
      PROVE  Goal
  BY <1>1, <1>d, MessageFrame DEF Quiet
<1>2. ASSUME NEW h \in Handlers, CreateDelete(h)
      PROVE  Goal
  <2>1. PICK a \in Accounts : op' = Append(op, New(a, "delete", TRUE))
    BY <1>2, CreateDeleteFrame
  <2> QED
    BY <1>d, <2>1
<1>3. ASSUME NEW h \in Handlers, Opens(h) \/ Prepares(h) \/ Process(h)
      PROVE  Goal
  BY <1>3, <1>b, OpensFrame, PreparesFrame, ProcessFrame
<1>4. ASSUME Worker \/ Dashboard \/ UNCHANGED vars \/ \E a \in Accounts : Expire(a)
      PROVE  Goal
  BY <1>4, <1>b, WorkerFrame DEF Dashboard, vars, tables, Expire
<1>5. ASSUME NEW i \in DOMAIN op, RowStep(i)
      PROVE  Goal
  <2>1. PICK s \in Statuses, p \in OpSteps : Row(i, s, p)
    BY <1>5, RowStepWrites
  <2>2. ASSUME Past(i)
        PROVE  p = "rest" /\ s \in Over
    <3>1. Retry(i)
      BY <1>5, <2>2 DEF RowStep, Past, Over, AskApproval, Answer, Decide, Call, Succeed, MarkUser
    <3>2. Row(i, "RETRYING", "rest") \/ Row(i, "DLQ", "rest")
      BY <3>1 DEF Retry
    <3>3. op'[i].step = "rest" /\ op'[i].status \in Over
      BY <1>a, <3>2, RowChange DEF Over, Statuses, OpSteps
    <3> QED
      BY <1>a, <2>1, <3>3, RowChange
  <2> QED
    BY <1>c, <2>1, <2>2
<1>6. ASSUME NEW h \in Handlers, CancelOperations(h)
      PROVE  Goal
  <2>1. ASSUME NEW i \in co[h].left, op' = [op EXCEPT ![i].status = "FAILED"]
        PROVE  Goal
    <3>1. i \in DOMAIN op /\ op[i].step = "rest"
      BY <1>6, <2>1, LeftRows DEF CancelInv, CancelOperations, At, Quiet, Waits
    <3>2. op[i] \in OperationType /\ "rest" \in OpSteps
      BY <1>a, <3>1, RowOf DEF OpSteps
    <3>3. [op[i] EXCEPT !.status = "FAILED"] = [op[i] EXCEPT !.status = "FAILED", !.step = "rest"]
      BY <3>1, <3>2 DEF OperationType
    <3>4. Row(i, "FAILED", "rest")
      BY <2>1, <3>1, <3>2, <3>3 DEF Row
    <3> QED
      BY <1>c, <3>1, <3>2, <3>4 DEF Statuses, Over
  <2> QED
    BY <1>6, <1>b, <2>1 DEF CancelOperations
<1>7. ASSUME NEW h \in Handlers, AskDelete(h)
      PROVE  Goal
  <2>1. PICK i \in DOMAIN op, s \in {"APPROVAL_PENDING", "FAILED"} :
            Row(i, s, "rest") /\ op[i].step = "asking"
    BY <1>7, AskDeleteFrame
  <2> QED
    BY <1>c, <2>1 DEF Past, Statuses, OpSteps
<1>8. ASSUME Crash
      PROVE  Goal
  <2>1. /\ DOMAIN op' = DOMAIN op
        /\ \A i \in DOMAIN op : op'[i] = op[i] \/ op'[i] = [op[i] EXCEPT !.step = "rest"]
    BY <1>8 DEF Crash
  <2>2. \A i \in DOMAIN op : /\ op'[i].status = op[i].status /\ op'[i].a = op[i].a
                             /\ op'[i].kind = op[i].kind /\ op'[i].deco = op[i].deco
                             /\ op[i].step = "rest" => op'[i].step = "rest"
    BY <1>a, <2>1, RowOf DEF OperationType
  <2> QED
    BY <2>1, <2>2 DEF Grows, DecosDelete, Past
<1> HIDE DEF Goal
<1>9. Goal
  BY <1>1, <1>2, <1>3, <1>4, <1>5, <1>6, <1>7, <1>8, NextCases
<1> QED
  BY <1>9 DEF Goal

LEMMA StaysDead ==
    ASSUME Settles, NEW t \in Targets, Closed(t), NEW L,
           \A i \in RowsOf(t) : op[i].kind = "write" => Past(i) \/ i \in L
    PROVE  \A i \in RowsOf(t)' : op'[i].kind = "write" => Past(i)' \/ i \in L
<1> SUFFICES ASSUME NEW i \in RowsOf(t)', op'[i].kind = "write"
             PROVE  Past(i)' \/ i \in L
  OBVIOUS
<1>1. i \in DOMAIN op
  BY DEF Settles, RowsOf, Closed
<1>2. i \in RowsOf(t) /\ op[i].kind = "write"
  BY <1>1, RowsOfStay DEF Settles, Grows
<1> QED
  BY <1>1, <1>2 DEF Settles

LEMMA DeadStaysDead ==
    ASSUME Settles, NEW t \in Targets, Closed(t), Dead(t)
    PROVE  Dead(t)'
<1> SUFFICES ASSUME NEW i \in RowsOf(t)', op'[i].kind = "write"
             PROVE  Past(i)'
  BY DEF Dead
<1>1. i \in DOMAIN op
  BY DEF Settles, RowsOf, Closed
<1>2. i \in RowsOf(t) /\ op[i].kind = "write"
  BY <1>1, RowsOfStay DEF Settles, Grows
<1> QED
  BY <1>1, <1>2 DEF Settles, Dead

\* What begin and process_all have done with their target, by now.
BeginKnows(c) ==
    /\ c.pc = "cancel" => \A i \in RowsOf(c.t) : op[i].kind = "write" => Past(i) \/ i \in c.left
    /\ c.pc \in {"requests", "scan", "create", "ask"} => Dead(c.t)

Unstored(t) == AccountsOf(t) \cap snapshot = {}
ProcessKnows(c) ==
    /\ c.pc \in ProcessSteps => state[c.t] # None
    /\ c.pc \in {"rows", "inventory", "keys", "remove"} => c.t \notin role
    /\ c.pc \in {"inventory", "keys", "remove"} => request[c.t] = "none"
    /\ c.pc \in {"keys", "remove"} => c.t \notin inventory
    /\ c.pc = "remove" => Unstored(c.t)

\* The worker at its own work deals with targets that are listed.
Syncing == {"sync", "post", "save"}
WorkerKnows ==
    worker.pc \in Syncing =>
        /\ worker.todo \subseteq OnFile /\ worker.known \cap Removed = {}
        /\ worker.pc \in {"post", "save"} => worker.t \in OnFile

\* A role has its rows, unless the worker is about to write them.
RolesHaveRows ==
    \A t \in role : t \in inventory \/ (worker.pc = "post" /\ worker.t = t)

Left(t) == t \in role \cup inventory \cup known \/ request[t] # "none" \/ ~Unstored(t)

ResidueBody ==
    /\ DecosDelete /\ OneProcess /\ RolesHaveRows /\ WorkerKnows
    /\ \A h \in Handlers : BeginKnows(co[h]) /\ ProcessKnows(co[h])
    /\ \A t \in Targets : state[t] # None => Dead(t)
    /\ \A t \in Removed : Dead(t) /\ ~Left(t)

ResidueInv == Quiet => ResidueBody

-----------------------------------------------------------------------------
\* What comes back, and by whom: roles, rows and the state file by the worker,
\* a snapshot by an operation that wrote an account.
Restores(t) ==
    /\ t \in role' => t \in role \/ (worker.pc = "sync" /\ t \in worker.todo)
    /\ t \in inventory' => t \in inventory \/ (worker.pc = "post" /\ worker.t = t)
    /\ request'[t] # "none" => request[t] # "none" \/ (worker.pc = "post" /\ worker.t = t)
    /\ t \in known' => t \in known \/ (worker.pc = "save" /\ t \in worker.known)

Stores(a) ==
    a \in snapshot' => a \in snapshot \/ \E i \in DOMAIN op :
                                            op[i].a = a /\ op[i].kind = "write" /\ op[i].step = "marking"

LEMMA WorkerRestores ==
    ASSUME TypeInv, Worker, NEW t \in Targets
    PROVE  Restores(t)
<1>1. CASE WorkerGoesOn \/ EndCycle
  BY <1>1 DEF WorkerGoesOn, EndCycle, tables, outside, Restores
<1>2. ASSUME NEW u \in Targets, UpsertRole(u)
      PROVE  Restores(t)
  BY <1>2 DEF UpsertRole, tables, Restores
<1>3. CASE ReconcileRows
  BY <1>3 DEF ReconcileRows, outside, Restores, TypeInv, WorldTyped
<1>4. CASE SaveKnown
  BY <1>4 DEF SaveKnown, tables, outside, Restores
<1> QED
  BY <1>1, <1>2, <1>3, <1>4 DEF Worker

LEMMA ProcessRestores ==
    ASSUME TypeInv, NEW h \in Handlers, Process(h), NEW t \in Targets
    PROVE  Restores(t) /\ snapshot' \subseteq snapshot
<1>1. CASE LoadState(h) \/ CheckStatuses(h) \/ Hold(h) \/ MarkCleaning(h) \/ DropState(h)
  BY <1>1 DEF LoadState, CheckStatuses, Hold, MarkCleaning, DropState, tables, redis, outside,
              Restores
<1>2. CASE CleanMidPoint(h)
  BY <1>2 DEF CleanMidPoint, tables, redis, Restores
<1>3. CASE DeleteRows(h)
  BY <1>3, JobOf DEF DeleteRows, redis, outside, Restores, TypeInv, WorldTyped
<1>4. CASE DeleteUserStates(h) \/ RemoveTarget(h)
  BY <1>4 DEF DeleteUserStates, RemoveTarget, tables, redis, outside, Restores
<1> QED
  BY <1>1, <1>2, <1>3, <1>4 DEF Process

LEMMA MarkStores ==
    ASSUME TypeInv, NEW i \in DOMAIN op, RowStep(i), NEW a \in Accounts
    PROVE  Stores(a)
<1>1. CASE MarkUser(i)
  <2>1. op[i].step = "marking" /\ op[i].kind \in {"write", "delete"}
    BY <1>1, RowOf DEF MarkUser, TypeInv, OpTyped
  <2> QED
    BY <1>1, <2>1 DEF MarkUser, Stores
<1>2. CASE ~MarkUser(i)
  <2>1. UNCHANGED snapshot
    BY <1>2 DEF RowStep, AskApproval, Answer, Decide, Call, Succeed, Retry, redis
  <2> QED
    BY <2>1 DEF Stores
<1> QED
  BY <1>1, <1>2

LEMMA Restored ==
    ASSUME TypeInv, [Next]_vars, NEW t \in Targets
    PROVE  Restores(t) /\ \A a \in Accounts : Stores(a)
<1> DEFINE Goal == Restores(t) /\ \A a \in Accounts : Stores(a)
<1>a. ASSUME UNCHANGED <<role, inventory, request, known>>, snapshot' \subseteq snapshot
      PROVE  Goal
  BY <1>a DEF Restores, Stores
<1>1. ASSUME NEW h \in Handlers, Opens(h) \/ CreateDelete(h) \/ AskDelete(h) \/ CancelOperations(h)
      PROVE  Goal
  BY <1>1, <1>a DEF Opens, BeginRequest, ProcessRequest, Unheard, CreateDelete, AskDelete,
                    CancelOperations, tables, redis, outside
<1>2. ASSUME NEW h \in Handlers, Prepares(h)
      PROVE  Goal
  <2>1. CASE CancelRequests(h)
    <3>1. request'[t] # "none" => request[t] # "none"
      BY <2>1 DEF CancelRequests, TypeInv, WorldTyped
    <3> QED
      BY <2>1, <3>1 DEF CancelRequests, redis, outside, Restores, Stores
  <2>2. CASE ~CancelRequests(h)
    BY <1>2, <2>2, <1>a DEF Prepares, BeginTarget, ListOperations, ScanSnapshots, SaveState,
                            tables, redis, outside
  <2> QED
    BY <2>1, <2>2
<1>3. ASSUME NEW h \in Handlers, Process(h)
      PROVE  Goal
  BY <1>3, ProcessRestores DEF Stores
<1>4. ASSUME Worker
      PROVE  Goal
  BY <1>4, WorkerRestores, WorkerFrame DEF Stores
<1>5. ASSUME NEW i \in DOMAIN op, RowStep(i)
      PROVE  Goal
  BY <1>5, MarkStores, RowStepWrites DEF Restores
<1>6. ASSUME Crash \/ Dashboard \/ UNCHANGED vars
      PROVE  Goal
  BY <1>6, <1>a DEF Crash, Dashboard, vars, tables, redis, outside
<1>7. ASSUME NEW a \in Accounts, Expire(a)
      PROVE  Goal
  BY <1>7, <1>a DEF Expire, tables, outside
<1>8. ASSUME NEW a \in Accounts, NEW kind \in {"write", "delete"}, Message(a, kind)
      PROVE  Goal
  BY <1>8, <1>a DEF Message, redis, outside
<1> HIDE DEF Goal
<1>9. Goal
  BY <1>1, <1>2, <1>3, <1>4, <1>5, <1>6, <1>7, <1>8, NextCases
<1> QED
  BY <1>9 DEF Goal

\* No snapshot of a dead target comes back.
LEMMA StaysUnstored ==
    ASSUME TypeInv, [Next]_vars, NEW t \in Targets, Dead(t), Unstored(t)
    PROVE  Unstored(t)'
<1>1. AccountsOf(t)' = AccountsOf(t)
  BY DEF AccountsOf
<1>2. ASSUME NEW a \in AccountsOf(t), a \in snapshot'
      PROVE  FALSE
  <2>1. a \in Accounts /\ Home[a] = t /\ a \notin snapshot
    BY DEF AccountsOf, Unstored
  <2>2. PICK i \in DOMAIN op : op[i].a = a /\ op[i].kind = "write" /\ op[i].step = "marking"
    BY <1>2, <2>1, Restored DEF Stores
  <2> QED
    BY <2>1, <2>2 DEF Dead, RowsOf, Past
<1> QED
  BY <1>1, <1>2 DEF Unstored

\* While begin is at work nothing new comes to its target, so what it found stays.
LEMMA BeginKnowsStays ==
    ASSUME Settles, NEW c, BeginKnows(c), c.pc \in BeginSteps => c.t \in Targets /\ Closed(c.t)
    PROVE  BeginKnows(c)'
<1>1. CASE c.pc = "cancel"
  <2>1. c.t \in Targets /\ Closed(c.t)
    BY <1>1 DEF BeginSteps
  <2>2. \A i \in RowsOf(c.t) : op[i].kind = "write" => Past(i) \/ i \in c.left
    BY <1>1 DEF BeginKnows
  <2>3. \A i \in RowsOf(c.t)' : op'[i].kind = "write" => Past(i)' \/ i \in c.left
    BY <2>1, <2>2, StaysDead
  <2> QED
    BY <1>1, <2>3 DEF BeginKnows
<1>2. CASE c.pc \in {"requests", "scan", "create", "ask"}
  <2>1. c.t \in Targets /\ Closed(c.t) /\ Dead(c.t)
    BY <1>2 DEF BeginSteps, BeginKnows
  <2>2. Dead(c.t)'
    BY <2>1, DeadStaysDead
  <2> QED
    BY <1>2, <2>2 DEF BeginKnows
<1> QED
  BY <1>1, <1>2 DEF BeginKnows

LEMMA BeginIsClosed ==
    ASSUME TypeInv, NEW h \in Handlers, co[h].pc \in BeginSteps
    PROVE  co[h].t \in Targets /\ Closed(co[h].t)
  BY JobOf DEF Closed, Underway, Beginning

LEMMA ListKnows ==
    ASSUME TypeInv, DecosDelete, Quiet, NEW h \in Handlers, ListOperations(h)
    PROVE  Alone(h) /\ BeginKnows(co[h])'
<1>1. /\ Alone(h) /\ co[h].t \in Targets /\ co'[h].t = co[h].t
      /\ co'[h].pc = "cancel" /\ co'[h].left = Cancellable(co[h].t)
  BY ListFrame
<1>2. UNCHANGED op
  BY DEF ListOperations, tables
<1>3. \A i \in RowsOf(co[h].t) : op[i].step = "rest"
  BY DEF ListOperations, Quiet, May
<1>4. ASSUME NEW i \in RowsOf(co[h].t), op[i].kind = "write"
      PROVE  Past(i) \/ i \in Cancellable(co[h].t)
  <2>1. i \in DOMAIN op /\ ~op[i].deco
    BY <1>4 DEF RowsOf, DecosDelete
  <2>2. op[i].status \in Statuses
    BY <2>1, RowOf DEF TypeInv, OpTyped, OperationType
  <2> QED
    BY <1>3, <1>4, <2>1, <2>2 DEF Cancellable, Past, Over, Statuses, Open
<1>5. PICK t, L : t = co[h].t /\ L = Cancellable(t)
  OBVIOUS
<1>6. \A i \in RowsOf(t) : op[i].kind = "write" => Past(i) \/ i \in L
  BY <1>4, <1>5
<1>7. \A i \in RowsOf(t)' : op'[i].kind = "write" => Past(i)' \/ i \in L
  BY <1>2, <1>6 DEF RowsOf, Past
<1> QED
  BY <1>1, <1>5, <1>7 DEF BeginKnows

LEMMA CancelRowKnows ==
    ASSUME TypeInv, CancelInv, Quiet, Settles, NEW h \in Handlers, NEW i \in co[h].left,
           co[h].pc = "cancel", BeginKnows(co[h]),
           op' = [op EXCEPT ![i].status = "FAILED"],
           Become(h, [co[h] EXCEPT !.left = @ \ {i}])
    PROVE  Alone(h) /\ BeginKnows(co[h])'
<1>1. co[h] \in Coroutines
  BY CoOf DEF TypeInv
<1> DEFINE c == [co[h] EXCEPT !.left = @ \ {i}]
<1>2. Become(h, c)
  OBVIOUS
<1>3. c.left = co[h].left \ {i} /\ c.pc = "cancel" /\ c.t = co[h].t
  BY <1>1 DEF Coroutines
<1> HIDE DEF c
<1>4. Alone(h) /\ co'[h] = c
  BY <1>2, AloneBecomes
<1>5. i \in DOMAIN op /\ op[i].step = "rest"
  BY LeftRows DEF CancelInv, At, Quiet, Waits
<1>6. op[i] \in OperationType /\ op \in Seq(OperationType)
  BY <1>5, RowOf DEF TypeInv, OpTyped
<1>7. op'[i].step = "rest" /\ op'[i].status = "FAILED"
  BY <1>5, <1>6 DEF OperationType
<1>8. PICK L : L = co[h].left
  OBVIOUS
<1>9. co[h].t \in Targets /\ Closed(co[h].t)
  BY BeginIsClosed DEF BeginSteps
<1>10. PICK t \in Targets : t = co[h].t
  BY <1>9
<1>11. \A j \in RowsOf(t) : op[j].kind = "write" => Past(j) \/ j \in L
  BY <1>8, <1>10 DEF BeginKnows
<1>12. \A j \in RowsOf(t)' : op'[j].kind = "write" => Past(j)' \/ j \in L
  BY <1>9, <1>10, <1>11, StaysDead
<1>13. Past(i)'
  BY <1>7 DEF Past, Over
<1>14. \A j \in RowsOf(t)' : op'[j].kind = "write" => Past(j)' \/ j \in L \ {i}
  BY <1>12, <1>13
<1>15. c.left = L \ {i} /\ c.t = t
  BY <1>3, <1>8, <1>10
<1> QED
  BY <1>3, <1>4, <1>14, <1>15 DEF BeginKnows

\* begin goes on with its target.
LEMMA BeginKeeps ==
    ASSUME TypeInv, Settles, NEW h \in Handlers, BeginKnows(co[h]), Alone(h),
           co'[h].pc \in {"idle", "next", "list"} \/
               /\ co[h].pc \in {"requests", "scan", "create", "ask"} /\ co'[h].t = co[h].t
               /\ co'[h].pc \in {"requests", "scan", "create", "ask"}
    PROVE  BeginKnows(co[h])'
<1>1. CASE co'[h].pc \in {"idle", "next", "list"}
  BY <1>1 DEF BeginKnows
<1>2. CASE /\ co[h].pc \in {"requests", "scan", "create", "ask"} /\ co'[h].t = co[h].t
           /\ co'[h].pc \in {"requests", "scan", "create", "ask"}
  <2>1. co[h].t \in Targets /\ Closed(co[h].t)
    BY <1>2, BeginIsClosed DEF BeginSteps
  <2>2. PICK t \in Targets : t = co[h].t
    BY <2>1
  <2>3. Dead(t)
    BY <1>2, <2>2 DEF BeginKnows
  <2>4. Dead(t)'
    BY <2>1, <2>2, <2>3, DeadStaysDead
  <2> QED
    BY <1>2, <2>2, <2>4 DEF BeginKnows
<1> QED
  BY <1>1, <1>2

LEMMA CancelKnows ==
    ASSUME TypeInv, CancelInv, Quiet, Settles, NEW h \in Handlers, CancelOperations(h),
           BeginKnows(co[h])
    PROVE  Alone(h) /\ BeginKnows(co[h])'
<1>1. CASE co[h].left = {} /\ Goto(h, "requests") /\ UNCHANGED op
  <2>1. Alone(h) /\ co'[h].pc = "requests" /\ co'[h].t = co[h].t /\ co[h].pc = "cancel"
    BY <1>1, Went DEF CancelOperations, At
  <2>2. PICK t : t = co[h].t
    OBVIOUS
  <2>3. Dead(t)
    BY <1>1, <2>1, <2>2 DEF BeginKnows, Dead
  <2>4. Dead(t)'
    BY <1>1, <2>3 DEF Dead, RowsOf, Past
  <2> QED
    BY <2>1, <2>2, <2>4 DEF BeginKnows
<1>2. ASSUME NEW i \in co[h].left, op' = [op EXCEPT ![i].status = "FAILED"],
             Become(h, [co[h] EXCEPT !.left = @ \ {i}])
      PROVE  Alone(h) /\ BeginKnows(co[h])'
  BY <1>2, CancelRowKnows DEF CancelOperations, At
<1> QED
  BY <1>1, <1>2 DEF CancelOperations

LEMMA ScanFrame ==
    ASSUME TypeInv, NEW h \in Handlers, ScanSnapshots(h)
    PROVE  Alone(h) /\ co[h].pc = "scan" /\ co'[h].pc = "create" /\ co'[h].t = co[h].t
<1> DEFINE c == [co[h] EXCEPT !.left = Candidates(h), !.pc = "create", !.latest = Idle.latest]
<1>1. Become(h, c)
  BY DEF ScanSnapshots
<1>2. c.pc = "create" /\ c.t = co[h].t
  BY CoOf DEF TypeInv, Coroutines
<1> HIDE DEF c
<1> QED
  BY <1>1, <1>2, AloneBecomes DEF ScanSnapshots, At

LEMMA BeginStepKnows ==
    ASSUME TypeInv, CancelInv, DecosDelete, Quiet, Settles, NEW h \in Handlers,
           BeginKnows(co[h]),
           Prepares(h) \/ CancelOperations(h) \/ CreateDelete(h) \/ AskDelete(h)
    PROVE  Alone(h) /\ BeginKnows(co[h])'
<1>1. CASE BeginTarget(h)
  BY <1>1, BeginTargetFrame, BeginKeeps
<1>2. CASE ListOperations(h)
  BY <1>2, ListKnows
<1>3. CASE CancelRequests(h)
  <2>1. Alone(h) /\ co'[h].pc = "scan" /\ co'[h].t = co[h].t /\ co[h].pc = "requests"
    BY <1>3, Went DEF CancelRequests, At
  <2> QED
    BY <2>1, BeginKeeps
<1>4. CASE ScanSnapshots(h)
  BY <1>4, ScanFrame, BeginKeeps
<1>5. CASE SaveState(h)
  BY <1>5, SaveStateFrame, BeginKeeps
<1>6. CASE CancelOperations(h)
  BY <1>6, CancelKnows
<1>7. CASE CreateDelete(h)
  BY <1>7, CreateDeleteFrame, BeginKeeps
<1>8. CASE AskDelete(h)
  <2>1. co'[h].pc = "create" => co'[h].t = co[h].t
    <3>1. PICK i \in co[h].made :
              \/ Row(i, "APPROVAL_PENDING", "rest") /\ co'[h] = [co[h] EXCEPT !.pc = "create"]
              \/ "ask" \in faults /\ Row(i, "FAILED", "rest") /\ co'[h] = Idle
      BY <1>8, AskDeleteFrame
    <3>2. co'[h] = [co[h] EXCEPT !.pc = "create"] \/ co'[h] = Idle
      BY <3>1
    <3>3. [co[h] EXCEPT !.pc = "create"].t = co[h].t /\ Idle.pc = "idle"
      BY CoOf DEF TypeInv, Coroutines, Idle
    <3> QED
      BY <3>2, <3>3
  <2> QED
    BY <1>8, <2>1, AskDeleteFrame, BeginKeeps
<1> QED
  BY <1>1, <1>2, <1>3, <1>4, <1>5, <1>6, <1>7, <1>8 DEF Prepares

\* Whose coroutine moves, and how.
LEMMA CoMoves ==
    ASSUME TypeInv, [Next]_vars, NEW g \in Handlers
    PROVE  \/ co'[g] = co[g]
           \/ co'[g].pc \in {"idle", "next", "load", "answered"}
           \/ Process(g) /\ co'[g].pc \notin BeginSteps
           \/ /\ Prepares(g) \/ CancelOperations(g) \/ CreateDelete(g) \/ AskDelete(g)
              /\ co'[g].pc \notin ProcessSteps
<1> DEFINE Goal == \/ co'[g] = co[g]
                   \/ co'[g].pc \in {"idle", "next", "load", "answered"}
                   \/ Process(g) /\ co'[g].pc \notin BeginSteps
                   \/ /\ Prepares(g) \/ CancelOperations(g) \/ CreateDelete(g) \/ AskDelete(g)
                      /\ co'[g].pc \notin ProcessSteps
<1>a. ASSUME NEW h \in Handlers, Alone(h), h # g
      PROVE  co'[g] = co[g]
  BY <1>a DEF Alone, TypeInv, CoTyped
<1>b. TypeInv'
  BY NextTyped
<1>c. co'[g].job = "process" => co'[g].pc \notin BeginSteps
  BY <1>b DEF TypeInv, CoTyped, StepTyped, BeginSteps, ProcessSteps
<1>d. co'[g].job \in {"begin", "none"} => co'[g].pc \notin ProcessSteps
  BY <1>b DEF TypeInv, CoTyped, StepTyped, BeginSteps, ProcessSteps
<1>1. ASSUME NEW h \in Handlers, Opens(h)
      PROVE  Goal
  BY <1>1, <1>a, OpensFrame
<1>2. ASSUME NEW h \in Handlers, Process(h)
      PROVE  Goal
  BY <1>2, <1>a, <1>c, ProcessFrame
<1>3. ASSUME NEW h \in Handlers, Prepares(h)
      PROVE  Goal
  BY <1>3, <1>a, <1>d, PreparesFrame
<1>4. ASSUME NEW h \in Handlers, CreateDelete(h) \/ AskDelete(h)
      PROVE  Goal
  BY <1>4, <1>a, <1>d, CreateDeleteFrame, AskDeleteFrame
<1>5. ASSUME NEW h \in Handlers, CancelOperations(h)
      PROVE  Goal
  <2>1. PICK c : Become(h, c) /\ c.pc \in {"cancel", "requests"}
    <3>1. \A L : [co[h] EXCEPT !.left = L].pc = co[h].pc
      BY CoOf DEF TypeInv, Coroutines
    <3>2. [co[h] EXCEPT !.pc = "requests"].pc = "requests"
      BY CoOf DEF TypeInv, Coroutines
    <3> QED
      BY <1>5, <3>1, <3>2 DEF CancelOperations, Goto, At
  <2>2. Alone(h) /\ co'[h].pc \in {"cancel", "requests"}
    BY <2>1, AloneBecomes
  <2> QED
    BY <1>5, <1>a, <2>2 DEF ProcessSteps
<1>6. ASSUME Worker
      PROVE  Goal
  BY <1>6, WorkerFrame DEF Idle
<1>7. ASSUME Crash
      PROVE  Goal
  BY <1>7 DEF Crash, Idle
<1>8. ASSUME Dashboard \/ UNCHANGED vars \/ \E a \in Accounts : Expire(a)
      PROVE  Goal
  BY <1>8 DEF Dashboard, vars, Expire
<1>9. ASSUME NEW i \in DOMAIN op, RowStep(i)
      PROVE  Goal
  BY <1>9, RowStepWrites
<1>10. ASSUME NEW a \in Accounts, NEW kind \in {"write", "delete"}, Message(a, kind)
      PROVE  Goal
  BY <1>10, MessageFrame
<1> HIDE DEF Goal
<1>11. Goal
  BY <1>1, <1>2, <1>3, <1>4, <1>5, <1>6, <1>7, <1>8, <1>9, <1>10, NextCases
<1> QED
  BY <1>11 DEF Goal

\* Who moves the worker.
LEMMA WorkerMoves ==
    ASSUME TypeInv, [Next]_vars
    PROVE  worker' = worker \/ Worker \/ Crash \/ \E h \in Handlers : ProcessRequest(h)
<1>1. ASSUME NEW h \in Handlers, Opens(h)
      PROVE  worker' = worker \/ ProcessRequest(h)
  BY <1>1 DEF Opens, BeginRequest, Unheard
<1>2. ASSUME NEW h \in Handlers, \/ Process(h) \/ Prepares(h) \/ CreateDelete(h) \/ AskDelete(h)
                                 \/ CancelOperations(h)
      PROVE  worker' = worker
  BY <1>2, ProcessFrame, PreparesFrame, CreateDeleteFrame, AskDeleteFrame DEF CancelOperations
<1>3. ASSUME Dashboard \/ UNCHANGED vars \/ \E a \in Accounts : Expire(a)
      PROVE  worker' = worker
  BY <1>3 DEF Dashboard, vars, Expire
<1>4. ASSUME NEW i \in DOMAIN op, RowStep(i)
      PROVE  worker' = worker
  BY <1>4, RowStepWrites
<1>5. ASSUME NEW a \in Accounts, NEW kind \in {"write", "delete"}, Message(a, kind)
      PROVE  worker' = worker
  BY <1>5, MessageFrame
<1> QED
  BY <1>1, <1>2, <1>3, <1>4, <1>5, NextCases

-----------------------------------------------------------------------------
\* The process_all at work is the only one, and the worker waits for it.
LEMMA WorkerWaits ==
    ASSUME TypeInv, Quiet, OneProcess, NEW g \in Handlers, co[g].pc \in ProcessSteps
    PROVE  /\ worker.pc = "processing" /\ co[g].t \in Targets
           /\ \A h \in Handlers : co[h].pc \in ProcessSteps => h = g
  BY JobOf DEF OneProcess, Quiet

LEMMA StateKept ==
    ASSUME TypeInv, Quiet, OneProcess, [Next]_vars, NEW g \in Handlers,
           co[g].pc \in ProcessSteps, ~DropState(g), state[co[g].t] # None
    PROVE  state'[co[g].t] # None
<1>1. PICK t \in Targets : t = co[g].t
  BY WorkerWaits
<1>2. ASSUME NEW h \in Handlers, co[h].t = t, DropState(h)
      PROVE  FALSE
  <2>1. co[h].pc \in ProcessSteps
    BY <1>2 DEF DropState, At, ProcessSteps
  <2> QED
    BY <1>2, <2>1, WorkerWaits
<1>3. ASSUME NEW h \in Handlers, co[h].t = t, SaveState(h) \/ Writes(h)
      PROVE  state'[t] # None
  BY <1>3, SaveStateFrame, WritesFrame
<1> QED
  BY <1>1, <1>2, <1>3, KeyMoves

LEMMA ProcessKnowsStays ==
    ASSUME TypeInv, Quiet, OneProcess, [Next]_vars, NEW g \in Handlers, NEW c, c = co[g],
           ~DropState(g), ProcessKnows(c), \A t \in Targets : state[t] # None => Dead(t)
    PROVE  ProcessKnows(c)'
<1>1. CASE c.pc \in ProcessSteps
  <2>1. worker.pc = "processing" /\ c.t \in Targets
    BY <1>1, WorkerWaits
  <2>2. state[c.t] # None /\ state'[c.t] # None
    BY <1>1, StateKept DEF ProcessKnows
  <2>3. Restores(c.t)
    BY <2>1, Restored
  <2>4. Unstored(c.t) => Unstored(c.t)'
    BY <2>1, <2>2, StaysUnstored
  <2> QED
    BY <2>1, <2>2, <2>3, <2>4 DEF ProcessKnows, Restores
<1>2. CASE c.pc \notin ProcessSteps
  BY <1>2 DEF ProcessKnows, ProcessSteps
<1> QED
  BY <1>1, <1>2

\* What the cleaning does with the target, one step after the other.
LEMMA CleanKnows ==
    ASSUME TypeInv, RolesHaveRows, NEW h \in Handlers, CleanMidPoint(h), ProcessKnows(co[h]),
           worker.pc = "processing"
    PROVE  ProcessKnows(co[h])'
<1>1. co[h].pc = "roles" /\ co[h].t \in Targets /\ UNCHANGED <<state, inventory>>
  BY JobOf DEF CleanMidPoint, At, tables, redis, ProcessSteps
<1>2. co'[h].t = co[h].t
  BY Went DEF CleanMidPoint, Raise
<1>3. CASE co[h].t \in Listed /\ Goto(h, "rows")
           /\ role' = IF co[h].t \in inventory THEN role \ {co[h].t} ELSE role
  <2>1. co'[h].pc = "rows"
    BY <1>3, Went
  <2>2. co[h].t \notin role'
    BY <1>1, <1>3 DEF RolesHaveRows
  <2>3. state[co[h].t] # None
    BY <1>1 DEF ProcessKnows, ProcessSteps
  <2> QED
    BY <1>1, <1>2, <2>1, <2>2, <2>3 DEF ProcessKnows
<1>4. CASE Goto(h, "answered")
  BY <1>4, Went DEF ProcessKnows, ProcessSteps
<1> QED
  BY <1>3, <1>4 DEF CleanMidPoint, Raise

LEMMA DeleteRowsKnows ==
    ASSUME TypeInv, NEW h \in Handlers, DeleteRows(h), ProcessKnows(co[h])
    PROVE  ProcessKnows(co[h])'
<1>1. UNCHANGED <<state, role>>
  BY DEF DeleteRows, redis, outside
<1>2. CASE /\ At(h, "rows") /\ request' = [request EXCEPT ![co[h].t] = "none"]
           /\ Goto(h, "inventory")
  <2>1. co[h].t \in Targets /\ co[h].t \notin role /\ state[co[h].t] # None
    BY <1>2, JobOf DEF At, ProcessKnows, ProcessSteps
  <2>2. request'[co[h].t] = "none"
    BY <1>2, <2>1 DEF TypeInv, WorldTyped
  <2>3. co'[h].pc = "inventory" /\ co'[h].t = co[h].t
    BY <1>2, Went
  <2> QED
    BY <1>1, <2>1, <2>2, <2>3 DEF ProcessKnows
<1>3. CASE /\ At(h, "inventory") /\ inventory' = inventory \ {co[h].t}
           /\ Goto(h, "keys") /\ UNCHANGED request
  <2>1. co[h].t \notin role /\ state[co[h].t] # None /\ request[co[h].t] = "none"
    BY <1>3 DEF At, ProcessKnows, ProcessSteps
  <2>2. co'[h].pc = "keys" /\ co'[h].t = co[h].t
    BY <1>3, Went
  <2> QED
    BY <1>1, <1>3, <2>1, <2>2 DEF ProcessKnows
<1> QED
  BY <1>2, <1>3 DEF DeleteRows

LEMMA DeleteKeysKnows ==
    ASSUME TypeInv, NEW h \in Handlers, DeleteUserStates(h), ProcessKnows(co[h])
    PROVE  ProcessKnows(co[h])'
<1>1. UNCHANGED <<state, role, request, inventory>> /\ co[h].pc = "keys"
  BY DEF DeleteUserStates, tables, outside, At
<1>2. co'[h].pc = "remove" /\ co'[h].t = co[h].t
  BY Went DEF DeleteUserStates
<1>3. PICK t : t = co[h].t
  OBVIOUS
<1>4. Unstored(t)'
  BY <1>3 DEF DeleteUserStates, Unstored, AccountsOf
<1>5. t \notin role /\ state[t] # None /\ request[t] = "none" /\ t \notin inventory
  BY <1>1, <1>3 DEF ProcessKnows, ProcessSteps
<1> QED
  BY <1>1, <1>2, <1>3, <1>4, <1>5 DEF ProcessKnows

LEMMA ProcessStepKnows ==
    ASSUME TypeInv, Quiet, OneProcess, RolesHaveRows, [Next]_vars, NEW h \in Handlers,
           Process(h), ProcessKnows(co[h])
    PROVE  ProcessKnows(co[h])'
<1>1. CASE LoadState(h)
  <2>1. UNCHANGED state
    BY <1>1 DEF LoadState, redis
  <2> QED
    BY <1>1, <2>1, LoadStateFrame DEF ProcessKnows, ProcessSteps
<1>2. CASE CheckStatuses(h)
  <2>1. UNCHANGED state /\ co[h].pc = "statuses"
    BY <1>2 DEF CheckStatuses, redis, At
  <2>2. PICK p \in {"mark", "block", "hold"} : Goto(h, p)
    BY <1>2 DEF CheckStatuses
  <2>3. co'[h].pc = p /\ co'[h].t = co[h].t
    BY <2>2, Went
  <2>4. state[co[h].t] # None
    BY <2>1 DEF ProcessKnows, ProcessSteps
  <2> QED
    BY <2>1, <2>2, <2>3, <2>4 DEF ProcessKnows
<1>3. CASE Writes(h)
  BY <1>3, WritesFrame DEF ProcessKnows, ProcessSteps
<1>4. CASE CleanMidPoint(h)
  <2>1. co[h].pc \in ProcessSteps
    BY <1>4 DEF CleanMidPoint, At, ProcessSteps
  <2> QED
    BY <1>4, <2>1, WorkerWaits, CleanKnows
<1>5. CASE DeleteRows(h)
  BY <1>5, DeleteRowsKnows
<1>6. CASE DeleteUserStates(h)
  BY <1>6, DeleteKeysKnows
<1>7. CASE RemoveTarget(h)
  <2>1. UNCHANGED state /\ co[h].pc = "remove" /\ (Goto(h, "drop") \/ Goto(h, "answered"))
    BY <1>7, RemoveTargetFrame DEF RemoveTarget, At
  <2>2. co'[h].pc \in {"drop", "answered"} /\ co'[h].t = co[h].t
    BY <2>1, Went
  <2>3. state[co[h].t] # None
    BY <2>1 DEF ProcessKnows, ProcessSteps
  <2> QED
    BY <2>1, <2>2, <2>3 DEF ProcessKnows
<1>8. CASE DropState(h)
  BY <1>8, DropStateFrame DEF ProcessKnows, ProcessSteps
<1> QED
  BY <1>1, <1>2, <1>3, <1>4, <1>5, <1>6, <1>7, <1>8 DEF Process, Writes

LEMMA CoroutinesKnow ==
    ASSUME TypeInv, CancelInv, Quiet, ResidueBody, Settles, [Next]_vars, NEW g \in Handlers
    PROVE  BeginKnows(co[g])' /\ ProcessKnows(co[g])'
<1>a. /\ DecosDelete /\ OneProcess /\ RolesHaveRows /\ BeginKnows(co[g]) /\ ProcessKnows(co[g])
      /\ \A t \in Targets : state[t] # None => Dead(t)
  BY DEF ResidueBody
<1>1. CASE co'[g] = co[g]
  <2>1. PICK c : c = co[g]
    OBVIOUS
  <2>2. BeginKnows(c)'
    BY <1>a, <2>1, BeginIsClosed, BeginKnowsStays
  <2>3. CASE DropState(g)
    BY <1>1, <2>3, DropStateFrame
  <2>4. CASE ~DropState(g)
    <3>1. ProcessKnows(c)'
      BY <1>a, <2>1, <2>4, ProcessKnowsStays
    <3> QED
      BY <1>1, <2>1, <2>2, <3>1 DEF BeginKnows, ProcessKnows
  <2> QED
    BY <2>3, <2>4
<1>2. CASE co'[g].pc \in {"idle", "next", "load", "answered"}
  BY <1>2 DEF BeginKnows, ProcessKnows, ProcessSteps
<1>3. CASE Process(g) /\ co'[g].pc \notin BeginSteps
  <2>1. ProcessKnows(co[g])'
    BY <1>a, <1>3, ProcessStepKnows
  <2> QED
    BY <1>3, <2>1 DEF BeginKnows, BeginSteps
<1>4. CASE /\ Prepares(g) \/ CancelOperations(g) \/ CreateDelete(g) \/ AskDelete(g)
           /\ co'[g].pc \notin ProcessSteps
  <2>1. BeginKnows(co[g])'
    BY <1>a, <1>4, BeginStepKnows
  <2> QED
    BY <1>4, <2>1 DEF ProcessKnows, ProcessSteps
<1> QED
  BY <1>1, <1>2, <1>3, <1>4, CoMoves

-----------------------------------------------------------------------------
\* Who takes rows away, and who adds roles.
LEMMA InventoryMoves ==
    ASSUME TypeInv, [Next]_vars
    PROVE  \/ inventory \subseteq inventory'
           \/ \E h \in Handlers : co[h].pc = "inventory" /\ inventory' = inventory \ {co[h].t}
<1> DEFINE Goal == \/ inventory \subseteq inventory'
                   \/ \E h \in Handlers : /\ co[h].pc = "inventory"
                                          /\ inventory' = inventory \ {co[h].t}
<1>1. ASSUME NEW h \in Handlers, \/ Opens(h) \/ CreateDelete(h) \/ AskDelete(h)
                                 \/ CancelOperations(h) \/ Prepares(h)
      PROVE  inventory' = inventory
  BY <1>1 DEF Opens, BeginRequest, ProcessRequest, Unheard, CreateDelete, AskDelete,
              CancelOperations, Prepares, BeginTarget, ListOperations, CancelRequests,
              ScanSnapshots, SaveState, tables
<1>2. ASSUME NEW h \in Handlers, Process(h)
      PROVE  Goal
  <2>1. CASE DeleteRows(h)
    BY <2>1 DEF DeleteRows, At
  <2>2. CASE ~DeleteRows(h)
    BY <1>2, <2>2 DEF Process, LoadState, CheckStatuses, Hold, MarkCleaning, CleanMidPoint,
                      DeleteUserStates, RemoveTarget, DropState, tables
  <2> QED
    BY <2>1, <2>2
<1>3. ASSUME Worker
      PROVE  Goal
  BY <1>3 DEF Worker, WorkerGoesOn, UpsertRole, ReconcileRows, SaveKnown, EndCycle, tables
<1>4. ASSUME Crash \/ Dashboard \/ UNCHANGED vars \/ \E a \in Accounts : Expire(a)
      PROVE  Goal
  BY <1>4 DEF Crash, Dashboard, vars, tables, Expire
<1>5. ASSUME NEW i \in DOMAIN op, RowStep(i)
      PROVE  Goal
  BY <1>5, RowStepWrites
<1>6. ASSUME NEW a \in Accounts, NEW kind \in {"write", "delete"}, Message(a, kind)
      PROVE  Goal
  BY <1>6 DEF Message
<1> HIDE DEF Goal
<1>7. Goal
  BY <1>1, <1>2, <1>3, <1>4, <1>5, <1>6, NextCases DEF Goal
<1> QED
  BY <1>7 DEF Goal

LEMMA RoleAdded ==
    ASSUME TypeInv, [Next]_vars, NEW t \in role', t \notin role
    PROVE  UpsertRole(t)
<1>1. t \in Targets
  BY NextTyped DEF TypeInv, WorldTyped
<1>2. worker.pc = "sync" /\ t \in worker.todo
  BY <1>1, Restored DEF Restores
<1>3. ASSUME NEW h \in Handlers, \/ Opens(h) \/ CreateDelete(h) \/ AskDelete(h)
                                 \/ CancelOperations(h) \/ Prepares(h)
      PROVE  role' = role
  BY <1>3 DEF Opens, BeginRequest, ProcessRequest, Unheard, CreateDelete, AskDelete,
              CancelOperations, Prepares, BeginTarget, ListOperations, CancelRequests,
              ScanSnapshots, SaveState, outside
<1>4. ASSUME NEW h \in Handlers, Process(h)
      PROVE  role' \subseteq role
  BY <1>4 DEF Process, LoadState, CheckStatuses, Hold, MarkCleaning, CleanMidPoint, DeleteRows,
              DeleteUserStates, RemoveTarget, DropState, outside
<1>5. ASSUME Worker
      PROVE  UpsertRole(t)
  <2>1. ASSUME NEW u \in Targets, UpsertRole(u)
        PROVE  u = t
    BY <2>1 DEF UpsertRole
  <2>2. ~WorkerGoesOn /\ ~ReconcileRows /\ ~SaveKnown /\ ~EndCycle
    BY DEF WorkerGoesOn, ReconcileRows, SaveKnown, EndCycle, outside
  <2> QED
    BY <1>5, <2>1, <2>2 DEF Worker
<1>6. ASSUME Crash \/ Dashboard \/ UNCHANGED vars \/ \E a \in Accounts : Expire(a)
      PROVE  FALSE
  BY <1>6 DEF Crash, Dashboard, vars, outside, Expire
<1>7. ASSUME NEW i \in DOMAIN op, RowStep(i)
      PROVE  FALSE
  BY <1>7, RowStepWrites
<1>8. ASSUME NEW a \in Accounts, NEW kind \in {"write", "delete"}, Message(a, kind)
      PROVE  FALSE
  BY <1>8 DEF Message, outside
<1> QED
  BY <1>3, <1>4, <1>5, <1>6, <1>7, <1>8, NextCases

LEMMA PostEnds ==
    ASSUME TypeInv, [Next]_vars, worker.pc = "post"
    PROVE  worker' = worker \/ worker.t \in inventory'
<1>1. CASE Worker
  BY <1>1 DEF Worker, WorkerGoesOn, UpsertRole, ReconcileRows, SaveKnown, EndCycle
<1>2. CASE Crash
  BY <1>2 DEF Crash
<1>3. ASSUME NEW h \in Handlers, ProcessRequest(h)
      PROVE  FALSE
  BY <1>3 DEF ProcessRequest
<1> QED
  BY <1>1, <1>2, <1>3, WorkerMoves

LEMMA RolesKeepRows ==
    ASSUME TypeInv, ResidueBody, [Next]_vars
    PROVE  RolesHaveRows'
<1> SUFFICES ASSUME NEW t \in role'
             PROVE  t \in inventory' \/ (worker'.pc = "post" /\ worker'.t = t)
  BY DEF RolesHaveRows
<1>1. CASE t \notin role
  <2>1. UpsertRole(t)
    BY <1>1, RoleAdded
  <2> QED
    BY <2>1 DEF UpsertRole, TypeInv, WorkerTyped
<1>2. CASE t \in inventory /\ t \in role
  <2>1. ASSUME NEW h \in Handlers, co[h].pc = "inventory", inventory' = inventory \ {co[h].t}
        PROVE  co[h].t # t
    BY <1>2, <2>1 DEF ResidueBody, ProcessKnows
  <2> QED
    BY <1>2, <2>1, InventoryMoves
<1>3. CASE worker.pc = "post" /\ worker.t = t
  BY <1>3, PostEnds
<1> QED
  BY <1>1, <1>2, <1>3 DEF ResidueBody, RolesHaveRows

-----------------------------------------------------------------------------
\* A target goes while the worker waits.
LEMMA NoneGoes ==
    ASSUME TypeInv, Quiet, OneProcess, [Next]_vars, worker.pc # "processing"
    PROVE  gone' = gone /\ OnFile \subseteq OnFile' /\ Removed' \subseteq Removed
<1>1. ASSUME NEW h \in Handlers, RemoveTarget(h)
      PROVE  FALSE
  <2>1. co[h].pc \in ProcessSteps
    BY <1>1 DEF RemoveTarget, At, ProcessSteps
  <2> QED
    BY <2>1, WorkerWaits
<1> QED
  BY <1>1, FileMoves DEF Removed

LEMMA WorkerLearns ==
    ASSUME TypeInv, Quiet, ResidueBody, [Next]_vars
    PROVE  WorkerKnows'
<1>a. OneProcess /\ WorkerKnows /\ known \cap Removed = {}
  BY DEF ResidueBody, Left
<1>b. ASSUME worker' = [worker EXCEPT !.pc = "sync", !.known = known, !.todo = OnFile],
             gone' = gone, OnFile' = OnFile
      PROVE  WorkerKnows'
  <2>1. worker'.pc = "sync" /\ worker'.known = known /\ worker'.todo = OnFile
    BY <1>b DEF TypeInv, WorkerTyped
  <2> QED
    BY <1>a, <1>b, <2>1 DEF WorkerKnows, Removed
<1>c. worker.pc \in Syncing => gone' = gone /\ OnFile \subseteq OnFile' /\ Removed' \subseteq Removed
  BY <1>a, NoneGoes DEF Syncing
<1>1. CASE worker' = worker
  BY <1>a, <1>c, <1>1 DEF WorkerKnows
<1>2. CASE Worker
  <2>1. CASE WorkerGoesOn
    BY <1>2, <2>1, <1>b, WorkerFrame DEF WorkerGoesOn, history, catalogVars, OnFile
  <2>2. ASSUME NEW u \in Targets, UpsertRole(u)
        PROVE  WorkerKnows'
    <3>1. /\ worker'.pc = "post" /\ worker'.t = u /\ worker'.known = worker.known
          /\ worker'.todo \subseteq worker.todo /\ worker.pc \in Syncing /\ u \in worker.todo
      BY <2>2 DEF UpsertRole, TypeInv, WorkerTyped, Syncing
    <3> QED
      BY <1>a, <1>c, <3>1 DEF WorkerKnows
  <2>3. CASE ReconcileRows
    <3>1. /\ worker'.pc = "save" /\ worker'.t = worker.t /\ worker'.todo = worker.todo
          /\ worker'.known = worker.known \cup {worker.t} /\ worker.pc \in Syncing
          /\ worker.pc = "post"
      BY <2>3 DEF ReconcileRows, TypeInv, WorkerTyped, Syncing
    <3>2. worker.t \in OnFile
      BY <1>a, <3>1 DEF WorkerKnows
    <3> QED
      BY <1>a, <1>c, <3>1, <3>2 DEF WorkerKnows, Removed
  <2>4. CASE SaveKnown
    <3>1. /\ worker'.pc = "sync" /\ worker'.todo = worker.todo
          /\ worker'.known = worker.known /\ worker.pc \in Syncing
      BY <2>4 DEF SaveKnown, TypeInv, WorkerTyped, Syncing
    <3> QED
      BY <1>a, <1>c, <3>1 DEF WorkerKnows
  <2>5. CASE EndCycle
    BY <2>5 DEF EndCycle, Resting, WorkerKnows, Syncing
  <2> QED
    BY <1>2, <2>1, <2>2, <2>3, <2>4, <2>5 DEF Worker
<1>3. CASE Crash
  <2>1. gone' = gone /\ OnFile' = OnFile
    BY <1>3 DEF Crash, Restart, history, OnFile
  <2> QED
    BY <1>1, <1>3, <1>b, <2>1 DEF Crash
<1>4. ASSUME NEW h \in Handlers, ProcessRequest(h)
      PROVE  WorkerKnows'
  BY <1>4 DEF ProcessRequest, TypeInv, WorkerTyped, WorkerKnows, Syncing
<1> QED
  BY <1>1, <1>2, <1>3, <1>4, WorkerMoves

\* A target has a decommission only when its writes are over.
LEMMA KeysAreDead ==
    ASSUME TypeInv, ResidueBody, Settles, [Next]_vars, NEW t \in Targets, state'[t] # None
    PROVE  Dead(t)'
<1>1. CASE state[t] # None
  BY <1>1, DeadStaysDead DEF ResidueBody, Closed, Underway
<1>2. CASE state[t] = None
  <2>1. PICK h \in Handlers : co[h].t = t /\ (SaveState(h) \/ Writes(h) \/ DropState(h))
    BY <1>2, KeyMoves
  <2>2. CASE SaveState(h)
    <3>1. co[h].pc = "create"
      BY <2>2, SaveStateFrame
    <3>2. Dead(t) /\ Closed(t)
      BY <2>1, <3>1, BeginIsClosed DEF ResidueBody, BeginKnows, BeginSteps
    <3> QED
      BY <3>2, DeadStaysDead
  <2>3. CASE Writes(h)
    BY <1>2, <2>1, <2>3, WritesFrame DEF ResidueBody, ProcessKnows, ProcessSteps
  <2>4. CASE DropState(h)
    BY <2>1, <2>4, DropStateFrame
  <2> QED
    BY <2>1, <2>2, <2>3, <2>4
<1> QED
  BY <1>1, <1>2

\* What is gone does not come back as long as the target does not.
LEMMA NothingComesBack ==
    ASSUME TypeInv, ResidueBody, Settles, [Next]_vars, NEW t \in Removed
    PROVE  Dead(t)' /\ ~Left(t)'
<1>1. t \in Targets /\ t \notin OnFile /\ Dead(t) /\ ~Left(t)
  BY DEF Removed, TypeInv, HistoryTyped, ResidueBody
<1>2. Dead(t)'
  BY <1>1, DeadStaysDead DEF Closed
<1>3. Unstored(t)'
  BY <1>1, StaysUnstored DEF Left
<1>4. Restores(t)
  BY <1>1, Restored
<1>5. WorkerKnows
  BY DEF ResidueBody
<1>6. t \notin role' /\ t \notin inventory' /\ t \notin known' /\ request'[t] = "none"
  BY <1>1, <1>4, <1>5 DEF Restores, WorkerKnows, Syncing, Left
<1> QED
  BY <1>2, <1>3, <1>6 DEF Left

LEMMA RemovalLeavesNothing ==
    ASSUME TypeInv, Quiet, ResidueBody, Settles, [Next]_vars
    PROVE  \A t \in Removed' : Dead(t)' /\ ~Left(t)'
<1>1. CASE gone' = gone /\ OnFile \subseteq OnFile'
  BY <1>1, NothingComesBack DEF Removed
<1>2. ASSUME NEW h \in Handlers, RemoveTarget(h), gone' = gone \cup {co[h].t},
             OnFile' = OnFile \ {co[h].t}
      PROVE  \A t \in Removed' : Dead(t)' /\ ~Left(t)'
  <2>1. PICK t \in Targets : t = co[h].t
    BY <1>2, RemoveTargetFrame
  <2>2. co[h].pc = "remove" /\ UNCHANGED <<op, request, inventory, role, snapshot, state>>
        /\ known' = known \ {t}
    BY <1>2, <2>1 DEF RemoveTarget, At, tables, redis, outside
  <2>3. /\ state[t] # None /\ t \notin role /\ request[t] = "none" /\ t \notin inventory
        /\ Unstored(t)
    BY <2>1, <2>2 DEF ResidueBody, ProcessKnows, ProcessSteps
  <2>4. Dead(t)'
    BY <2>2, <2>3, KeysAreDead
  <2>5. Unstored(t)'
    BY <2>2, <2>3 DEF Unstored, AccountsOf
  <2>6. ~Left(t)'
    BY <2>2, <2>3, <2>5 DEF Left
  <2>7. Removed' \subseteq Removed \cup {t}
    BY <1>2, <2>1 DEF Removed
  <2> QED
    BY <2>4, <2>6, <2>7, NothingComesBack
<1> QED
  BY <1>1, <1>2, FileMoves

LEMMA ResiduePreserved ==
    ASSUME TypeInv, CancelInv, ResidueInv, [Next]_vars
    PROVE  ResidueInv'
<1> SUFFICES ASSUME Quiet, ResidueBody
             PROVE  ResidueBody'
  BY SameFaults DEF ResidueInv, Quiet
<1>1. DecosDelete' /\ Settles
  BY RowsSettle DEF ResidueBody
<1>2. OneProcess'
  BY OneProcessStays DEF ResidueBody
<1>3. RolesHaveRows' /\ WorkerKnows'
  BY RolesKeepRows, WorkerLearns
<1>4. \A h \in Handlers : BeginKnows(co[h])' /\ ProcessKnows(co[h])'
  BY <1>1, CoroutinesKnow
<1>5. \A t \in Targets : state'[t] # None => Dead(t)'
  BY <1>1, KeysAreDead
<1>6. \A t \in Removed' : Dead(t)' /\ ~Left(t)'
  BY <1>1, RemovalLeavesNothing
<1> QED
  BY <1>1, <1>2, <1>3, <1>4, <1>5, <1>6 DEF ResidueBody

LEMMA ResidueInit ==
    ASSUME Init
    PROVE  ResidueInv
<1>1. \A i \in DOMAIN op : op[i].status = "SUCCESS" /\ op[i].step = "rest" /\ op[i].deco = FALSE
  BY DEF Init
<1>2. /\ gone = {} /\ role = inventory /\ worker = Resting
      /\ \A h \in Handlers : co[h] = Idle
  BY DEF Init
<1>3. DecosDelete
  BY <1>1 DEF DecosDelete
<1>4. OneProcess /\ WorkerKnows /\ RolesHaveRows
  BY <1>2 DEF OneProcess, Idle, WorkerKnows, Resting, Syncing, RolesHaveRows
<1>5. \A h \in Handlers : BeginKnows(co[h]) /\ ProcessKnows(co[h])
  BY <1>2 DEF BeginKnows, ProcessKnows, ProcessSteps, Idle
<1>6. \A t : Dead(t)
  BY <1>1 DEF Dead, RowsOf, Past, Over
<1>7. Removed = {}
  BY <1>2 DEF Removed
<1> QED
  BY <1>3, <1>4, <1>5, <1>6, <1>7 DEF ResidueInv, ResidueBody

\* Nothing of a removed target is left in MidPoint, the tables, Redis and the
\* worker's state file, whatever operation, approval or call of MidPoint fails,
\* also when the API stops in the middle, two begins overlap or the target is
\* created again: unless messages, answers or the worker get in the way.
THEOREM ResidueIsGone == Spec => []ResidueGone
<1>1. Init => TypeInv /\ CancelInv /\ ResidueInv
  <2>1. Init => CancelInv
    BY DEF Init, CancelInv, At, Idle
  <2> QED
    BY <2>1, InitTyped, ResidueInit
<1>2. TypeInv /\ CancelInv /\ ResidueInv /\ [Next]_vars => TypeInv' /\ CancelInv' /\ ResidueInv'
  BY NextTyped, CancelPreserved, ResiduePreserved
<1>3. TypeInv /\ ResidueInv => ResidueGone
  BY DEF ResidueInv, Quiet, ResidueBody, Left, Unstored, ResidueGone
<1> QED
  BY <1>1, <1>2, <1>3, PTL DEF Spec
===============================================================================
