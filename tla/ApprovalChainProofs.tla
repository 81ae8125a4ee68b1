--------------------------- MODULE ApprovalChainProofs ---------------------------
(***************************************************************************)
(* Type correctness of ApprovalChain (and of the Orchestrator it extends)  *)
(* and the safety of decisions, for any numbers of operations, accounts,   *)
(* coroutines and levels and under every fault; the second part is about   *)
(* deployments that do not use the approve-callback endpoint beside the    *)
(* links of the emails.                                                    *)
(***************************************************************************)
EXTENDS ApprovalChain, TLAPS

-----------------------------------------------------------------------------
(* Types.  TypeOK and ChainTypeOK are not inductive: a step writes what its *)
(* coroutine holds in memory (a message, a chain) or reads the row of its   *)
(* operation, so the invariant says at which steps these are there.         *)

\* The steps of a coroutine that holds the message it works on.
MessageSteps == {"wasRejected", "wasDeleted", "create", "recheck", "skipDelete",
                 "clearSkipped", "diff", "duplicate", "validate", "approvalStatus",
                 "approvalPending", "provision", "execute"}

\* The steps of a coroutine whose operation has a row.
RowSteps == {"recheck", "skipDelete", "clearSkipped", "diff", "duplicate", "validate",
             "approvalStatus", "approvalPending", "approvalSend", "approvalId",
             "approvalFail", "messageFail", "provision", "execute", "succeed",
             "audited", "record", "processing", "reject", "unpend", "storeRejected",
             "clearRejected", "clearDeleted", "storeState", "dropState",
             "markDeleted", "fail"}

\* The steps that email an approver: the row is there if the consumer runs them.
MailSteps == {"readChain", "nextLevel", "storeToken", "sendEmail"}

\* The steps of a coroutine that holds a chain.
HoldingSteps == {"storeToken", "sendEmail", "readChain", "nextLevel", "cleanup",
                 "dropToken", "dropChain"}

\* What a coroutine r that holds chain l needs of its memory and of the rows.
MemoryOK(r, l, rows) ==
    /\ r.pc # "idle" => r.op \in Ops
    /\ r.pc \in MessageSteps => r.msg \in Messages
    /\ r.pc \in RowSteps => rows[r.op] \in Messages
    /\ r.pc \in MailSteps /\ r.by = "consumer" => rows[r.op] \in Messages
    /\ r.pc \in HoldingSteps => l \in Chains
    /\ r.pc = "nextLevel" => l.index + 1 \in Indexes

DbOK ==
    /\ status   \in [Ops -> Statuses \cup {"none"}]
    /\ orig     \in [Ops -> Messages \cup {None}]
    /\ response \in [Ops -> {"none", "approved", "rejected"}]
    /\ skipped  \in [Ops -> {"none", "never provisioned", "no changes", "duplicate"}]
    /\ \A o \in Ops : status[o] # "none" => orig[o] \in Messages

RedisOK ==
    /\ pending  \in [Ops -> Messages \cup {None}]
    /\ rejected \subseteq Accounts
    /\ deleted  \subseteq Accounts
    /\ snapshot \in [Accounts -> Data \cup {None}]

TargetOK ==
    /\ account  \in [Accounts -> Data \cup {None}]
    /\ calls    \in [Ops -> Nat]
    /\ tasks    \subseteq Ops
    /\ mode \in Modes /\ faults \in FaultSets

KeysOK ==
    /\ chain  \in [Ops -> Chains \cup {None}]
    /\ tokens \subseteq Tokens
    /\ minted \in [Ops -> Nat]
    /\ mailed \subseteq Tokens
    /\ signed \in [Ops -> SUBSET Indexes]

WorkersOK ==
    /\ co    \in [Workers -> Coroutines]
    /\ local \in [Workers -> Chains \cup {None}]
    /\ \A w \in Workers : MemoryOK(co[w], local[w], orig)

\* The inductive invariant.
TypeInv == DbOK /\ RedisOK /\ TargetOK /\ KeysOK /\ WorkersOK

-----------------------------------------------------------------------------

LEMMA TypeInvSuffices == TypeInv => TypeOK /\ ChainTypeOK
BY DEF TypeInv, DbOK, RedisOK, TargetOK, KeysOK, WorkersOK, MemoryOK, MessageSteps,
       TypeOK, ChainTypeOK, At

\* An update of one coroutine and of the chain it holds.
LEMMA WorkerUpdate ==
    ASSUME WorkersOK,
           NEW w \in Workers, NEW r \in Coroutines, NEW l \in Chains \cup {None},
           co' = [co EXCEPT ![w] = r], local' = [local EXCEPT ![w] = l],
           \A o \in Ops : orig[o] \in Messages => orig'[o] \in Messages,
           MemoryOK(r, l, orig')
    PROVE  WorkersOK'
<1>1. co' \in [Workers -> Coroutines] /\ local' \in [Workers -> Chains \cup {None}]
  BY DEF WorkersOK
<1>2. ASSUME NEW v \in Workers PROVE MemoryOK(co'[v], local'[v], orig')
  <2>1. CASE v = w
    BY <2>1 DEF WorkersOK
  <2>2. CASE v # w
    <3>1. co'[v] = co[v] /\ local'[v] = local[v]
      BY <2>2 DEF WorkersOK
    <3>2. MemoryOK(co[v], local[v], orig)
      BY DEF WorkersOK
    <3>3. MemoryOK(co[v], local[v], orig')
      <4>1. co[v].pc \in RowSteps \cup MailSteps => co[v].op \in Ops
        BY <3>2 DEF MemoryOK, RowSteps, MailSteps
      <4> QED BY <3>2, <4>1 DEF MemoryOK
    <3> QED BY <3>1, <3>3
  <2> QED BY <2>1, <2>2
<1> QED BY <1>1, <1>2 DEF WorkersOK

\* A coroutine that goes to a step that needs nothing its last one did not.
LEMMA GotoKeeps ==
    ASSUME WorkersOK, NEW w \in Workers, NEW step \in Steps,
           Goto(w, step), UNCHANGED local,
           \A o \in Ops : orig[o] \in Messages => orig'[o] \in Messages,
           ~At(w, "idle"), step # "nextLevel",
           step \in MessageSteps => co[w].pc \in MessageSteps,
           step \in RowSteps => co[w].pc \in RowSteps \/ orig'[co[w].op] \in Messages,
           step \in MailSteps => co[w].pc \in MailSteps \cup RowSteps,
           step \in HoldingSteps => co[w].pc \in HoldingSteps
    PROVE  WorkersOK'
<1> DEFINE r == [co[w] EXCEPT !.pc = step]
<1>1. co[w] \in Coroutines /\ local[w] \in Chains \cup {None}
      /\ MemoryOK(co[w], local[w], orig)
  BY DEF WorkersOK
<1>2. r \in Coroutines /\ r.pc = step /\ r.op = co[w].op /\ r.msg = co[w].msg
      /\ r.by = co[w].by
  BY <1>1 DEF Coroutines
<1>3. co' = [co EXCEPT ![w] = r] /\ local' = [local EXCEPT ![w] = local[w]]
  BY DEF Goto, WorkersOK
<1>4. MemoryOK(r, local[w], orig')
  <2>1. co[w].op \in Ops
    BY <1>1 DEF MemoryOK, At
  <2> HIDE DEF r
  <2> QED BY <1>1, <1>2, <2>1 DEF MemoryOK
<1> HIDE DEF r
<1> QED BY <1>1, <1>2, <1>3, <1>4, WorkerUpdate

LEMMA IdleValue == Idle \in Coroutines /\ Idle.pc = "idle"
BY DEF Idle, Coroutines, Steps

\* A coroutine that ends, with or without a chain in memory.
LEMMA FinishKeeps ==
    ASSUME WorkersOK, NEW w \in Workers, Finish(w),
           \A o \in Ops : orig[o] \in Messages => orig'[o] \in Messages,
           local' = local \/ local' = [local EXCEPT ![w] = None]
    PROVE  WorkersOK'
<1>1. Idle \in Coroutines /\ Idle.pc = "idle"
  BY IdleValue
<1>2. PICK l \in Chains \cup {None} : local' = [local EXCEPT ![w] = l]
  <2>1. local[w] \in Chains \cup {None} /\ local = [local EXCEPT ![w] = local[w]]
    BY DEF WorkersOK
  <2> QED BY <2>1
<1>3. MemoryOK(Idle, l, orig')
  BY <1>1 DEF MemoryOK, MessageSteps, RowSteps, MailSteps, HoldingSteps
<1> QED BY <1>1, <1>2, <1>3, WorkerUpdate DEF Finish

LEMMA InitialTypes == ChainInit => TypeInv
<1> SUFFICES ASSUME ChainInit PROVE TypeInv
  OBVIOUS
<1>1. DbOK /\ RedisOK /\ TargetOK /\ KeysOK
  BY DEF ChainInit, Init, DbOK, RedisOK, TargetOK, KeysOK
<1>2. co \in [Workers -> Coroutines] /\ local \in [Workers -> Chains \cup {None}]
  BY IdleValue DEF ChainInit, Init
<1>3. \A w \in Workers : MemoryOK(co[w], local[w], orig)
  BY IdleValue DEF ChainInit, Init, MemoryOK, MessageSteps, RowSteps, MailSteps, HoldingSteps
<1> QED BY <1>1, <1>2, <1>3 DEF TypeInv, WorkersOK

-----------------------------------------------------------------------------
(* Coroutines that start *)

LEMMA ReceiveTypes ==
    ASSUME TypeInv, NEW w \in Workers, NEW o \in Ops, NEW m \in Messages,
           Receive(w, o, m), UNCHANGED chainVars
    PROVE  TypeInv'
<1> DEFINE r == [pc |-> IF m.type = "UPDATE_USER" THEN "wasRejected" ELSE "create",
                 op |-> o, msg |-> m, by |-> "consumer", yes |-> FALSE]
<1>1. DbOK' /\ RedisOK' /\ TargetOK' /\ KeysOK'
  BY DEF TypeInv, Receive, chainVars, db, redis, target, setup,
         DbOK, RedisOK, TargetOK, KeysOK
<1>2. co' = [co EXCEPT ![w] = r] /\ orig' = orig /\ UNCHANGED local
  BY DEF Receive, db, chainVars
<1>3. r \in Coroutines
  BY DEF Coroutines, Steps, DbSteps, Sources
<1>4. local[w] \in Chains \cup {None} /\ local' = [local EXCEPT ![w] = local[w]]
  BY <1>2 DEF TypeInv, WorkersOK
<1>5. MemoryOK(r, local[w], orig')
  BY DEF MemoryOK, MessageSteps, RowSteps, MailSteps, HoldingSteps
<1> HIDE DEF r
<1>6. WorkersOK'
  BY <1>2, <1>3, <1>4, <1>5, WorkerUpdate DEF TypeInv
<1> QED BY <1>1, <1>6 DEF TypeInv

\* The auto-approval task and approve-callback start the same coroutine.
LEMMA DecideKeeps ==
    ASSUME WorkersOK, NEW w \in Workers, NEW o \in Ops,
           NEW by \in {"auto", "callback"}, NEW yes \in BOOLEAN,
           Decide(w, o, by, yes), UNCHANGED <<orig, local>>
    PROVE  WorkersOK'
<1> DEFINE r == [pc |-> "check", op |-> o, msg |-> None, by |-> by, yes |-> yes]
<1>1. r \in Coroutines
  BY DEF Coroutines, Steps, DbSteps, Sources
<1>2. co' = [co EXCEPT ![w] = r] /\ local[w] \in Chains \cup {None}
      /\ local' = [local EXCEPT ![w] = local[w]]
  BY DEF Decide, WorkersOK
<1>3. MemoryOK(r, local[w], orig')
  BY DEF MemoryOK, MessageSteps, RowSteps, MailSteps, HoldingSteps
<1> HIDE DEF r
<1> QED BY <1>1, <1>2, <1>3, WorkerUpdate

LEMMA AutoApproveTypes ==
    ASSUME TypeInv, NEW w \in Workers, NEW o \in Ops,
           AutoApprove(w, o), UNCHANGED chainVars
    PROVE  TypeInv'
<1>1. DbOK' /\ RedisOK' /\ TargetOK' /\ KeysOK'
  BY DEF TypeInv, AutoApprove, chainVars, db, redis, target, setup,
         DbOK, RedisOK, TargetOK, KeysOK
<1>2. WorkersOK'
  BY DecideKeeps DEF TypeInv, AutoApprove, db, chainVars
<1> QED BY <1>1, <1>2 DEF TypeInv

LEMMA CallbackTypes ==
    ASSUME TypeInv, NEW w \in Workers, NEW o \in Ops, NEW yes \in BOOLEAN,
           ApproveCallback(w, o, yes), UNCHANGED chainVars
    PROVE  TypeInv'
<1>1. DbOK' /\ RedisOK' /\ TargetOK' /\ KeysOK'
  BY DEF TypeInv, ApproveCallback, chainVars, db, redis, target, setup,
         DbOK, RedisOK, TargetOK, KeysOK
<1>2. WorkersOK'
  BY DecideKeeps DEF TypeInv, ApproveCallback, db, chainVars
<1> QED BY <1>1, <1>2 DEF TypeInv

LEMMA ClickTypes ==
    ASSUME TypeInv, NEW w \in Workers, NEW t \in tokens, NEW yes \in BOOLEAN,
           Click(w, t, yes)
    PROVE  TypeInv'
<1> DEFINE l == [index |-> 0, token |-> t]
           r == [pc |-> "readChain", op |-> t[1], msg |-> None,
                 by |-> "chain", yes |-> yes]
<1>1. DbOK' /\ RedisOK' /\ TargetOK' /\ KeysOK'
  BY DEF TypeInv, Click, db, redis, target, setup, DbOK, RedisOK, TargetOK, KeysOK
<1>2. t \in Tokens /\ t[1] \in Ops
  BY DEF TypeInv, KeysOK, Tokens
<1>3. l \in Chains
  BY <1>2, ChainAssumption DEF Chains, Indexes
<1>4. r \in Coroutines
  BY <1>2 DEF Coroutines, Steps, Sources
<1>5. co' = [co EXCEPT ![w] = r] /\ local' = [local EXCEPT ![w] = l] /\ orig' = orig
  BY DEF Click, db
<1>6. MemoryOK(r, l, orig')
  BY <1>2, <1>3 DEF MemoryOK, MessageSteps, RowSteps, MailSteps, HoldingSteps
<1> HIDE DEF r, l
<1>7. WorkersOK'
  BY <1>3, <1>4, <1>5, <1>6, WorkerUpdate DEF TypeInv
<1> QED BY <1>1, <1>7 DEF TypeInv

-----------------------------------------------------------------------------
(* Steps of the orchestrator *)

\* What the invariant says of the coroutine w.
LEMMA Memory ==
    ASSUME TypeInv, NEW w \in Workers
    PROVE  /\ co[w] \in Coroutines /\ local[w] \in Chains \cup {None}
           /\ co[w].pc # "idle" => co[w].op \in Ops
           /\ co[w].pc \in MessageSteps => co[w].msg \in Messages
           /\ co[w].pc \in RowSteps => orig[co[w].op] \in Messages
           /\ co[w].pc \in HoldingSteps => local[w] \in Chains
           /\ co[w].pc = "nextLevel" => local[w].index + 1 \in Indexes
BY DEF TypeInv, WorkersOK, MemoryOK

\* A status is only written by a coroutine whose operation has a row.
LEMMA StatusKeeps ==
    ASSUME TypeInv, NEW w \in Workers, co[w].pc \in RowSteps,
           NEW s \in Statuses, SetStatus(co[w].op, s), UNCHANGED <<orig, response>>,
           skipped' \in [Ops -> {"none", "never provisioned", "no changes", "duplicate"}]
    PROVE  DbOK'
<1>1. co[w].op \in Ops /\ orig[co[w].op] \in Messages
  BY Memory DEF RowSteps
<1> QED BY <1>1 DEF TypeInv, DbOK, SetStatus

\* A coroutine goes to a step with its message made a CREATE, or with another one.
Converts(w, step)    == co' = [co EXCEPT ![w].pc = step, ![w].msg.type = "CREATE_USER"]
GotoWith(w, step, m) == co' = [co EXCEPT ![w].pc = step, ![w].msg = m]

LEMMA MessageUpdate ==
    ASSUME WorkersOK, NEW w \in Workers, NEW step \in Steps,
           NEW m \in Messages \cup {None}, GotoWith(w, step, m)
    PROVE  \E r \in Coroutines : /\ co' = [co EXCEPT ![w] = r]
                                /\ r.pc = step /\ r.op = co[w].op /\ r.msg = m
                                /\ r.by = co[w].by /\ r.yes = co[w].yes
<1> DEFINE q == [co[w] EXCEPT !.pc = step]
           r == [q EXCEPT !.msg = m]
<1>1. co[w] \in Coroutines
  BY DEF WorkersOK
<1>2. q \in Coroutines /\ q.pc = step /\ q.op = co[w].op
      /\ q.by = co[w].by /\ q.yes = co[w].yes
  BY <1>1 DEF Coroutines
<1>3. co' = [[co EXCEPT ![w] = q] EXCEPT ![w].msg = m]
  BY DEF GotoWith, WorkersOK
<1> HIDE DEF q
<1>4. co' = [co EXCEPT ![w] = r]
  BY <1>3 DEF WorkersOK
<1>5. r \in Coroutines /\ r.pc = step /\ r.op = co[w].op /\ r.msg = m
      /\ r.by = co[w].by /\ r.yes = co[w].yes
  BY <1>2 DEF Coroutines
<1> HIDE DEF r
<1> QED BY <1>4, <1>5

\* An UPDATE that becomes a CREATE.
LEMMA Conversion ==
    ASSUME WorkersOK, NEW w \in Workers, NEW step \in {"create", "validate"},
           co[w].pc \in MessageSteps,
           Converts(w, step)
    PROVE  \E m \in Messages : GotoWith(w, step, m)
<1> DEFINE m == [co[w].msg EXCEPT !.type = "CREATE_USER"]
           q == [co[w] EXCEPT !.pc = step]
<1>1. co[w] \in Coroutines /\ MemoryOK(co[w], local[w], orig)
  BY DEF WorkersOK
<1>2. m \in Messages
  BY <1>1 DEF MemoryOK, Messages, OperationTypes
<1>3. q.msg = co[w].msg
  BY <1>1 DEF Coroutines
<1>4. co' = [[co EXCEPT ![w] = q] EXCEPT ![w].msg.type = "CREATE_USER"]
  BY DEF Converts, WorkersOK
<1>5. [co EXCEPT ![w].pc = step, ![w].msg = m] = [[co EXCEPT ![w] = q] EXCEPT ![w].msg = m]
  BY DEF WorkersOK
<1>6. [co EXCEPT ![w] = q][w].msg = co[w].msg
  BY <1>3 DEF WorkersOK
<1> HIDE DEF q
<1>7. co' = [[co EXCEPT ![w] = q] EXCEPT ![w].msg = m]
  BY <1>4, <1>6 DEF WorkersOK
<1> QED BY <1>2, <1>5, <1>7 DEF GotoWith

LEMMA ConversionKeeps ==
    ASSUME WorkersOK, NEW w \in Workers, UNCHANGED <<orig, local>>,
           NEW step \in {"create", "validate"}, co[w].pc \in MessageSteps,
           step = "validate" => co[w].pc \in RowSteps,
           Converts(w, step)
    PROVE  WorkersOK'
<1>1. MemoryOK(co[w], local[w], orig) /\ local[w] \in Chains \cup {None}
      /\ local' = [local EXCEPT ![w] = local[w]] /\ step \in Steps
  BY DEF WorkersOK, Steps, DbSteps
<1>2. PICK m \in Messages \cup {None} : m \in Messages /\ GotoWith(w, step, m)
  BY Conversion
<1>3. PICK r \in Coroutines : co' = [co EXCEPT ![w] = r] /\ r.pc = step
                              /\ r.op = co[w].op /\ r.msg = m
  BY <1>1, <1>2, MessageUpdate
<1>4. MemoryOK(r, local[w], orig')
  BY <1>1, <1>2, <1>3 DEF MemoryOK, MessageSteps, RowSteps, MailSteps, HoldingSteps
<1> QED BY <1>1, <1>3, <1>4, WorkerUpdate

\* A step that writes a status and goes on, and one that writes it and ends.
LEMMA StatusStepTypes ==
    ASSUME TypeInv, NEW w \in Workers, co[w].pc \in RowSteps,
           NEW s \in Statuses, SetStatus(co[w].op, s),
           NEW step \in RowSteps, Goto(w, step),
           step \in MessageSteps => co[w].pc \in MessageSteps,
           UNCHANGED <<orig, response, skipped, redis, target, tasks, setup, chainVars>>
    PROVE  TypeInv'
<1>1. RedisOK' /\ TargetOK' /\ KeysOK'
  BY DEF TypeInv, RedisOK, TargetOK, KeysOK, redis, target, setup, chainVars
<1>2. DbOK'
  BY StatusKeeps DEF TypeInv, DbOK
<1>3. UNCHANGED <<orig, local>> /\ WorkersOK
  BY DEF chainVars, TypeInv
<1>4. step \in Steps /\ step # "nextLevel" /\ step \notin MailSteps
      /\ step \notin HoldingSteps /\ co[w].pc # "idle"
  BY DEF RowSteps, MailSteps, HoldingSteps, Steps, DbSteps
<1>5. WorkersOK'
  BY <1>3, <1>4, GotoKeeps DEF At
<1> QED BY <1>1, <1>2, <1>5 DEF TypeInv

LEMMA StatusEndTypes ==
    ASSUME TypeInv, NEW w \in Workers, co[w].pc \in RowSteps,
           NEW s \in Statuses, SetStatus(co[w].op, s), Finish(w),
           UNCHANGED <<orig, response, redis, target, tasks, setup, chainVars>>,
           skipped' \in [Ops -> {"none", "never provisioned", "no changes", "duplicate"}]
    PROVE  TypeInv'
<1>1. RedisOK' /\ TargetOK' /\ KeysOK'
  BY DEF TypeInv, RedisOK, TargetOK, KeysOK, redis, target, setup, chainVars
<1>2. DbOK'
  BY StatusKeeps
<1>3. UNCHANGED <<orig, local>> /\ WorkersOK
  BY DEF chainVars, TypeInv
<1>4. WorkersOK'
  BY <1>3, FinishKeeps
<1> QED BY <1>1, <1>2, <1>4 DEF TypeInv

\* A step after which only the coroutine changed.
LEMMA QuietStepTypes ==
    ASSUME TypeInv, WorkersOK',
           UNCHANGED <<db, redis, target, tasks, setup, chain, tokens, minted, mailed, signed>>
    PROVE  TypeInv'
BY DEF TypeInv, DbOK, RedisOK, TargetOK, KeysOK, db, redis, target, setup

\* A step of either marker check of process_message.
LEMMA ConvertTypes ==
    ASSUME TypeInv, NEW w \in Workers, UNCHANGED chainVars, NEW markers,
           NEW step \in {"wasRejected", "wasDeleted"},
           NEW otherwise \in {"wasDeleted", "create"},
           ConvertUpdate(w, step, markers, otherwise)
    PROVE  TypeInv'
<1>1. DbOK' /\ RedisOK' /\ TargetOK' /\ KeysOK'
  BY DEF TypeInv, ConvertUpdate, DbOK, RedisOK, TargetOK, KeysOK,
         db, redis, target, setup, chainVars
<1>2. /\ co[w].pc = step /\ co[w].pc \in MessageSteps
      /\ UNCHANGED <<orig, local>> /\ WorkersOK
  BY DEF TypeInv, ConvertUpdate, At, MessageSteps, db, chainVars
<1>3. Converts(w, "create") \/ Goto(w, otherwise)
  BY DEF ConvertUpdate, Converts
<1>4. WorkersOK'
  <2>1. CASE Converts(w, "create")
    BY <1>2, <2>1, ConversionKeeps
  <2>2. CASE Goto(w, otherwise)
    BY <1>2, <2>2, GotoKeeps
       DEF At, RowSteps, MailSteps, HoldingSteps, Steps, DbSteps
  <2> QED BY <1>3, <2>1, <2>2
<1> QED BY <1>1, <1>4 DEF TypeInv

LEMMA MessageStepTypes ==
    ASSUME TypeInv, NEW w \in Workers, MessageStep(w), UNCHANGED chainVars
    PROVE  TypeInv'
<1>u. UNCHANGED local /\ KeysOK'
  BY DEF TypeInv, chainVars, KeysOK
<1>w. WorkersOK
  BY DEF TypeInv
<1>1. CASE ConvertRejected(w)
  BY <1>1, ConvertTypes DEF ConvertRejected
<1>2. CASE ConvertDeleted(w)
  BY <1>2, ConvertTypes DEF ConvertDeleted
<1>3. CASE CreateOperation(w)
  <2>1. co[w].pc = "create" /\ co[w].op \in Ops /\ co[w].msg \in Messages
    BY <1>3, Memory DEF CreateOperation, At, MessageSteps
  <2>2. RedisOK' /\ TargetOK'
    BY <1>3 DEF TypeInv, CreateOperation, RedisOK, TargetOK, redis, target, setup
  <2>3. DbOK' /\ orig'[co[w].op] \in Messages
        /\ \A o \in Ops : orig[o] \in Messages => orig'[o] \in Messages
    BY <1>3, <2>1 DEF TypeInv, CreateOperation, DbOK, SetStatus, Statuses
  <2>4. WorkersOK'
    BY <1>3, <1>u, <1>w, <2>1, <2>3, GotoKeeps
       DEF CreateOperation, At, Steps, DbSteps, MessageSteps, RowSteps, MailSteps, HoldingSteps
  <2> QED BY <1>u, <2>2, <2>3, <2>4 DEF TypeInv
<1>4. CASE RecheckRejected(w)
  <2>1. DbOK' /\ RedisOK' /\ TargetOK' /\ orig' = orig
    BY <1>4 DEF TypeInv, RecheckRejected, DbOK, RedisOK, TargetOK, db, redis, target, setup
  <2>2. /\ co[w].pc = "recheck" /\ co[w].pc \in MessageSteps \cap RowSteps
        /\ co[w].msg \in Messages
    BY <1>4, Memory DEF RecheckRejected, At, MessageSteps, RowSteps
  <2>3. \/ Goto(w, "skipDelete") \/ Goto(w, "diff") \/ Goto(w, "validate")
        \/ Converts(w, "validate")
    BY <1>4 DEF RecheckRejected, Converts
  <2>4. WorkersOK'
    <3>1. CASE Converts(w, "validate")
      BY <1>u, <1>w, <2>1, <2>2, <3>1, ConversionKeeps
    <3>2. ASSUME NEW step \in {"skipDelete", "diff", "validate"}, Goto(w, step)
          PROVE  WorkersOK'
      BY <1>u, <1>w, <2>1, <2>2, <3>2, GotoKeeps
         DEF At, Steps, DbSteps, MailSteps, HoldingSteps
    <3> QED BY <2>3, <3>1, <3>2
  <2> QED BY <1>u, <2>1, <2>4 DEF TypeInv
<1>5. CASE SkipDelete(w)
  <2>1. co[w].pc = "skipDelete" /\ orig' = orig
        /\ skipped' \in [Ops -> {"none", "never provisioned", "no changes", "duplicate"}]
    BY <1>5 DEF TypeInv, DbOK, SkipDelete, At
  <2>2. DbOK'
    BY <1>5, <2>1, StatusKeeps DEF SkipDelete, RowSteps, Statuses
  <2>3. RedisOK' /\ TargetOK'
    BY <1>5 DEF TypeInv, SkipDelete, RedisOK, TargetOK, redis, target, setup
  <2>4. WorkersOK'
    BY <1>5, <1>u, <1>w, <2>1, GotoKeeps
       DEF SkipDelete, At, Steps, MessageSteps, RowSteps, MailSteps, HoldingSteps
  <2> QED BY <1>u, <2>2, <2>3, <2>4 DEF TypeInv
<1>6. CASE ClearSkippedMarker(w)
  <2>1. co[w].msg.acct \in Accounts
    BY <1>6, Memory DEF ClearSkippedMarker, At, MessageSteps, Messages
  <2>2. DbOK' /\ RedisOK' /\ TargetOK' /\ orig' = orig
    BY <1>6, <2>1 DEF TypeInv, ClearSkippedMarker, Writes, DbOK, RedisOK, TargetOK,
                      db, target, setup
  <2>3. WorkersOK'
    BY <1>6, <1>u, <1>w, <2>2, FinishKeeps DEF ClearSkippedMarker
  <2> QED BY <1>u, <2>2, <2>3 DEF TypeInv
<1>7. CASE CheckDiff(w)
  <2>1. co[w].pc = "diff"
    BY <1>7 DEF CheckDiff, At
  <2>2. CASE Goto(w, "duplicate") /\ UNCHANGED <<status, skipped>>
    <3>1. WorkersOK'
      BY <1>7, <1>u, <1>w, <2>1, <2>2, GotoKeeps
         DEF CheckDiff, At, Steps, DbSteps, MessageSteps, RowSteps, MailSteps, HoldingSteps
    <3> QED BY <1>7, <2>2, <3>1, QuietStepTypes DEF CheckDiff, db, chainVars
  <2>3. CASE /\ SetStatus(co[w].op, "SUCCESS")
             /\ skipped' = [skipped EXCEPT ![co[w].op] = "no changes"]
             /\ Finish(w)
    <3>1. skipped' \in [Ops -> {"none", "never provisioned", "no changes", "duplicate"}]
      BY <2>3 DEF TypeInv, DbOK
    <3> QED BY <1>7, <2>1, <2>3, <3>1, StatusEndTypes DEF CheckDiff, RowSteps, Statuses
  <2> QED BY <1>7, <2>2, <2>3 DEF CheckDiff
<1>8. CASE CheckDuplicate(w)
  <2>1. co[w].pc = "duplicate"
    BY <1>8 DEF CheckDuplicate, At
  <2>2. CASE Goto(w, "validate") /\ UNCHANGED <<status, skipped>>
    <3>1. WorkersOK'
      BY <1>8, <1>u, <1>w, <2>1, <2>2, GotoKeeps
         DEF CheckDuplicate, At, Steps, DbSteps, MessageSteps, RowSteps, MailSteps, HoldingSteps
    <3> QED BY <1>8, <2>2, <3>1, QuietStepTypes DEF CheckDuplicate, db, chainVars
  <2>3. CASE /\ SetStatus(co[w].op, "SUCCESS")
             /\ skipped' = [skipped EXCEPT ![co[w].op] = "duplicate"]
             /\ Finish(w)
    <3>1. skipped' \in [Ops -> {"none", "never provisioned", "no changes", "duplicate"}]
      BY <2>3 DEF TypeInv, DbOK
    <3> QED BY <1>8, <2>1, <2>3, <3>1, StatusEndTypes DEF CheckDuplicate, RowSteps, Statuses
  <2> QED BY <1>8, <2>2, <2>3 DEF CheckDuplicate
<1>9. CASE MarkValidated(w)
  BY <1>9, StatusStepTypes
     DEF MarkValidated, At, MessageSteps, RowSteps, Statuses
<1>10. CASE SetApprovalPending(w)
  BY <1>10, StatusStepTypes
     DEF SetApprovalPending, At, MessageSteps, RowSteps, Statuses
<1>11. CASE AddPendingApproval(w)
  <2>1. co[w].op \in Ops /\ co[w].msg \in Messages
    BY <1>11, Memory DEF AddPendingApproval, At, MessageSteps
  <2>2. DbOK' /\ RedisOK' /\ TargetOK' /\ orig' = orig
    BY <1>11, <2>1 DEF TypeInv, AddPendingApproval, Writes, DbOK, RedisOK, TargetOK,
                       db, target, setup
  <2>3. WorkersOK'
    BY <1>11, <1>u, <1>w, <2>2, GotoKeeps
       DEF AddPendingApproval, At, Steps, MessageSteps, RowSteps, MailSteps, HoldingSteps
  <2> QED BY <1>u, <2>2, <2>3 DEF TypeInv
<1>12. CASE StoreRequestId(w)
  <2>1. WorkersOK'
    BY <1>12, <1>u, <1>w, FinishKeeps DEF StoreRequestId, db
  <2> QED BY <1>12, <2>1, QuietStepTypes DEF StoreRequestId, chainVars
<1>13. CASE StartAutoApproval(w)
  <2>1. co[w].op \in Ops
    BY <1>13, Memory DEF StartAutoApproval, At
  <2>2. DbOK' /\ RedisOK' /\ TargetOK' /\ orig' = orig
    BY <1>13, <2>1 DEF TypeInv, StartAutoApproval, DbOK, RedisOK, TargetOK,
                       db, redis, target, setup
  <2>3. WorkersOK'
    BY <1>13, <1>u, <1>w, <2>2, GotoKeeps
       DEF StartAutoApproval, At, Steps, DbSteps, MessageSteps, RowSteps, MailSteps, HoldingSteps
  <2> QED BY <1>u, <2>2, <2>3 DEF TypeInv
<1>14. CASE ApprovalRequestFailed(w)
  BY <1>14, StatusStepTypes
     DEF ApprovalRequestFailed, At, MessageSteps, RowSteps, Statuses
<1>15. CASE HandleError(w)
  BY <1>15, StatusEndTypes DEF HandleError, At, RowSteps, Statuses, TypeInv, DbOK
<1> QED BY <1>1, <1>2, <1>3, <1>4, <1>5, <1>6, <1>7, <1>8, <1>9, <1>10, <1>11,
           <1>12, <1>13, <1>14, <1>15 DEF MessageStep

LEMMA ProvisionStepTypes ==
    ASSUME TypeInv, NEW w \in Workers, ProvisionStep(w), UNCHANGED chainVars
    PROVE  TypeInv'
<1>u. UNCHANGED local /\ KeysOK'
  BY DEF TypeInv, chainVars, KeysOK
<1>w. WorkersOK
  BY DEF TypeInv
<1>1. CASE SetProcessing(w)
  BY <1>1, StatusStepTypes DEF SetProcessing, At, MessageSteps, RowSteps, Statuses
<1>2. CASE Execute(w)
  <2> DEFINE done == [account EXCEPT ![co[w].msg.acct] = Provisioned(co[w].msg)]
  <2>1. co[w].pc = "execute" /\ co[w].op \in Ops /\ co[w].msg \in Messages
    BY <1>2, Memory DEF Execute, At, MessageSteps
  <2>2. done \in [Accounts -> Data \cup {None}]
    BY <2>1 DEF TypeInv, TargetOK, Provisioned, Messages
  <2>3. account' \in {account, done} /\ calls' = [calls EXCEPT ![co[w].op] = @ + 1]
        /\ (Goto(w, "succeed") \/ Goto(w, Failing(w)))
        /\ UNCHANGED <<db, redis, tasks, setup>>
    BY <1>2 DEF Execute
  <2> HIDE DEF done
  <2>4. TargetOK'
    BY <2>1, <2>2, <2>3 DEF TypeInv, TargetOK, setup
  <2>5. DbOK' /\ RedisOK' /\ orig' = orig
    BY <2>3 DEF TypeInv, DbOK, RedisOK, db, redis
  <2>6. PICK step \in {"succeed", "messageFail", "decisionFail"} : Goto(w, step)
    BY <2>3 DEF Failing
  <2>7. WorkersOK'
    BY <1>u, <1>w, <2>1, <2>5, <2>6, GotoKeeps
       DEF At, Steps, DbSteps, MessageSteps, RowSteps, MailSteps, HoldingSteps
  <2> QED BY <1>u, <2>4, <2>5, <2>7 DEF TypeInv
<1>3. CASE SetSuccess(w)
  BY <1>3, StatusStepTypes DEF SetSuccess, At, MessageSteps, RowSteps, Statuses
<1>4. CASE AfterProvisioning(w)
  <2>1. co[w].pc = "audited" /\ orig[co[w].op].type \in OperationTypes
    BY <1>4, Memory DEF AfterProvisioning, At, RowSteps, Messages
  <2>2. PICK step \in {"return", "clearRejected", "storeState", "dropState"} : Goto(w, step)
    BY <1>4, <2>1 DEF AfterProvisioning, OperationTypes
  <2>3. WorkersOK'
    BY <1>4, <1>u, <1>w, <2>1, <2>2, GotoKeeps
       DEF AfterProvisioning, db, At, Steps, MessageSteps, RowSteps, MailSteps, HoldingSteps
  <2> QED BY <1>4, <2>3, QuietStepTypes DEF AfterProvisioning, chainVars
<1> QED BY <1>1, <1>2, <1>3, <1>4 DEF ProvisionStep

\* A step of a decision that writes Redis for the account of its operation.
LEMMA MarkerStepTypes ==
    ASSUME TypeInv, NEW w \in Workers, co[w].pc \in RowSteps,
           NEW step \in {"clearDeleted", "storeState", "markDeleted", "return"},
           Goto(w, step),
           UNCHANGED <<db, pending, target, tasks, setup, chainVars>>,
           rejected' \subseteq Accounts, deleted' \subseteq Accounts,
           snapshot' \in [Accounts -> Data \cup {None}]
    PROVE  TypeInv'
<1>1. DbOK' /\ RedisOK' /\ TargetOK' /\ KeysOK'
  BY DEF TypeInv, DbOK, RedisOK, TargetOK, KeysOK, db, target, setup, chainVars
<1>2. UNCHANGED <<orig, local>> /\ WorkersOK
  BY DEF TypeInv, db, chainVars
<1>3. WorkersOK'
  BY <1>2, GotoKeeps DEF At, Steps, MessageSteps, RowSteps, MailSteps, HoldingSteps
<1> QED BY <1>1, <1>3 DEF TypeInv

LEMMA DecisionStepTypes ==
    ASSUME TypeInv, NEW w \in Workers, DecisionStep(w), UNCHANGED chainVars
    PROVE  TypeInv'
<1>u. UNCHANGED local /\ KeysOK'
  BY DEF TypeInv, chainVars, KeysOK
<1>w. WorkersOK
  BY DEF TypeInv
<1>t. /\ co[w].pc \in RowSteps => orig[co[w].op] \in Messages
      /\ rejected \subseteq Accounts /\ deleted \subseteq Accounts
      /\ snapshot \in [Accounts -> Data \cup {None}]
  BY Memory DEF TypeInv, RedisOK
<1>1. CASE CheckStatus(w)
  <2>1. co[w].pc = "check" /\ co[w].op \in Ops /\ orig' = orig
    BY <1>1, Memory DEF CheckStatus, At, db
  <2>2. CASE status[co[w].op] = "APPROVAL_PENDING" /\ Goto(w, "record")
    <3>1. orig'[co[w].op] \in Messages
      BY <2>1, <2>2 DEF TypeInv, DbOK
    <3>2. WorkersOK'
      BY <1>u, <1>w, <2>1, <2>2, <3>1, GotoKeeps
         DEF At, Steps, DbSteps, MessageSteps, RowSteps, MailSteps, HoldingSteps
    <3> QED BY <1>1, <3>2, QuietStepTypes DEF CheckStatus, chainVars
  <2>3. CASE Goto(w, "decisionFail")
    <3>1. WorkersOK'
      BY <1>u, <1>w, <2>1, <2>3, GotoKeeps
         DEF At, Steps, DbSteps, MessageSteps, RowSteps, MailSteps, HoldingSteps
    <3> QED BY <1>1, <3>1, QuietStepTypes DEF CheckStatus, chainVars
  <2> QED BY <1>1, <2>2, <2>3 DEF CheckStatus
<1>2. CASE StoreResponse(w)
  <2>1. co[w].pc = "record" /\ co[w].op \in Ops
    BY <1>2, Memory DEF StoreResponse, At
  <2>2. DbOK' /\ RedisOK' /\ TargetOK' /\ orig' = orig
    BY <1>2, <2>1 DEF TypeInv, StoreResponse, DbOK, RedisOK, TargetOK, redis, target, setup
  <2>3. PICK step \in {"processing", "reject"} : Goto(w, step)
    BY <1>2 DEF StoreResponse
  <2>4. WorkersOK'
    BY <1>u, <1>w, <2>1, <2>2, <2>3, GotoKeeps
       DEF At, Steps, DbSteps, MessageSteps, RowSteps, MailSteps, HoldingSteps
  <2> QED BY <1>u, <2>2, <2>4 DEF TypeInv
<1>3. CASE SetApproved(w)
  BY <1>3, StatusStepTypes DEF SetApproved, At, MessageSteps, RowSteps, Statuses
<1>4. CASE SetRejected(w)
  BY <1>4, StatusStepTypes DEF SetRejected, At, MessageSteps, RowSteps, Statuses
<1>5. CASE RemovePending(w)
  <2>1. co[w].pc = "unpend" /\ co[w].op \in Ops /\ orig[co[w].op] \in Messages
        /\ co[w] \in Coroutines /\ local[w] \in Chains \cup {None}
    BY <1>5, Memory DEF RemovePending, At, RowSteps
  <2>2. DbOK' /\ TargetOK' /\ orig' = orig
    BY <1>5 DEF TypeInv, RemovePending, DbOK, TargetOK, db, target, setup
  <2>3. RedisOK'
    BY <1>5, <2>1 DEF TypeInv, RemovePending, Writes, RedisOK
  <2>4. PICK step \in {"provision", "storeRejected", "return"}, m \in Messages \cup {None} :
          /\ GotoWith(w, step, m)
          /\ step = "provision" => m \in Messages
    BY <1>5, <2>1, <2>3 DEF RemovePending, RedisOK, GotoWith
  <2>5. step \in Steps
    BY DEF Steps, DbSteps
  <2>6. PICK r \in Coroutines : co' = [co EXCEPT ![w] = r] /\ r.pc = step
                                /\ r.op = co[w].op /\ r.msg = m
    BY <1>w, <2>4, <2>5, MessageUpdate
  <2>7. MemoryOK(r, local[w], orig')
    BY <2>1, <2>2, <2>4, <2>6 DEF MemoryOK, MessageSteps, RowSteps, MailSteps, HoldingSteps
  <2>8. local' = [local EXCEPT ![w] = local[w]]
    BY <1>u, <1>w DEF WorkersOK
  <2>9. WorkersOK'
    BY <1>w, <2>1, <2>2, <2>6, <2>7, <2>8, WorkerUpdate
  <2> QED BY <1>u, <2>2, <2>3, <2>9 DEF TypeInv
<1>6. CASE StoreRejectedCreate(w)
  <2>1. rejected' \subseteq Accounts
    BY <1>6, <1>t DEF StoreRejectedCreate, Writes, At, RowSteps, Messages
  <2> QED BY <1>6, <1>t, <2>1, MarkerStepTypes DEF StoreRejectedCreate, At, RowSteps
<1>7. CASE ClearRejectedCreate(w)
  <2>1. rejected' \subseteq Accounts
    BY <1>7, <1>t DEF ClearRejectedCreate, Writes
  <2> QED BY <1>7, <1>t, <2>1, MarkerStepTypes DEF ClearRejectedCreate, At, RowSteps
<1>8. CASE ClearUserDeleted(w)
  <2>1. deleted' \subseteq Accounts
    BY <1>8, <1>t DEF ClearUserDeleted, Writes
  <2> QED BY <1>8, <1>t, <2>1, MarkerStepTypes DEF ClearUserDeleted, At, RowSteps
<1>9. CASE StoreUserState(w)
  <2>1. snapshot' \in [Accounts -> Data \cup {None}]
    BY <1>9, <1>t DEF StoreUserState, Writes, At, RowSteps, Messages
  <2> QED BY <1>9, <1>t, <2>1, MarkerStepTypes DEF StoreUserState, At, RowSteps
<1>10. CASE DeleteUserState(w)
  <2>1. snapshot' \in [Accounts -> Data \cup {None}]
    BY <1>10, <1>t DEF DeleteUserState, Writes
  <2> QED BY <1>10, <1>t, <2>1, MarkerStepTypes DEF DeleteUserState, At, RowSteps
<1>11. CASE MarkUserDeleted(w)
  <2>1. deleted' \subseteq Accounts
    BY <1>11, <1>t DEF MarkUserDeleted, Writes, At, RowSteps, Messages
  <2> QED BY <1>11, <1>t, <2>1, MarkerStepTypes DEF MarkUserDeleted, At, RowSteps
<1>12. CASE DecisionFailed(w)
  <2>1. co[w].pc = "decisionFail" /\ co[w].op \in Ops /\ orig' = orig
    BY <1>12, Memory DEF DecisionFailed, At, db
  <2>2. CASE status[co[w].op] = "PROCESSING" /\ Goto(w, "fail")
    <3>1. orig'[co[w].op] \in Messages
      BY <2>1, <2>2 DEF TypeInv, DbOK
    <3>2. WorkersOK'
      BY <1>u, <1>w, <2>1, <2>2, <3>1, GotoKeeps
         DEF At, Steps, DbSteps, MessageSteps, RowSteps, MailSteps, HoldingSteps
    <3> QED BY <1>12, <3>2, QuietStepTypes DEF DecisionFailed, chainVars
  <2>3. CASE Finish(w)
    <3>1. WorkersOK'
      BY <1>u, <1>w, <2>1, <2>3, FinishKeeps
    <3> QED BY <1>12, <3>1, QuietStepTypes DEF DecisionFailed, chainVars
  <2> QED BY <1>12, <2>2, <2>3 DEF DecisionFailed
<1>13. CASE SetFailed(w)
  BY <1>13, StatusEndTypes DEF SetFailed, At, RowSteps, Statuses, TypeInv, DbOK
<1> QED BY <1>1, <1>2, <1>3, <1>4, <1>5, <1>6, <1>7, <1>8, <1>9, <1>10, <1>11,
           <1>12, <1>13 DEF DecisionStep

-----------------------------------------------------------------------------
(* Steps of the chain *)

\* A coroutine that goes to another step with another chain in memory.
LEMMA GotoWithKeeps ==
    ASSUME WorkersOK, NEW w \in Workers, NEW step \in Steps, ~At(w, "idle"),
           Goto(w, step), UNCHANGED orig, NEW l \in Chains \cup {None},
           local' = [local EXCEPT ![w] = l],
           step \notin MessageSteps,
           step \in RowSteps => \/ co[w].pc \in RowSteps
                                \/ (co[w].pc \in MailSteps /\ co[w].by = "consumer"),
           step \in MailSteps => co[w].pc \in MailSteps \cup RowSteps,
           step \in HoldingSteps => l \in Chains,
           step = "nextLevel" => l.index + 1 \in Indexes
    PROVE  WorkersOK'
<1> DEFINE r == [co[w] EXCEPT !.pc = step]
<1>1. co[w] \in Coroutines /\ MemoryOK(co[w], local[w], orig)
  BY DEF WorkersOK
<1>2. r \in Coroutines /\ r.pc = step /\ r.op = co[w].op /\ r.by = co[w].by
  BY <1>1 DEF Coroutines
<1>3. co' = [co EXCEPT ![w] = r]
  BY DEF Goto, WorkersOK
<1>4. MemoryOK(r, l, orig')
  <2> HIDE DEF r
  <2> QED BY <1>1, <1>2 DEF MemoryOK, At
<1> HIDE DEF r
<1> QED BY <1>2, <1>3, <1>4, WorkerUpdate

LEMMA ChainStepTypes ==
    ASSUME TypeInv, NEW w \in Workers, ChainStep(w)
    PROVE  TypeInv'
<1>w. WorkersOK /\ KeysOK /\ local[w] \in Chains \cup {None}
  BY Memory DEF TypeInv
<1>1. CASE StoreChain(w)
  <2> DEFINE o     == co[w].op
             index == IF At(w, "approvalSend") THEN 0 ELSE local[w].index + 1
             new   == [index |-> index, token |-> <<o, minted[o] + 1>>]
  <2>1. co[w].pc \in {"approvalSend", "nextLevel"} /\ o \in Ops /\ index \in Indexes
    BY <1>1, Memory, ChainAssumption DEF StoreChain, At, Indexes
  <2>2. minted[o] \in Nat
    BY <1>w, <2>1 DEF KeysOK
  <2>3. new \in Chains
    BY <2>1, <2>2 DEF Chains, Tokens
  <2>4. /\ minted' = [minted EXCEPT ![o] = @ + 1] /\ local' = [local EXCEPT ![w] = new]
        /\ chain' \in Writes([chain EXCEPT ![o] = new], chain)
        /\ Goto(w, "storeToken")
        /\ UNCHANGED <<db, redis, target, tasks, setup, tokens, mailed, signed>>
    BY <1>1 DEF StoreChain
  <2> HIDE DEF index, new
  <2>5. KeysOK'
    BY <1>w, <2>1, <2>2, <2>3, <2>4 DEF KeysOK, Writes
  <2>6. DbOK' /\ RedisOK' /\ TargetOK' /\ orig' = orig
    BY <2>4 DEF TypeInv, DbOK, RedisOK, TargetOK, db, redis, target, setup
  <2>7. WorkersOK'
    <3>1. /\ ~At(w, "idle") /\ co[w].pc \in MailSteps \cup RowSteps
          /\ "storeToken" \in Steps /\ "storeToken" \notin MessageSteps \cup RowSteps
      BY <2>1 DEF At, Steps, MessageSteps, RowSteps, MailSteps
    <3> QED BY <1>w, <2>3, <2>4, <2>6, <3>1, GotoWithKeeps
  <2> QED BY <2>5, <2>6, <2>7 DEF TypeInv
<1>2. CASE StoreDecisionToken(w)
  <2>1. co[w].pc = "storeToken" /\ local[w] \in Chains
    BY <1>2, Memory DEF StoreDecisionToken, At, HoldingSteps
  <2>2. KeysOK'
    BY <1>2, <1>w, <2>1 DEF StoreDecisionToken, KeysOK, Writes, Chains
  <2>3. DbOK' /\ RedisOK' /\ TargetOK' /\ UNCHANGED <<orig, local>>
    BY <1>2 DEF TypeInv, StoreDecisionToken, DbOK, RedisOK, TargetOK, db, redis, target, setup
  <2>4. WorkersOK'
    BY <1>2, <1>w, <2>1, <2>3, GotoKeeps
       DEF StoreDecisionToken, At, Steps, DbSteps, MessageSteps, RowSteps, MailSteps, HoldingSteps
  <2> QED BY <2>2, <2>3, <2>4 DEF TypeInv
<1>3. CASE SendEmail(w)
  <2>1. co[w].pc = "sendEmail" /\ local[w] \in Chains
    BY <1>3, Memory DEF SendEmail, At, HoldingSteps
  <2>2. KeysOK'
    BY <1>3, <1>w, <2>1 DEF SendEmail, KeysOK, Chains
  <2>3. DbOK' /\ RedisOK' /\ TargetOK' /\ orig' = orig
    BY <1>3 DEF TypeInv, SendEmail, DbOK, RedisOK, TargetOK, db, redis, target, setup
  <2>4. WorkersOK'
    <3>1. local' = [local EXCEPT ![w] = None]
      BY <1>3 DEF SendEmail
    <3>2. CASE Finish(w)
      BY <1>w, <2>3, <3>1, <3>2, FinishKeeps
    <3>3. ASSUME co[w].by = "consumer",
                 NEW step \in {"approvalId", "approvalFail"}, Goto(w, step)
          PROVE  WorkersOK'
      BY <1>w, <2>1, <2>3, <3>1, <3>3, GotoWithKeeps
         DEF At, Steps, DbSteps, MessageSteps, RowSteps, MailSteps, HoldingSteps
    <3> QED BY <1>3, <3>2, <3>3 DEF SendEmail
  <2> QED BY <2>2, <2>3, <2>4 DEF TypeInv
<1>4. CASE ReadChain(w)
  <2> DEFINE ch == chain[co[w].op]
  <2>1. co[w].pc = "readChain" /\ co[w].op \in Ops
    BY <1>4, Memory DEF ReadChain, At
  <2>2. ch \in Chains \cup {None}
    BY <1>w, <2>1 DEF KeysOK
  <2>3. /\ UNCHANGED <<db, redis, target, tasks, setup, chain, tokens, minted, mailed>>
        /\ DbOK' /\ RedisOK' /\ TargetOK' /\ orig' = orig
    BY <1>4 DEF TypeInv, ReadChain, DbOK, RedisOK, TargetOK, db, redis, target, setup
  <2>4. CASE /\ ch # None
             /\ local'  = [local EXCEPT ![w] = ch]
             /\ signed' = IF co[w].yes
                          THEN [signed EXCEPT ![co[w].op] = @ \cup {ch.index}] ELSE signed
             /\ Goto(w, AfterSignature(co[w].yes, ch.index))
    <3>1. ch \in Chains /\ ch.index \in Indexes
      BY <2>2, <2>4 DEF Chains
    <3> HIDE DEF ch
    <3>2. KeysOK'
      BY <1>w, <2>1, <2>3, <2>4, <3>1 DEF KeysOK
    <3>3. PICK step \in {"nextLevel", "cleanup"} :
            Goto(w, step) /\ (step = "nextLevel" => ch.index + 1 \in Indexes)
      BY <2>4, <3>1, ChainAssumption DEF AfterSignature, Indexes
    <3>4. WorkersOK'
      BY <1>w, <2>1, <2>3, <2>4, <3>1, <3>3, GotoWithKeeps
         DEF At, Steps, MessageSteps, RowSteps, MailSteps
    <3> QED BY <2>3, <3>2, <3>4 DEF TypeInv
  <2>5. CASE local' = [local EXCEPT ![w] = None] /\ Finish(w) /\ UNCHANGED signed
    <3>1. WorkersOK'
      BY <1>w, <2>3, <2>5, FinishKeeps
    <3> QED BY <2>3, <2>5, <3>1, QuietStepTypes
  <2> QED BY <1>4, <2>4, <2>5 DEF ReadChain, Reads
<1>5. CASE Cleanup(w)
  <2>1. co[w].pc = "cleanup" /\ co[w].op \in Ops
    BY <1>5, Memory DEF Cleanup, At
  <2>2. KeysOK'
    BY <1>5, <1>w, <2>1 DEF Cleanup, KeysOK, Writes
  <2>3. DbOK' /\ RedisOK' /\ TargetOK' /\ orig' = orig
    BY <1>5 DEF TypeInv, Cleanup, DbOK, RedisOK, TargetOK, db, redis, target, setup
  <2>4. WorkersOK'
    <3>1. /\ ~At(w, "idle") /\ "check" \in Steps
          /\ "check" \notin MessageSteps \cup RowSteps \cup MailSteps \cup HoldingSteps
      BY <2>1 DEF At, Steps, DbSteps, MessageSteps, RowSteps, MailSteps, HoldingSteps
    <3>2. local' = [local EXCEPT ![w] = None] /\ Goto(w, "check")
      BY <1>5 DEF Cleanup
    <3> QED BY <1>w, <2>3, <3>1, <3>2, GotoWithKeeps
  <2> QED BY <2>2, <2>3, <2>4 DEF TypeInv
<1>6. CASE ReturnFromDecision(w)
  <2>1. co[w].pc = "return" /\ UNCHANGED <<orig, local>> /\ (Goto(w, "findChain") \/ Finish(w))
    BY <1>6 DEF ReturnFromDecision, At, db, chainVars
  <2>2. WorkersOK'
    <3>1. CASE Goto(w, "findChain")
      BY <1>w, <2>1, <3>1, GotoKeeps
         DEF At, Steps, MessageSteps, RowSteps, MailSteps, HoldingSteps
    <3>2. CASE Finish(w)
      BY <1>w, <2>1, <3>2, FinishKeeps
    <3> QED BY <2>1, <3>1, <3>2
  <2> QED BY <1>6, <2>2, QuietStepTypes DEF ReturnFromDecision, chainVars
<1>7. CASE FindChain(w)
  <2> DEFINE ch == chain[co[w].op]
  <2>1. co[w].pc = "findChain" /\ co[w].op \in Ops /\ orig' = orig
    BY <1>7, Memory DEF FindChain, At, db
  <2>2. ch \in Chains \cup {None}
    BY <1>w, <2>1 DEF KeysOK
  <2>3. WorkersOK'
    <3>1. CASE ch # None /\ local' = [local EXCEPT ![w] = ch] /\ Goto(w, "dropToken")
      <4>1. /\ ~At(w, "idle") /\ "dropToken" \in Steps
            /\ "dropToken" \notin MessageSteps \cup RowSteps \cup MailSteps
        BY <2>1 DEF At, Steps, MessageSteps, RowSteps, MailSteps
      <4> HIDE DEF ch
      <4> QED BY <1>w, <2>1, <2>2, <3>1, <4>1, GotoWithKeeps
    <3>2. CASE UNCHANGED local /\ Finish(w)
      BY <1>w, <2>1, <3>2, FinishKeeps
    <3> QED BY <1>7, <3>1, <3>2 DEF FindChain, Reads
  <2> QED BY <1>7, <2>3, QuietStepTypes DEF FindChain
<1>8. CASE DropToken(w)
  <2>1. co[w].pc = "dropToken"
    BY <1>8 DEF DropToken, At
  <2>2. KeysOK'
    BY <1>8, <1>w DEF DropToken, KeysOK, Writes
  <2>3. DbOK' /\ RedisOK' /\ TargetOK' /\ UNCHANGED <<orig, local>>
    BY <1>8 DEF TypeInv, DropToken, DbOK, RedisOK, TargetOK, db, redis, target, setup
  <2>4. WorkersOK'
    BY <1>8, <1>w, <2>1, <2>3, GotoKeeps
       DEF DropToken, At, Steps, MessageSteps, RowSteps, MailSteps, HoldingSteps
  <2> QED BY <2>2, <2>3, <2>4 DEF TypeInv
<1>9. CASE DropChain(w)
  <2>1. KeysOK'
    BY <1>9, <1>w DEF DropChain, KeysOK, Writes
  <2>2. DbOK' /\ RedisOK' /\ TargetOK' /\ orig' = orig
    BY <1>9 DEF TypeInv, DropChain, DbOK, RedisOK, TargetOK, db, redis, target, setup
  <2>3. WorkersOK'
    BY <1>9, <1>w, <2>2, FinishKeeps DEF DropChain
  <2> QED BY <2>1, <2>2, <2>3 DEF TypeInv
<1> QED BY <1>1, <1>2, <1>3, <1>4, <1>5, <1>6, <1>7, <1>8, <1>9 DEF ChainStep

-----------------------------------------------------------------------------
(* Faults *)

\* The step after a database error needs nothing that the failed one did not.
LEMMA AfterDbErrorStep ==
    ASSUME TypeInv, NEW w \in Workers, co[w].pc \in DbSteps,
           NEW step, step = AfterDbError(co[w].pc, co[w].by)
    PROVE  /\ step \in Steps /\ step \notin MailSteps \cup HoldingSteps
           /\ step \in MessageSteps => co[w].pc \in MessageSteps
           /\ step \in RowSteps => co[w].pc \in RowSteps
BY DEF AfterDbError, DbSteps, Steps, MessageSteps, RowSteps, MailSteps, HoldingSteps

\* A fault leaves every coroutine either dead or with all it needs.
KillsOrKeeps ==
    /\ co' \in [Workers -> Coroutines]
    /\ \A w \in Workers : co'[w] = Idle \/ MemoryOK(co'[w], local[w], orig)

\* A fault that changes coroutines keeps what the others hold.
LEMMA FaultKeeps ==
    ASSUME WorkersOK, UNCHANGED orig, ForgetLocal, KillsOrKeeps
    PROVE  WorkersOK'
<1>1. local' \in [Workers -> Chains \cup {None}]
  BY DEF WorkersOK, ForgetLocal
<1>2. ASSUME NEW w \in Workers PROVE MemoryOK(co'[w], local'[w], orig')
  <2>1. CASE co'[w] = Idle
    BY <2>1, IdleValue DEF MemoryOK, MessageSteps, RowSteps, MailSteps, HoldingSteps
  <2>2. CASE co'[w] # Idle
    BY <2>2 DEF ForgetLocal, KillsOrKeeps
  <2> QED BY <2>1, <2>2
<1> QED BY <1>1, <1>2 DEF WorkersOK, KillsOrKeeps

LEMMA FaultTypes == TypeInv /\ OrchestratorFault => TypeInv'
<1> SUFFICES ASSUME TypeInv, OrchestratorFault PROVE TypeInv'
  OBVIOUS
<1>u. ForgetLocal /\ KeysOK' /\ WorkersOK
  BY DEF TypeInv, OrchestratorFault, KeysOK
<1>1. ASSUME NEW w \in Workers, DbError(w) PROVE TypeInv'
  <2>1. DbOK' /\ RedisOK' /\ TargetOK' /\ orig' = orig
    BY <1>1 DEF TypeInv, DbError, DbOK, RedisOK, TargetOK, db, redis, target, setup
  <2>2. KillsOrKeeps
    <3>1. CASE Finish(w)
      BY <1>u, <3>1, IdleValue DEF Finish, WorkersOK, KillsOrKeeps
    <3>2. ASSUME NEW step, step = AfterDbError(co[w].pc, co[w].by), Goto(w, step)
          PROVE  KillsOrKeeps
      <4> DEFINE r == [co[w] EXCEPT !.pc = step]
      <4>1. co[w].pc \in DbSteps
        BY <1>1 DEF DbError
      <4>2. co[w] \in Coroutines /\ MemoryOK(co[w], local[w], orig) /\ co[w].pc # "idle"
        BY <1>u, <4>1 DEF WorkersOK, DbSteps
      <4>3. /\ step \in Steps /\ step \notin MailSteps \cup HoldingSteps
            /\ step \in MessageSteps => co[w].pc \in MessageSteps
            /\ step \in RowSteps => co[w].pc \in RowSteps
        BY <3>2, <4>1, AfterDbErrorStep
      <4>4. r \in Coroutines /\ r.pc = step /\ r.op = co[w].op /\ r.msg = co[w].msg
        BY <4>2, <4>3 DEF Coroutines
      <4>5. co' = [co EXCEPT ![w] = r]
        BY <1>u, <3>2 DEF Goto, WorkersOK
      <4> HIDE DEF r
      <4>6. MemoryOK(r, local[w], orig)
        BY <4>2, <4>3, <4>4 DEF MemoryOK, MailSteps, HoldingSteps
      <4> QED BY <1>u, <4>4, <4>5, <4>6 DEF WorkersOK, KillsOrKeeps
    <3> QED BY <1>1, <3>1, <3>2 DEF DbError
  <2> QED BY <1>u, <2>1, <2>2, FaultKeeps DEF TypeInv
<1>2. ASSUME ConsumerCrash \/ ApiCrash PROVE TypeInv'
  <2>1. DbOK' /\ RedisOK' /\ TargetOK' /\ orig' = orig
    BY <1>2 DEF TypeInv, ConsumerCrash, ApiCrash, DbOK, RedisOK, TargetOK,
                db, redis, target, setup
  <2>2. KillsOrKeeps
    BY <1>2, <1>u, IdleValue DEF ConsumerCrash, ApiCrash, WorkersOK, KillsOrKeeps
  <2> QED BY <1>u, <2>1, <2>2, FaultKeeps DEF TypeInv
<1>3. ASSUME NEW o \in Ops, PendingExpires(o) PROVE TypeInv'
  <2>1. DbOK' /\ RedisOK' /\ TargetOK' /\ UNCHANGED <<orig, co>>
    BY <1>3 DEF TypeInv, PendingExpires, DbOK, RedisOK, TargetOK, db, target, setup
  <2>2. KillsOrKeeps
    BY <1>u, <2>1 DEF WorkersOK, KillsOrKeeps
  <2> QED BY <1>u, <2>1, <2>2, FaultKeeps DEF TypeInv
<1> QED BY <1>1, <1>2, <1>3 DEF OrchestratorFault, FaultStep

\* The chain or a token of an email expires.
LEMMA ExpiryTypes ==
    ASSUME TypeInv, \/ \E o \in Ops : ChainExpires(o)
                    \/ \E t \in tokens : TokenExpires(t)
    PROVE  TypeInv'
<1>1. UNCHANGED <<orchVars, minted, mailed, local, signed>>
  BY DEF ChainExpires, TokenExpires
<1>2. DbOK' /\ RedisOK' /\ TargetOK' /\ WorkersOK'
  BY <1>1 DEF TypeInv, DbOK, RedisOK, TargetOK, WorkersOK, orchVars, db, redis, target, setup
<1>3. KeysOK'
  BY DEF TypeInv, KeysOK, ChainExpires, TokenExpires
<1> QED BY <1>2, <1>3 DEF TypeInv

-----------------------------------------------------------------------------

LEMMA NextTypes == TypeInv /\ [ChainNext]_vars => TypeInv'
<1> SUFFICES ASSUME TypeInv, [ChainNext]_vars PROVE TypeInv'
  OBVIOUS
<1>1. ASSUME NEW w \in Workers, NEW o \in Ops, NEW m \in Messages,
             Receive(w, o, m), UNCHANGED chainVars
      PROVE  TypeInv'
  BY <1>1, ReceiveTypes
<1>2. ASSUME NEW w \in Workers, ChainWorkerStep(w) PROVE TypeInv'
  BY <1>2, ChainStepTypes, MessageStepTypes, ProvisionStepTypes, DecisionStepTypes
     DEF ChainWorkerStep, WorkerStep
<1>3. ASSUME NEW o \in Ops, AutoApproval(o) PROVE TypeInv'
  BY <1>3, AutoApproveTypes DEF AutoApproval
<1>4. ASSUME NEW w \in Workers, NEW t \in tokens, NEW yes \in BOOLEAN, Click(w, t, yes)
      PROVE  TypeInv'
  BY <1>4, ClickTypes
<1>5. ASSUME NEW w \in Workers, NEW o \in Ops, NEW yes \in BOOLEAN,
             ApproveCallback(w, o, yes), UNCHANGED chainVars
      PROVE  TypeInv'
  BY <1>5, CallbackTypes
<1>6. CASE OrchestratorFault
  BY <1>6, FaultTypes
<1>7. CASE (\E o \in Ops : ChainExpires(o)) \/ (\E t \in tokens : TokenExpires(t))
  BY <1>7, ExpiryTypes
<1>8. CASE UNCHANGED vars
  BY <1>8 DEF vars, orchVars, chainVars, db, redis, target, setup,
              TypeInv, DbOK, RedisOK, TargetOK, KeysOK, WorkersOK
<1> QED BY <1>1, <1>2, <1>3, <1>4, <1>5, <1>6, <1>7, <1>8 DEF ChainNext

\* Types are kept whatever the mode, the faults and the interleaving: no
\* coroutine goes on without the message, the row or the chain its next call reads.
THEOREM ChainTypeCorrect == ChainSpec => [](TypeOK /\ ChainTypeOK)
<1>1. ChainSpec => []TypeInv
  BY InitialTypes, NextTypes, PTL DEF ChainSpec
<1> QED BY <1>1, TypeInvSuffices, PTL


-----------------------------------------------------------------------------
(* Decisions.  The argument is about authority: what may still lead to a    *)
(* call of the target for an operation.  At any time it lies in one place   *)
(* only: in a coroutine, in a sleeping auto-approval task, or in the link   *)
(* of the level that is asked.                                              *)

\* process_message before its row exists, and until approval is asked for.
EarlySteps == {"wasRejected", "wasDeleted", "create"}
AskSteps   == EarlySteps \cup
              {"recheck", "skipDelete", "diff", "duplicate", "validate",
               "approvalStatus", "approvalPending", "approvalSend"}

\* A decision until the target is called.
VerdictSteps == {"cleanup", "check", "record", "processing", "reject", "unpend"}
TargetSteps  == {"provision", "execute"}

PowerSteps == AskSteps \cup VerdictSteps \cup TargetSteps \cup {"storeToken", "nextLevel"}

\* The coroutine has consumed the token that the chain waits for.
HoldsLink(w) ==
    /\ At(w, "readChain")
    /\ chain[co[w].op] # None /\ chain[co[w].op].token = local[w].token

HasPower(w, o) == co[w].op = o /\ (co[w].pc \in PowerSteps \/ HoldsLink(w))

LiveLink(o) == chain[o] # None /\ chain[o].token \in tokens

\* Authority over an operation lies in one place, and nothing was decided yet.
OneAuthority(o) ==
    /\ \A v, w \in Workers : HasPower(v, o) /\ HasPower(w, o) => v = w
    /\ \A w \in Workers : HasPower(w, o) => o \notin tasks /\ ~LiveLink(o)
    /\ ~(o \in tasks /\ LiveLink(o))
    /\ (\E w \in Workers : HasPower(w, o)) \/ o \in tasks \/ LiveLink(o)
         => calls[o] = 0 /\ skipped[o] = "none"

\* What the step of a coroutine says of its operation.
StepSafe(w, o) ==
    co[w].op = o =>
      /\ ~At(w, "idle") /\ co[w].by # "callback"
      /\ co[w].pc \notin {"findChain", "dropToken", "dropChain"}
      /\ co[w].pc \notin EarlySteps => status[o] # "none"
      /\ co[w].pc \in EarlySteps => w \in Consumers
      /\ co[w].pc \in AskSteps => signed[o] = {}
      /\ At(w, "storeToken") \/ At(w, "readChain") \/ At(w, "cleanup") =>
           local[w].token[1] = o /\ local[w].token[2] <= minted[o]
      /\ At(w, "storeToken") =>
           /\ signed[o] = 0 .. local[w].index - 1
           /\ chain[o] # None /\ chain[o].token = local[w].token
                => chain[o].index = local[w].index
      /\ HoldsLink(w)        => signed[o] = 0 .. chain[o].index - 1
      /\ At(w, "nextLevel")  => signed[o] = 0 .. local[w].index
      /\ co[w].pc \in VerdictSteps /\ co[w].yes => signed[o] = 0 .. Required - 1
      /\ co[w].pc \in TargetSteps => signed[o] = 0 .. Required - 1
      /\ At(w, "processing") => co[w].yes
      /\ At(w, "reject")     => ~co[w].yes
      /\ At(w, "processing") \/ (At(w, "unpend") /\ co[w].yes) => response[o] = "approved"
      /\ co[w].pc \in TargetSteps /\ mode # "off" => response[o] = "approved"
      /\ At(w, "succeed") => calls[o] = 1

\* What Redis and the rows say of an operation.
RecordsSafe(o) ==
    /\ chain[o] # None => mode = "email" /\ chain[o].token[1] = o
                          /\ chain[o].token[2] <= minted[o]
    /\ LiveLink(o) => signed[o] = 0 .. chain[o].index - 1
    /\ \A t \in tokens : t[1] = o => t[2] <= minted[o] /\ status[o] # "none"
    /\ o \in tasks => mode = "auto" /\ status[o] # "none"
    /\ mode # "email" => signed[o] = {}
    /\ status[o] = "none" => /\ calls[o] = 0 /\ skipped[o] = "none"
                             /\ signed[o] = {} /\ chain[o] = None
    /\ calls[o] # 0 => /\ calls[o] = 1 /\ skipped[o] = "none"
                       /\ mode # "off" => response[o] = "approved"
                       /\ signed[o] = 0 .. Required - 1
    /\ status[o] = "SUCCESS" => calls[o] = 1 \/ skipped[o] # "none"
    /\ \A l \in signed[o] : \A k \in 0 .. l : k \in signed[o]

OpSafe(o) == OneAuthority(o) /\ RecordsSafe(o) /\ \A w \in Workers : StepSafe(w, o)

\* The inductive invariant.
Safe == TypeInv /\ \A o \in Ops : OpSafe(o)

-----------------------------------------------------------------------------
(* Operations are independent *)

\* The other coroutines at work hold the chains they held.
SameLocal(w) == \A v \in Workers : v # w => local'[v] = local[v] \/ co[v].op = None

\* A step of w for operation p changes nothing of the other operations.
OnlyTouches(w, p) ==
    /\ \A v \in Workers : v # w => co'[v] = co[v]
    /\ SameLocal(w)
    /\ co[w].op \in {p, None} /\ co'[w].op \in {p, None}
    /\ \A o \in Ops : o # p =>
         /\ status'[o] = status[o] /\ calls'[o] = calls[o] /\ response'[o] = response[o]
         /\ signed'[o] = signed[o] /\ skipped'[o] = skipped[o]
         /\ chain'[o] = chain[o] /\ minted'[o] = minted[o]
         /\ o \in tasks' <=> o \in tasks
         /\ \A t \in Tokens : t[1] = o => (t \in tokens' <=> t \in tokens)
    /\ mode' = mode

LEMMA OtherOperations ==
    ASSUME Safe, TypeInv', NEW w \in Workers, NEW p \in Ops, OnlyTouches(w, p), OpSafe(p)'
    PROVE  Safe'
<1> SUFFICES ASSUME NEW o \in Ops, o # p PROVE OpSafe(o)'
  BY DEF Safe
<1>1. OpSafe(o) /\ o # None
  BY OrchestratorAssumption DEF Safe
<1>2. /\ status'[o] = status[o] /\ calls'[o] = calls[o] /\ response'[o] = response[o]
      /\ signed'[o] = signed[o] /\ skipped'[o] = skipped[o]
      /\ chain'[o] = chain[o] /\ minted'[o] = minted[o] /\ mode' = mode
      /\ o \in tasks' <=> o \in tasks
      /\ \A t \in Tokens : t[1] = o => (t \in tokens' <=> t \in tokens)
  BY DEF OnlyTouches
<1>3. ASSUME NEW v \in Workers
      PROVE  \/ co[v].op # o /\ co'[v].op # o
             \/ co'[v] = co[v] /\ local'[v] = local[v]
  BY <1>1 DEF OnlyTouches, SameLocal
<1>4. LiveLink(o)' <=> LiveLink(o)
  BY <1>1, <1>2 DEF LiveLink, OpSafe, RecordsSafe, Safe, TypeInv, KeysOK, Chains
<1>5. \A v \in Workers : HasPower(v, o)' <=> HasPower(v, o)
  BY <1>2, <1>3 DEF HasPower, HoldsLink, At
<1>6. OneAuthority(o)'
  BY <1>1, <1>2, <1>4, <1>5 DEF OneAuthority, OpSafe
<1>7. RecordsSafe(o)'
  <2>1. \A t \in tokens' : t[1] = o => t \in tokens
    BY <1>2 DEF TypeInv, KeysOK
  <2> QED BY <1>1, <1>2, <1>4, <2>1 DEF RecordsSafe, OpSafe, Required
<1>8. ASSUME NEW v \in Workers PROVE StepSafe(v, o)'
  <2>1. StepSafe(v, o)
    BY <1>1 DEF OpSafe
  <2> QED BY <1>2, <1>3, <2>1 DEF StepSafe, At, HoldsLink, Required
<1> QED BY <1>6, <1>7, <1>8 DEF OpSafe

-----------------------------------------------------------------------------
(* One operation *)

\* What the invariant says of a running coroutine and its operation.
LEMMA Facts ==
    ASSUME Safe, NEW w \in Workers, ~At(w, "idle")
    PROVE  /\ co[w].op \in Ops /\ co[w].op # None /\ TypeInv
           /\ StepSafe(w, co[w].op) /\ OneAuthority(co[w].op) /\ RecordsSafe(co[w].op)
BY Memory, OrchestratorAssumption DEF Safe, OpSafe, At

\* A step that only moves its coroutine, drops authority or keeps it, and may
\* write the status.
LEMMA MoveSafe ==
    ASSUME Safe, TypeInv', NEW w \in Workers, ~At(w, "idle"),
           NEW p \in Ops, p = co[w].op,
           NEW r, co' = [co EXCEPT ![w] = r], r.op = p \/ r = Idle,
           SameLocal(w),
           \A o \in Ops : o # p => status'[o] = status[o],
           \/ status'[p] = status[p]
           \/ status'[p] # "none" /\ (status'[p] = "SUCCESS" => calls[p] = 1),
           UNCHANGED <<chain, tokens, minted, tasks, calls, signed, response, skipped, mode>>,
           HasPower(w, p)' => HasPower(w, p), StepSafe(w, p)'
    PROVE  Safe'
<1>1. OpSafe(p) /\ p # None /\ TypeInv
  BY OrchestratorAssumption DEF Safe
<1>2. \A v \in Workers : v # w => co'[v] = co[v]
  BY DEF Safe, TypeInv, WorkersOK
<1>3. co'[w] = r /\ r.op \in {p, None}
  BY DEF Safe, TypeInv, WorkersOK, Idle
<1>4. OnlyTouches(w, p)
  BY <1>2, <1>3 DEF OnlyTouches
<1>5. LiveLink(p)' <=> LiveLink(p)
  BY DEF LiveLink
<1>6. \A v \in Workers : HasPower(v, p)' => HasPower(v, p)
  BY <1>1, <1>2 DEF HasPower, HoldsLink, At, SameLocal
<1>7. OneAuthority(p)'
  BY <1>1, <1>5, <1>6 DEF OpSafe, OneAuthority
<1>8. RecordsSafe(p)'
  BY <1>1, <1>5 DEF OpSafe, RecordsSafe, Required
<1>9. ASSUME NEW v \in Workers, v # w PROVE StepSafe(v, p)'
  <2>1. StepSafe(v, p) /\ co'[v] = co[v] /\ (local'[v] = local[v] \/ co[v].op = None)
    BY <1>1, <1>2, <1>9 DEF OpSafe, SameLocal
  <2> QED BY <1>1, <2>1 DEF StepSafe, At, HoldsLink, Required
<1>10. OpSafe(p)'
  BY <1>7, <1>8, <1>9 DEF OpSafe
<1> QED BY <1>4, <1>10, OtherOperations

\* A coroutine that ends.
LEMMA FinishSafe ==
    ASSUME Safe, TypeInv', NEW w \in Workers, ~At(w, "idle"), Finish(w),
           SameLocal(w),
           \A o \in Ops : o # co[w].op => status'[o] = status[o],
           \/ status'[co[w].op] = status[co[w].op]
           \/ status'[co[w].op] \notin {"none", "SUCCESS"},
           UNCHANGED <<chain, tokens, minted, tasks, calls, signed, response, skipped, mode>>
    PROVE  Safe'
<1>1. PICK p \in Ops : p = co[w].op /\ p # None
  BY Facts
<1>2. co' = [co EXCEPT ![w] = Idle] /\ co'[w].op # p
  BY <1>1 DEF Finish, Safe, TypeInv, WorkersOK, Idle
<1>3. ~HasPower(w, p)' /\ StepSafe(w, p)'
  BY <1>2 DEF HasPower, StepSafe
<1> QED BY <1>1, <1>2, <1>3, MoveSafe

\* A coroutine that goes to another step, given what that step needs.
LEMMA WalkSafe ==
    ASSUME Safe, TypeInv', NEW w \in Workers, ~At(w, "idle"),
           NEW p \in Ops, p = co[w].op, NEW step \in Steps, Goto(w, step),
           SameLocal(w),
           \A o \in Ops : o # p => status'[o] = status[o],
           \/ status'[p] = status[p]
           \/ status'[p] # "none" /\ (status'[p] = "SUCCESS" => calls[p] = 1),
           UNCHANGED <<chain, tokens, minted, tasks, calls, signed, response, skipped, mode>>,
           step \notin {"idle", "readChain", "storeToken", "nextLevel", "cleanup",
                      "findChain", "dropToken", "dropChain"},
           step \in PowerSteps => co[w].pc \in PowerSteps,
           step \in EarlySteps => co[w].pc \in EarlySteps,
           step \notin EarlySteps => status'[p] # "none",
           step \in AskSteps => co[w].pc \in AskSteps,
           step \in VerdictSteps /\ co[w].yes => co[w].pc \in VerdictSteps,
           step \in TargetSteps =>
             /\ signed[p] = 0 .. Required - 1
             /\ mode # "off" => response[p] = "approved",
           step = "processing" => co[w].yes, step = "reject" => ~co[w].yes,
           step = "processing" \/ (step = "unpend" /\ co[w].yes) => response[p] = "approved",
           step = "succeed" => calls[p] = 1
    PROVE  Safe'
<1> DEFINE r == [co[w] EXCEPT !.pc = step]
<1>1. r.pc = step /\ r.op = p /\ r.yes = co[w].yes /\ r.by = co[w].by
  BY Memory DEF Safe, Coroutines
<1>2. co' = [co EXCEPT ![w] = r] /\ co'[w] = r
  BY DEF Goto, Safe, TypeInv, WorkersOK
<1>3. StepSafe(w, p)
  BY DEF Safe, OpSafe
<1> HIDE DEF r
<1>4. HasPower(w, p)' => HasPower(w, p)
  BY <1>1, <1>2 DEF HasPower, HoldsLink, At
<1>5. StepSafe(w, p)'
  BY <1>1, <1>2, <1>3 DEF StepSafe, HoldsLink, At, Required
<1> QED BY <1>1, <1>2, <1>4, <1>5, MoveSafe

\* A coroutine that goes to another step of process_message, whose operation
\* keeps a status.
LEMMA AskSafe ==
    ASSUME Safe, TypeInv', NEW w \in Workers, co[w].pc \in AskSteps,
           NEW step \in AskSteps \cup {"clearSkipped", "approvalId", "approvalFail"},
           Goto(w, step), SameLocal(w), UNCHANGED <<target, tasks, setup, response, skipped>>,
           UNCHANGED <<chain, tokens, minted, signed>>,
           \/ UNCHANGED status /\ (step \in EarlySteps <=> co[w].pc \in EarlySteps)
           \/ /\ \E s \in Statuses \ {"SUCCESS"} : SetStatus(co[w].op, s)
              /\ step \notin EarlySteps
    PROVE  Safe'
<1>1. PICK p \in Ops : p = co[w].op
  BY Facts DEF AskSteps, EarlySteps, At
<1>2. ~At(w, "idle") /\ step \in Steps
  BY DEF At, AskSteps, EarlySteps, Steps, DbSteps
<1>3. StepSafe(w, p)
  BY DEF Safe, OpSafe
<1>4. /\ \A o \in Ops : o # p => status'[o] = status[o]
      /\ status'[p] = status[p] \/ status'[p] \in Statuses \ {"SUCCESS"}
      /\ step \in EarlySteps => co[w].pc \in EarlySteps
      /\ step \notin EarlySteps => status'[p] # "none"
  <2>1. status \in [Ops -> Statuses \cup {"none"}]
    BY DEF Safe, TypeInv, DbOK
  <2>2. CASE UNCHANGED status /\ (step \in EarlySteps <=> co[w].pc \in EarlySteps)
    BY <1>1, <1>2, <1>3, <2>2 DEF StepSafe
  <2>3. CASE /\ \E s \in Statuses \ {"SUCCESS"} : SetStatus(co[w].op, s)
             /\ step \notin EarlySteps
    BY <1>1, <2>1, <2>3 DEF SetStatus, Statuses
  <2> QED BY <2>2, <2>3
<1>5. /\ step \in PowerSteps => co[w].pc \in PowerSteps
      /\ step \in AskSteps => co[w].pc \in AskSteps
      /\ step \notin VerdictSteps \cup TargetSteps
      /\ step \notin {"idle", "readChain", "storeToken", "nextLevel", "cleanup", "findChain",
                      "dropToken", "dropChain", "processing", "reject", "unpend", "succeed"}
  BY DEF PowerSteps, AskSteps, EarlySteps, VerdictSteps, TargetSteps
<1> QED BY <1>1, <1>2, <1>4, <1>5, WalkSafe DEF target, setup, Statuses

\* An UPDATE that becomes a CREATE.
LEMMA ConversionSafe ==
    ASSUME Safe, TypeInv', NEW w \in Workers, NEW step \in {"create", "validate"},
           Converts(w, step), co[w].pc \in AskSteps \cap MessageSteps,
           step = "create" <=> co[w].pc \in EarlySteps,
           SameLocal(w), UNCHANGED <<status, target, tasks, setup, response, skipped>>,
           UNCHANGED <<chain, tokens, minted, signed>>
    PROVE  Safe'
<1>1. PICK p \in Ops : p = co[w].op
  BY Facts DEF AskSteps, EarlySteps, At
<1>2. ~At(w, "idle") /\ step \in Steps /\ step \in PowerSteps /\ co[w].pc \in PowerSteps
  BY DEF At, AskSteps, EarlySteps, Steps, DbSteps, PowerSteps
<1>3. StepSafe(w, p) /\ WorkersOK
  BY DEF Safe, OpSafe, TypeInv
<1>4. PICK m \in Messages \cup {None} : GotoWith(w, step, m)
  BY <1>3, Conversion
<1>5. PICK r \in Coroutines : co' = [co EXCEPT ![w] = r] /\ r.pc = step /\ r.op = co[w].op
                              /\ r.by = co[w].by
  BY <1>2, <1>3, <1>4, MessageUpdate
<1>6. co'[w] = r
  BY <1>3, <1>5 DEF WorkersOK
<1>7. HasPower(w, p)
  BY <1>1, <1>2 DEF HasPower
<1>8. StepSafe(w, p)'
  BY <1>1, <1>3, <1>5, <1>6
     DEF StepSafe, At, HoldsLink, EarlySteps, AskSteps, VerdictSteps, TargetSteps
<1> QED BY <1>1, <1>2, <1>5, <1>7, <1>8, MoveSafe DEF target, setup

\* Whoever has authority has all of it.
LEMMA NobodyElse ==
    ASSUME Safe, NEW w \in Workers, NEW p \in Ops, HasPower(w, p)
    PROVE  /\ \A v \in Workers : v # w => ~HasPower(v, p)
           /\ p \notin tasks /\ ~LiveLink(p) /\ calls[p] = 0 /\ skipped[p] = "none"
BY DEF Safe, OpSafe, OneAuthority

\* A coroutine without authority does not see what those with authority change.
LEMMA Bystander ==
    ASSUME Safe, TypeInv', NEW v \in Workers, NEW p \in Ops,
           co'[v] = co[v], local'[v] = local[v], ~HasPower(v, p), ~HasPower(v, p)',
           status[p] # "none" => status'[p] # "none",
           minted[p] <= minted'[p], calls[p] = 1 => calls'[p] = 1
    PROVE  StepSafe(v, p)'
<1>1. StepSafe(v, p)
  BY DEF Safe, OpSafe
<1>2. minted[p] \in Nat /\ minted'[p] \in Nat
      /\ (co[v].pc \in HoldingSteps => local[v].token[2] \in Nat)
  <2>1. co[v].pc \in HoldingSteps => local[v] \in Chains
    BY Memory DEF Safe
  <2> QED BY <2>1 DEF Safe, TypeInv, KeysOK, Chains, Tokens
<1>3. co[v].op = p => co[v].pc \notin PowerSteps /\ ~HoldsLink(v)'
  BY DEF HasPower
<1>4. co[v].op = p /\ co[v].pc = "readChain" =>
        local[v].token[1] = p /\ local[v].token[2] <= minted'[p]
  BY <1>1, <1>2 DEF StepSafe, At, HoldingSteps
<1> QED BY <1>1, <1>3, <1>4
        DEF StepSafe, At, PowerSteps, AskSteps, EarlySteps, VerdictSteps, TargetSteps

\* A step of w that gets authority from a task or has it, when no other
\* coroutine has: w keeps it, gives it away or gives it up.
LEMMA AuthorityMoves ==
    ASSUME Safe, TypeInv', NEW w \in Workers, NEW p \in Ops, OnlyTouches(w, p),
           \A v \in Workers : v # w => ~HasPower(v, p), calls[p] = 0,
           \A v \in Workers : v # w => (HasPower(v, p)' => HasPower(v, p)),
           HasPower(w, p)' => p \notin tasks' /\ ~LiveLink(p)',
           ~(p \in tasks' /\ LiveLink(p)'),
           HasPower(w, p)' \/ p \in tasks' \/ LiveLink(p)' =>
             calls'[p] = 0 /\ skipped'[p] = "none",
           status[p] # "none" => status'[p] # "none", minted[p] <= minted'[p],
           RecordsSafe(p)', StepSafe(w, p)'
    PROVE  Safe'
<1>1. OneAuthority(p)'
  BY DEF OneAuthority
<1>2. ASSUME NEW v \in Workers, v # w PROVE StepSafe(v, p)'
  <2>1. co'[v] = co[v] /\ (local'[v] = local[v] \/ co'[v].op # p)
    BY <1>2, OrchestratorAssumption DEF OnlyTouches, SameLocal
  <2>2. CASE co'[v].op # p
    BY <2>2 DEF StepSafe
  <2>3. CASE local'[v] = local[v]
    BY <1>2, <2>1, <2>3, Bystander
  <2> QED BY <2>1, <2>2, <2>3
<1> QED BY <1>1, <1>2, OtherOperations DEF OpSafe

LEMMA AuthorityStep ==
    ASSUME Safe, TypeInv', NEW w \in Workers, NEW p \in Ops,
           HasPower(w, p), OnlyTouches(w, p),
           \A v \in Workers : v # w => (HasPower(v, p)' => HasPower(v, p)),
           HasPower(w, p)' => p \notin tasks' /\ ~LiveLink(p)',
           ~(p \in tasks' /\ LiveLink(p)'),
           HasPower(w, p)' \/ p \in tasks' \/ LiveLink(p)' =>
             calls'[p] = 0 /\ skipped'[p] = "none",
           status[p] # "none" => status'[p] # "none", minted[p] <= minted'[p],
           RecordsSafe(p)', StepSafe(w, p)'
    PROVE  Safe'
<1>1. (\A v \in Workers : v # w => ~HasPower(v, p)) /\ calls[p] = 0
  BY NobodyElse
<1> QED BY <1>1, AuthorityMoves

\* The row is closed without provisioning.
LEMMA SkipSafe ==
    ASSUME Safe, TypeInv', NEW w \in Workers, NEW p \in Ops, p = co[w].op,
           co[w].pc \in {"skipDelete", "diff", "duplicate"},
           NEW r, co' = [co EXCEPT ![w] = r],
           r = Idle \/ (r.op = p /\ r.pc = "clearSkipped" /\ r.by = co[w].by),
           SetStatus(p, "SUCCESS"),
           NEW why, why # "none", skipped' = [skipped EXCEPT ![p] = why],
           SameLocal(w),
           UNCHANGED <<target, tasks, setup, response, chain, tokens, minted, signed>>
    PROVE  Safe'
<1>1. TypeInv /\ OpSafe(p) /\ p # None /\ HasPower(w, p)
  BY OrchestratorAssumption
     DEF Safe, HasPower, PowerSteps, AskSteps
<1>2. co'[w] = r /\ r.op \in {p, None} /\ \A v \in Workers : v # w => co'[v] = co[v]
  BY <1>1 DEF TypeInv, WorkersOK, Idle
<1>3. /\ skipped'[p] # "none" /\ status'[p] = "SUCCESS"
      /\ \A o \in Ops : o # p => status'[o] = status[o] /\ skipped'[o] = skipped[o]
  BY <1>1 DEF TypeInv, DbOK, SetStatus
<1>4. OnlyTouches(w, p)
  BY <1>2, <1>3 DEF OnlyTouches, target, setup
<1>5. r.pc \notin PowerSteps \cup {"readChain"} /\ UNCHANGED <<calls, mode>>
  BY IdleValue DEF PowerSteps, AskSteps, EarlySteps, VerdictSteps, TargetSteps, target, setup
<1>6. /\ ~HasPower(w, p)' /\ ~LiveLink(p)' /\ p \notin tasks'
      /\ \A v \in Workers : v # w => (HasPower(v, p)' => HasPower(v, p))
  BY <1>1, <1>2, <1>5, NobodyElse DEF HasPower, HoldsLink, LiveLink, At, SameLocal
<1>7. RecordsSafe(p)'
  BY <1>1, <1>3, <1>5, <1>6, NobodyElse DEF OpSafe, RecordsSafe, Required
<1>8. StepSafe(w, p)'
  <2>1. /\ r.op = p => r.pc = "clearSkipped" /\ r.by = co[w].by
        /\ StepSafe(w, p)
    BY <1>1 DEF Idle, OpSafe
  <2> QED BY <1>2, <1>3, <2>1
          DEF StepSafe, At, HoldsLink, EarlySteps, AskSteps, VerdictSteps, TargetSteps
<1>9. minted[p] <= minted'[p]
  BY <1>1 DEF TypeInv, KeysOK
<1> QED BY <1>1, <1>3, <1>4, <1>6, <1>7, <1>8, <1>9, AuthorityStep

\* The steps of a coroutine that has lost its authority, and those that follow
\* the call of the target.
NoPower == {"clearSkipped", "approvalId", "approvalFail", "messageFail", "audited",
            "storeRejected", "clearRejected", "clearDeleted", "storeState", "dropState",
            "markDeleted", "decisionFail", "fail", "return", "sendEmail"}

\* A coroutine that goes to such a step.
LEMMA LeaveSafe ==
    ASSUME Safe, TypeInv', NEW w \in Workers, ~At(w, "idle"), NEW step \in NoPower,
           Goto(w, step), co[w].pc \notin EarlySteps,
           SameLocal(w),
           \/ UNCHANGED status
           \/ \E s \in Statuses \ {"SUCCESS"} : SetStatus(co[w].op, s),
           UNCHANGED <<chain, tokens, minted, tasks, target, signed, response, skipped, setup>>
    PROVE  Safe'
<1>1. PICK p \in Ops : p = co[w].op
  BY Facts
<1>2. StepSafe(w, p) /\ status \in [Ops -> Statuses \cup {"none"}]
  BY DEF Safe, OpSafe, TypeInv, DbOK
<1>3. /\ \A o \in Ops : o # p => status'[o] = status[o]
      /\ status'[p] = status[p] \/ status'[p] \in Statuses \ {"SUCCESS"}
      /\ status'[p] # "none"
  BY <1>1, <1>2 DEF SetStatus, StepSafe, Statuses
<1>4. /\ step \in Steps /\ step \notin PowerSteps \cup {"idle", "readChain", "succeed"}
      /\ step \notin AskSteps /\ step \notin EarlySteps /\ step \notin VerdictSteps
      /\ step \notin TargetSteps
      /\ step \notin {"idle", "readChain", "storeToken", "nextLevel", "cleanup", "findChain",
                      "dropToken", "dropChain", "processing", "reject", "unpend", "succeed"}
  BY DEF NoPower, Steps, DbSteps, PowerSteps, AskSteps, EarlySteps, VerdictSteps, TargetSteps
<1> QED BY <1>1, <1>3, <1>4, WalkSafe DEF target, setup

LEMMA MessageStepSafe ==
    ASSUME Safe, TypeInv', NEW w \in Workers, MessageStep(w), UNCHANGED chainVars
    PROVE  Safe'
<1>u. SameLocal(w) /\ UNCHANGED <<local, chain, tokens, minted, signed>>
  BY DEF chainVars, SameLocal
<1>1. ASSUME NEW markers, NEW step \in {"wasRejected", "wasDeleted"},
             NEW otherwise \in {"wasDeleted", "create"},
             ConvertUpdate(w, step, markers, otherwise)
      PROVE  Safe'
  <2>1. /\ co[w].pc \in AskSteps \cap MessageSteps \cap EarlySteps
        /\ otherwise \in AskSteps \cap EarlySteps
        /\ UNCHANGED <<status, target, tasks, setup, response, skipped>>
    BY <1>1 DEF ConvertUpdate, At, AskSteps, MessageSteps, EarlySteps, db
  <2>2. CASE Converts(w, "create")
    BY <1>u, <2>1, <2>2, ConversionSafe
  <2>3. CASE Goto(w, otherwise)
    BY <1>u, <2>1, <2>3, AskSafe
  <2> QED BY <1>1, <2>2, <2>3 DEF ConvertUpdate, Converts
<1>2. CASE CreateOperation(w)
  BY <1>2, <1>u, AskSafe DEF CreateOperation, At, AskSteps, EarlySteps, Statuses
<1>3. CASE RecheckRejected(w)
  <2>1. /\ co[w].pc \in (AskSteps \cap MessageSteps) \ EarlySteps
        /\ {"skipDelete", "diff", "validate"} \subseteq AskSteps \ EarlySteps
        /\ UNCHANGED <<status, target, tasks, setup, response, skipped>>
    BY <1>3 DEF RecheckRejected, At, AskSteps, MessageSteps, EarlySteps, db
  <2>2. CASE Converts(w, "validate")
    BY <1>u, <2>1, <2>2, ConversionSafe
  <2>3. ASSUME NEW step \in {"skipDelete", "diff", "validate"}, Goto(w, step)
        PROVE  Safe'
    BY <1>u, <2>1, <2>3, AskSafe
  <2>4. \/ Goto(w, "skipDelete") \/ Goto(w, "diff") \/ Goto(w, "validate")
        \/ Converts(w, "validate")
    BY <1>3 DEF RecheckRejected, Converts
  <2> QED BY <2>2, <2>3, <2>4
<1>4. CASE SkipDelete(w)
  <2> DEFINE r == [co[w] EXCEPT !.pc = "clearSkipped"]
  <2>1. PICK p \in Ops : p = co[w].op
    BY <1>4, Facts DEF SkipDelete, At
  <2>2. r.op = p /\ r.pc = "clearSkipped" /\ r.by = co[w].by /\ co' = [co EXCEPT ![w] = r]
    BY <1>4, <2>1, Memory DEF Safe, TypeInv, WorkersOK, Coroutines, SkipDelete, Goto
  <2> HIDE DEF r
  <2> QED BY <1>4, <1>u, <2>1, <2>2, SkipSafe DEF SkipDelete, At, redis
<1>5. CASE ClearSkippedMarker(w)
  BY <1>5, <1>u, FinishSafe DEF ClearSkippedMarker, At, db, target, setup
<1>6. CASE CheckDiff(w)
  <2>1. co[w].pc = "diff"
    BY <1>6 DEF CheckDiff, At
  <2>2. CASE Goto(w, "duplicate") /\ UNCHANGED <<status, skipped>>
    BY <1>6, <1>u, <2>1, <2>2, AskSafe DEF CheckDiff, AskSteps, EarlySteps
  <2>3. CASE /\ SetStatus(co[w].op, "SUCCESS")
             /\ skipped' = [skipped EXCEPT ![co[w].op] = "no changes"]
             /\ Finish(w)
    BY <1>6, <1>u, <2>1, <2>3, Facts, SkipSafe DEF CheckDiff, At, Finish
  <2> QED BY <1>6, <2>2, <2>3 DEF CheckDiff
<1>7. CASE CheckDuplicate(w)
  <2>1. co[w].pc = "duplicate"
    BY <1>7 DEF CheckDuplicate, At
  <2>2. CASE Goto(w, "validate") /\ UNCHANGED <<status, skipped>>
    BY <1>7, <1>u, <2>1, <2>2, AskSafe DEF CheckDuplicate, AskSteps, EarlySteps
  <2>3. CASE /\ SetStatus(co[w].op, "SUCCESS")
             /\ skipped' = [skipped EXCEPT ![co[w].op] = "duplicate"]
             /\ Finish(w)
    BY <1>7, <1>u, <2>1, <2>3, Facts, SkipSafe DEF CheckDuplicate, At, Finish
  <2> QED BY <1>7, <2>2, <2>3 DEF CheckDuplicate
<1>8. CASE MarkValidated(w)
  <2>1. co[w].pc = "validate" /\ SetStatus(co[w].op, "VALIDATED")
        /\ UNCHANGED <<target, tasks, setup, response, skipped>>
    BY <1>8 DEF MarkValidated, At
  <2>2. CASE Goto(w, "approvalStatus")
    BY <1>u, <2>1, <2>2, AskSafe DEF AskSteps, EarlySteps, Statuses
  <2>3. CASE mode = "off" /\ Goto(w, "provision")
    <3>1. PICK p \in Ops : p = co[w].op /\ StepSafe(w, p)
      BY <2>1, Facts DEF At
    <3>2. signed[p] = 0 .. Required - 1
      BY <2>1, <2>3, <3>1 DEF StepSafe, AskSteps, Required
    <3>3. /\ \A o \in Ops : o # p => status'[o] = status[o]
          /\ status'[p] = "VALIDATED"
      BY <2>1, <3>1 DEF Safe, TypeInv, DbOK, SetStatus
    <3> QED BY <1>u, <2>1, <2>3, <3>1, <3>2, <3>3, WalkSafe
            DEF At, Steps, DbSteps, PowerSteps, AskSteps, EarlySteps, VerdictSteps,
                TargetSteps, target, setup
  <2> QED BY <1>8, <2>2, <2>3 DEF MarkValidated
<1>9. CASE SetApprovalPending(w)
  BY <1>9, <1>u, AskSafe
     DEF SetApprovalPending, At, AskSteps, EarlySteps, Statuses
<1>10. CASE AddPendingApproval(w)
  BY <1>10, <1>u, AskSafe DEF AddPendingApproval, At, AskSteps, EarlySteps, db
<1>11. CASE StoreRequestId(w)
  BY <1>11, <1>u, FinishSafe DEF StoreRequestId, At, db, target, setup
<1>12. CASE StartAutoApproval(w)
  <2>1. PICK p \in Ops : p = co[w].op /\ StepSafe(w, p)
    BY <1>12, Facts DEF StartAutoApproval, At
  <2>2. /\ co[w].pc = "approvalSend" /\ mode = "auto" /\ tasks' = tasks \cup {p}
        /\ Goto(w, "approvalId") /\ UNCHANGED <<db, redis, target, setup>>
    BY <1>12, <2>1 DEF StartAutoApproval, At
  <2>3. co'[w].op = p /\ co'[w].pc = "approvalId" /\ co'[w].by = co[w].by
        /\ \A v \in Workers : v # w => co'[v] = co[v]
    BY <2>1, <2>2, Memory DEF Safe, TypeInv, WorkersOK, Coroutines, Goto
  <2>4. HasPower(w, p) /\ ~HasPower(w, p)'
    BY <2>1, <2>2, <2>3
       DEF HasPower, HoldsLink, At, PowerSteps, AskSteps, EarlySteps, VerdictSteps, TargetSteps
  <2>5. OnlyTouches(w, p)
    BY <1>u, <2>1, <2>2, <2>3 DEF OnlyTouches, db, target, setup
  <2>6. ~LiveLink(p)' /\ calls'[p] = 0 /\ skipped'[p] = "none"
        /\ \A v \in Workers : v # w => (HasPower(v, p)' => HasPower(v, p))
    BY <1>u, <2>2, <2>3, <2>4, NobodyElse DEF LiveLink, HasPower, HoldsLink, At, db, target
  <2>7. status[p] # "none" /\ RecordsSafe(p)'
    <3>1. RecordsSafe(p) /\ status[p] # "none"
      BY <2>1, <2>2 DEF Safe, OpSafe, StepSafe, At, EarlySteps
    <3> QED BY <1>u, <2>2, <3>1 DEF RecordsSafe, LiveLink, Required, db, target, setup
  <2>8. StepSafe(w, p)'
    BY <2>1, <2>2, <2>3, <2>7
       DEF StepSafe, At, HoldsLink, EarlySteps, AskSteps, VerdictSteps, TargetSteps, db
  <2>9. status[p] = status'[p] /\ minted[p] <= minted'[p]
    BY <1>u, <2>2 DEF Safe, TypeInv, KeysOK, db
  <2> QED BY <2>4, <2>5, <2>6, <2>7, <2>8, <2>9, AuthorityStep
<1>13. CASE ApprovalRequestFailed(w)
  BY <1>13, <1>u, LeaveSafe DEF ApprovalRequestFailed, At, EarlySteps, NoPower, Statuses
<1>14. CASE HandleError(w)
  <2>1. status \in [Ops -> Statuses \cup {"none"}] /\ co[w].op \in Ops
    BY <1>14, Facts DEF HandleError, At, TypeInv, DbOK
  <2>2. /\ \A o \in Ops : o # co[w].op => status'[o] = status[o]
        /\ status'[co[w].op] = "FAILED"
    BY <1>14, <2>1 DEF HandleError, SetStatus
  <2> QED BY <1>14, <1>u, <2>2, FinishSafe DEF HandleError, At, target, setup
<1> QED BY <1>1, <1>2, <1>3, <1>4, <1>5, <1>6, <1>7, <1>8, <1>9, <1>10, <1>11,
           <1>12, <1>13, <1>14 DEF MessageStep, ConvertRejected, ConvertDeleted

\* A step of a decision before the call of the target.
LEMMA VerdictWalk ==
    ASSUME Safe, TypeInv', NEW w \in Workers, NEW p \in Ops, p = co[w].op,
           co[w].pc \in VerdictSteps \cup TargetSteps,
           NEW step \in {"record", "unpend", "execute"}, Goto(w, step),
           step \in {"record", "unpend"} => co[w].pc \in VerdictSteps,
           step = "unpend" /\ co[w].yes => response[p] = "approved",
           step = "execute" => co[w].pc \in TargetSteps,
           \/ UNCHANGED status
           \/ \E s \in Statuses \ {"SUCCESS"} : SetStatus(co[w].op, s),
           SameLocal(w),
           UNCHANGED <<chain, tokens, minted, tasks, target, signed, response, skipped, setup>>
    PROVE  Safe'
<1>1. StepSafe(w, p) /\ status \in [Ops -> Statuses \cup {"none"}]
  BY DEF Safe, OpSafe, TypeInv, DbOK
<1>2. ~At(w, "idle") /\ co[w].pc \notin EarlySteps /\ co[w].pc \in PowerSteps
  BY DEF At, EarlySteps, VerdictSteps, TargetSteps, PowerSteps
<1>3. /\ \A o \in Ops : o # p => status'[o] = status[o]
      /\ status'[p] = status[p] \/ status'[p] \in Statuses \ {"SUCCESS"}
      /\ status'[p] # "none"
  BY <1>1, <1>2 DEF SetStatus, StepSafe, Statuses
<1>4. /\ step \in Steps /\ step \notin AskSteps /\ step \notin EarlySteps
      /\ step \in VerdictSteps <=> step # "execute"
      /\ step \in TargetSteps <=> step = "execute"
      /\ step \notin {"readChain", "storeToken", "nextLevel", "processing", "reject", "succeed"}
  BY DEF Steps, DbSteps, AskSteps, EarlySteps, VerdictSteps, TargetSteps
<1>5. step = "execute" => /\ signed[p] = 0 .. Required - 1
                          /\ mode # "off" => response[p] = "approved"
  BY <1>1 DEF StepSafe
<1> QED BY <1>2, <1>3, <1>4, <1>5, WalkSafe DEF target, setup

LEMMA ProvisionStepSafe ==
    ASSUME Safe, TypeInv', NEW w \in Workers, ProvisionStep(w), UNCHANGED chainVars
    PROVE  Safe'
<1>u. SameLocal(w) /\ UNCHANGED <<local, chain, tokens, minted, signed>>
  BY DEF chainVars, SameLocal
<1>r. PICK p \in Ops : p = co[w].op /\ StepSafe(w, p)
  BY Facts DEF ProvisionStep, SetProcessing, Execute, SetSuccess, AfterProvisioning, At
<1>1. CASE SetProcessing(w)
  BY <1>1, <1>u, <1>r, VerdictWalk DEF SetProcessing, At, TargetSteps, Statuses
<1>2. CASE Execute(w)
  <2>1. /\ co[w].pc = "execute" /\ calls' = [calls EXCEPT ![p] = @ + 1]
        /\ UNCHANGED <<db, redis, tasks, setup>>
    BY <1>2, <1>r DEF Execute, At
  <2>2. PICK step \in {"succeed", "messageFail", "decisionFail"} : Goto(w, step)
    BY <1>2 DEF Execute, Failing
  <2>3. co'[w].op = p /\ co'[w].pc = step /\ co'[w].by = co[w].by
        /\ \A v \in Workers : v # w => co'[v] = co[v]
    BY <1>r, <2>2, Memory DEF Safe, TypeInv, WorkersOK, Coroutines, Goto
  <2>4. HasPower(w, p) /\ ~HasPower(w, p)'
    BY <1>r, <2>1, <2>3
       DEF HasPower, HoldsLink, At, PowerSteps, AskSteps, EarlySteps, VerdictSteps, TargetSteps
  <2>5. /\ calls[p] = 0 /\ calls'[p] = 1 /\ \A o \in Ops : o # p => calls'[o] = calls[o]
        /\ minted[p] \in Nat
    BY <2>1, <2>4, NobodyElse DEF Safe, TypeInv, TargetOK, KeysOK
  <2>6. OnlyTouches(w, p)
    BY <1>u, <1>r, <2>1, <2>3, <2>5 DEF OnlyTouches, db, setup
  <2>7. /\ ~LiveLink(p)' /\ p \notin tasks'
        /\ \A v \in Workers : v # w => (HasPower(v, p)' => HasPower(v, p))
    BY <1>u, <2>1, <2>3, <2>4, NobodyElse DEF LiveLink, HasPower, HoldsLink, At
  <2>8. RecordsSafe(p)'
    <3>1. RecordsSafe(p)
      BY DEF Safe, OpSafe
    <3>2. /\ signed[p] = 0 .. Required - 1 /\ status[p] # "none"
          /\ mode # "off" => response[p] = "approved"
      BY <1>r, <2>1 DEF StepSafe, TargetSteps, At, EarlySteps
    <3>3. skipped[p] = "none"
      BY <2>4, NobodyElse
    <3> QED BY <1>u, <2>1, <2>5, <2>7, <3>1, <3>2, <3>3
            DEF RecordsSafe, Required, db, setup
  <2>9. StepSafe(w, p)' /\ (status[p] # "none" => status'[p] # "none")
    BY <1>r, <2>1, <2>3, <2>5
       DEF StepSafe, At, HoldsLink, EarlySteps, AskSteps, VerdictSteps, TargetSteps, db
  <2>10. minted[p] <= minted'[p]
    BY <1>u, <2>5
  <2> QED BY <2>4, <2>6, <2>7, <2>8, <2>9, <2>10, AuthorityStep
<1>3. CASE SetSuccess(w)
  <2>1. co[w].pc = "succeed" /\ calls[p] = 1 /\ Goto(w, "audited")
        /\ UNCHANGED <<target, tasks, setup, response, skipped>>
    BY <1>3, <1>r DEF SetSuccess, At, StepSafe
  <2>2. /\ \A o \in Ops : o # p => status'[o] = status[o]
        /\ status'[p] = "SUCCESS"
    BY <1>3, <1>r DEF SetSuccess, SetStatus, Safe, TypeInv, DbOK
  <2> QED BY <1>u, <1>r, <2>1, <2>2, WalkSafe
          DEF At, Steps, DbSteps, PowerSteps, AskSteps, EarlySteps, VerdictSteps,
              TargetSteps, target, setup
<1>4. CASE AfterProvisioning(w)
  <2>1. orig[co[w].op].type \in OperationTypes
    BY <1>4, Memory DEF Safe, AfterProvisioning, At, RowSteps, Messages
  <2>2. PICK step \in {"return", "clearRejected", "storeState", "dropState"} : Goto(w, step)
    BY <1>4, <2>1 DEF AfterProvisioning, OperationTypes
  <2> QED BY <1>4, <1>u, <2>2, LeaveSafe DEF AfterProvisioning, At, EarlySteps, NoPower, db
<1> QED BY <1>1, <1>2, <1>3, <1>4 DEF ProvisionStep

LEMMA DecisionStepSafe ==
    ASSUME Safe, TypeInv', NEW w \in Workers, DecisionStep(w), UNCHANGED chainVars
    PROVE  Safe'
<1>u. SameLocal(w) /\ UNCHANGED <<local, chain, tokens, minted, signed>>
  BY DEF chainVars, SameLocal
<1>1. CASE CheckStatus(w)
  <2>1. PICK p \in Ops : p = co[w].op
    BY <1>1, Facts DEF CheckStatus, At
  <2>2. CASE Goto(w, "record")
    BY <1>1, <1>u, <2>1, <2>2, VerdictWalk DEF CheckStatus, At, VerdictSteps, db
  <2>3. CASE Goto(w, "decisionFail")
    BY <1>1, <1>u, <2>3, LeaveSafe DEF CheckStatus, At, EarlySteps, NoPower, db
  <2> QED BY <1>1, <2>2, <2>3 DEF CheckStatus
<1>2. CASE StoreResponse(w)
  <2>1. PICK p \in Ops : p = co[w].op /\ StepSafe(w, p) /\ RecordsSafe(p)
    BY <1>2, Facts DEF StoreResponse, At
  <2>2. /\ co[w].pc = "record"
        /\ response' = [response EXCEPT ![p] = IF co[w].yes THEN "approved" ELSE "rejected"]
        /\ Goto(w, IF co[w].yes THEN "processing" ELSE "reject")
        /\ UNCHANGED <<status, skipped, target, tasks, setup>>
    BY <1>2, <2>1 DEF StoreResponse, At
  <2>3. /\ co'[w].op = p /\ co'[w].yes = co[w].yes /\ co'[w].by = co[w].by
        /\ co'[w].pc = IF co[w].yes THEN "processing" ELSE "reject"
        /\ \A v \in Workers : v # w => co'[v] = co[v]
    BY <2>1, <2>2, Memory DEF Safe, TypeInv, WorkersOK, Coroutines, Goto
  <2>4. HasPower(w, p)
    BY <2>1, <2>2 DEF HasPower, PowerSteps, VerdictSteps
  <2>5. /\ response'[p] = IF co[w].yes THEN "approved" ELSE "rejected"
        /\ \A o \in Ops : o # p => response'[o] = response[o]
        /\ minted[p] \in Nat
    BY <2>2 DEF Safe, TypeInv, DbOK, KeysOK
  <2>6. OnlyTouches(w, p)
    BY <1>u, <2>1, <2>2, <2>3, <2>5 DEF OnlyTouches, target, setup
  <2>7. /\ ~LiveLink(p)' /\ p \notin tasks' /\ calls'[p] = 0 /\ skipped'[p] = "none"
        /\ \A v \in Workers : v # w => (HasPower(v, p)' => HasPower(v, p))
    BY <1>u, <2>2, <2>3, <2>4, NobodyElse DEF LiveLink, HasPower, HoldsLink, At, target
  <2>8. RecordsSafe(p)'
    BY <1>u, <2>1, <2>2, <2>7 DEF RecordsSafe, Required, setup, target
  <2>9. StepSafe(w, p)'
    BY <1>u, <2>1, <2>2, <2>3, <2>5
       DEF StepSafe, At, HoldsLink, EarlySteps, AskSteps, VerdictSteps, TargetSteps, Required,
           setup
  <2>10. minted[p] <= minted'[p] /\ status'[p] = status[p]
    BY <1>u, <2>2, <2>5
  <2> QED BY <2>4, <2>6, <2>7, <2>8, <2>9, <2>10, AuthorityStep
<1>3. CASE SetApproved(w)
  <2>1. PICK p \in Ops : p = co[w].op /\ StepSafe(w, p)
    BY <1>3, Facts DEF SetApproved, At
  <2>2. response[p] = "approved"
    BY <1>3, <2>1 DEF SetApproved, At, StepSafe
  <2> QED BY <1>3, <1>u, <2>1, <2>2, VerdictWalk DEF SetApproved, At, VerdictSteps, Statuses
<1>4. CASE SetRejected(w)
  <2>1. PICK p \in Ops : p = co[w].op /\ StepSafe(w, p)
    BY <1>4, Facts DEF SetRejected, At
  <2>2. ~co[w].yes
    BY <1>4, <2>1 DEF SetRejected, At, StepSafe
  <2> QED BY <1>4, <1>u, <2>1, <2>2, VerdictWalk DEF SetRejected, At, VerdictSteps, Statuses
<1>5. CASE RemovePending(w)
  <2>1. PICK p \in Ops : p = co[w].op /\ StepSafe(w, p)
    BY <1>5, Facts DEF RemovePending, At
  <2>2. PICK step \in {"provision", "storeRejected", "return"}, m \in Messages \cup {None} :
          GotoWith(w, step, m) /\ (step = "provision" => co[w].yes)
    <3>1. orig[p] \in Messages \cup {None} /\ pending'[p] \in Messages \cup {None}
      BY DEF Safe, TypeInv, DbOK, RedisOK
    <3> QED BY <1>5, <2>1, <3>1 DEF RemovePending, GotoWith
  <2>3. step \in Steps /\ WorkersOK
    BY DEF Steps, DbSteps, Safe, TypeInv
  <2>4. PICK r \in Coroutines : co' = [co EXCEPT ![w] = r] /\ r.pc = step /\ r.op = co[w].op
                                /\ r.by = co[w].by
    BY <2>2, <2>3, MessageUpdate
  <2>5. co'[w] = r /\ co[w].pc = "unpend"
        /\ UNCHANGED <<status, response, skipped, target, tasks, setup>>
    BY <1>5, <2>3, <2>4 DEF RemovePending, At, WorkersOK, db
  <2>6. HasPower(w, p) /\ ~At(w, "idle")
    BY <2>1, <2>5 DEF HasPower, PowerSteps, VerdictSteps, At
  <2>7. StepSafe(w, p)'
    BY <1>u, <2>1, <2>2, <2>4, <2>5
       DEF StepSafe, At, HoldsLink, EarlySteps, AskSteps, VerdictSteps, TargetSteps, Required,
           setup
  <2> QED BY <1>u, <2>1, <2>4, <2>5, <2>6, <2>7, MoveSafe DEF target, setup
<1>6. CASE StoreRejectedCreate(w)
  BY <1>6, <1>u, LeaveSafe DEF StoreRejectedCreate, At, EarlySteps, NoPower, db
<1>7. CASE ClearRejectedCreate(w)
  BY <1>7, <1>u, LeaveSafe DEF ClearRejectedCreate, At, EarlySteps, NoPower, db
<1>8. CASE ClearUserDeleted(w)
  BY <1>8, <1>u, LeaveSafe DEF ClearUserDeleted, At, EarlySteps, NoPower, db
<1>9. CASE StoreUserState(w)
  BY <1>9, <1>u, LeaveSafe DEF StoreUserState, At, EarlySteps, NoPower, db
<1>10. CASE DeleteUserState(w)
  BY <1>10, <1>u, LeaveSafe DEF DeleteUserState, At, EarlySteps, NoPower, db
<1>11. CASE MarkUserDeleted(w)
  BY <1>11, <1>u, LeaveSafe DEF MarkUserDeleted, At, EarlySteps, NoPower, db
<1>12. CASE DecisionFailed(w)
  <2>1. CASE Goto(w, "fail")
    BY <1>12, <1>u, <2>1, LeaveSafe DEF DecisionFailed, At, EarlySteps, NoPower, db
  <2>2. CASE Finish(w)
    BY <1>12, <1>u, <2>2, FinishSafe DEF DecisionFailed, At, db, target, setup
  <2> QED BY <1>12, <2>1, <2>2 DEF DecisionFailed
<1>13. CASE SetFailed(w)
  <2>1. status \in [Ops -> Statuses \cup {"none"}] /\ co[w].op \in Ops
    BY <1>13, Facts DEF SetFailed, At, TypeInv, DbOK
  <2>2. /\ \A o \in Ops : o # co[w].op => status'[o] = status[o]
        /\ status'[co[w].op] = "FAILED"
    BY <1>13, <2>1 DEF SetFailed, SetStatus
  <2> QED BY <1>13, <1>u, <2>2, FinishSafe DEF SetFailed, At, target, setup
<1> QED BY <1>1, <1>2, <1>3, <1>4, <1>5, <1>6, <1>7, <1>8, <1>9, <1>10, <1>11,
           <1>12, <1>13 DEF DecisionStep

-----------------------------------------------------------------------------
(* Coroutines that start *)

\* An idle coroutine has no operation.
LEMMA IdleHasNone ==
    ASSUME Safe, NEW w \in Workers, At(w, "idle") PROVE co[w].op = None
<1>1. co[w].op \in Ops \cup {None}
  BY DEF Safe, TypeInv, WorkersOK, Coroutines
<1>2. \A o \in Ops : co[w].op # o
  BY DEF Safe, OpSafe, StepSafe
<1> QED BY <1>1, <1>2

LEMMA ReceiveSafe ==
    ASSUME Safe, TypeInv', NEW w \in Workers, NEW p \in Ops, NEW m \in Messages,
           Receive(w, p, m), UNCHANGED chainVars
    PROVE  Safe'
<1>1. RecordsSafe(p) /\ \A v \in Workers : StepSafe(v, p)
  BY DEF Safe, OpSafe
<1>2. /\ w \in Consumers /\ At(w, "idle") /\ status[p] = "none"
      /\ \A v \in Consumers : co[v].op # p
      /\ UNCHANGED <<db, redis, target, tasks, setup, chain, tokens, minted, local, signed>>
  BY DEF Receive, chainVars
<1>3. /\ co'[w].pc \in {"wasRejected", "create"} /\ co'[w].op = p /\ co'[w].by = "consumer"
      /\ \A v \in Workers : v # w => co'[v] = co[v]
  BY DEF Receive, Safe, TypeInv, WorkersOK
<1>4. ASSUME NEW v \in Workers PROVE co[v].op # p
  BY <1>1, <1>2 DEF StepSafe
<1>5. /\ \A v \in Workers : v # w => ~HasPower(v, p) /\ ~HasPower(v, p)'
      /\ p \notin tasks' /\ ~LiveLink(p)' /\ calls[p] = 0
      /\ calls'[p] = 0 /\ skipped'[p] = "none"
  BY <1>1, <1>2, <1>3, <1>4 DEF HasPower, LiveLink, RecordsSafe, db, target
<1>6. OnlyTouches(w, p)
  BY <1>2, <1>3, IdleHasNone DEF OnlyTouches, SameLocal, db, target, setup
<1>7. RecordsSafe(p)'
  BY <1>1, <1>2 DEF RecordsSafe, LiveLink, Required, db, target, setup
<1>8. StepSafe(w, p)'
  BY <1>1, <1>2, <1>3
     DEF StepSafe, RecordsSafe, At, HoldsLink, EarlySteps, AskSteps, VerdictSteps,
         TargetSteps, db
<1>9. minted[p] <= minted'[p] /\ (status[p] # "none" => status'[p] # "none")
  BY <1>2 DEF Safe, TypeInv, KeysOK
<1> QED BY <1>5, <1>6, <1>7, <1>8, <1>9, AuthorityMoves

\* The task gives its authority to the coroutine.
LEMMA AutoApproveSafe ==
    ASSUME Safe, TypeInv', NEW w \in Workers, NEW p \in Ops,
           AutoApprove(w, p), UNCHANGED chainVars
    PROVE  Safe'
<1>1. RecordsSafe(p) /\ OneAuthority(p)
  BY DEF Safe, OpSafe
<1>2. /\ At(w, "idle") /\ p \in tasks /\ tasks' = tasks \ {p}
      /\ UNCHANGED <<db, redis, target, setup, chain, tokens, minted, local, signed>>
  BY DEF AutoApprove, chainVars
<1>3. /\ co'[w].pc = "check" /\ co'[w].op = p /\ co'[w].by = "auto"
      /\ \A v \in Workers : v # w => co'[v] = co[v]
  BY DEF AutoApprove, Decide, Safe, TypeInv, WorkersOK
<1>4. /\ \A v \in Workers : ~HasPower(v, p)
      /\ ~LiveLink(p) /\ calls[p] = 0 /\ skipped[p] = "none"
      /\ mode = "auto" /\ status[p] # "none" /\ signed[p] = {}
  BY <1>1, <1>2 DEF OneAuthority, RecordsSafe
<1>5. /\ \A v \in Workers : v # w => ~HasPower(v, p)'
      /\ p \notin tasks' /\ ~LiveLink(p)' /\ calls'[p] = 0 /\ skipped'[p] = "none"
  BY <1>2, <1>3, <1>4 DEF HasPower, HoldsLink, At, LiveLink, db, target
<1>6. OnlyTouches(w, p)
  BY <1>2, <1>3, IdleHasNone DEF OnlyTouches, SameLocal, db, target, setup
<1>7. RecordsSafe(p)'
  BY <1>1, <1>2 DEF RecordsSafe, LiveLink, Required, db, target, setup
<1>8. StepSafe(w, p)'
  BY <1>2, <1>3, <1>4
     DEF StepSafe, At, HoldsLink, EarlySteps, AskSteps, VerdictSteps, TargetSteps,
         Required, db, setup
<1>9. minted[p] <= minted'[p] /\ status'[p] # "none"
  BY <1>2, <1>4 DEF Safe, TypeInv, KeysOK, db
<1> QED BY <1>4, <1>5, <1>6, <1>7, <1>8, <1>9, AuthorityMoves

\* The link gives its authority to the request that consumes its token, if it
\* is the link of the level that is asked.
LEMMA ClickSafe ==
    ASSUME Safe, TypeInv', NEW w \in Workers, NEW t \in tokens, NEW yes \in BOOLEAN,
           Click(w, t, yes)
    PROVE  Safe'
<1> DEFINE p == t[1]
<1>1. t \in Tokens /\ p \in Ops /\ tokens \subseteq Tokens
  BY DEF Safe, TypeInv, KeysOK, Tokens
<1>2. OpSafe(p) /\ p # None /\ t[2] <= minted[p] /\ status[p] # "none"
  BY <1>1, OrchestratorAssumption DEF Safe, OpSafe, RecordsSafe
<1>3. /\ At(w, "idle") /\ tokens' = tokens \ {t}
      /\ local'  = [local EXCEPT ![w] = [index |-> 0, token |-> t]]
      /\ co'     = [co EXCEPT ![w] = [pc |-> "readChain", op |-> p, msg |-> None,
                                      by |-> "chain", yes |-> yes]]
      /\ UNCHANGED <<db, redis, target, tasks, setup, chain, minted, mailed, signed>>
  BY DEF Click
<1>4. /\ co'[w].pc = "readChain" /\ co'[w].op = p /\ co'[w].by = "chain"
      /\ local'[w].token = t
      /\ \A v \in Workers : v # w => co'[v] = co[v] /\ local'[v] = local[v]
  BY <1>3 DEF Safe, TypeInv, WorkersOK
<1>5. OnlyTouches(w, p)
  BY <1>3, <1>4, IdleHasNone DEF OnlyTouches, SameLocal, db, target, setup
<1>6. /\ \A v \in Workers : v # w => (HasPower(v, p)' <=> HasPower(v, p))
      /\ HasPower(w, p)' => LiveLink(p) /\ ~LiveLink(p)'
      /\ LiveLink(p)' => LiveLink(p)
  BY <1>3, <1>4 DEF HasPower, HoldsLink, LiveLink, At, PowerSteps, AskSteps, EarlySteps,
                    VerdictSteps, TargetSteps
<1>7. OneAuthority(p)'
  BY <1>2, <1>3, <1>6 DEF OneAuthority, OpSafe, db, target
<1>8. RecordsSafe(p)'
  BY <1>2, <1>3, <1>6 DEF RecordsSafe, OpSafe, Required, db, target, setup
<1>9. StepSafe(w, p)'
  <2>1. HoldsLink(w)' => signed'[p] = 0 .. chain'[p].index - 1
    <3>1. HoldsLink(w)' => LiveLink(p)
      BY <1>3, <1>4 DEF HoldsLink, LiveLink, At
    <3> QED BY <1>2, <1>3, <3>1 DEF OpSafe, RecordsSafe
  <2> QED BY <1>2, <1>3, <1>4, <2>1
          DEF StepSafe, At, EarlySteps, AskSteps, VerdictSteps, TargetSteps, db
<1>10. ASSUME NEW v \in Workers, v # w PROVE StepSafe(v, p)'
  <2>1. StepSafe(v, p) /\ co'[v] = co[v] /\ local'[v] = local[v]
    BY <1>2, <1>4, <1>10 DEF OpSafe
  <2> QED BY <1>3, <2>1 DEF StepSafe, At, HoldsLink, Required, db, target, setup
<1>11. OpSafe(p)'
  BY <1>7, <1>8, <1>9, <1>10 DEF OpSafe
<1> HIDE DEF p
<1> QED BY <1>1, <1>5, <1>11, OtherOperations

-----------------------------------------------------------------------------
(* Steps of the chain *)

LEMMA Walks ==
    ASSUME TypeInv, NEW w \in Workers, NEW step, Goto(w, step)
    PROVE  /\ co'[w].pc = step /\ co'[w].op = co[w].op
           /\ co'[w].by = co[w].by /\ co'[w].yes = co[w].yes
           /\ \A v \in Workers : v # w => co'[v] = co[v]
BY Memory DEF TypeInv, WorkersOK, Coroutines, Goto

\* The coroutine keeps its authority: nobody has the token it made.
LEMMA StoreChainSafe ==
    ASSUME Safe, TypeInv', NEW w \in Workers, StoreChain(w)
    PROVE  Safe'
<1>1. PICK p \in Ops : p = co[w].op /\ p # None /\ StepSafe(w, p) /\ RecordsSafe(p)
  BY Facts DEF StoreChain, At
<1> DEFINE index == IF At(w, "approvalSend") THEN 0 ELSE local[w].index + 1
           new   == [index |-> index, token |-> <<p, minted[p] + 1>>]
<1>2. /\ co[w].pc \in {"approvalSend", "nextLevel"} /\ mode = "email"
      /\ minted' = [minted EXCEPT ![p] = @ + 1] /\ local' = [local EXCEPT ![w] = new]
      /\ chain' \in {[chain EXCEPT ![p] = new], chain}
      /\ Goto(w, "storeToken")
      /\ UNCHANGED <<status, response, skipped, calls, tasks, mode, tokens, signed>>
  BY <1>1 DEF StoreChain, At, Writes, db, target, setup
<1>3. /\ TypeInv /\ minted[p] \in Nat /\ tokens \subseteq Tokens
      /\ chain \in [Ops -> Chains \cup {None}] /\ index \in Nat
  BY <1>2, Memory DEF Safe, TypeInv, KeysOK, Indexes, At, HoldingSteps, Chains
<1>4. /\ new.index = index /\ new.token[1] = p /\ new.token[2] = minted[p] + 1
      /\ signed[p] = 0 .. index - 1
  <2>1. CASE co[w].pc = "approvalSend"
    <3>1. signed[p] = {} /\ index = 0
      BY <1>1, <2>1 DEF StepSafe, AskSteps, At
    <3> QED BY <3>1
  <2>2. CASE co[w].pc = "nextLevel"
    <3>1. signed[p] = 0 .. local[w].index /\ index = local[w].index + 1
          /\ local[w].index \in Nat
      BY <1>1, <2>2, Memory DEF Safe, StepSafe, At, HoldingSteps, Chains, Indexes
    <3> QED BY <3>1
  <2> QED BY <1>2, <2>1, <2>2
<1> HIDE DEF index, new
<1>5. /\ minted'[p] = minted[p] + 1 /\ \A o \in Ops : o # p => minted'[o] = minted[o]
      /\ local'[w] = new /\ \A v \in Workers : v # w => local'[v] = local[v]
      /\ chain'[p] \in {new, chain[p]} /\ \A o \in Ops : o # p => chain'[o] = chain[o]
  BY <1>2, <1>3 DEF TypeInv, KeysOK, WorkersOK
<1>6. /\ co'[w].pc = "storeToken" /\ co'[w].op = p
      /\ co'[w].by = co[w].by /\ \A v \in Workers : v # w => co'[v] = co[v]
  BY <1>1, <1>2, <1>3, Walks
<1>7. OnlyTouches(w, p)
  BY <1>1, <1>2, <1>5, <1>6 DEF OnlyTouches, SameLocal
<1>8. HasPower(w, p)
  BY <1>1, <1>2 DEF HasPower, PowerSteps, AskSteps
<1>9. /\ \A v \in Workers : v # w => ~HasPower(v, p)
      /\ p \notin tasks' /\ ~LiveLink(p) /\ calls'[p] = 0 /\ skipped'[p] = "none"
  BY <1>2, <1>8, NobodyElse
<1>10. ASSUME NEW v \in Workers, v # w, HasPower(v, p)' PROVE HasPower(v, p)
  <2>1. co[v].op = p /\ (co[v].pc \in PowerSteps \/ HoldsLink(v)')
    BY <1>6, <1>10 DEF HasPower
  <2>2. CASE HoldsLink(v)'
    <3>1. co[v].pc = "readChain" /\ chain'[p] # None /\ chain'[p].token = local[v].token
      BY <1>5, <1>6, <1>10, <2>1, <2>2 DEF HoldsLink, At
    <3>2. local[v].token[2] <= minted[p]
      BY <2>1, <3>1 DEF Safe, OpSafe, StepSafe, At
    <3>3. chain'[p] = chain[p]
      BY <1>3, <1>4, <1>5, <3>1, <3>2
    <3> QED BY <2>1, <3>1, <3>3 DEF HasPower, HoldsLink, At
  <2> QED BY <2>1, <2>2 DEF HasPower
<1>11. \A t \in tokens : t # new.token
  <2>1. \A t \in tokens : t[1] = p => t[2] <= minted[p]
    BY <1>1 DEF RecordsSafe
  <2> QED BY <1>3, <1>4, <2>1
<1>12. ~LiveLink(p)'
  BY <1>2, <1>5, <1>9, <1>11 DEF LiveLink
<1>13. status[p] # "none"
  BY <1>1, <1>2 DEF StepSafe, EarlySteps
<1>14. chain'[p] # None => /\ chain'[p].token[1] = p /\ chain'[p].token[2] <= minted'[p]
                           /\ chain'[p].token = new.token => chain'[p].index = index
  <2>1. CASE chain'[p] = new
    BY <1>3, <1>4, <1>5, <2>1
  <2>2. CASE chain'[p] = chain[p] /\ chain[p] # None
    <3>1. /\ chain[p].token[1] = p /\ chain[p].token[2] <= minted[p]
          /\ chain[p].token[2] \in Nat
      BY <1>1, <1>3, <2>2 DEF RecordsSafe, Chains, Tokens
    <3> QED BY <1>3, <1>4, <1>5, <2>2, <3>1
  <2> QED BY <1>5, <2>1, <2>2
<1>15. RecordsSafe(p)'
  <2>1. \A t \in tokens : t[1] = p => t[2] <= minted'[p]
    <3>1. \A t \in tokens : t[2] \in Nat
      BY <1>3 DEF Tokens
    <3> QED BY <1>1, <1>3, <1>5, <3>1 DEF RecordsSafe
  <2> QED BY <1>1, <1>2, <1>12, <1>13, <1>14, <2>1 DEF RecordsSafe, Required
<1>16. StepSafe(w, p)'
  BY <1>1, <1>2, <1>3, <1>4, <1>5, <1>6, <1>13, <1>14
     DEF StepSafe, At, HoldsLink, EarlySteps, AskSteps, VerdictSteps, TargetSteps
<1> QED BY <1>2, <1>3, <1>5, <1>7, <1>8, <1>9, <1>10, <1>12, <1>13, <1>15, <1>16, AuthorityStep

\* The coroutine gives its authority to the link, or to nobody.
LEMMA StoreDecisionTokenSafe ==
    ASSUME Safe, TypeInv', NEW w \in Workers, StoreDecisionToken(w)
    PROVE  Safe'
<1>1. PICK p \in Ops : p = co[w].op /\ p # None /\ StepSafe(w, p) /\ RecordsSafe(p)
  BY Facts DEF StoreDecisionToken, At
<1>2. /\ co[w].pc = "storeToken" /\ Goto(w, "sendEmail")
      /\ tokens' \in {tokens \cup {local[w].token}, tokens}
      /\ UNCHANGED <<status, response, skipped, calls, tasks, mode, chain, minted, local, signed>>
  BY DEF StoreDecisionToken, At, Writes, db, target, setup
<1>3. /\ TypeInv /\ minted[p] \in Nat /\ tokens \subseteq Tokens
      /\ local[w].token \in Tokens
  BY <1>2, Memory DEF Safe, TypeInv, KeysOK, HoldingSteps, Chains
<1>4. /\ local[w].token[1] = p /\ local[w].token[2] <= minted[p]
      /\ chain[p] # None /\ chain[p].token = local[w].token
           => signed[p] = 0 .. chain[p].index - 1
      /\ status[p] # "none"
  BY <1>1, <1>2 DEF StepSafe, At, EarlySteps
<1>5. /\ co'[w].pc = "sendEmail" /\ co'[w].op = p
      /\ co'[w].by = co[w].by /\ \A v \in Workers : v # w => co'[v] = co[v]
  BY <1>1, <1>2, <1>3, Walks
<1>6. OnlyTouches(w, p)
  <2>1. \A o \in Ops : o # p => \A t \in Tokens : t[1] = o => (t \in tokens' <=> t \in tokens)
    BY <1>2, <1>4
  <2> QED BY <1>1, <1>2, <1>5, <2>1 DEF OnlyTouches, SameLocal
<1>7. HasPower(w, p)
  BY <1>1, <1>2 DEF HasPower, PowerSteps
<1>8. /\ \A v \in Workers : v # w => ~HasPower(v, p)
      /\ p \notin tasks' /\ ~LiveLink(p) /\ calls'[p] = 0 /\ skipped'[p] = "none"
  BY <1>2, <1>7, NobodyElse
<1>9. /\ ~HasPower(w, p)'
      /\ \A v \in Workers : v # w => (HasPower(v, p)' => HasPower(v, p))
  BY <1>2, <1>5 DEF HasPower, HoldsLink, At, PowerSteps, AskSteps, EarlySteps, VerdictSteps,
                    TargetSteps
<1>10. LiveLink(p)' => signed'[p] = 0 .. chain'[p].index - 1
  BY <1>2, <1>4, <1>8 DEF LiveLink
<1>11. RecordsSafe(p)'
  BY <1>1, <1>2, <1>4, <1>10 DEF RecordsSafe, Required
<1>12. StepSafe(w, p)'
  BY <1>1, <1>2, <1>4, <1>5
     DEF StepSafe, At, HoldsLink, EarlySteps, AskSteps, VerdictSteps, TargetSteps
<1>13. minted[p] <= minted'[p]
  BY <1>2, <1>3
<1> QED BY <1>2, <1>4, <1>6, <1>7, <1>8, <1>9, <1>11, <1>12, <1>13, AuthorityStep

\* The link in the email has the authority, not the coroutine that sends it.
LEMMA SendEmailSafe ==
    ASSUME Safe, TypeInv', NEW w \in Workers, SendEmail(w)
    PROVE  Safe'
<1>1. /\ ~At(w, "idle") /\ co[w].pc \notin EarlySteps
      /\ UNCHANGED <<status, chain, tokens, minted, tasks, calls, target, signed, response,
                     skipped, mode, setup>>
  BY DEF SendEmail, At, EarlySteps, db, target, setup
<1>2. SameLocal(w)
  BY DEF SendEmail, SameLocal, Safe, TypeInv, WorkersOK
<1>3. CASE Finish(w)
  BY <1>1, <1>2, <1>3, FinishSafe
<1>4. ASSUME NEW step \in {"approvalId", "approvalFail"}, Goto(w, step) PROVE Safe'
  BY <1>1, <1>2, <1>4, LeaveSafe DEF NoPower
<1> QED BY <1>3, <1>4 DEF SendEmail

\* A valid link gives the next level to ask, or the verdict.
LEMMA ReadChainSafe ==
    ASSUME Safe, TypeInv', NEW w \in Workers, ReadChain(w)
    PROVE  Safe'
<1>1. PICK p \in Ops : p = co[w].op /\ p # None /\ StepSafe(w, p) /\ RecordsSafe(p)
  BY Facts DEF ReadChain, At
<1> DEFINE ch == chain[p]
<1>2. /\ co[w].pc = "readChain"
      /\ UNCHANGED <<status, response, skipped, calls, tasks, mode, chain, tokens, minted>>
  BY DEF ReadChain, At, db, target, setup
<1>3. CASE local' = [local EXCEPT ![w] = None] /\ Finish(w) /\ UNCHANGED signed
  <2>1. SameLocal(w)
    BY <1>3 DEF SameLocal, Safe, TypeInv, WorkersOK
  <2> QED BY <1>2, <1>3, <2>1, FinishSafe DEF At
<1>4. CASE /\ ch # None /\ ch.token = local[w].token
           /\ local'  = [local EXCEPT ![w] = ch]
           /\ signed' = IF co[w].yes THEN [signed EXCEPT ![p] = @ \cup {ch.index}] ELSE signed
           /\ Goto(w, AfterSignature(co[w].yes, ch.index))
  <2>1. /\ TypeInv /\ minted[p] \in Nat /\ ch \in Chains /\ ch.index \in Indexes
        /\ signed[p] \subseteq Indexes /\ mode = "email"
    BY <1>1, <1>4 DEF Safe, TypeInv, KeysOK, Chains, RecordsSafe
  <2>2. HoldsLink(w) /\ HasPower(w, p) /\ signed[p] = 0 .. ch.index - 1 /\ status[p] # "none"
    BY <1>1, <1>2, <1>4 DEF HoldsLink, HasPower, At, StepSafe, EarlySteps
  <2>3. /\ signed'[p] = IF co[w].yes THEN 0 .. ch.index ELSE signed[p]
        /\ \A o \in Ops : o # p => signed'[o] = signed[o]
        /\ local'[w] = ch /\ \A v \in Workers : v # w => local'[v] = local[v]
    <3>1. ch.index \in Nat /\ (0 .. ch.index - 1) \cup {ch.index} = 0 .. ch.index
      BY <2>1 DEF Indexes
    <3> HIDE DEF ch
    <3> QED BY <1>4, <2>1, <2>2, <3>1 DEF TypeInv, KeysOK, WorkersOK
  <2>4. PICK step \in {"nextLevel", "cleanup"} :
          /\ Goto(w, step)
          /\ step = "nextLevel" => co[w].yes
          /\ step = "cleanup" /\ co[w].yes => ch.index = Levels - 1
    BY <1>4, <2>1, ChainAssumption DEF AfterSignature, Indexes
  <2> HIDE DEF ch
  <2>5. /\ co'[w].pc = step /\ co'[w].op = p /\ co'[w].yes = co[w].yes
        /\ co'[w].by = co[w].by /\ \A v \in Workers : v # w => co'[v] = co[v]
    BY <1>1, <2>1, <2>4, Walks
  <2>6. OnlyTouches(w, p)
    BY <1>1, <1>2, <2>3, <2>5 DEF OnlyTouches, SameLocal
  <2>7. /\ p \notin tasks' /\ ~LiveLink(p)' /\ calls'[p] = 0 /\ skipped'[p] = "none"
    BY <1>2, <2>2, NobodyElse DEF LiveLink
  <2>8. \A v \in Workers : v # w => (HasPower(v, p)' => HasPower(v, p))
    BY <1>1, <1>2, <2>3, <2>5 DEF HasPower, HoldsLink, At
  <2>9. RecordsSafe(p)'
    <3>1. \A l \in signed'[p] : \A k \in 0 .. l : k \in signed'[p]
      <4>1. signed'[p] = 0 .. ch.index \/ signed'[p] = signed[p]
        BY <2>3
      <4>2. ch.index \in Nat
        BY <2>1 DEF Indexes
      <4> QED BY <1>1, <4>1, <4>2 DEF RecordsSafe
    <3> QED BY <1>1, <1>2, <2>1, <2>2, <2>7, <3>1 DEF RecordsSafe, Required
  <2>10. StepSafe(w, p)'
    <3>1. step = "nextLevel" => signed'[p] = 0 .. local'[w].index
      BY <2>3, <2>4
    <3>2. step = "cleanup" /\ co[w].yes => signed'[p] = 0 .. Required - 1
      BY <2>1, <2>3, <2>4 DEF Required
    <3>3. Required' = Required
      BY <1>2 DEF Required
    <3>4. local'[w].token[1] = p /\ local'[w].token[2] <= minted'[p]
      BY <1>1, <1>2, <1>4, <2>3 DEF RecordsSafe, ch
    <3> QED BY <1>1, <1>2, <2>2, <2>5, <3>1, <3>2, <3>3, <3>4
            DEF StepSafe, At, HoldsLink, EarlySteps, AskSteps, VerdictSteps, TargetSteps
  <2>11. minted[p] <= minted'[p]
    BY <1>2, <2>1
  <2> QED BY <1>2, <2>2, <2>6, <2>7, <2>8, <2>9, <2>10, <2>11, AuthorityStep
<1> QED BY <1>1, <1>3, <1>4 DEF ReadChain, Reads

LEMMA CleanupSafe ==
    ASSUME Safe, TypeInv', NEW w \in Workers, Cleanup(w)
    PROVE  Safe'
<1>1. PICK p \in Ops : p = co[w].op /\ p # None /\ StepSafe(w, p) /\ RecordsSafe(p)
  BY Facts DEF Cleanup, At
<1>2. /\ co[w].pc = "cleanup" /\ Goto(w, "check")
      /\ chain'  \in {[chain EXCEPT ![p] = None], chain}
      /\ tokens' \in {tokens \ {local[w].token}, tokens}
      /\ local'  = [local EXCEPT ![w] = None]
      /\ UNCHANGED <<status, response, skipped, calls, tasks, mode, minted, signed>>
  BY <1>1 DEF Cleanup, At, Writes, db, target, setup
<1>3. /\ TypeInv /\ minted[p] \in Nat /\ tokens \subseteq Tokens
      /\ local[w].token \in Tokens
  BY <1>2, Memory DEF Safe, TypeInv, KeysOK, HoldingSteps, Chains
<1>4. /\ chain'[p] \in {None, chain[p]} /\ \A o \in Ops : o # p => chain'[o] = chain[o]
      /\ \A v \in Workers : v # w => local'[v] = local[v]
  BY <1>2, <1>3 DEF TypeInv, KeysOK, WorkersOK
<1>5. /\ co'[w].pc = "check" /\ co'[w].op = p /\ co'[w].yes = co[w].yes
      /\ co'[w].by = co[w].by /\ \A v \in Workers : v # w => co'[v] = co[v]
  BY <1>1, <1>2, <1>3, Walks
<1>6. /\ local[w].token[1] = p /\ tokens' \subseteq tokens
      /\ co[w].yes => signed[p] = 0 .. Required - 1
      /\ status[p] # "none"
  BY <1>1, <1>2 DEF StepSafe, At, EarlySteps, VerdictSteps
<1>7. OnlyTouches(w, p)
  <2>1. \A o \in Ops : o # p => \A t \in Tokens : t[1] = o => (t \in tokens' <=> t \in tokens)
    BY <1>2, <1>6
  <2> QED BY <1>1, <1>2, <1>4, <1>5, <2>1 DEF OnlyTouches, SameLocal
<1>8. HasPower(w, p)
  BY <1>1, <1>2 DEF HasPower, PowerSteps, VerdictSteps
<1>9. /\ p \notin tasks' /\ ~LiveLink(p)' /\ calls'[p] = 0 /\ skipped'[p] = "none"
  BY <1>2, <1>4, <1>6, <1>8, NobodyElse DEF LiveLink
<1>10. \A v \in Workers : v # w => (HasPower(v, p)' => HasPower(v, p))
  BY <1>1, <1>4, <1>5 DEF HasPower, HoldsLink, At
<1>11. RecordsSafe(p)'
  BY <1>1, <1>2, <1>4, <1>6, <1>9 DEF RecordsSafe, Required
<1>12. StepSafe(w, p)'
  BY <1>1, <1>2, <1>5, <1>6
     DEF StepSafe, At, HoldsLink, EarlySteps, AskSteps, VerdictSteps, TargetSteps, Required
<1>13. minted[p] <= minted'[p]
  BY <1>2, <1>3
<1> QED BY <1>2, <1>7, <1>8, <1>9, <1>10, <1>11, <1>12, <1>13, AuthorityStep

LEMMA ChainStepSafe ==
    ASSUME Safe, TypeInv', NEW w \in Workers, ChainStep(w)
    PROVE  Safe'
<1>1. CASE ReturnFromDecision(w)
  <2>1. co[w].pc = "return" /\ co[w].by # "callback"
    BY <1>1, Facts DEF ReturnFromDecision, At, StepSafe
  <2>2. Finish(w) /\ SameLocal(w) /\ UNCHANGED <<status, calls, response, skipped, mode>>
        /\ UNCHANGED <<chain, tokens, minted, tasks, signed>>
    BY <1>1, <2>1 DEF ReturnFromDecision, SameLocal, chainVars, db, target, setup
  <2> QED BY <2>1, <2>2, FinishSafe DEF At
\* Only the approve-callback endpoint looks for the chain.
<1>2. ~(FindChain(w) \/ DropToken(w) \/ DropChain(w))
  BY Facts DEF FindChain, DropToken, DropChain, At, StepSafe
<1> QED BY <1>1, <1>2, StoreChainSafe, StoreDecisionTokenSafe, SendEmailSafe,
           ReadChainSafe, CleanupSafe DEF ChainStep

-----------------------------------------------------------------------------
(* Faults *)

\* Coroutines, tasks, links and chains that are lost take their authority away.
LEMMA LossSafe ==
    ASSUME Safe, TypeInv',
           \A v \in Workers : \/ co'[v] = Idle
                              \/ /\ co'[v] = co[v]
                                 /\ local'[v] = local[v] \/ co[v].op = None,
           tasks' \subseteq tasks, tokens' \subseteq tokens,
           \A o \in Ops : chain'[o] \in {chain[o], None},
           UNCHANGED <<status, calls, response, signed, skipped, minted, mode>>
    PROVE  Safe'
<1> SUFFICES ASSUME NEW o \in Ops PROVE OpSafe(o)'
  BY DEF Safe
<1>1. OpSafe(o) /\ o # None /\ Required' = Required
  BY OrchestratorAssumption DEF Safe, Required
<1>2. ASSUME NEW v \in Workers
      PROVE  co'[v].op # o \/ (co'[v] = co[v] /\ local'[v] = local[v])
  BY <1>1 DEF Idle
<1>3. LiveLink(o)' => LiveLink(o)
  BY DEF LiveLink
<1>4. \A v \in Workers : HoldsLink(v)' /\ co'[v].op = o => HoldsLink(v)
  BY <1>2 DEF HoldsLink, At
<1>5. \A v \in Workers : HasPower(v, o)' => HasPower(v, o)
  BY <1>2, <1>4 DEF HasPower
<1>6. OneAuthority(o)'
  BY <1>1, <1>3, <1>5 DEF OpSafe, OneAuthority
<1>7. RecordsSafe(o)'
  BY <1>1, <1>3 DEF OpSafe, RecordsSafe, LiveLink
<1>8. ASSUME NEW v \in Workers PROVE StepSafe(v, o)'
  <2>1. StepSafe(v, o)
    BY <1>1 DEF OpSafe
  <2>2. CASE co'[v].op # o
    BY <2>2 DEF StepSafe
  <2>3. CASE co'[v] = co[v] /\ local'[v] = local[v]
    BY <1>1, <2>1, <2>3 DEF StepSafe, At, HoldsLink
  <2> QED BY <1>2, <2>2, <2>3
<1> QED BY <1>6, <1>7, <1>8 DEF OpSafe

\* The step after a database error is not one that brings authority.
LEMMA DbErrorSafe ==
    ASSUME Safe, TypeInv', NEW w \in Workers, DbError(w), ForgetLocal,
           UNCHANGED <<chain, tokens, minted, signed>>
    PROVE  Safe'
<1>1. /\ co[w].pc \in DbSteps /\ ~At(w, "idle")
      /\ UNCHANGED <<db, redis, target, tasks, setup>>
  BY DEF DbError, At, DbSteps
<1>2. TypeInv /\ Idle.op = None /\ co[w].op \in Ops
  BY <1>1, Facts DEF Idle
<1>3. \A v \in Workers : v # w => co'[v] = co[v]
  BY <1>2 DEF DbError, Finish, Goto, TypeInv, WorkersOK
<1>4. SameLocal(w)
  BY <1>2, <1>3 DEF SameLocal, ForgetLocal
<1>5. CASE Finish(w)
  BY <1>1, <1>4, <1>5, FinishSafe DEF db, target, setup
<1>6. ASSUME NEW step, step = AfterDbError(co[w].pc, co[w].by), step # "idle", Goto(w, step)
      PROVE  Safe'
  <2>1. \/ step \in NoPower /\ co[w].pc \notin EarlySteps
        \/ step \in {"duplicate", "validate"} /\ co[w].pc \in {"diff", "duplicate"}
    BY <1>1, <1>6 DEF AfterDbError, DbSteps, NoPower, EarlySteps
  <2>2. CASE step \in NoPower /\ co[w].pc \notin EarlySteps
    BY <1>1, <1>4, <1>6, <2>2, LeaveSafe DEF db, target
  <2>3. CASE step \in {"duplicate", "validate"} /\ co[w].pc \in {"diff", "duplicate"}
    <3>1. co[w].pc \in AskSteps /\ co[w].pc \notin EarlySteps
          /\ step \in AskSteps /\ step \notin EarlySteps
      BY <2>3 DEF AskSteps, EarlySteps
    <3> QED BY <1>1, <1>4, <1>6, <3>1, AskSafe DEF db, target
  <2> QED BY <2>1, <2>2, <2>3
<1> QED BY <1>5, <1>6 DEF DbError

LEMMA FaultSafe ==
    ASSUME Safe, TypeInv', OrchestratorFault
    PROVE  Safe'
<1>1. ForgetLocal /\ UNCHANGED <<chain, tokens, minted, signed>>
  BY DEF OrchestratorFault
<1>2. ASSUME NEW w \in Workers, DbError(w) PROVE Safe'
  BY <1>1, <1>2, DbErrorSafe
\* An idle coroutine has no operation, a dead one becomes idle.
<1>3. ASSUME \A v \in Workers : co'[v] \in {Idle, co[v]} PROVE
        \A v \in Workers : \/ co'[v] = Idle
                           \/ /\ co'[v] = co[v]
                              /\ local'[v] = local[v] \/ co[v].op = None
  BY <1>1, <1>3 DEF ForgetLocal, Idle
<1>4. CASE ConsumerCrash \/ ApiCrash
  <2>1. /\ \A v \in Workers : co'[v] \in {Idle, co[v]}
        /\ tasks' \subseteq tasks /\ UNCHANGED <<db, redis, target, setup>>
    BY <1>4 DEF ConsumerCrash, ApiCrash
  <2> QED BY <1>1, <1>3, <2>1, LossSafe DEF db, target, setup
<1>5. ASSUME NEW o \in Ops, PendingExpires(o) PROVE Safe'
  <2>1. UNCHANGED <<db, target, tasks, co, setup>>
    BY <1>5 DEF PendingExpires
  <2> QED BY <1>1, <1>3, <2>1, LossSafe DEF db, target, setup
<1> QED BY <1>2, <1>4, <1>5 DEF OrchestratorFault, FaultStep

-----------------------------------------------------------------------------

LEMMA InitialSafe == ChainInit => Safe
<1> SUFFICES ASSUME ChainInit PROVE Safe
  OBVIOUS
<1>1. TypeInv
  BY InitialTypes
<1>2. ASSUME NEW o \in Ops PROVE OpSafe(o)
  <2>1. \A w \in Workers : co[w].op # o
    BY OrchestratorAssumption DEF ChainInit, Init, Idle
  <2>2. /\ chain[o] = None /\ tokens = {} /\ tasks = {} /\ signed[o] = {} /\ calls[o] = 0
        /\ skipped[o] = "none" /\ status[o] = "none"
    BY DEF ChainInit, Init
  <2>3. OneAuthority(o) /\ RecordsSafe(o)
    BY <2>1, <2>2 DEF OneAuthority, RecordsSafe, HasPower, LiveLink
  <2> QED BY <2>1, <2>3 DEF OpSafe, StepSafe
<1> QED BY <1>1, <1>2 DEF Safe

LEMMA NextSafe ==
    ASSUME ~Callbacks, Safe, [ChainNext]_vars
    PROVE  Safe'
<1>t. TypeInv'
  BY NextTypes DEF Safe
<1>1. ASSUME NEW w \in Workers, NEW o \in Ops, NEW m \in Messages,
             Receive(w, o, m), UNCHANGED chainVars
      PROVE  Safe'
  BY <1>t, <1>1, ReceiveSafe
<1>2. ASSUME NEW w \in Workers, ChainWorkerStep(w) PROVE Safe'
  BY <1>t, <1>2, ChainStepSafe, MessageStepSafe, ProvisionStepSafe, DecisionStepSafe
     DEF ChainWorkerStep, WorkerStep
<1>3. ASSUME NEW o \in Ops, AutoApproval(o) PROVE Safe'
  BY <1>t, <1>3, AutoApproveSafe DEF AutoApproval
<1>4. ASSUME NEW w \in Workers, NEW t \in tokens, NEW yes \in BOOLEAN, Click(w, t, yes)
      PROVE  Safe'
  BY <1>t, <1>4, ClickSafe
<1>5. CASE OrchestratorFault
  BY <1>t, <1>5, FaultSafe
<1>6. CASE (\E o \in Ops : ChainExpires(o)) \/ (\E t \in tokens : TokenExpires(t))
  <2>1. /\ UNCHANGED <<orchVars, minted, local, signed>> /\ tokens' \subseteq tokens
        /\ \A o \in Ops : chain'[o] \in {chain[o], None}
    BY <1>6 DEF ChainExpires, TokenExpires, Safe, TypeInv, KeysOK
  <2> QED BY <1>t, <2>1, LossSafe DEF orchVars, db, target, setup
<1>7. CASE UNCHANGED vars
  BY <1>t, <1>7, LossSafe DEF vars, orchVars, chainVars, db, target, setup
<1> QED BY <1>1, <1>2, <1>3, <1>4, <1>5, <1>6, <1>7 DEF ChainNext

LEMMA AlwaysSafe ==
    ASSUME ~Callbacks PROVE ChainSpec => []Safe
<1>1. Safe /\ [ChainNext]_vars => Safe'
  BY NextSafe
<1> QED BY <1>1, InitialSafe, PTL DEF ChainSpec

\* In a deployment that does not use approve-callback beside the links, and
\* whatever fails, process_approval_response keeps its promise: the target is
\* called at most once for an operation, never for one that was rejected or
\* closed as having nothing to do, and no operation succeeds without.
THEOREM DecisionsAreSafe ==
    ASSUME ~Callbacks
    PROVE  ChainSpec => []DecisionIsHonoured
<1>1. Safe => DecisionIsHonoured
  <2> SUFFICES ASSUME Safe, NEW o \in Ops
               PROVE  /\ calls[o] <= 1
                      /\ calls[o] = 1 => /\ skipped[o] = "none"
                                         /\ mode # "off" => response[o] = "approved"
                      /\ status[o] = "SUCCESS" => calls[o] = 1 \/ skipped[o] # "none"
    BY DEF DecisionIsHonoured
  <2>1. RecordsSafe(o)
    BY DEF Safe, OpSafe
  <2> QED BY <2>1 DEF RecordsSafe
<1> QED BY <1>1, AlwaysSafe, PTL

\* In such a deployment handle_decision never calls the target before the link
\* of each level was followed, and levels sign in order, for any number of levels.
THEOREM EveryLevelHasSigned ==
    ASSUME ~Callbacks
    PROVE  ChainSpec => []EveryLevelSigned
<1>1. Safe => EveryLevelSigned
  <2> SUFFICES ASSUME Safe, NEW o \in Ops
               PROVE  /\ calls[o] > 0 => signed[o] = 0 .. Required - 1
                      /\ \A l \in signed[o] : \A k \in 0 .. l : k \in signed[o]
    BY DEF EveryLevelSigned
  <2>1. RecordsSafe(o) /\ calls[o] \in Nat
    BY DEF Safe, OpSafe, TypeInv, TargetOK
  <2> QED BY <2>1 DEF RecordsSafe
<1> QED BY <1>1, AlwaysSafe, PTL

===============================================================================
