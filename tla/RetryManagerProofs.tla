--------------------------- MODULE RetryManagerProofs ---------------------------
(***************************************************************************)
(* Proofs about RetryManager, for every set of operations and every value  *)
(* of the retry settings.  TypeOK and DelayIsCapped hold for any number of *)
(* retry loops; the rest for the one loop of the one consumer process, and *)
(* what is left of the budget for two.                                     *)
(***************************************************************************)
EXTENDS RetryManager, TLAPS

\* The values a loop takes when one of its calls returns.
LEMMA LoopValues ==
    ASSUME NEW r \in Loops
    PROVE  /\ Idle \in Loops
           /\ \A s \in Steps : [r EXCEPT !.pc = s] \in Loops
           /\ \A B \in SUBSET Ops : [r EXCEPT !.pc = "loop", !.batch = B] \in Loops
           /\ \A o \in Ops, B \in SUBSET Ops :
                [r EXCEPT !.pc = "retry", !.op = o, !.batch = B] \in Loops
           /\ \A s \in Steps, n \in Nat : [r EXCEPT !.pc = s, !.seen = n] \in Loops
  BY DEF Loops, Steps, Idle

\* A loop's value replaces its old one and leaves the other loops alone.
LEMMA LoopUpdate ==
    ASSUME proc \in [Processors -> Loops], NEW p \in Processors, NEW r \in Loops,
           proc' = [proc EXCEPT ![p] = r]
    PROVE  /\ proc' \in [Processors -> Loops]
           /\ proc'[p] = r
           /\ \A q \in Processors : q # p => proc'[q] = proc[q]
  OBVIOUS


\* Every value has its type, with any number of loops: the arguments of the
\* updates of retry_count and of the dead letter table are always rows.
THEOREM TypeCorrect == Spec => []TypeOK
<1>1. Init => TypeOK
  BY RetryAssumption DEF Init, TypeOK, setup, Idle, Loops, Steps, Statuses, At
<1>2. TypeOK /\ [Next]_vars => TypeOK'
  <2> SUFFICES ASSUME TypeOK, [Next]_vars PROVE TypeOK'
    OBVIOUS
  <2>1. CASE UNCHANGED vars
    BY <2>1 DEF vars, setup, At, TypeOK
  <2>2. ASSUME NEW o \in Ops, NEW reset \in BOOLEAN, ManualRetry(o, reset)
        PROVE  TypeOK'
    BY <2>2 DEF ManualRetry, At, TypeOK, setup, Statuses
  <2>3. ASSUME NEW o \in Ops, BecomeDue(o) PROVE TypeOK'
    BY <2>3 DEF BecomeDue, At, TypeOK, setup
  <2>4. ASSUME NEW p \in Processors, ProcessorStep(p) \/ Crash(p) PROVE TypeOK'
    <3>a. /\ proc \in [Processors -> Loops] /\ proc[p] \in Loops
          /\ \A q \in Processors : ~At(q, "idle") /\ ~At(q, "loop") => proc[q].op \in Ops
      BY DEF TypeOK
    <3>b. \A q \in Processors : proc[q].batch \in SUBSET Ops
      BY <3>a DEF Loops
    <3>c. ASSUME NEW r \in Loops, proc' = [proc EXCEPT ![p] = r],
                 r.pc \in {"idle", "loop"} \/ r.op \in Ops
          PROVE  /\ proc' \in [Processors -> Loops]
                 /\ \A q \in Processors :
                      ~At(q, "idle")' /\ ~At(q, "loop")' => proc'[q].op \in Ops
      BY <3>a, <3>c, LoopUpdate DEF At
    <3>1. CASE GetPendingRetries(p)
      <4> DEFINE r == [proc[p] EXCEPT !.pc = "loop", !.batch = Retriable]
      <4>1. Retriable \in SUBSET Ops
        BY DEF Retriable
      <4>2. r \in Loops /\ r.pc = "loop"
        BY <3>a, <4>1, LoopValues DEF Loops
      <4>3. proc' = [proc EXCEPT ![p] = r]
        BY <3>1 DEF GetPendingRetries
      <4> HIDE DEF r
      <4> QED
        BY <3>1, <3>c, <4>2, <4>3 DEF GetPendingRetries, TypeOK, setup
    <3>2. CASE TakeOperation(p)
      <4>1. PICK o \in proc[p].batch :
              /\ proc' = [proc EXCEPT ![p].pc = "retry", ![p].op = o, ![p].batch = @ \ {o}]
              /\ status' = [status EXCEPT ![o] = "PENDING"]
        BY <3>2 DEF TakeOperation
      <4> DEFINE r == [proc[p] EXCEPT !.pc = "retry", !.op = o, !.batch = @ \ {o}]
      <4>2. o \in Ops /\ proc[p].batch \ {o} \in SUBSET Ops
        BY <3>b, <4>1
      <4>3. r \in Loops /\ r.op \in Ops
        BY <3>a, <4>2, LoopValues DEF Loops
      <4>4. proc' = [proc EXCEPT ![p] = r]
        BY <4>1
      <4>5. status' \in [Ops -> Statuses]
        BY <4>1, <4>2 DEF TypeOK, setup, Statuses
      <4> HIDE DEF r
      <4> QED
        BY <3>2, <3>c, <4>3, <4>4, <4>5 DEF TakeOperation, TypeOK, setup
    <3>3. CASE EndOfBatch(p)
      BY <3>3, <3>a, <3>c, LoopValues DEF EndOfBatch, TypeOK, setup, Idle
    <3>4. ASSUME NEW s \in Steps, Goto(p, s), ~At(p, "idle"), ~At(p, "loop"),
                 status' \in [Ops -> Statuses], dlq' \subseteq Ops, executed' \subseteq Ops,
                 UNCHANGED <<count, delay, due, setup>>
          PROVE  TypeOK'
      <4> DEFINE r == [proc[p] EXCEPT !.pc = s]
      <4>1. r \in Loops /\ r.op \in Ops
        BY <3>4, <3>a, LoopValues DEF Loops
      <4>2. proc' = [proc EXCEPT ![p] = r]
        BY <3>4 DEF Goto
      <4> HIDE DEF r
      <4> QED
        BY <3>4, <3>c, <4>1, <4>2 DEF TypeOK, setup
    <3>5. CASE RetryOperation(p)
      BY <3>5, <3>4, <3>a DEF RetryOperation, RetryRequestId, RequestIds, At, Steps, TypeOK, setup
    <3>6. CASE SetDlq(p)
      BY <3>6, <3>4, <3>a DEF SetDlq, At, Steps, TypeOK, setup, Statuses
    <3>7. CASE CreateDlqEntry(p)
      <4>1. proc[p].op \in Ops
        BY <3>7, <3>a DEF CreateDlqEntry, At
      <4>2. CASE proc[p].op \in dlq
        BY <3>7, <3>a, <3>c, <4>2, LoopValues DEF CreateDlqEntry, Idle, TypeOK, setup
      <4>3. CASE proc[p].op \notin dlq
        BY <3>7, <3>4, <4>1, <4>3 DEF CreateDlqEntry, At, Steps, TypeOK, setup
      <4> QED
        BY <4>2, <4>3
    <3>8. CASE ScheduleRetry(p)
      <4> DEFINE n == count[proc[p].op]
                 s == IF n >= MaxRetries[proc[p].op] THEN "setDlq" ELSE "readCount"
                 r == [proc[p] EXCEPT !.pc = s, !.seen = n]
      <4>1. proc[p].op \in Ops
        BY <3>8, <3>a DEF ScheduleRetry, At
      <4>2. n \in Nat /\ s \in Steps
        BY <4>1 DEF TypeOK, setup, Steps
      <4>3. r \in Loops /\ r.op \in Ops
        <5>1. r \in Loops
          BY ONLY <3>a, <4>2, LoopValues
        <5> QED
          BY <3>a, <4>1, <5>1 DEF Loops
      <4>4. proc' = [proc EXCEPT ![p] = r]
        BY <3>8 DEF ScheduleRetry
      <4> HIDE DEF r
      <4> QED
        BY <3>8, <3>c, <4>3, <4>4 DEF ScheduleRetry, TypeOK, setup
    <3>9. CASE ReadCount(p)
      <4> DEFINE n == count[proc[p].op]
                 r == [proc[p] EXCEPT !.pc = "writeCount", !.seen = n]
      <4>1. proc[p].op \in Ops
        BY <3>9, <3>a DEF ReadCount, At
      <4>2. n \in Nat
        BY <4>1 DEF TypeOK, setup
      <4>3. r \in Loops /\ r.op \in Ops
        <5>1. "writeCount" \in Steps
          BY DEF Steps
        <5>2. r \in Loops
          BY <3>a, <4>1, <4>2, <5>1, LoopValues
        <5> QED
          BY <3>a, <4>1, <5>2 DEF Loops
      <4>4. proc' = [proc EXCEPT ![p] = r]
        BY <3>9 DEF ReadCount
      <4> HIDE DEF r
      <4> QED
        BY <3>9, <3>c, <4>3, <4>4 DEF ReadCount, TypeOK, setup
    <3>10. CASE ResetForRetry(p)
      <4>1. proc[p].op \in Ops /\ proc[p].seen + 1 \in Nat
        BY <3>10, <3>a DEF ResetForRetry, At, Loops
      <4> DEFINE r == [proc[p] EXCEPT !.pc = "loop"]
      <4>2. r \in Loops /\ r.op \in Ops
        <5>1. "loop" \in Steps
          BY DEF Steps
        <5>2. r \in Loops
          BY <3>a, <4>1, <5>1, LoopValues
        <5> QED
          BY <3>a, <4>1, <5>2 DEF Loops
      <4>3. proc' = [proc EXCEPT ![p] = r]
        BY <3>10 DEF ResetForRetry, Goto
      <4>4. /\ status' \in [Ops -> Statuses] /\ count' \in [Ops -> Nat]
            /\ due' \in [Ops -> BOOLEAN]
        BY <3>10, <4>1 DEF ResetForRetry, TypeOK, setup, Statuses
      <4> HIDE DEF r
      <4> QED
        BY <3>10, <3>c, <4>2, <4>3, <4>4 DEF ResetForRetry, TypeOK, setup
    <3>11. CASE Crash(p)
      BY <3>11, <3>a, <3>c, LoopValues DEF Crash, TypeOK, setup, Idle
    <3> QED
      BY <2>4, <3>1, <3>2, <3>3, <3>5, <3>6, <3>7, <3>8, <3>9, <3>10, <3>11
         DEF ProcessorStep
  <2> QED
    <3>1. loops \subseteq Processors
      BY DEF TypeOK
    <3> QED
      BY <2>1, <2>2, <2>3, <2>4, <3>1 DEF Next
<1> QED
  BY <1>1, <1>2, PTL DEF Spec

\* The delay written with a retry never exceeds RETRY_MAX_DELAY.
THEOREM DelayCapped == Spec => []DelayIsCapped
<1> DEFINE Inv == DOMAIN delay = Ops /\ DelayIsCapped
<1>1. Init => Inv
  BY RetryAssumption DEF Init, DelayIsCapped
<1>2. Inv /\ [Next]_vars => Inv'
  <2>1. \A n : Delay(n) <= MaxDelay
    BY RetryAssumption DEF Delay
  <2>2. ASSUME Inv, NEW o, NEW n, delay' = [delay EXCEPT ![o] = Delay(n)] PROVE Inv'
    BY <2>1, <2>2 DEF DelayIsCapped
  <2>3. ASSUME Inv, UNCHANGED delay PROVE Inv'
    BY <2>3 DEF DelayIsCapped
  <2> HIDE DEF Inv
  <2> QED
    BY <2>2, <2>3 DEF Next, vars, ManualRetry, BecomeDue, ProcessorStep, Crash,
       GetPendingRetries, TakeOperation, EndOfBatch, RetryOperation, ScheduleRetry,
       ReadCount, ResetForRetry, SetDlq, CreateDlqEntry
<1> QED
  BY <1>1, <1>2, PTL DEF Spec

(***************************************************************************)
(* One retry loop.  The budget is not inductive: it needs that the batch   *)
(* stays fresh, that the operation in hand has attempts left, and that the *)
(* count reset_for_retry read is still the count of the row.               *)
(***************************************************************************)
HandStaysFresh ==
    OneLoop => \A p \in loops :
        /\ ~At(p, "setDlq") /\ ~At(p, "createDlq")
        /\ ~At(p, "idle") /\ ~At(p, "loop") => count[proc[p].op] < MaxRetries[proc[p].op]
        /\ At(p, "writeCount") => proc[p].seen = count[proc[p].op]

Safe == BatchStaysFresh /\ RetryBudget /\ DlqStaysEmpty /\ HandStaysFresh

LEMMA SafeInit == Init => Safe
  BY RetryAssumption DEF Init, Safe, BatchStaysFresh, RetryBudget, DlqStaysEmpty,
     HandStaysFresh, InHand, At, Idle

\* The endpoint only touches rows that no loop holds.
LEMMA SafeManualRetry ==
    ASSUME OneLoop, TypeOK, Safe, NEW o \in Ops, NEW reset \in BOOLEAN, ManualRetry(o, reset)
    PROVE  Safe'
<1>1. status[o] = "FAILED"
  BY DEF Safe, DlqStaysEmpty, ManualRetry, TypeOK, Statuses
<1>2. \A p \in loops : o \notin proc[p].batch /\ ~InHand(p, o)
  BY <1>1 DEF Safe, BatchStaysFresh
<1>3. \A x \in Ops : x # o => status'[x] = status[x] /\ count'[x] = count[x]
  BY DEF ManualRetry, TypeOK
<1>4. status'[o] = "RETRYING" /\ count'[o] <= MaxRetries[o]
  <2>1. status'[o] = "RETRYING" /\ (count'[o] = 0 \/ count'[o] = count[o])
    BY DEF ManualRetry, TypeOK
  <2>2. MaxRetries[o] \in Nat \ {0} /\ count[o] <= MaxRetries[o]
    BY RetryAssumption DEF Safe, RetryBudget
  <2> QED
    BY <2>1, <2>2
<1>5. proc' = proc /\ dlq' = dlq /\ loops' = loops
  BY DEF ManualRetry, setup
<1>6. BatchStaysFresh'
  BY <1>2, <1>3, <1>5 DEF Safe, BatchStaysFresh, InHand, At
<1>7. RetryBudget' /\ DlqStaysEmpty'
  BY <1>3, <1>4, <1>5 DEF Safe, RetryBudget, DlqStaysEmpty
<1>8. HandStaysFresh'
  <2>1. \A p \in loops : ~At(p, "idle") /\ ~At(p, "loop") => proc[p].op \in Ops \ {o}
    <3>1. loops \subseteq Processors
      BY DEF TypeOK
    <3> QED
      BY <1>2, <3>1 DEF InHand, TypeOK
  <2>2. \A p \in loops : At(p, "writeCount") => ~At(p, "idle") /\ ~At(p, "loop")
    BY DEF At
  <2> QED
    BY <1>3, <1>5, <2>1, <2>2 DEF Safe, HandStaysFresh, At
<1> QED
  BY <1>6, <1>7, <1>8 DEF Safe

\* A step of the only loop.
LEMMA SafeLoopStep ==
    ASSUME OneLoop, TypeOK, Safe, NEW p \in Processors, p \in loops,
           ProcessorStep(p) \/ Crash(p)
    PROVE  Safe'
<1> DEFINE o == proc[p].op
<1>a. /\ loops = {p}
      /\ proc \in [Processors -> Loops] /\ proc[p] \in Loops
      /\ proc[p].batch \subseteq Ops
      /\ ~At(p, "idle") /\ ~At(p, "loop") => o \in Ops
  BY DEF OneLoop, TypeOK, Loops
<1>s. loops' = {p}
  BY <1>a DEF setup, ProcessorStep, Crash, GetPendingRetries, TakeOperation, EndOfBatch,
     RetryOperation, ScheduleRetry, ReadCount, ResetForRetry, SetDlq, CreateDlqEntry
<1>b. /\ \A x \in proc[p].batch : status[x] = "RETRYING" /\ count[x] < MaxRetries[x]
      /\ \A x \in proc[p].batch : ~InHand(p, x)
      /\ \A x \in Ops : InHand(p, x) => status[x] = "PENDING"
  BY <1>a DEF OneLoop, Safe, BatchStaysFresh
<1>c. /\ ~At(p, "setDlq") /\ ~At(p, "createDlq")
      /\ ~At(p, "idle") /\ ~At(p, "loop") => count[o] < MaxRetries[o]
      /\ At(p, "writeCount") => proc[p].seen = count[o]
  BY <1>a DEF OneLoop, Safe, HandStaysFresh
<1>d. ASSUME At(p, "idle")' \/ At(p, "loop")',
             proc' = [proc EXCEPT ![p] = proc'[p]],
             \A x \in proc'[p].batch :
                x \in Ops /\ status'[x] = "RETRYING" /\ count'[x] < MaxRetries[x],
             RetryBudget', DlqStaysEmpty'
      PROVE  Safe'
  BY <1>a, <1>s, <1>d DEF Safe, BatchStaysFresh, HandStaysFresh, InHand, At
<1>e. ASSUME ~At(p, "idle")', ~At(p, "loop")', ~At(p, "setDlq")', ~At(p, "createDlq")',
             proc' = [proc EXCEPT ![p] = proc'[p]],
             NEW x \in Ops, proc'[p].op = x, status'[x] = "PENDING",
             count' = count, dlq' = dlq, count[x] < MaxRetries[x],
             \A y \in Ops : y # x => status'[y] = status[y],
             proc'[p].batch \subseteq proc[p].batch \ {x},
             At(p, "writeCount")' => proc'[p].seen = count[x]
      PROVE  Safe'
  <2>1. BatchStaysFresh'
    BY <1>a, <1>b, <1>s, <1>e DEF BatchStaysFresh, InHand, At
  <2>2. HandStaysFresh'
    BY <1>a, <1>s, <1>e DEF HandStaysFresh, At
  <2>3. RetryBudget' /\ DlqStaysEmpty'
    BY <1>e DEF Safe, RetryBudget, DlqStaysEmpty
  <2> QED
    BY <2>1, <2>2, <2>3 DEF Safe
<1>1. CASE GetPendingRetries(p)
  <2>1. proc'[p] = [proc[p] EXCEPT !.pc = "loop", !.batch = Retriable]
    BY <1>1, <1>a DEF GetPendingRetries
  <2>2. proc'[p].pc = "loop" /\ proc'[p].batch = Retriable
    BY <2>1, <1>a DEF Loops
  <2>3. RetryBudget' /\ DlqStaysEmpty'
    BY <1>1 DEF GetPendingRetries, Safe, RetryBudget, DlqStaysEmpty
  <2> QED
    BY <1>1, <1>d, <2>1, <2>2, <2>3 DEF GetPendingRetries, Retriable, At
<1>2. CASE TakeOperation(p)
  <2>1. PICK x \in proc[p].batch :
          /\ proc' = [proc EXCEPT ![p].pc = "retry", ![p].op = x, ![p].batch = @ \ {x}]
          /\ status' = [status EXCEPT ![x] = "PENDING"]
    BY <1>2 DEF TakeOperation
  <2>2. proc'[p] = [proc[p] EXCEPT !.pc = "retry", !.op = x, !.batch = @ \ {x}]
    BY <2>1, <1>a
  <2>3. proc'[p].pc = "retry" /\ proc'[p].op = x /\ proc'[p].batch = proc[p].batch \ {x}
    BY <2>2, <1>a DEF Loops
  <2>4. x \in Ops /\ count[x] < MaxRetries[x]
    BY <2>1, <1>a, <1>b
  <2>5. status'[x] = "PENDING" /\ \A y \in Ops : y # x => status'[y] = status[y]
    BY <2>1, <2>4 DEF TypeOK
  <2> QED
    BY <1>2, <1>e, <2>1, <2>2, <2>3, <2>4, <2>5 DEF TakeOperation, At
<1>3. CASE EndOfBatch(p)
  BY <1>3, <1>a, <1>d DEF EndOfBatch, Idle, At, Safe, RetryBudget, DlqStaysEmpty
<1>4. CASE RetryOperation(p)
  <2>1. proc'[p] = [proc[p] EXCEPT !.pc = "schedule"] /\ At(p, "retry")
    BY <1>4, <1>a DEF RetryOperation, RetryRequestId, RequestIds, Goto, At
  <2>2. proc'[p].pc = "schedule" /\ proc'[p].op = o /\ proc'[p].batch = proc[p].batch
    BY <2>1, <1>a DEF Loops
  <2>3. o \in Ops /\ InHand(p, o)
    BY <2>1, <1>a DEF InHand, At
  <2> QED
    BY <1>4, <1>b, <1>c, <1>e, <2>1, <2>2, <2>3 DEF RetryOperation, InHand, Goto, At,
       RetryRequestId, RequestIds
<1>5. CASE ScheduleRetry(p)
  <2>1. o \in Ops /\ InHand(p, o) /\ count[o] < MaxRetries[o]
    BY <1>5, <1>a, <1>c DEF ScheduleRetry, InHand, At
  <2>2. proc'[p] = [proc[p] EXCEPT !.pc = "readCount", !.seen = count[o]]
    <3>1. ~(count[o] >= MaxRetries[o])
      BY <2>1, RetryAssumption DEF TypeOK
    <3>2. proc' = [proc EXCEPT ![p].pc = "readCount", ![p].seen = count[o]]
      BY <1>5, <3>1 DEF ScheduleRetry
    <3> QED
      BY <1>a, <3>2
  <2>3. proc'[p].pc = "readCount" /\ proc'[p].op = o /\ proc'[p].batch = proc[p].batch
    BY <2>2, <1>a DEF Loops
  <2> QED
    BY <1>5, <1>b, <1>e, <2>1, <2>2, <2>3 DEF ScheduleRetry, InHand, At
<1>6. CASE ReadCount(p)
  <2>1. o \in Ops /\ InHand(p, o) /\ count[o] < MaxRetries[o]
    BY <1>6, <1>a, <1>c DEF ReadCount, InHand, At
  <2>2. proc'[p] = [proc[p] EXCEPT !.pc = "writeCount", !.seen = count[o]]
    BY <1>6, <1>a DEF ReadCount
  <2>3. /\ proc'[p].pc = "writeCount" /\ proc'[p].op = o /\ proc'[p].batch = proc[p].batch
        /\ proc'[p].seen = count[o]
    BY <2>2, <1>a DEF Loops
  <2> QED
    BY <1>6, <1>b, <1>e, <2>1, <2>2, <2>3 DEF ReadCount, InHand, At
<1>7. CASE ResetForRetry(p)
  <2>1. o \in Ops /\ InHand(p, o) /\ count[o] < MaxRetries[o] /\ proc[p].seen = count[o]
    BY <1>7, <1>a, <1>c DEF ResetForRetry, InHand, At
  <2>2. proc'[p] = [proc[p] EXCEPT !.pc = "loop"]
    BY <1>7, <1>a DEF ResetForRetry, Goto
  <2>3. proc'[p].pc = "loop" /\ proc'[p].batch = proc[p].batch
    BY <2>2, <1>a DEF Loops
  <2>4. /\ \A x \in Ops : x # o => status'[x] = status[x] /\ count'[x] = count[x]
        /\ status'[o] = "RETRYING" /\ count'[o] = count[o] + 1
    BY <1>7, <2>1 DEF ResetForRetry, TypeOK
  <2>5. RetryBudget' /\ DlqStaysEmpty'
    <3>1. count[o] \in Nat /\ MaxRetries[o] \in Nat
      BY <2>1, RetryAssumption DEF TypeOK
    <3>2. count'[o] <= MaxRetries[o]
      BY <2>1, <2>4, <3>1
    <3> QED
      BY <1>7, <2>4, <3>2 DEF ResetForRetry, Safe, RetryBudget, DlqStaysEmpty
  <2>6. \A x \in proc[p].batch : x \in Ops \ {o}
    BY <1>a, <1>b, <2>1
  <2> QED
    BY <1>7, <1>b, <1>d, <2>2, <2>3, <2>4, <2>5, <2>6 DEF ResetForRetry, Goto, At
<1>8. CASE SetDlq(p) \/ CreateDlqEntry(p)
  BY <1>8, <1>c DEF SetDlq, CreateDlqEntry
<1>9. CASE Crash(p)
  BY <1>9, <1>a, <1>d DEF Crash, Idle, At, Safe, RetryBudget, DlqStaysEmpty
<1> QED
  BY <1>1, <1>2, <1>3, <1>4, <1>5, <1>6, <1>7, <1>8, <1>9 DEF ProcessorStep

\* With one retry loop no operation is retried more often than max_retries
\* allows, none of a batch goes stale while the loop works through it, and
\* none ever reaches the dead letter queue.
THEOREM OneLoopIsSafe == Spec => [](RetryBudget /\ BatchStaysFresh /\ DlqStaysEmpty)
<1> DEFINE Inv == OneLoop => Safe
<1>1. Init => Inv
  BY SafeInit
<1>2. TypeOK /\ Inv /\ [Next]_vars => Inv'
  <2> SUFFICES ASSUME TypeOK, Inv, [Next]_vars, OneLoop' PROVE Safe'
    OBVIOUS
  <2>0. OneLoop /\ Safe
    BY DEF OneLoop, Next, vars, setup, ManualRetry, BecomeDue, ProcessorStep, Crash,
       GetPendingRetries, TakeOperation, EndOfBatch, RetryOperation, ScheduleRetry,
       ReadCount, ResetForRetry, SetDlq, CreateDlqEntry
  <2>1. CASE UNCHANGED vars
    BY <2>0, <2>1 DEF vars, setup, OneLoop, Safe, BatchStaysFresh, RetryBudget,
       DlqStaysEmpty, HandStaysFresh, InHand, At
  <2>2. ASSUME NEW o \in Ops, BecomeDue(o) PROVE Safe'
    BY <2>0, <2>2 DEF BecomeDue, setup, OneLoop, Safe, BatchStaysFresh, RetryBudget,
       DlqStaysEmpty, HandStaysFresh, InHand, At
  <2>3. ASSUME NEW p \in loops, ProcessorStep(p) \/ Crash(p) PROVE Safe'
    <3>1. p \in Processors
      BY DEF TypeOK
    <3> QED
      BY <2>0, <2>3, <3>1, SafeLoopStep
  <2>4. ASSUME NEW o \in Ops, NEW reset \in BOOLEAN, ManualRetry(o, reset) PROVE Safe'
    BY <2>0, <2>4, SafeManualRetry
  <2> QED
    BY <2>1, <2>2, <2>3, <2>4 DEF Next
<1>3. Inv => RetryBudget /\ BatchStaysFresh /\ DlqStaysEmpty
  BY DEF Safe, RetryBudget, BatchStaysFresh, DlqStaysEmpty
<1> QED
  BY <1>1, <1>2, <1>3, TypeCorrect, PTL DEF Spec

(***************************************************************************)
(* Two retry loops.  A loop is late for an operation when the count it has *)
(* read, or is about to read, uses up the attempts.  A loop is never late  *)
(* by more than one attempt, because the write that made it late took the  *)
(* operation out of the other loop's hands, and as long as the row waits   *)
(* with its attempts used up neither the query nor the endpoint gives it   *)
(* back.  A third loop could: it may hold the operation in a stale batch,  *)
(* send it to the dead letter queue and so open it to a reset.             *)
(***************************************************************************)
Held(p, o) == InHand(p, o) \/ o \in proc[p].batch

Late(p, o) == /\ proc[p].op = o
              /\ \/ At(p, "readCount") /\ count[o] >= MaxRetries[o]
                 \/ At(p, "writeCount") /\ proc[p].seen >= MaxRetries[o]

CountIsClose == \A o \in Ops : count[o] <= MaxRetries[o] + 1
TakenOnce    == \A p \in loops, o \in Ops : InHand(p, o) => o \notin proc[p].batch
ReadIsClose  == \A p \in loops, o \in Ops : proc[p].op = o =>
                    /\ At(p, "readCount") => count[o] <= MaxRetries[o]
                    /\ At(p, "writeCount") => proc[p].seen <= MaxRetries[o]
LateIsAlone  == \A p, q \in loops, o \in Ops : p # q /\ Late(p, o) =>
                    ~Held(q, o) /\ status[o] = "RETRYING" /\ count[o] >= MaxRetries[o]

Close == CountIsClose /\ TakenOnce /\ ReadIsClose /\ LateIsAlone

LEMMA CloseInit == Init => Close
<1> SUFFICES ASSUME Init PROVE Close
  OBVIOUS
<1>1. \A p \in loops : proc[p] = Idle
  BY DEF Init
<1>2. \A p \in loops : At(p, "idle") /\ proc[p].batch = {}
  BY <1>1 DEF At, Idle
<1>3. \A o \in Ops : count[o] = 0 /\ MaxRetries[o] \in Nat
  BY RetryAssumption DEF Init
<1> QED
  BY <1>2, <1>3 DEF Close, CountIsClose, TakenOnce, ReadIsClose, LateIsAlone, InHand, Late, At

\* The endpoint resets a row only when no loop is late for it.
LEMMA CloseManualRetry ==
    ASSUME TypeOK, Close, NEW o \in Ops, NEW reset \in BOOLEAN, ManualRetry(o, reset)
    PROVE  Close'
<1>1. /\ status[o] \in {"FAILED", "DLQ"}
      /\ \A x \in Ops : x # o => status'[x] = status[x] /\ count'[x] = count[x]
      /\ proc' = proc /\ loops' = loops
  BY DEF ManualRetry, setup, TypeOK
<1>2. \A x \in Ops : count[x] \in Nat /\ MaxRetries[x] \in Nat
  BY RetryAssumption DEF TypeOK
<1>3. count'[o] \in Nat /\ count'[o] <= count[o]
  <2>1. count'[o] = 0 \/ count'[o] = count[o]
    BY DEF ManualRetry, TypeOK
  <2> QED
    BY <1>2, <2>1
<1>4. CountIsClose' /\ TakenOnce' /\ ReadIsClose'
  <2>1. \A x \in Ops : count'[x] \in Nat /\ count'[x] <= count[x]
    BY <1>1, <1>2, <1>3
  <2>2. CountIsClose'
    BY <1>2, <2>1 DEF Close, CountIsClose
  <2>3. ReadIsClose'
    BY <1>1, <1>2, <2>1 DEF Close, ReadIsClose, At
  <2> QED
    BY <1>1, <2>2, <2>3 DEF Close, TakenOnce, InHand, At
<1>5. LateIsAlone'
  <2> SUFFICES ASSUME NEW p \in loops, NEW q \in loops, NEW x \in Ops, p # q, Late(p, x)'
               PROVE  ~Held(q, x)' /\ status'[x] = "RETRYING" /\ count'[x] >= MaxRetries[x]
    BY <1>1 DEF LateIsAlone
  <2>1. Late(p, x)
    BY <1>1, <1>2, <1>3 DEF Late, At
  <2>2. ~Held(q, x) /\ status[x] = "RETRYING" /\ count[x] >= MaxRetries[x]
    BY <2>1 DEF Close, LateIsAlone
  <2>3. x # o
    BY <1>1, <2>2
  <2> QED
    BY <1>1, <2>2, <2>3 DEF Held, InHand, At
<1> QED
  BY <1>4, <1>5 DEF Close

\* A step of a loop that writes no count: it makes no loop late, takes up
\* operations with attempts left only, and changes the status of one it holds.
LEMMA CloseWithoutWrite ==
    ASSUME TypeOK, Close, NEW p \in loops, NEW r \in Loops,
           proc' = [proc EXCEPT ![p] = r], loops' = loops, count' = count,
           r.pc \notin {"idle", "loop"} => r.op \notin r.batch,
           r.pc = "readCount" => count[r.op] <= MaxRetries[r.op],
           r.pc = "writeCount" => r.seen <= MaxRetries[r.op],
           \A o \in Ops : Late(p, o)' => Late(p, o),
           \A o \in Ops : Held(p, o)' => Held(p, o) \/ count[o] < MaxRetries[o],
           \A o \in Ops : status'[o] # status[o] => Held(p, o) /\ ~Late(p, o)
    PROVE  Close'
<1>1. /\ proc'[p] = r
      /\ \A q \in loops : q # p => proc'[q] = proc[q]
  BY DEF TypeOK
<1>2. CountIsClose' /\ TakenOnce' /\ ReadIsClose'
  BY <1>1 DEF Close, CountIsClose, TakenOnce, ReadIsClose, InHand, At
<1>3. LateIsAlone'
  <2> SUFFICES ASSUME NEW q \in loops, NEW s \in loops, NEW x \in Ops, q # s, Late(q, x)'
               PROVE  ~Held(s, x)' /\ status'[x] = "RETRYING" /\ count'[x] >= MaxRetries[x]
    BY DEF LateIsAlone
  <2>1. Late(q, x)
    BY <1>1 DEF Late, At
  <2>2. ~Held(s, x) /\ status[x] = "RETRYING" /\ count[x] >= MaxRetries[x]
    BY <2>1 DEF Close, LateIsAlone
  <2>3. count[x] \in Nat /\ MaxRetries[x] \in Nat
    BY RetryAssumption DEF TypeOK
  <2>4. CASE s = p
    BY <2>2, <2>3, <2>4
  <2>5. CASE s # p
    <3>1. ~Held(s, x)'
      BY <1>1, <2>2, <2>5 DEF Held, InHand, At
    <3>2. status'[x] = status[x]
      <4>1. CASE q = p
        BY <2>1, <4>1
      <4>2. CASE q # p
        BY <2>1, <4>2 DEF Close, LateIsAlone
      <4> QED
        BY <4>1, <4>2
    <3> QED
      BY <2>2, <3>1, <3>2
  <2> QED
    BY <2>4, <2>5
<1> QED
  BY <1>2, <1>3 DEF Close

\* reset_for_retry with two loops: the other one becomes late if it is about
\* to read or to write the count of the same row.
LEMMA CloseResetForRetry ==
    ASSUME TwoLoops, TypeOK, Close, NEW p \in loops, ResetForRetry(p)
    PROVE  Close'
<1> DEFINE o == proc[p].op
<1>1. /\ proc[p] \in Loops /\ o \in Ops /\ InHand(p, o) /\ At(p, "writeCount")
      /\ proc[p].seen \in Nat
  BY DEF ResetForRetry, InHand, At, TypeOK, Loops
<1>2. \A x \in Ops : count[x] \in Nat /\ MaxRetries[x] \in Nat
  BY RetryAssumption DEF TypeOK
<1>3. /\ \A x \in Ops : x # o => status'[x] = status[x] /\ count'[x] = count[x]
      /\ status'[o] = "RETRYING" /\ count'[o] = proc[p].seen + 1
      /\ loops' = loops
  BY <1>1 DEF ResetForRetry, TypeOK, setup
<1>4. /\ proc'[p] = [proc[p] EXCEPT !.pc = "loop"]
      /\ \A q \in loops : q # p => proc'[q] = proc[q]
  BY <1>1 DEF ResetForRetry, Goto, TypeOK
<1>5. proc'[p].pc = "loop" /\ proc'[p].batch = proc[p].batch
  BY <1>1, <1>4 DEF Loops
<1>6. proc[p].seen <= MaxRetries[o] /\ o \notin proc[p].batch
  BY <1>1 DEF Close, ReadIsClose, TakenOnce
<1>7. \A q \in loops : q # p /\ InHand(q, o) => proc[p].seen < MaxRetries[o]
  <2> SUFFICES ASSUME NEW q \in loops, q # p, InHand(q, o), ~(proc[p].seen < MaxRetries[o])
               PROVE  FALSE
    OBVIOUS
  <2>1. Late(p, o)
    BY <1>1, <1>2 DEF Late
  <2> QED
    BY <1>1, <2>1 DEF Close, LateIsAlone, Held
<1> HIDE DEF o
<1>8. CountIsClose'
  BY <1>1, <1>2, <1>3, <1>6 DEF Close, CountIsClose
<1>9. TakenOnce'
  BY <1>3, <1>4, <1>5 DEF Close, TakenOnce, InHand, At
<1>10. ReadIsClose'
  <2> SUFFICES ASSUME NEW q \in loops, NEW x \in Ops, proc'[q].op = x
               PROVE  /\ At(q, "readCount")' => count'[x] <= MaxRetries[x]
                      /\ At(q, "writeCount")' => proc'[q].seen <= MaxRetries[x]
    BY <1>3 DEF ReadIsClose
  <2>1. CASE q = p
    BY <1>5, <2>1 DEF At
  <2>2. CASE q # p
    <3>1. proc'[q] = proc[q]
      BY <1>4, <2>2
    <3>2. At(q, "writeCount")' => proc'[q].seen <= MaxRetries[x]
      BY <3>1 DEF Close, ReadIsClose, At
    <3>3. ASSUME At(q, "readCount")' PROVE count'[x] <= MaxRetries[x]
      <4>1. CASE x = o
        <5>1. InHand(q, o)
          BY <3>1, <3>3, <4>1 DEF InHand, At
        <5> QED
          BY <1>1, <1>2, <1>3, <1>7, <2>2, <4>1, <5>1
      <4>2. CASE x # o
        BY <1>3, <3>1, <3>3, <4>2 DEF Close, ReadIsClose, At
      <4> QED
        BY <4>1, <4>2
    <3> QED
      BY <3>2, <3>3
  <2> QED
    BY <2>1, <2>2
<1>11. LateIsAlone'
  <2> SUFFICES ASSUME NEW q \in loops, NEW s \in loops, NEW x \in Ops, q # s, Late(q, x)'
               PROVE  ~Held(s, x)' /\ status'[x] = "RETRYING" /\ count'[x] >= MaxRetries[x]
    BY <1>3 DEF LateIsAlone
  <2>1. q # p
    BY <1>5 DEF Late, At
  <2>2. s = p
    BY <2>1 DEF TwoLoops
  <2>3. ~InHand(s, x)' /\ (Held(s, x)' => x \in proc[s].batch)
    BY <1>5, <2>2 DEF Held, InHand, At
  <2>4. proc'[q] = proc[q]
    BY <1>4, <2>1
  <2>5. CASE x # o
    <3>1. Late(q, x)
      BY <1>3, <2>4, <2>5 DEF Late, At
    <3>2. ~Held(s, x) /\ status[x] = "RETRYING" /\ count[x] >= MaxRetries[x]
      BY <3>1 DEF Close, LateIsAlone
    <3> QED
      BY <1>3, <2>3, <2>5, <3>2 DEF Held
  <2>6. CASE x = o
    <3>1. ~Late(q, o)
      BY <1>1, <2>1 DEF Close, LateIsAlone, Held
    <3>2. At(q, "readCount") /\ count'[o] >= MaxRetries[o]
      BY <2>4, <2>6, <3>1 DEF Late, At
    <3> QED
      BY <1>3, <1>6, <2>2, <2>3, <2>6, <3>2
  <2> QED
    BY <2>5, <2>6
<1> QED
  BY <1>8, <1>9, <1>10, <1>11 DEF Close

LEMMA CloseLoopStep ==
    ASSUME TwoLoops, TypeOK, Close, NEW p \in loops, ProcessorStep(p) \/ Crash(p)
    PROVE  Close'
<1> DEFINE o == proc[p].op
<1>a. /\ p \in Processors /\ proc \in [Processors -> Loops] /\ proc[p] \in Loops
      /\ proc[p].batch \subseteq Ops /\ proc[p].seen \in Nat
      /\ ~At(p, "idle") /\ ~At(p, "loop") => o \in Ops /\ InHand(p, o)
  BY DEF TypeOK, Loops, InHand
<1>b. \A x \in Ops : count[x] \in Nat /\ MaxRetries[x] \in Nat
  BY RetryAssumption DEF TypeOK
<1>s. loops' = loops
  BY DEF setup, ProcessorStep, Crash, GetPendingRetries, TakeOperation, EndOfBatch,
     RetryOperation, ScheduleRetry, ReadCount, ResetForRetry, SetDlq, CreateDlqEntry
<1>c. ASSUME NEW r \in Loops, proc' = [proc EXCEPT ![p] = r]
      PROVE  proc'[p] = r
  BY <1>a, <1>c
\* The operation in hand goes on, and no loop becomes late.
<1>d. ASSUME NEW st \in Steps, Goto(p, st), count' = count, o \in Ops, InHand(p, o),
             st \notin {"readCount", "writeCount"},
             \A x \in Ops : status'[x] # status[x] => x = o /\ ~Late(p, o)
      PROVE  Close'
  <2> DEFINE r == [proc[p] EXCEPT !.pc = st]
  <2>1. /\ r \in Loops /\ proc' = [proc EXCEPT ![p] = r]
        /\ r.pc = st /\ r.op = o /\ r.batch = proc[p].batch
    BY <1>a, <1>d, LoopValues DEF Goto, Loops
  <2> HIDE DEF r
  <2>2. proc'[p] = r
    BY <1>c, <2>1
  <2>3. o \notin proc[p].batch
    BY <1>d DEF Close, TakenOnce
  <2>4. \A x \in Ops : ~Late(p, x)' /\ (Held(p, x)' => Held(p, x))
    BY <1>d, <2>1, <2>2 DEF Late, Held, InHand, At
  <2>5. \A x \in Ops : status'[x] # status[x] => Held(p, x) /\ ~Late(p, x)
    BY <1>d DEF Held
  <2> QED
    BY <1>d, <1>s, <2>1, <2>3, <2>4, <2>5, CloseWithoutWrite
\* The loop gives up what it had in hand.
<1>e. ASSUME proc' = [proc EXCEPT ![p] = Idle], count' = count, status' = status
      PROVE  Close'
  <2>1. Idle \in Loops
    BY <1>a, LoopValues
  <2>2. proc'[p] = Idle
    BY <1>c, <1>e, <2>1
  <2>3. \A x \in Ops : ~Late(p, x)' /\ ~Held(p, x)'
    BY <2>2 DEF Late, Held, InHand, At, Idle
  <2> QED
    BY <1>e, <1>s, <2>1, <2>3, CloseWithoutWrite DEF Idle
<1>1. CASE GetPendingRetries(p)
  <2> DEFINE r == [proc[p] EXCEPT !.pc = "loop", !.batch = Retriable]
  <2>1. /\ r \in Loops /\ proc' = [proc EXCEPT ![p] = r]
        /\ r.pc = "loop" /\ r.batch = Retriable
    <3>1. Retriable \in SUBSET Ops
      BY DEF Retriable
    <3>2. r \in Loops
      BY <1>a, <3>1, LoopValues
    <3> QED
      BY <1>1, <1>a, <3>2 DEF GetPendingRetries, Loops
  <2> HIDE DEF r
  <2>2. proc'[p] = r
    BY <1>c, <2>1
  <2>3. \A x \in Ops : ~Late(p, x)' /\ (Held(p, x)' => count[x] < MaxRetries[x])
    BY <2>1, <2>2 DEF Late, Held, InHand, At, Retriable
  <2> QED
    BY <1>1, <1>s, <2>1, <2>3, CloseWithoutWrite DEF GetPendingRetries
<1>2. CASE TakeOperation(p)
  <2>1. PICK y \in proc[p].batch :
          /\ proc' = [proc EXCEPT ![p].pc = "retry", ![p].op = y, ![p].batch = @ \ {y}]
          /\ status' = [status EXCEPT ![y] = "PENDING"]
    BY <1>2 DEF TakeOperation
  <2> DEFINE B == proc[p].batch \ {y}
             r == [proc[p] EXCEPT !.pc = "retry", !.op = y, !.batch = B]
  <2>2. y \in Ops /\ B \in SUBSET Ops
    BY <1>a, <2>1
  <2>3. r \in Loops /\ proc' = [proc EXCEPT ![p] = r]
    BY <1>a, <2>1, <2>2, LoopValues
  <2>4. r.pc = "retry" /\ r.op = y /\ r.batch = B /\ y \notin B
    BY <1>a, <2>3 DEF Loops
  <2> HIDE DEF r
  <2>5. proc'[p] = r
    BY <1>c, <2>3
  <2>6. \A x \in Ops : ~Late(p, x)' /\ (Held(p, x)' => Held(p, x))
    BY <2>1, <2>4, <2>5 DEF Late, Held, InHand, At
  <2>7. \A x \in Ops : status'[x] # status[x] => Held(p, x) /\ ~Late(p, x)
    BY <1>2, <2>1, <2>2 DEF TakeOperation, Late, Held, At, TypeOK
  <2> QED
    BY <1>2, <1>s, <2>3, <2>4, <2>6, <2>7, CloseWithoutWrite DEF TakeOperation
<1>3. CASE EndOfBatch(p) \/ Crash(p)
  BY <1>3, <1>e DEF EndOfBatch, Crash
<1>4. CASE RetryOperation(p)
  BY <1>4, <1>a, <1>d DEF RetryOperation, RetryRequestId, RequestIds, At, Steps
<1>5. CASE SetDlq(p)
  <2>1. o \in Ops /\ InHand(p, o) /\ ~Late(p, o)
    BY <1>5, <1>a DEF SetDlq, Late, At
  <2>2. \A x \in Ops : status'[x] # status[x] => x = o
    BY <1>5, <2>1 DEF SetDlq, TypeOK
  <2> QED
    BY <1>5, <1>d, <2>1, <2>2 DEF SetDlq, Steps
<1>6. CASE CreateDlqEntry(p)
  <2>1. o \in Ops /\ InHand(p, o)
    BY <1>6, <1>a DEF CreateDlqEntry, At
  <2> QED
    BY <1>6, <1>d, <1>e, <2>1 DEF CreateDlqEntry, Steps
<1>7. CASE ScheduleRetry(p)
  <2>1. o \in Ops /\ InHand(p, o) /\ ~Late(p, o) /\ o \notin proc[p].batch
    BY <1>7, <1>a DEF ScheduleRetry, Late, At, Close, TakenOnce
  <2> DEFINE st == IF count[o] >= MaxRetries[o] THEN "setDlq" ELSE "readCount"
             r  == [proc[p] EXCEPT !.pc = st, !.seen = count[o]]
  <2>2. r \in Loops /\ proc' = [proc EXCEPT ![p] = r]
    BY <1>7, <1>a, <1>b, <2>1, LoopValues DEF ScheduleRetry, Steps
  <2>3. r.pc = st /\ r.op = o /\ r.batch = proc[p].batch
    BY <1>a, <2>2 DEF Loops
  <2> HIDE DEF r
  <2>4. proc'[p] = r
    BY <1>c, <2>2
  <2>5. st = "readCount" => count[o] < MaxRetries[o]
    BY <1>b, <2>1
  <2>6. st \in {"setDlq", "readCount"}
    OBVIOUS
  <2> HIDE DEF st
  <2>7. \A x \in Ops : ~Late(p, x)' /\ (Held(p, x)' => Held(p, x))
    BY <1>7, <1>b, <2>1, <2>3, <2>4, <2>5, <2>6 DEF Late, Held, InHand, At, ScheduleRetry
  <2>8. /\ r.pc = "readCount" => count[r.op] <= MaxRetries[r.op]
        /\ r.pc # "writeCount"
    BY <1>b, <2>1, <2>3, <2>5, <2>6
  <2> QED
    BY <1>7, <1>s, <2>1, <2>2, <2>3, <2>7, <2>8, CloseWithoutWrite DEF ScheduleRetry
<1>8. CASE ReadCount(p)
  <2>1. o \in Ops /\ InHand(p, o) /\ o \notin proc[p].batch /\ At(p, "readCount")
    BY <1>8, <1>a DEF ReadCount, At, Close, TakenOnce
  <2> DEFINE r == [proc[p] EXCEPT !.pc = "writeCount", !.seen = count[o]]
  <2>2. r \in Loops /\ proc' = [proc EXCEPT ![p] = r]
    BY <1>8, <1>a, <1>b, <2>1, LoopValues DEF ReadCount, Steps
  <2>3. r.pc = "writeCount" /\ r.op = o /\ r.batch = proc[p].batch /\ r.seen = count[o]
    BY <1>a, <2>2 DEF Loops
  <2> HIDE DEF r
  <2>4. proc'[p] = r
    BY <1>c, <2>2
  <2>5. count[o] <= MaxRetries[o]
    BY <2>1 DEF Close, ReadIsClose
  <2>6. \A x \in Ops : (Late(p, x)' => Late(p, x)) /\ (Held(p, x)' => Held(p, x))
    BY <2>1, <2>3, <2>4 DEF Late, Held, InHand, At
  <2> QED
    BY <1>8, <1>s, <2>1, <2>2, <2>3, <2>5, <2>6, CloseWithoutWrite DEF ReadCount
<1>9. CASE ResetForRetry(p)
  BY <1>9, CloseResetForRetry
<1> QED
  BY <1>1, <1>2, <1>3, <1>4, <1>5, <1>6, <1>7, <1>8, <1>9 DEF ProcessorStep

\* Two consumer processes that work on the same rows exceed max_retries by one
\* attempt at most, although each reads retry_count in three calls and writes
\* it in a fourth.
THEOREM TwoLoopsAreClose == Spec => []TwoLoopsOverrunByOne
<1> DEFINE Inv == TwoLoops => Close
<1>1. Init => Inv
  BY CloseInit
<1>2. TypeOK /\ Inv /\ [Next]_vars => Inv'
  <2> SUFFICES ASSUME TypeOK, Inv, [Next]_vars, TwoLoops' PROVE Close'
    OBVIOUS
  <2>0. TwoLoops /\ Close
    BY DEF TwoLoops, Next, vars, setup, ManualRetry, BecomeDue, ProcessorStep, Crash,
       GetPendingRetries, TakeOperation, EndOfBatch, RetryOperation, ScheduleRetry,
       ReadCount, ResetForRetry, SetDlq, CreateDlqEntry
  <2>1. ASSUME UNCHANGED <<status, count, proc, loops>> PROVE Close'
    BY <2>0, <2>1 DEF Close, CountIsClose, TakenOnce, ReadIsClose, LateIsAlone, Late, Held,
       InHand, At
  <2>2. CASE UNCHANGED vars
    BY <2>1, <2>2 DEF vars, setup
  <2>3. ASSUME NEW o \in Ops, BecomeDue(o) PROVE Close'
    BY <2>1, <2>3 DEF BecomeDue, setup
  <2>4. ASSUME NEW p \in loops, ProcessorStep(p) \/ Crash(p) PROVE Close'
    BY <2>0, <2>4, CloseLoopStep
  <2>5. ASSUME NEW o \in Ops, NEW reset \in BOOLEAN, ManualRetry(o, reset) PROVE Close'
    BY <2>0, <2>5, CloseManualRetry
  <2> QED
    BY <2>2, <2>3, <2>4, <2>5 DEF Next
<1>3. Inv => TwoLoopsOverrunByOne
  BY DEF Close, CountIsClose, TwoLoopsOverrunByOne
<1> QED
  BY <1>1, <1>2, <1>3, TypeCorrect, PTL DEF Spec

=============================================================================
