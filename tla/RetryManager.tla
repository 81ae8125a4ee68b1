------------------------------ MODULE RetryManager ------------------------------
(***************************************************************************)
(* Retries of failed operations: app/core/retry_manager.py, the retry      *)
(* endpoint, ProvisioningRepository and DLQManager.send_to_dlq.            *)
(*                                                                         *)
(* Each consumer process runs one retry loop (scripts/start_consumer.py):  *)
(* every 30 s it fetches the operations that are due and reprocesses them  *)
(* one after the other.  The API process only marks rows for retry.        *)
(***************************************************************************)
EXTENDS Naturals

CONSTANTS
    Ops,          \* ids of the rows of provisioningoperation
    Processors,   \* the retry loops there may be
    MaxRetries,   \* max_retries of each row (RETRY_MAX_ATTEMPTS when it was made)
    InitialDelay, Multiplier, MaxDelay,  \* settings.RETRY_*
    None

ASSUME RetryAssumption ==
    /\ MaxRetries \in [Ops -> Nat \ {0}]
    /\ InitialDelay \in Nat /\ Multiplier \in Nat \ {0} /\ MaxDelay \in Nat
    /\ None \notin Ops

VARIABLES
    status,   \* status of each row
    count,    \* retry_count
    delay,    \* seconds from the last update to next_retry_at
    due,      \* is next_retry_at in the past
    dlq,      \* rows of deadletterqueue, by their unique operation_id
    executed, \* history: operations process_message worked on again
    proc,     \* the retry loops
    loops,    \* the ones this deployment starts
    crashes   \* does a consumer process ever stop

setup == <<loops, crashes>>
vars  == <<status, count, delay, due, dlq, executed, proc, setup>>

Statuses == {"PENDING", "FAILED", "RETRYING", "DLQ"}
Steps == {"idle", "loop", "retry", "schedule", "readCount", "writeCount",
          "setDlq", "createDlq"}

\* pc is the next awaited call, batch the operations fetched and not yet
\* taken, op the one in hand, seen the retry_count last read.
Idle == [pc |-> "idle", batch |-> {}, op |-> None, seen |-> 0]
Loops == [pc : Steps, batch : SUBSET Ops, op : Ops \cup {None}, seen : Nat]

At(p, step)   == proc[p].pc = step
Goto(p, step) == proc' = [proc EXCEPT ![p].pc = step]

\* calculate_next_retry: exponential backoff with a cap.
Power[n \in Nat] == IF n = 0 THEN 1 ELSE Multiplier * Power[n - 1]
\* Mutant: the cap is forgotten.
UncappedDelay(n) == InitialDelay * Power[n]

Delay(n) == LET d == InitialDelay * Power[n] IN IF d <= MaxDelay THEN d ELSE MaxDelay

\* Every operation here failed while it was first processed (_handle_error).
Init ==
    /\ status   = [o \in Ops |-> "FAILED"]
    /\ count    = [o \in Ops |-> 0]
    /\ delay    = [o \in Ops |-> 0]
    /\ due      = [o \in Ops |-> FALSE]
    /\ dlq      = {}
    /\ executed = {}
    /\ proc     = [p \in Processors |-> Idle]
    /\ loops    \in SUBSET Processors \ {{}}
    /\ crashes  \in BOOLEAN

\* Mutant: the endpoint does not look at the status.
ManualRetryAnything(o, reset) ==
    LET n == IF reset THEN 0 ELSE count[o] IN
    /\ status' = [status EXCEPT ![o] = "RETRYING"]
    /\ count'  = [count  EXCEPT ![o] = n]
    /\ delay'  = [delay  EXCEPT ![o] = Delay(n)]
    /\ due'    = [due    EXCEPT ![o] = FALSE]
    /\ UNCHANGED <<dlq, executed, proc, setup>>

\* POST /provisioning/{id}/retry, with or without reset_retry_count.  Its read
\* and its update are one step: they are much closer than the retry delay, so
\* the only write that can come between them is that of another request.
ManualRetry(o, reset) ==
    LET n == IF reset THEN 0 ELSE count[o] IN
    /\ status[o] \in {"FAILED", "DLQ"}
    /\ status' = [status EXCEPT ![o] = "RETRYING"]
    /\ count'  = [count  EXCEPT ![o] = n]
    /\ delay'  = [delay  EXCEPT ![o] = Delay(n)]
    /\ due'    = [due    EXCEPT ![o] = FALSE]
    /\ UNCHANGED <<dlq, executed, proc, setup>>

\* The clock passes next_retry_at.
BecomeDue(o) ==
    /\ status[o] = "RETRYING" /\ ~due[o]
    /\ due' = [due EXCEPT ![o] = TRUE]
    /\ UNCHANGED <<status, count, delay, dlq, executed, proc, setup>>

\* Mutant: an operation without attempts left is fetched.
RetriableOnceMore == {o \in Ops : status[o] = "RETRYING" /\ due[o] /\ count[o] <= MaxRetries[o]}

\* get_operations_for_retry: due, and with attempts left.
Retriable == {o \in Ops : status[o] = "RETRYING" /\ due[o] /\ count[o] < MaxRetries[o]}

GetPendingRetries(p) ==
    /\ At(p, "idle") /\ Retriable # {}
    /\ proc' = [proc EXCEPT ![p] = [@ EXCEPT !.pc = "loop", !.batch = Retriable]]
    /\ UNCHANGED <<status, count, delay, due, dlq, executed, setup>>

\* Mutant: the operation in hand is not recorded.
TakeUnknown(p) ==
    /\ At(p, "loop")
    /\ \E o \in proc[p].batch :
         /\ proc' = [proc EXCEPT ![p].pc = "retry", ![p].batch = @ \ {o}]
         /\ status' = [status EXCEPT ![o] = "PENDING"]
    /\ UNCHANGED <<count, delay, due, dlq, executed, setup>>

\* The next operation of the batch is set to PENDING, whatever its status is.
TakeOperation(p) ==
    /\ At(p, "loop")
    /\ \E o \in proc[p].batch :
         /\ proc' = [proc EXCEPT ![p].pc = "retry", ![p].op = o,
                                 ![p].batch = @ \ {o}]
         /\ status' = [status EXCEPT ![o] = "PENDING"]
    /\ UNCHANGED <<count, delay, due, dlq, executed, setup>>

EndOfBatch(p) ==
    /\ At(p, "loop") /\ proc[p].batch = {}
    /\ proc' = [proc EXCEPT ![p] = Idle]
    /\ UNCHANGED <<status, count, delay, due, dlq, executed, setup>>

\* orchestrator.retry_operation rebuilds the message with the row's own
\* midpoint_request_id, which is unique in the table.
RetryRequestId(o) == o
RequestIds == Ops

\* Mutant: the exception of a failed retry is swallowed.
RetryOnce(p) ==
    /\ At(p, "retry")
    /\ Goto(p, "loop")
    /\ UNCHANGED <<status, count, delay, due, dlq, executed, setup>>

\* process_message inserts a row for the message: the insertion raises when
\* the request id is taken.
RetryOperation(p) ==
    LET o == proc[p].op IN
    /\ At(p, "retry")
    /\ IF RetryRequestId(o) \in RequestIds
       THEN Goto(p, "schedule") /\ UNCHANGED executed
       ELSE Goto(p, "loop") /\ executed' = executed \cup {o}
    /\ UNCHANGED <<status, count, delay, due, dlq, setup>>

\* schedule_retry reads the row ...
ScheduleRetry(p) ==
    LET n == count[proc[p].op] IN
    /\ At(p, "schedule")
    /\ proc' = [proc EXCEPT ![p].pc = IF n >= MaxRetries[proc[p].op] THEN "setDlq" ELSE "readCount",
                            ![p].seen = n]
    /\ UNCHANGED <<status, count, delay, due, dlq, executed, setup>>

\* Mutant: the count is incremented where it is read and where it is written.
ReadCountPlusOne(p) ==
    /\ At(p, "readCount")
    /\ delay' = [delay EXCEPT ![proc[p].op] = Delay(proc[p].seen)]
    /\ proc' = [proc EXCEPT ![p].pc = "writeCount", ![p].seen = count[proc[p].op] + 1]
    /\ UNCHANGED <<status, count, due, dlq, executed, setup>>

\* ... reset_for_retry reads it again ...
ReadCount(p) ==
    /\ At(p, "readCount")
    /\ delay' = [delay EXCEPT ![proc[p].op] = Delay(proc[p].seen)]
    /\ proc' = [proc EXCEPT ![p].pc = "writeCount", ![p].seen = count[proc[p].op]]
    /\ UNCHANGED <<status, count, due, dlq, executed, setup>>

\* ... and writes the incremented count.
ResetForRetry(p) ==
    LET o == proc[p].op IN
    /\ At(p, "writeCount")
    /\ status' = [status EXCEPT ![o] = "RETRYING"]
    /\ count'  = [count  EXCEPT ![o] = proc[p].seen + 1]
    /\ due'    = [due    EXCEPT ![o] = FALSE]
    /\ Goto(p, "loop")
    /\ UNCHANGED <<delay, dlq, executed, setup>>

\* send_to_dlq updates the row, then inserts the dead letter; when there is
\* one already the insertion raises and the rest of the batch is given up.
SetDlq(p) ==
    /\ At(p, "setDlq")
    /\ status' = [status EXCEPT ![proc[p].op] = "DLQ"]
    /\ Goto(p, "createDlq")
    /\ UNCHANGED <<count, delay, due, dlq, executed, setup>>

CreateDlqEntry(p) ==
    LET o == proc[p].op IN
    /\ At(p, "createDlq")
    /\ IF o \in dlq THEN proc' = [proc EXCEPT ![p] = Idle] /\ UNCHANGED dlq
                    ELSE Goto(p, "loop") /\ dlq' = dlq \cup {o}
    /\ UNCHANGED <<status, count, delay, due, executed, setup>>

Crash(p) ==
    /\ crashes /\ ~At(p, "idle")
    /\ proc' = [proc EXCEPT ![p] = Idle]
    /\ UNCHANGED <<status, count, delay, due, dlq, executed, setup>>

ProcessorStep(p) ==
    \/ GetPendingRetries(p) \/ TakeOperation(p) \/ EndOfBatch(p)
    \/ RetryOperation(p) \/ ScheduleRetry(p) \/ ReadCount(p) \/ ResetForRetry(p)
    \/ SetDlq(p) \/ CreateDlqEntry(p)

Next ==
    \/ \E o \in Ops, reset \in BOOLEAN : ManualRetry(o, reset)
    \/ \E o \in Ops : BecomeDue(o)
    \/ \E p \in loops : ProcessorStep(p) \/ Crash(p)

Spec == Init /\ [][Next]_vars

\* Time passes and the loops keep running.
Fairness == /\ \A p \in Processors : WF_vars(p \in loops /\ ProcessorStep(p))
            /\ \A o \in Ops : WF_vars(BecomeDue(o))

FairSpec == Spec /\ Fairness
-----------------------------------------------------------------------------
\* Every variable holds a value of its kind; a loop past "loop" has an
\* operation in hand.  (DelayIsCapped says what delay holds.)
TypeOK ==
    /\ status   \in [Ops -> Statuses]
    /\ count    \in [Ops -> Nat]
    /\ DOMAIN delay = Ops
    /\ due      \in [Ops -> BOOLEAN]
    /\ dlq      \subseteq Ops
    /\ executed \subseteq Ops
    /\ proc     \in [Processors -> Loops]
    /\ loops \subseteq Processors /\ crashes \in BOOLEAN
    /\ \A p \in Processors : ~At(p, "idle") /\ ~At(p, "loop") => proc[p].op \in Ops

\* One consumer process runs, as docker-compose starts it.
OneLoop == \A p, q \in loops : p = q

\* The retry budget: with one loop no operation is scheduled more often than
\* max_retries allows, in spite of the three reads of retry_count an attempt makes.
RetryBudget == OneLoop => \A o \in Ops : count[o] <= MaxRetries[o]

\* At most two consumer processes run.
TwoLoops == \A p, q, r \in loops : p = q \/ q = r \/ p = r

\* A second consumer process may read a retry_count before the first one writes
\* it: two loops exceed the budget, by one attempt at most.
TwoLoopsOverrunByOne == TwoLoops => \A o \in Ops : count[o] <= MaxRetries[o] + 1

\* The delay of a scheduled retry never exceeds RETRY_MAX_DELAY.
DelayIsCapped == \A o \in Ops : delay[o] <= MaxDelay

\* Operation o is in hand of loop p.
InHand(p, o) == ~At(p, "idle") /\ ~At(p, "loop") /\ proc[p].op = o

\* The batch does not go stale while the only loop works through it: each
\* operation still to be taken waits for its retry with attempts left, and the
\* one in hand stays PENDING until its attempt is over.
BatchStaysFresh ==
    OneLoop => \A p \in loops, o \in Ops :
        /\ o \in proc[p].batch => /\ status[o] = "RETRYING" /\ count[o] < MaxRetries[o]
                                  /\ ~InHand(p, o)
        /\ InHand(p, o) => status[o] = "PENDING"

\* With a single loop nothing ever reaches the dead letter queue: the query
\* that fetches the due operations leaves out the ones send_to_dlq waits for.
DlqStaysEmpty == OneLoop => dlq = {} /\ \A o \in Ops : status[o] # "DLQ"

\* An operation taken for a retry does not stay PENDING while the loops run.
TakenIsRescheduled ==
    ~crashes => \A o \in Ops : status[o] = "PENDING" ~> status[o] \in {"RETRYING", "DLQ"}

\* RetryManager: "After max_retries, sends to DLQ".
ExhaustedIsSentToDlq ==
    \A o \in Ops : status[o] = "RETRYING" /\ due[o] /\ count[o] >= MaxRetries[o]
                     ~> status[o] = "DLQ"

\* process_pending_retries: "Trigger orchestrator to reprocess".
RetryReprocesses ==
    \A o \in Ops : status[o] = "RETRYING" /\ count[o] < MaxRetries[o] ~> o \in executed

=============================================================================
