# Verification of the gitivity gateway

gitivity ("Gateway IAM") receives provisioning messages from MidPoint, asks
people to approve them by email and then creates, updates or deletes accounts on
target systems (LDAP, Odoo, SQL databases, MongoDB). These TLA+ modules model the
part of it that decides *whether and when a target is touched*; TLC checks them on
small instances and TLAPS proves part of the results for every instance.
Paths below are relative to `src/`.

## 1. Inventory

| Component | State it keeps | Operations |
|---|---|---|
| Orchestrator (`app/core/orchestrator.py`) | the `provisioningoperation` row, through coroutines of two processes | `process_message`, `_request_approval`, `_provision_to_target`, `process_approval_response`, `_handle_error`, `retry_operation` |
| Approval chain (`app/services/approval_service.py`, `endpoints/approvals.py`) | Redis `approval:chain:*`, `approval:token:*` | `start_chain`, `_send_level_email`, `handle_decision`, `_cleanup` |
| Approval repository (`approval_redis_repository.py`) | also `approval:pending:*`, `rejected_create:*`, `deleted_user:*`, `user_state:*` | add, read, remove, expire; every method swallows its exceptions |
| Operation repository, endpoints (`provisioning_repository.py`, `endpoints/provisioning.py`) | status, retry count and time of a row | update, fetch for retry, manual retry, approve-callback |
| Retry manager (`retry_manager.py`, `scripts/start_consumer.py`) | the batch in memory, `retry_count`, `next_retry_at` | `process_pending_retries`, `schedule_retry`, `calculate_next_retry` |
| Dead letter queue (`dead_letter_queue.py`) | `deadletterqueue` rows | `send_to_dlq`, `retry_from_dlq`, `resolve_dlq_message` (the last two have no caller) |
| Consumers (`app/core/broker/`) | broker acknowledgements, Redis list of a user's targets | parsing, routing to targets, `_on_message` |
| Entitlement removal (`entitlement_removal_service.py`) | removal requests, levels, token hashes in the database | `reconcile`, `renew`, `send_current_level`, `decide`, `process_approved`, `execute` |
| Entitlement synchronisation (`entitlement_sync_service.py`) | a manifest file | `run_cycle` and its steps |
| Target decommission (`target_decommission_service.py`) | one Redis record per target | `begin`, `begin_all_runtime`, `process_all` |
| Target catalog (`app/config/target_catalog.py`) | base file, runtime overlay, cache by modification time | `reload`, `add_runtime`, `remove_runtime`, `resolve` |
| Connectors (`app/core/connectors/`) | the target systems | `provision_user`, `update_user`, `deprovision_user` |
| MidPoint client, audit, management API, HTTP gateway, Java connector, dashboard, scripts | see `PROJECT.json` | |

**How they interact.** The consumer process takes one message at a time
(prefetch 1) and awaits `process_message`; it also runs the auto-approval tasks
and the retry loop. The API process runs a coroutine per request: links of
emails, approve-callback, manual retry. The processes share PostgreSQL, Redis and
the targets, with no lock and no transaction between two awaits. A worker process
runs the entitlement synchronisation: each cycle it asks every target for its
entitlements, keeps a state file, and posts to the API, which processes
decommissions, reconciles and executes removals; a deployment (Ansible) posts to the
same routes. The removal and decommission services change MidPoint through its REST
client and create DELETE operations through the same orchestrator. The targets
created at run time are a file that all processes read again when its date changes.

**What is hard.** Statuses are read in one await and written in another; a
decision can run while the message that asked for it is still being processed;
Redis keys expire independently and failed reads look like missing keys; a
connector can raise after it changed the target; handlers of exceptions write
statuses of rows that other coroutines hold; tasks in memory are lost with the
process. `PROJECT.json` lists every such place under "hazards" with its line.

**What makes each component correct.** Orchestrator and chain: no target call
without the approvals it needs, at most one per operation, final statuses are
final, nothing waits for ever that nobody can decide, markers and snapshots tell
the truth about the target. Retry: bounded attempts, bounded delays, no
operation lost between two statuses, exhausted ones reach the dead letter queue.
Consumers: each target of a message gets its operation once. Entitlement
removal: nothing is removed that was not approved at every level or that has come
back. Decommission: a target disappears only when its accounts are gone. Catalog:
readers see a complete catalog.

## 2. Modules

| Module | Models | Correspondence |
|---|---|---|
| `Orchestrator` | a row's life from message to target | `co[w]` is a coroutine: `pc` the next awaited call, `op`, `msg`, the decision. One action per awaited call. `db`, `redis`, `target` group the shared state. |
| `ApprovalChain` | EXTENDS `Orchestrator` with chains, tokens, mailboxes and the end of approve-callback; holds the complete next-state relation and the fairness | `chain`, `tokens` are the Redis keys, `local` the chain a coroutine holds in memory, `mailed` what approvers received |
| `ApprovalPromise` | the abstract specification: approvers sign in order, one refusal ends it, the target is called once, after the last signature | `signed` levels, `verdict`, `calls` |
| `MCApprovalChain` | instances for TLC | fault sets, symmetry |
| `RetryManager` | retry loops, manual retry, dead letter insertion | `proc[p]` is a loop with its batch; `due` abstracts the clock |
| `MCRetryManager` | instances for TLC | the budgets of the rows, symmetry |
| `ApprovalChainProofs` | type correctness of `ApprovalChain` and `Orchestrator` and the safety of decisions, with their proofs | |
| `ApprovalProgressProofs` | links, waiting operations, the order of statuses, the snapshots, and that `ApprovalChain` implements `ApprovalPromise`, with their proofs | |
| `RetryManagerProofs` | theorems about `RetryManager` | |
| `EntitlementRemoval` | the removal service: `reconcile`, `register_legacy_roles`, `send_current_level`, `renew`, `decide`, `process_approved`, `execute` | `co[h]` is a served request, `pc` its next awaited call; `inventory`, `req`, `link` are the tables, `role`, `holds`, `shadow` MidPoint, `native` the target |
| `EntitlementSync` | EXTENDS `EntitlementRemoval` with the worker's cycle, its state file and confirmation cycles, a deployment, crashes; the complete next-state relation, the fairness and the properties | `file` is the saved state, `worker` the cycle in memory |
| `MCEntitlementSync` | instances for TLC | budgets and fault sets |
| `EntitlementProofs`, `EntitlementCycleProofs` | theorems about `EntitlementSync` | |
| `TargetCatalog` | the overlay file of targets made at run time and the copy the API process holds | `overlay`, `cache` |
| `TargetDecommission` | EXTENDS `TargetCatalog` with `begin`, `begin_all_runtime`, `process_all`, the life of the operations they create and look at, the worker and the dashboard | `co[h]` is a served request, `state[t]` the Redis record, `op` the operation rows with the step their coroutine is at |
| `MCTargetDecommission` | instances for TLC | fault sets |
| `DecommissionProofs` | theorems about `TargetDecommission` | |
| `Connector` | what the connectors share: `session` is the one call of a connector in progress, with the account before it | one step per awaited statement, no transaction |
| `SqlConnectors`, `DirectoryConnectors` | MySQL, PostgreSQL, MongoDB; LDAP, Odoo | the statements of `provision_user`, `update_user`, `delete_user` that change an account |
| `MessageConsumer` | the RabbitMQ and Kafka consumers over the connectors: delivery, routing to targets, the cache and Redis behind it, acknowledgement, crashes | `queue`, `taken`, `todo`; `ops` are the operations that wait for approval; the decision is one step, as `ApprovalChain` has its details |
| `MCMessageConsumer` | instances for TLC | which families meet which faults |
| `DeliveryProofs`, `AccountsProofs` | theorems about `MessageConsumer` and the connectors: types and calls, and what the accounts become | |

Conventions. `mode`, `faults` (and `loops`, `crashes` in `RetryManager`) are
chosen in the initial state and never change: one run covers several
deployments, and a property that needs a hypothesis on the deployment names it.
Operators commented *Mutant* are the plausible mistakes that each property was
tried against; no specification uses them.

User data is a model value, compared for equality: `_compute_user_diff` and
`_stable_user_snapshot` are equality there. A target holds the data or `None`;
connectors create on update and update on create, as the code of all five does;
the statements inside one call are the subject of `SqlConnectors` and
`DirectoryConnectors`. The composition is by abstraction: `MessageConsumer` takes an
approval as one step, `TargetDecommission` the run of an operation as a few, and
each of them only what the orchestrator's own modules show.
Faults of `Orchestrator` and `ApprovalChain`: `target` (a connector raises, before or after its effect), `redis` (a read
finds nothing, a write is lost), `db` (any database call of a step raises),
`crash` (a process stops), `expiry` (a key's time to live ends), `email` (SMTP
raises, before or after delivery).

The other modules name their faults by what happens:

* `EntitlementSync`: `api` (the API process stops), `abandon` (the worker's HTTP call
  times out and the request goes on), `cleanup` (a call of MidPoint raises), `email`,
  `discover` (a target cannot be listed), `double` (two answers, or an answer and a
  renewal, are served at once), `deploy` (a deployment posts too), `login` (a role of
  PostgreSQL becomes a login account).
* `TargetDecommission`: `api`, `abandon` as above; `target` (a connector fails),
  `partial` (it fails after its effect), `reject` (an approver refuses), `retry` (the
  retry endpoint), `midpoint`, `ask` (creating a deletion raises), `expiry` (of
  snapshots), `late` (messages after begin), `race` (decisions beside begin), `double`
  (two begins), `readd`, `edit` (the dashboard).
* `MessageConsumer`: `target`, `crash`, `refused` (a statement fails and the
  connector goes on), `password` (messages without one), `unnamed` (without a name),
  `personal` (LDAP users with a personal number), `disorder` (approvals out of order),
  `redis` (a failed read counts as no snapshot), `attribute` (an entitlement names no
  target, and the target is guessed from it), `database` (a call of the database raises).

In `MessageConsumer` MidPoint sends a user's state in its own format through RabbitMQ and
single operations in the native format through Kafka. A native message carries its request
id, and the row of its operation is the first thing made of it (`CreateOperation`,
`recorded`). After a crash Kafka delivers again what was handled since the last commit: a
message that has its row fails on the unique id and is dropped (`TakeAgain`), also when the
crash had cut its operation off; one that failed before it had a row is handled, late
(`Stale`). The ids RabbitMQ's consumer makes end in a timestamp, so there a redelivered
message is handled from the start. The DELETE of a user names nothing but the uid: MidPoint
may still tell its name and roles (`Enriched`), else the name comes from a snapshot. A
password or removed roles in an UPDATE make it differ from the snapshot or not
(`Proceeds` and `Skipped` overlap there).

## 3. Runs

| Run | Bounds | Shows |
|---|---|---|
| `approval` | 1 operation, 1 consumer, 2 simultaneous requests, 3 levels, the 3 settings of approval, 4 fault sets from none to all | `DecisionIsHonoured`, `EveryLevelSigned`, `LinkHasItsChain`, `WaitingCanBeDecided`, the refinement `PromiseKept`, `StatusMovesForward`; liveness `ConclusionTakesEffect`, `EveryOperationSettles`, `AutoModeDecides` |
| `user_state` | 2 operations on 1 account, 2 values of user data, 1 decision at a time, approve-callback in use, no faults | `QuietSnapshotAgrees` for every order of messages and of decisions that do not overlap |
| `retry` | 2 operations, 1 or 2 loops, with and without crashes, budgets (`max_retries` of a row) of 1 and 3, delays 5, 10, 12 (capped) | one loop: `RetryBudget`, `BatchStaysFresh`, `DlqStaysEmpty`; two: `TwoLoopsOverrunByOne`; `DelayIsCapped`; liveness `TakenIsRescheduled` |
| `removal` | 1 entitlement and 1 legacy role it replaces, 1 user, 2 simultaneous requests, 2 removal requests, 7 links, 2 levels, 2 confirmation cycles; no fault or each fault alone; 0 to 3 changes of the target and crashes at most 1 | `EveryLevelSigned`, `OneOpenRequest`, `MissingHasRequest`, `PendingCanBeDecided`, `AbsenceConfirmed`, `OrphansAsked`; as an action property `KnownHasRole`: only an approved removal takes the role of a known entitlement; liveness `ApprovedIsExecuted` |
| `decommission` | 1 account, a second target without one when nothing fails, 2 simultaneous requests, 2 or 3 operations, 1 crash; each fault alone, `target` with `reject` and with `retry` | `AccountsGone`, `ResidueGone`, `OneDelete`, `CancelledIsDead`; liveness `DecommissionEnds` |
| `delivery` | 2 targets, 2 privileges and a role, 1 message in the queue, 2 or 3 messages posted, 1 crash; pairs of the five families under each fault of the connectors, both brokers, with and without approval | `SuccessIsExact`, `AccountsAgree`; liveness `QueueDrains`, which is disagreement 7 of section 5 |
| `late_decision`, `skipped_delete`, `retry_exhausted`, `retry_reprocess`, `early_shadow`, `kept_target` | the smallest that shows it | disagreements 1 to 6 of section 5 |

*Why the bounds are enough.* The state of the chain is per operation, so one
operation with two concurrent requests has every race of the chain; three levels
have a first, a middle and a last. Markers and snapshots are per account, and
two operations on one account are the least that can disagree; a fault is
left out there because each of them breaks the agreement by itself (a lost write
is a wrong snapshot). Two retry loops are the least that can overrun. All the bounds
are the sets and numbers of the `.cfg` files; there is no state constraint.
A removal concerns one entitlement, so one of them, gone, back and gone again (3
changes), has every history of the inventory and of a request; the legacy role
is the one kind that is handled differently; one request can be open and one
answered. Two levels have a first and a last; the proof of section 4 covers the
others. A decommission looks at each account by itself: the least that can go wrong is
an operation before it and its deletion, and the third row, where it is allowed, makes
the latest of an account's rows ambiguous. In `delivery` two targets are the least
between which a message can move an account, three messages can give, take and
give again, and two privileges and a role the least that can be granted in part.
`Symmetry` permutes operations, data and deciders and is used in `user_state`
only, which has no liveness property. Deadlock is not checked: a system whose operations
are all finished stops.

*Conditions.* `LinkHasItsChain` leaves out lost Redis writes and expiry (a
token can then outlive its chain); `WaitingCanBeDecided` allows target faults
only; liveness leaves out crashes and database errors, after which the code has
no recovery, and `StatusMovesForward` leaves out database and SMTP errors, where
the consumer may fail an operation whose decision runs.
The properties of the other modules carry their conditions as the faults they
exclude, each with its reason in the comment above it: what the code has no answer to
is named there and is a hazard of `PROJECT.json`. Excluded are above all:
overlapping answers to a removal (`double`; `decide` reads the request before it
writes it), a crash between the inactive row and its request (`MissingHasRequest`), a
deployment's unconfirmed manifests (`AbsenceConfirmed`), messages and decisions
during a decommission (`AccountsGone`), and in `delivery` the targets `excused`,
those whose last operation failed, was lost, or was skipped while another was in
hand; after a crash of the consumer those with an operation in hand, which the
empty cache and the snapshot may both miss, and with Kafka the one whose operation was cut
off after its row was made; a message of Kafka handled after a later one; a disabled account
that a creation enables (`Enables`: `provision_user` does not look at `enabled`). A target is no longer excused when an
operation on it did what the last message wanted, none on it is left, and the cache
or Redis can find the account again; a creation without groups only counts if it found
the account without any, because a connector that finds an account does not take
groups away then. `QuietSnapshotAgrees` is about decisions taken
one at a time: two that overlap on an account can call the target in one order and
store their snapshots in the other.

*Fairness.* `WF` on each coroutine's step: asyncio resumes a coroutine whose call
returned, and every awaited call returns or raises. `SF` on the wake-up of an
auto-approval task (`asyncio.sleep` ends; strong because in the model the task
takes one of few deciders, which may be busy now and then). Nobody is obliged to
click or to call an endpoint. In `RetryManager`: `WF` on each loop and on the
passing of `next_retry_at`. In `EntitlementSync`: `WF` on each served request, on the
worker's loop (`while True` around a cycle whose errors are caught) and on the calls
of the API it makes. In `TargetDecommission`: `WF` on each served request and on the
worker, `SF` on the API accepting the worker's call, because in the model it takes one
of few handlers, which may be busy now and then. In `MessageConsumer`: `WF` on
the consumer and on the connector's call in progress. Nobody has to approve,
click or post.

## 4. Proofs

All obligations of the eight modules with theorems are proved by TLAPS. The only
assumptions are those on the constants, `OrchestratorAssumption`,
`ChainAssumption` (no chain is the value `None` that stands for a missing key),
`RetryAssumption`, `RemovalAssumption`, `SyncAssumption`, `DecommissionAssumption`,
`DirectAssumption` and `DeliveryAssumption`, which TLC evaluates in the runs, and the
hypotheses some theorems state.

### `ApprovalChainProofs`

`ChainTypeCorrect`: `ChainSpec => [](TypeOK /\ ChainTypeOK)`, in every mode, under
every fault, with or without approve-callback. The two invariants are not
inductive: a step writes what its coroutine holds in memory (`CreateOperation` the
message, `StoreChain` the index of the chain plus one) or reads its row
(`StoreRejectedCreate` the account). `TypeInv` adds what each step needs: at
`MessageSteps` a message in memory, at `RowSteps` a row with its original
message, at `HoldingSteps` a chain in memory, at "nextLevel" a level that is not
the last. `WorkerUpdate` says once what a change of one coroutine has to keep;
`GotoKeeps`, `GotoWithKeeps`, `FinishKeeps` and `FaultKeeps` are its cases.

`DecisionsAreSafe` and `EveryLevelHasSigned`, for any numbers of operations,
coroutines and levels and under every fault, assuming `~Callbacks`: the
approve-callback endpoint is not used beside the links of the emails. (With it
they are false: two decisions that both read APPROVAL_PENDING both call the
target, a hazard of the list.)

The argument is about *authority*, what may still lead to a call of the target
for an operation. A coroutine has it (`HasPower`) until it asked the approvers,
from a link it consumed that the chain waits for, and during a decision until the
target is called; a sleeping auto-approval task has it; and so has a link whose
token is live and is the chain's active one (`LiveLink`). The inductive invariant
`Safe` says for each operation:

* `OneAuthority`: the authority is in one place at a time, and while it is
  anywhere the target was not called and the row was not skipped;
* `StepSafe`: what the step of a coroutine implies, above all how many levels have
  signed (none while approval is asked for, those below the chain's index when a
  link is consumed, all of them in a granted verdict and before the call), and that
  tokens in memory are not newer than the last one made;
* `RecordsSafe`: the same for what Redis and the rows hold.

The authority only moves: from `process_message` to the link or to the task, from
there to the request that consumes it, to the next link, to the verdict, to the
call. A fault can only take it away (`LossSafe`); a redis write that is lost
leaves an old chain whose token is used up; the token that `StoreChain` makes is
newer than all, so nobody has it yet. `OtherOperations` reduces every step to its
own operation, `AuthorityStep` handles the steps that move authority,
`WalkSafe`, `LeaveSafe` and `FinishSafe` the others.

### `ApprovalProgressProofs`

What becomes of an operation. `EdgeTaken` lists what each step of a coroutine does to
the place it is at and to the status of its operation; the invariants below are
inductive under `Safe`, so all but the last theorem assume `~Callbacks` too.

* `LinksHaveTheirChains`: `ChainSpec => []LinkHasItsChain`. `Linked`: a live token is
  the one its chain waits for (`LinksStored`), and a coroutine about to make a token
  live has stored its chain (`ChainsStored`), which is the order of `_send_level_email`.
  That a decision which drops a chain cannot strand the link of another one is
  `OneAuthority`.
* `WaitingIsDecided`: `ChainSpec => []WaitingCanBeDecided`. `Awaited`: an operation at
  APPROVAL_PENDING has a mailed live link, a sleeping task, or a coroutine on its way to
  one of them or to the record of an answer. For a step that follows a link one needs
  that links are live only once they are new and mailed after that (`Mailing`).
* `StatusesMoveForward`: `ChainSpec => StatusMovesForward`. `Course`: at each step the
  coroutine knows the status it finds (`StatusFits`), as whoever is engaged in an
  operation is alone (`EngagedAlone`): nobody writes a status between its read and
  its write.
* `QuietSnapshotsAgree`: `ChainSpec => []QuietSnapshotAgrees`, with `approve-callback` in
  use or not, for any numbers of operations, accounts, data, levels and messages at
  once, and decisions taken one at a time (at most one decider). `SnapshotInv`: between
  the call of the target and the write of the snapshot the account is the snapshot with
  the message of the operation provisioned (`Lags`); otherwise they are equal. For that
  the decision works with the message of its own row (`Decision`), no coroutine of the
  consumer comes to the target (`Messenger`), and no two of them have the same row
  (`Apart`).

`ChainKeepsPromise`: `ChainSpec => PromiseKept`. `Safe` does not suffice: the promise lets a level sign and the
answer be recorded only while there is no answer yet, and calls a refusal a refusal
only if not all levels have signed. So the authority must also be *unspent*. The second
invariant, `Unspent`, inductive under `Safe`, says for each operation:

* while it is `Open` (without a row, or a coroutine, a task or a live link may still
  bring an answer) its row holds none;
* `Carries`: a coroutine between its link and the record of its answer runs in a
  deployment with approvals, and carries a refusal only while a level has not signed.

A step opens nothing that was closed, except that `StoreResponse` closes its operation
(nobody else has authority over it). Each step then maps to one of the promise or to a
stutter: `ReadChain` with a yes to `Sign` (`ReadSigns`), `StoreResponse` to `Conclude`
(`ResponseConcludes`), `Execute` to `Provision` (`ExecuteProvisions`), all
others change none of `response`, `calls`, `signed` and `mode` (`Stutters`).

### `RetryManagerProofs`

* `TypeCorrect`: `Spec => []TypeOK`, one step per action. `LoopValues` and
  `LoopUpdate` say once what an update of a loop's record yields. `delay` is only
  said to be a function on `Ops`: its values come from a recursive function,
  whose range would need induction.
* `DelayCapped`: `Spec => []DelayIsCapped`; every delay written is a `Delay(n)`,
  and `Delay(n) <= MaxDelay` whatever the power is.
* `OneLoopIsSafe`: `Spec => [](RetryBudget /\ BatchStaysFresh /\ DlqStaysEmpty)`.
  The budget alone is not inductive. A count is written as *value read + 1*, so one
  needs that the value read is still the row's (`HandStaysFresh`), hence that
  nobody else writes a row in hand; the only other writer is the manual retry,
  whose guard excludes a row that is `PENDING`; so one needs that a row in hand is
  `PENDING` and a row of the batch `RETRYING` with attempts left
  (`BatchStaysFresh`), and that no row is `DLQ` (`DlqStaysEmpty`). Their
  conjunction, `Safe`, is inductive for deployments with one loop; `SafeManualRetry`
  and `SafeLoopStep` prove its steps.
* `TwoLoopsAreClose`: `Spec => []TwoLoopsOverrunByOne`, any operations and budgets. With
  two loops the count can be one too high. `Close` says why not more: a loop that is
  about to write a count of `max_retries` or more (`Late`) has taken the operation out
  of the other loop's hands, and a row without attempts is in no later batch
  (`LateIsAlone`). With three loops this fails, and TLC finds an overrun by two.

### `EntitlementProofs`

`RemovalTypeCorrect`: `SyncSpec => []RemovalTypeOK`. As for the approval chain the
type invariant alone is not inductive: `StepTyped` says what a served request has in
memory at each step of each job (a request that exists while its link is
cleared, an entitlement while its items are gone through, pairs of a user and her other
roles while the orphans are computed). Links are bounded by `MaxLinks`, and the level of a
request by the chain. One lemma per action, one step per conjunct it can disturb.

`LevelsSigned`: `SyncSpec => []EveryLevelSigned`, for any numbers of levels,
entitlements and served requests, under every fault but `double`. The inductive
invariant `Safe`:

* `RequestSafe`: the levels below a request's own have signed; all of them when
  it was decided in favour;
* `StepSafe`: the same for the copy a request has in memory between a link's
  consumption, the decision's write and the next mail, and for the removals an
  execution is going through;
* `OneOwner`: of all that is served, one thing at most is between reading and
  writing a given request. That is what `double` breaks, and why it is excluded;
* `InOrder`: request numbers are given out in order, so that a new request
  has no owner and no signature yet.

A step that takes no request up and writes none is handled once (`CalmStep`,
`Passes`). A click or a renewal finds its request without owner (`OpenIsFree`), a
creation finds the next number unused (`NextIsFree`, from the cardinality of the
requests in use); what is left are `Record` and the two halves of
`send_current_level`, the only writers of a level.

### `EntitlementCycleProofs`

The other invariants of the synchronisation, for any numbers of entitlements, users,
requests, served calls, levels and confirmation cycles. The first part says what each
step does to its coroutine and to the tables (the lemmas `...Does`); then come
invariants about who is at work, and on them those the properties need. Each is under
the faults of its property and no more:

* who is at work: `Rows` (a request in somebody's hands is in use), `WorkerAlone` (the
  worker waits for the one call it has made; false when it gives calls up),
  `NoDeployment`, `NoLogins`. `Calm` is `WorkerAlone` without a deployment: there is
  one reconciliation or execution at a time;
* `AsksOnce`: `AskedOnce`, when a request is created there is none pending for its
  entitlement, although the lookup is an earlier step;
* `MissingIsAccounted`: `Accounted`, what is marked missing has its request or the
  reconciliation that marked it is about to make it; the cancellations of an
  entitlement that came back are all done before it is lost again;
* `PendingIsMailed`: `Mailed`, a request without a link is in the hands of whoever is
  to mail it;
* `KnownKeepsRole`, an action property: `RolesReady`, whatever the next state file adds
  has its role before the file is written, and nobody but an execution takes a role;
* `AbsencesAreConfirmed`: `Ledger` relates the state file, the manifest in the worker's
  call, the inventory and the history of discoveries at each step of a cycle: the
  count of an entitlement never exceeds the absences in a row (`Counted`), the manifest
  leaves out confirmed absences only, and the inventory moves from one state file to the
  next;
* `OrphansAreAsked`: `Once`, a removal is executed once and by one call, and that call
  still holds every user it took the role from with the roles they had left
  (`Executing`), until their deletion is asked for.

### `DecommissionProofs`

`DecommissionTypeCorrect`: `Spec => []DecommissionTypeOK`. `StepTyped` says what `begin`
and `process_all` hold at each step: rows of their target at "cancel", accounts of it
at "create" and "ask", numbers of rows that exist in `made`. Rows are only
added and written (`Grows`), so what a coroutine holds stays typed whatever the
others do (`StepStays`).

For any sets of targets and accounts, any number of requests and rows, and every set of
faults the property allows:

* `CancelledStayDead`: a row begin marked FAILED is never served again. A row that waits
  to be cancelled is at rest, and nobody may answer it while begin is at work
  (`CancelInv`); that is what `race` breaks.
* `DeletesAskedOnce`: an account is asked to be deleted once. A target with a
  deletion has its key, or is gone, or is the one the only begin is at (`OnceInv`); the
  keys of `process_all` are dropped after the target left the catalogue.
* `RemovedAreEmpty`: a removed target holds no account, the property the service is
  written for. The inductive invariant `GoneInv` goes from the rows to the targets:
  * `RowInv`: the operations of an account are served in order, so that everything
    before one that runs or ran is over;
  * `AccountInv`: an account is there because the last operation that ran on it is a
    write, and its snapshot is stored or about to be;
  * `Dead`, `Final`, `Covers`, together `Settled`: no write of the target can still
    run, the deletions are the last rows of their accounts, and they are of
    every account the target holds. Begin establishes it step by step (`BeginSafe`: the
    list, the cancellations, the scan, the creations), a key carries it (`KeyInv`),
    and `process_all` uses it (`ProcessSafe`): when all deletions of a settled
    target succeeded nothing is left on it (`Emptied`);
  * `OneProcess`: the worker waits for the `process_all` it asked for, unless it gives
    it up. One that was given up may have seen the deletions succeed; a second one ends
    the decommission, the target is created again, and the first goes on and removes it.
    So the proof needs that `abandon` and `readd` do not meet, and that is the last
    exception of `AccountsGone`.

* `ResidueIsGone`: nothing of a removed target is left in MidPoint, the tables, Redis or
  the state file. It holds under more faults than `RemovedAreEmpty`, so it has an
  invariant of its own, `ResidueInv`: what `process_all` has cleaned stays clean while it
  goes on (`ProcessKnows`), as nothing that writes is left for a target with a key
  (`Dead`), the worker only writes for targets it listed (`WorkerKnows`) and a role has
  its inventory row, so that the rows lead to every role (`RolesHaveRows`). A second
  `process_all` would break it (`OneProcess`).

### `DeliveryProofs`

For any targets of the five families, any entitlements, wishes, messages and crashes,
and every set of faults:

* `DeliveryTyped`: `Spec => []DeliveryTypeOK`. The invariant adds that every message is
  made of wishes MidPoint can have (`MessagesTyped`: a MySQL target is never asked for
  two roles) and which way the operations go (`Routes`).
* `SuccessKeepsItsWord`: `Spec => []SuccessIsExact`, whatever half-changed account a call
  begins with. The invariant has two parts. `AccountsFit`: an account that is not there
  has nothing left (except the group memberships of LDAP), and only SQL targets hold
  direct privileges. `Plan`: one proof outline per connector (`MySqlPlan`, `PgPlan`,
  `MongoPlan`, `LdapPlan`, `OdooPlan`), which says for each point a call can stop at what
  the account has by then: nothing but what is still to be revoked (`left`), the
  privileges granted so far, the state that was asked for; as long as no statement
  was refused. `DonePlan`, the last line of each, is the property. Each statement leads
  from its line to the next (`MySqlKeeps` ... `OdooKeeps`); what the consumer and the API
  do in between changes no account, and a crash closes the call.

### `AccountsProofs`

`AccountsFollow`: `Spec => []AccountsAgree`, with both brokers, with and without
approval, under every set of faults. The property only speaks of the end, when nothing
is pending; the invariant `Rest`, inductive under `Inv` of `DeliveryProofs`, follows a
target through everything that can be pending. TLC checked it on the instances of
`delivery` and on wider ones before it was proved. Its parts:

* `FollowInv`, of each target that is not excused. `BoundFor(t, w)`: the last operation
  on `t`, wherever it is (still to be handled, waiting for approval, or in the
  connector), asks for `w`, and if there is none the account is `w`. A target is bound for
  what MidPoint last said of it, unless a message of it is still before the consumer
  (`Behind`; with Kafka one without a row, as the others are dropped, and none of the
  target left to be handled). A disabled account is followed like any other, in the
  families that know the difference (`Disables`). `Traced`: a target that is not bound to be left is found by the message that
  takes it from the user: it is in the cache, or the cache is empty and its snapshot in
  Redis stored. That is why the three sources of `_parse_midpoint_format` together find
  every account, and why `Findable` is in the definition of who is excused;
* `Lines`: a message has one operation per target, and the call in progress is the first
  of them;
* `End`: a target to be cleaned up is only left by the DELETE of the user, after which
  nothing is posted. Without it a late clean-up could follow a deletion and make the
  account again;
* `Start`, `CleanInv`: a creation comes from the first message, so it finds accounts
  without groups other than its own (`FromFirst`); that is needed of a target to be cleaned
  up, where an account without groups counts as left.

What a call has done by its last line comes from the proof outlines of `DeliveryProofs`
(`DoneSettles`, `DoneBares`). A step concerns one target; `Untouched` says once that the
others keep their part of the invariant, and there is one lemma per action for the rest.

*Only model-checked*: the liveness properties and the fairness behind them, out of the
prover's reach. Every safety invariant and action property of the passing runs has a
theorem: `OneLoopIsSafe` gives three of the invariants of `retry`, `ChainTypeCorrect` both
type invariants of the chain, each of the others is a theorem of its own.

## 5. Disagreements found

1. `late_decision`: two approve-callbacks both pass the check of the status
   (`orchestrator.py:541`) while it is APPROVAL_PENDING; the one that refuses writes FAILED,
   the other then writes PROCESSING and goes on to the target. `enums.py:22` draws FAILED and
   PROCESSING as alternatives. A longer way to the same disagreement: a decision that comes
   later is refused by the check, and its handler (`orchestrator.py:718`) marks the row
   FAILED that the first one is provisioning.
2. `skipped_delete`: after a rejected CREATE of an existing account its DELETE
   is skipped, and the account stays.
3. `retry_exhausted`: no operation reaches the dead letter queue by exhaustion.
4. `retry_reprocess`: no retry is ever executed; the request id is unique.
5. `early_shadow`: the execution of one approved removal deletes the MidPoint
   shadows of every entitlement of the target that is absent at that moment, also of
   one whose removal is pending, although `entitlement_sync_service.py:246-248` says
   that the deletion follows the approval.
6. `kept_target`: messages for a target are accepted after `begin`, and the target
   is removed while it holds the account they created, although
   `target_decommission_service.py:28` says it is kept until accounts are gone.
7. `delivery`, a run that passes: `QueueDrains` holds, also for messages whose processing
   fails, because a failed message is rejected for good. `rabbitmq_consumer.py:175` says it
   "will be nacked and requeued", `kafka_consumer.py:93` that it "will be reprocessed".
   `message.process()` does not requeue unless told to, and the Kafka consumer goes on to the
   next message; a redelivery after a crash ends at the unique request id. With a consumer
   that did as the comments say (the mutant `RetriedInPlace`) TLC finds the queue held up.

Known from the models and listed as hazards or named in the comment of a property rather
than shown by a run of their own: two concurrent decisions of an operation both call the
target; an update and a delete decided at once leave a wrong snapshot; a failed
approval request makes a later update a "duplicate"; retriable failures are not
scheduled; two answers to a removal served at once overwrite each other; a crash
between the inactive inventory row and its request leaves an entitlement nobody is
asked about; a deployment's manifest is not confirmed; a removal executed again after a
crash finds no orphans; a login account that becomes an entitlement again soon never
gets its role back; a state of a decommission whose target is gone stops
`process_all` for all; a call of a connector that swallowed a refusal is reported
as a success; a user MidPoint wants disabled is created enabled; the clean-up of an Odoo target, if one is set to `delete_mode: update`
(which `docs/TARGET_CATALOG.md:19` describes for LDAP), keeps the groups of the account.

## 6. Not modelled, and what is left

Left out everywhere: texts of emails and pages, logging, audit rows (except that
writing one can raise), health checks, listings and tests of a connection, the clock
(times are "due" or not) and the spelling variants of a target's name. The dashboard
keeps no state of the workflow; what its buttons do are requests of the API.

By module:

* `RetryManager`: the read and the write of the retry endpoint are one step: they are
  milliseconds apart, and a row becomes due after `RETRY_INITIAL_DELAY` seconds at the
  earliest. The window of 200 rows of the fetch is left out.
* `TargetCatalog`: the base file, validation, aliases and templates of families.
* `Orchestrator`: removing the pending key and reading it for the message are one step
  (`RemovePending`). Only the operation itself writes the key, so the second call finds what
  the first left, or nothing (the step allows both).
* `TargetDecommission`: begin drops the approval keys of an operation and then fails its
  row; the two are one step, the second. Before it the model still lets links begin a
  decision, which the code does not; a crash between the two (then nothing but the callback
  can decide the row until begin is called again) is left out. Approvals are enabled; the marker of a rejected CREATE, which
  can skip a deletion, is the subject of `skipped_delete` and not repeated here.
* `EntitlementRemoval`: `remove_user_resource_projection`, which never raises and
  changes nothing another step reads. Cancelling the requests of an excluded entitlement is
  one step with their lookup (`Exclude`): an answer in between is overwritten, and the role
  goes in either case. Names excluded because the history of operations holds a deleted
  account of that name (lines 117-128) are left out: they would make the same step possible
  for a name the target no longer lists. Reading the approved request and the manifest and
  writing the status are one step (`Pick`): nobody else writes an approved request but a
  second execution, under `abandon`, and what happens to the entitlement after the manifest
  was read can happen before the next step, the removal.
* Connectors: searches and tests that only read, hosts, filters, names; one call
  of a connector at a time (the consumer awaits each; decisions that overlap are in
  `ApprovalChain`). Odoo creates users (`odooCreateUser`), MySQL grants on
  database `*`, and the changes of an Odoo employee's own fields are left out.
* `MessageConsumer`: an UPDATE carries the user's whole state and the user name, as
  the Java connector sends it; the native format comes through Kafka; rejections are in
  `ApprovalChain`. Of the Java connector only what it posts is modelled, not its schema
  and its searches.

Left to do: the order of the retry fetch and its window; the difference of users and the projection of a user on a target as
pure operators against reference definitions; a change of the approval setting
between two starts.
