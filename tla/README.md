# modelctl in TLA+

modelctl chooses, routes and meters language models for a small fleet of
hosts. Two controllers keep the fleet's state and replicate it; hosts, an editor
extension, an operator's command line and a LiteLLM receiver send them signed
envelopes or read policies from them. This directory specifies the parts whose
correctness depends on order, failure and retries, checks them with TLC on
small instances and proves the main results with TLAPS for every instance.

Paths below are relative to the repository; `controller/api.py` stands for
`src/modelctl/controller/api.py`, and so on.

## 1. The system

| part | state | operations | talks to |
| --- | --- | --- | --- |
| controller (`controller/api.py`) | role, epoch, generation, operations, preparations, outbox, replay windows | mutate, prepare, commit, abort, fence, promote, recover | the other controller by HTTP, each answering on one event loop; clients |
| store (`controller/store.py`) | SQLite tables, one transaction per call | insert, mark, delete | the controller only |
| event forwarder (`telemetry/event_forwarder.py`) | log, cursor file, pending file, sequence file | one pass: read, sign, keep, post, save cursor, clear | the extension (shared log file), the controllers |
| host agent (`agents/host/report.py`) | maintenance file, sequence file, event log, last figures | collect, sign, publish with back off | controllers |
| quota collector (`telemetry/collector_client.py`) | sequence file, event log | sign, publish | controllers |
| operator (`operator/`) | sequence file under a lock, receipts | allocate, sign, post | controllers |
| policy (`policy/`) | keys, replay file, policy file | verify, apply, add, revoke, replace | used by every receiver |
| LiteLLM adapter (`adapters/litellm/`) | managed region of a YAML file, last good policy | fetch candidates, choose, apply, restore | controllers, the LiteLLM process |
| selection (`selection/`, `adapters/omp/`) | role choices, settings file | evaluate, apply, roll back | policies, OMP's settings |
| OMP extension (`extensions/omp/src`) | budgets, containment, escalation, policy cache | request and response hooks, park, resume, recover, sync | the editor's callbacks, controllers, the event log |
| evaluation (`evals/`) | decisions, routes, canary | run, decide, activate, roll back | LiteLLM routes |
| telemetry engine, runway loop (`telemetry/engine.py`, `controller/loops/`) | records and spend in memory, alarms raised, breaker | load, evaluate, persist alarms | the store; run by `GET /v1/runway` |

What is hard in it:

* **Replication between two controllers that serve and call on one thread.** An
  operation is prepared at the peer, committed here, committed there. Any answer
  may be lost, any request may arrive after the caller gave up on it, a
  controller may restart between two transactions, and a promotion may happen
  between two phases. Both may call each other at the same time and wait.
* **At-least-once forwarding over files.** A pass of the forwarder makes four
  durable writes per event and may be killed between any two of them.
* **Callbacks with awaits** in the extension: admission, parking and recovery
  interleave.
* **Apply and roll back** against a running LiteLLM and against OMP's settings,
  with a failure at any step.
* **Sequences, receipts and files** of the host agent, the operator's commands
  and the policy stores: each file is replaced whole, a program may end between
  two of them, commands overlap, and posts arrive late or never.
* **Memory rebuilt from rows**: the runway loads the same rows over many requests
  and restarts.

What makes each part correct:

* controllers: an operation answered as done is in both stores; nothing is
  marked committed that the peer lacks; the outbox names exactly what is
  unfinished; never two active controllers; a deposed one writes nothing; epoch
  and generation never go back; an operation id names one envelope;
* forwarder: no line skipped, none sent twice under two sequences, log order
  kept, and every good line sent in the end;
* policy and adapters: a policy never goes back, a failed apply leaves disk and
  runtime as before, equal sequences with different contents are refused;
* extension: one recovery at a time and one per parking, a parked scope admits
  nothing, no request is counted in a closed budget;
* selection and evaluation: the first eligible candidate wins, what the policy
  leaves out stays, a receipt is true, and a decision is durable before a route
  changes;
* agent and operator: no sequence is used twice, a report is the whole host, a
  receipt claims no more than was taken, and a controller behind is known to be;
* runway: what is served is the estimate of the durable rows, and an alarm is
  persisted once between two starts.

## 2. Modules

| module | models | state and code |
| --- | --- | --- |
| `ReplayWindow` | `replay_accept`, `replay_remove` | operators only: a window is the set of accepted envelopes |
| `ReplicatedOps` | nothing: the abstract promise | operations recorded by either controller, those both have, those answered |
| `Controller` | the two controllers, their stores and the network between them | one action per request handled and per transaction of a call chain |
| `MCController` | instances for TLC | two nodes, one or two envelopes per kind |
| `ControllerProofs` | theorems about `Controller` | see section 5 |
| `EventForwarder` | the forwarder, its files and the controllers' answers | one action per durable write |
| `MCEventForwarder` | instances for TLC | two controllers |
| `EventForwarderProofs` | theorems about `EventForwarder` | see section 5 |
| `OMPExtension` | the tables of one editor process and its overlapping hooks | one action per stretch of code between two awaits |
| `MCOMPExtension` | instances for TLC | one agent with one or two transcripts |
| `OMPExtensionProofs` | theorems about `OMPExtension` | see section 5 |
| `RouterConfig` | LiteLLM's configuration, the guarded apply, the receiver and the promotion pipeline | one action per step that can fail or be the last |
| `MCRouterConfig` | instances for TLC | two controllers, up to three policies |
| `RouterConfigProofs` | theorems about `RouterConfig` | see section 5 |
| `Lists` | the filter of a list | operators only, as a fold |
| `Selection` | the selection engine | operators only: from readings and a policy to the plan |
| `NativeSelection` | `modelctl-omp` and OMP's configuration | one action per command of OMP, failure and edit |
| `QuotaRunway` | quota, usage and receipt rows, and the runway loop | one action per request; a failed or cut evaluation is one of its own |
| `HostAgent` | the agent, its files and its controllers' windows | one action per round, signature and post |
| `OperatorCommand` | overlapping operator commands and what controllers take | one action per file access, post and receipt |
| `PolicyTrust` | key store, verifier and policy store with their files | one action per write |
| `RouteCapacity` | the sharing of slots in the managed region | a policy listed route by route, then rendered |
| `MCEdge` | one instance of these six components | the initial state says which one moves |
| `FoldInduction` | nothing: what the folds of the community modules compute | theorems about a fold of any operation, see section 5 |
| `NativeSelectionProofs` | theorems about `Selection` and `NativeSelection` | see section 5 |
| `HostProofs` | theorems about `HostAgent`, `OperatorCommand` and `PolicyTrust` | see section 5 |
| `EdgeProofs` | theorems about `RouteCapacity`, `QuotaRunway` and the composition | see section 5 |

### Controller

The state is indexed by node. `role`, `epoch` and `generation` are the state
table; `ops` the operations with their status, `prepared` the preparations,
`outbox` the outbox rows; `seen` the client envelopes and `replSeen` the peer's
replication sequences in the replay tables; `policies` the policy table, whose
key makes a commit fail on a generation it already has; `outSeq` the outbound
sequence. All of these survive a restart. `pc`, the `request` a process is
blocked on, its `answer` and the recovery list `todo` are the process and do
not. `net` holds the requests sent and not yet handled, late ones included, and
`acked` the envelopes clients were answered 200 for.

`Submit`, `AnswerAgain`, `Refuse`, `LocalCommit`, `GiveUp`, `AbortDone`,
`CommitAcked` and `CommitUnanswered` are `Controller.mutate` cut at its
transactions and at the three calls to the peer; `Restart` and the `Recover`
actions are `build_controller` with `recover_pending_operations`; `Promote`,
`Promoted`, `PromotionFails` are `promote`; `Prepare...`, `Commit...`, `Abort`,
`Fenced`, `FenceRefused` and `Control...` are the replication routes on the other
side. The routes are coroutines that never await inside a handler: a controller
in a call to its peer serves nothing until the call ends, so requests are
handled only by an idle node, and a mutual wait is ended by the HTTP timeout
(`Gets(n, FALSE)`: refused, or no answer). A request whose caller gave up on it
stays in `net` and may be handled at any later time, or never.

Left out or merged, and why this is sound for the properties:

* signature, scope and time checks: a request that fails them changes nothing,
  which is a lost request;
* a crash inside a transaction is a crash before it (SQLite rolls back); a
  crash and the start after it are one action `Restart`, for nothing reads the
  store in between;
* the outbox is read in the order of its rows, which is the order of sequences;
* host, quota and receipt payloads are upserts without a condition: one kind
  `report` stands for them; policies have their own kind because of their key;
* `lag_degraded` is only ever set by tests; a controller without a peer and
  observe-only mode are not in this module.

### EventForwarder

`log`, `cursor`, `pending` and `lastSeq` are the four files. Each action is one
durable write or one post; `Crash` can follow any of them, and a post under way
then may still arrive. The controllers are reduced to what decides an answer:
what each has `stored`, what the active one committed without its peer (`half`),
what it admitted and lost when it was killed (`spent`), and what has expired.
`Recover` brings one operation of `half` over, as the start of a controller may;
nothing schedules that start and the peer may refuse the operation for good (see
`outbox_recovery`), so it need never happen. The variable `enforcing` never
changes; it chooses between `mutate` and `_ingest_observation`.

A line is a number, not a byte offset, and is read whole: a line that is still
being written when a pass reads it is left out.

### OMPExtension

The variables are the fields of `BudgetManager`, `ContainmentDetector`,
`EscalationController` and `RecoveryController`. `asked` is the provider a
transcript waits for. `hook` is what each running `after_response` hook is about
and the await it is in: after the charge (an event is being written), in
`escalate` (`EscalateAgain`: for the researcher; a transcript already marked
returns at once), before `observe`, and in `recover`, half an hour at most.
`Request` is `beforeRequest`, `Respond` the part of `afterResponse` up to its
first await, `Escalate` ... `Recovered` the rest, `Resume` the command and `Sync`
a policy that `applyRuntimePolicy` brings to either table. `researchers`,
`recoveries` and `served` are history.

Left out: observe-only mode, in which nothing is blocked; the envelope of a
project, which is charged and measured as an agent's; the policy cache; the
texts of events and prompts. An output is its normalised form, and the ring is
the count of the latest equal outputs, which is all `observe` asks of it.

### RouterConfig

`file` and `running` are LiteLLM's configuration on disk and as loaded; a
configuration is the bundle in its managed region and the count of edits outside
it. `backups` is by bundle, for a backup is named by day and bundle, and the
model is one day. `at` and `work` say where each program is and what it found
under the lock. `Take` ... `Raise` are `apply` cut where it can fail or be killed:
the lock with the comparison and the backup, the replacement, the restart, the
verification with the receipt, the restore, the second restart, the error. A policy
that expires between its choice and its commit is one of the failures. `Start`,
`Fetch`, `NoUpdate`, `Choose`, `Commit` are one `sync_once`: the policy store is
read at the start, the active controller is asked before the standby, and the
policy is kept only after its apply. `Decide`, `Block` and `Activated` are
`PromotionPipeline.run` with `LiteLLMRouteTable`.

A failing step is free in what it did: a write may fail after the file is
replaced (the fsync of the directory), a restart may leave LiteLLM with the old
file, the new one or down. A restart loads the whole file. Left out:

* observe-only mode, which reports and changes nothing;
* the gates of the pipeline (contracts, judges, canary thresholds): which of the
  three outcomes comes of a request is a free choice;
* an edit by hand while an apply holds its lock, which is lost: the lock binds
  only modelctl. Edits come while nobody applies, between a look at the file and
  the lock included;
* two receivers at once: the timer does not start one that runs.

### Selection and NativeSelection

`Selected` is `_evaluate_role` over the rungs of a role, `Index` the join of
readings to accounts, `Chain` the fallback chain, `PlanRoles` and `PlanChains`
what `select_models` returns for every role, managed or not. A candidate,
account and mode is a model value; a reading has a time, a unit and maybe a use.

`native` is OMP's configuration. Every `omp config get` and `omp config set` is
an action of its own, and `Edit` is the user of OMP between any two of them.
`Start` and `Plan` are the two reads of `_run`, the second with the plan, for
`--apply` (`ForApply`) or not (`DryRun`); `Look` the three reads of
`SelectionApplier.apply`, `Compare` what they say is to be written, `Set` a
write, `Verify` one read back; `Rollback` and `Confirm` are the write and the
read of one key in `_rollback`; `Applied`, `Undone` and `Ends` are the ways the
run ends. A command that fails may have taken effect, for it may have timed out.
`stale` is history: the keys edited since the run last read or wrote them, which
is all that `ReceiptTrue` exempts. `edited` says that there was an edit at all.

### QuotaRunway

`rows` are the durable rows in their order, `loop` the memory of `RunwayLoop` and
`QuotaTelemetry`, `served` what the controller answers. `Get` is
`GET /v1/runway`: `Loaded` loads the rows not seen, `Evaluated` and `Runway`
choose a record and total the spend, `News` are the alarms persisted, one
transaction each, so `GetFails` and `RestartController` persist some of them.
`GetFrozen` is the answer behind an open breaker. `alarms` is a bag, so that an
alarm persisted twice can be seen. Collecting and ingesting inside
`QuotaTelemetry`, which no controller calls, are left out, and so are rows whose
content does not parse at all other than by their attribution, and a proxy receipt
of another source: it is not counted either, and raises an event of its own.

### HostAgent

`maintenance`, `sequence` and `torn` (the log has a line that does not parse) are
the files, `last`, `attempts` and `wait` the agent's memory, `window` what the
controllers have accepted. `Collect` is `_collect_report` up to the sequence;
`Sign` commits the sequence and signs; `Skip`, `Answered`, `Refused` and
`TimesOut` are the cases of `publish` for one controller; `Arrives` is a post
that is handled after its sender gave up. `CollectDies`, `SignDies` and
`LogFails` are the errors nobody catches. Figures are reduced to the round they
were taken in and the state they carry; of the requests only what exceeds the
default number of slots is kept. Controllers are posted to in any order.

### OperatorCommand

`run` is each command: at the sequence file under `flock`, at its posts, at its
receipt. `Load` and `Write` are `SequenceAllocator.allocate` cut at its two
accesses to the file; `Acknowledged`, `Declined` and `Unheard` are
`_post_envelope` for one controller, and `ArrivesLate` a post handled later. A
controller answers 200 when it takes an envelope and again when it has it already
(`Acks`), and a run may be given one controller twice, for nothing forbids
it: both posts then count as accepted.
`Succeeds`, `Fails` and `ReceiptFails` are the receipts, which the model writes
with the controllers the run was given. What is validated before
the sequence is taken is not in the model: such a run changes nothing but its
receipt of failure.

### PolicyTrust

`trust`, `seen` and `current` are the memory of `PolicyKeyStore`,
`PolicyVerifier` and `PolicyStore`, the names with `File` their files. The key
store changes its memory and then writes; the verifier writes and then changes its
memory; the policy is written after both. `withdrawn` and `installed` are history.
An envelope stands for its nonce; signature, digest and times are left out.

### RouteCapacity

`ListRoute` builds any policy of a few routes and `Render` is
`render_managed_region`: `Split` is `_weighted_split`, `Distribution`
`_engine_distribution`. Policies that cannot be rendered end in an error.

## 3. Runs

| run | instance | states | shows |
| --- | --- | --- | --- |
| `replication` | 2 policies of one writer and a report that expects the first, 1 epoch, 5 replication sequences, 1 restart | 193 000 | `AckedOnBoth`, `CommittedOnBoth`, `OutboxIsPending`, `ComparedAndSwapped` |
| `failover` | 1 policy, 3 epochs, 3 sequences, 1 restart, fair | 418 000 | `TypeOK`, `OneActive`, `NoDeposedWrite`, `OnlyForward`, the refinement `ReplicatesOps`, and `CallsEnd` |
| `operation_binding` | 2 envelopes with one operation id | violation | `OperationBindsEnvelope` fails |
| `outbox_recovery` | 1 policy, 5 sequences, no restart | violation | `OutboxIsRecoverable` fails |
| `forwarder` | both modes, 2 lines, 2 killed passes, expiry, the active one killed, fair | 161 000 | `TypeOK`, `NothingSkipped`, `SentInOrder`, `AllForwarded` |
| `forwarder_observe_retry` | observe-only, 2 lines, 1 killed pass, fair | violation | `RetryForwards` fails |
| `containment` | a scout and a recovery agent of one agent, 2 hooks, 2 policies, 4 responses, 1 resume, 1 sync, 1 manual request | 448 000 | `TypeOK`, `StartedOnce`, `ParkCloses`, `AgentOverrun` |
| `budget_switch` | 1 transcript, 2 providers, a provider's limit | violation | `BreachBlocks` fails |
| `resume_while_recovering` | 1 transcript, 2 hooks, 1 resume | violation | `ClosedIsParked` fails |
| `router` | 2 policies of one sequence and a later one, 1 route, 2 failures or kills, 1 edit, 3 publications, 1 decision, fair | 1 099 000 | `TypeOK`, `RolledBack`, `EditsKept`, `DecidedFirst`, `RouteIsServed`, `CommittedVerified`, `NeverBack`, `Converges` |
| `router_retry` | 1 policy, 2 failures or kills | violation | `RestoresBoth` fails |
| `edge` | one component moves: a role of four rungs, 2 runs of `modelctl-omp`, 2 faults, 1 edit; 1 account, 3 rows, 2 lives; 2 engines, 3 collectors, 2 controllers, 2 reports, 2 starts; 2 commands, 2 policies, 1 fault; 3 keys, 4 envelopes, 3 changes, 2 faults; 1 engine, 3 routes | 1 033 000 | `EdgeTypeOK`, `FirstRung`, `ReceiptTrue`, `ChainsFirst`, `UnmanagedKept`, `ServedIsCurrent`, `AlarmsOnce`, `SequenceOnce`, `WholeTruth`, `LaggingBacksOff`, `SequencesGrow`, `AppliedIsAccepted`, `NeverUndone`, `CapacityShared` |

Why the bounds are enough.

* Controllers: five replication sequences let one operation be prepared, aborted
  late, prepared again, committed and recovered. Three epochs let the role go to
  the peer and come back, with a fence of the first promotion delivered after the
  second. Two policies are the least that can be given one generation twice or be
  committed in the wrong order. One restart can fall between any two
  transactions; a second only repeats the choice from a state the first could
  also have reached. For the safety properties the proofs of section 5 remove the
  bounds.
* Forwarder: two lines are the least for order, and the second killed pass can
  hit the retry of what the first left.
* Extension: two hooks are the least that overlap, of one transcript or of two of
  one agent; three equal outputs park one transcript and the fourth response
  belongs to another or to the time after a resume. The proofs remove the bounds.
* Router: a second fault is what makes a rollback fail, or hits the retry of
  what the first one left; three publications let the two controllers serve two
  policies of one sequence and one of them the later policy.
* Edge: the six components share no step, so one of them moves in each behaviour
  and their states add up. Selection: the five situations give room everywhere,
  two readings of one time that disagree, a reading without a use, only old ones,
  and readings in another unit, alone and below one that counts; two faults let a write fail and then its rollback. Runway: three rows are
  the least for two readings that disagree and a spend, two lives for a reload.
  Agent: one engine has two collectors, so that one of them can fail; two reports
  are the least of which the first can arrive after the second. Commands: two
  that overlap, each with one controller, two, or the same one twice. Trust: the second fault is the restart after a failed write.
  Routes: three aliases of two weights over up to four free slots and a reserve
  meet every remainder.

`CHECK_DEADLOCK FALSE` is set in the three runs of the extension, where a bounded
number of responses, all handled, is a real end, and in `edge`, where a rendered
policy and a bounded number of runs, rows and reports are. In the others something can
always happen: a controller restarts or a late request arrives, a timer starts
the forwarder or the receiver.

## 4. Fairness

`Controller!FairSpec` asks only that a controller that is in a call or in its
recovery takes its next step, for the answer comes or the timeout elapses
(`HttpReplicationPeer` gives its client one). Nothing is asked of clients,
promotions, restarts, or of the delivery of any request.

`EventForwarder!FairSpec` asks that passes go on (a timer starts them) and, as
strong fairness, that of infinitely many posts a controller is able to accept,
some is accepted and answered. Without the latter a network that loses
everything would refute any liveness. Nothing is asked of a controller that holds
an operation its peer lacks: only an unscheduled restart would bring it over, and
the peer may refuse it each time. So `AllForwarded` promises the end of the log
unless the pending envelope is `Stuck`: expired, lost with a killed controller
after it was admitted, or committed by the active controller alone.

`RouterConfig!FairSpec` asks that the receiver, which a timer starts, goes on to
its end, that an apply under way takes its next step (each command it waits for
ends, well or badly), and that a finished activation is recorded. Failures and
kills are bounded, not excluded: `Converges` says that after the last of them one
more sync brings the policy. The extension has no liveness property: a request
need not come. Nor have the components of `edge`: an operator's command and a run
of `modelctl-omp` are tried once, the runway answers within its request, and a
host agent that ends by an error stays down until something restarts it.

## 5. Proofs

`ControllerProofs` proves for every set of envelopes, every number of epochs,
sequences and restarts:

| theorem | property |
| --- | --- |
| `TypeCorrect` | `TypeOK` |
| `NeverTwoActive` | `OneActive` |
| `AckedIsReplicated` | `AckedOnBoth` |
| `CommittedIsReplicated` | `CommittedOnBoth` |
| `OutboxTracksPending` | `OutboxIsPending` |
| `ComparesAndSwaps` | `ComparedAndSwapped` |
| `DeposedWritesNothing` | `[][...]` of `NoDeposedWrite` |
| `NeverBackward` | `[][...]` of `OnlyForward` |
| `ControllerReplicates` | `Spec` implements `ReplicatedOps!RSpec` |

None of these is inductive. `FailoverInv` strengthens `OneActive`: an active
controller's peer is at its epoch or beyond, a controller waiting for a fence is
not active, and one whose fence was granted has a peer that is not active, is at
the requested epoch at least, and is not itself past a granted fence.
`ReplicationInv` carries what a call remembers: a commit request on its way, a
commit or recovery under way and every outbox row are about an operation the
sender holds, and a commit answered "yes" is about one the peer holds; only that
makes marking it replicated safe. `GenerationInv` says that the generation a
mutation was given is not overtaken while its peer prepares, which is what keeps
the local commit from going back. `AllowedInv` says that every row on its way to
a store, proposed, prepared, being committed or waiting in an outbox, has an
epoch and a generation its envelope allows. The proofs split on the actions of `Next`, and
under each on the conjuncts the action can disturb.

The assumptions are those `Controller` names: two different nodes
(`NodeAssumption`), the fields of envelopes (`EnvelopeAssumption`), bounds that
are natural numbers (`BoundAssumption`), and two values that are no row and no
request.

`OMPExtensionProofs` proves for any finite set of transcripts, any number of
overlapping hooks, any policies and bounds:

| theorem | property |
| --- | --- |
| `TypeCorrect` | `TypeOK` |
| `StartedOnceHolds` | `StartedOnce` |
| `ParkClosesHolds` | `ParkCloses` |
| `AgentOverrunHolds` | `AgentOverrun` |

`StartedOnce` needs `MarkedFirst`: a transcript with a researcher or a recovery
agent is marked, which is what the second hook looks at. `AgentOverrun` needs
`WithinReach`: the usage of an agent and one response for each of its
transcripts that waits stay within the limit and one response for each of its
transcripts; admission keeps it because a request is admitted within the limit
and adds one waiting transcript, of which there are no more than transcripts.
The assumptions are that transcripts are finitely many, that scouts and recovery
agents are among them, that no agent is a provider, and that thresholds and
limits of policies are numbers.

`EventForwarderProofs` proves for any number of controllers, lines and killed
passes, in both modes:

| theorem | property |
| --- | --- |
| `TypeCorrect` | `TypeOK` |
| `NothingSkippedHolds` | `NothingSkipped` |
| `SentInOrderHolds` | `SentInOrder` |

`Resumable` relates the pending file to the pass and the cursor: what is posted
is pending, and is the line after the cursor or, once the cursor is saved, the
cursor's own. `Delivered` says that an accepted envelope is recorded before the
cursor moves. `Ordered` says that everything sent is behind the cursor or is the
pending envelope, and that the pending or freshly signed one is the last. What a
controller does with a post enters only through `HandlesFacts`: it records
nothing but that envelope and forgets nothing.

`RouterConfigProofs` proves for any policies, sequences, routes, failures, kills
and edits:

| theorem | property |
| --- | --- |
| `TypeCorrect` | `TypeOK` |
| `EditsKeptHolds` | `EditsKept` |
| `RolledBackHolds` | `RolledBack` |
| `CommittedIsVerified` | `CommittedVerified` |
| `NeverBackHolds` | `NeverBack` |
| `DecidedFirstHolds` | `DecidedFirst` |
| `RouteIsServedHolds` | `RouteIsServed` |

`TypeOK` is proved together with `EditsKept`, `Asks` (the receiver applies
policies, the pipeline routes) and `Loaded` (under the lock the backup is what was
found, with every edit so far), for each needs the others. `Undoable` says what
an apply must know at each step to undo what it did; its other half is that
nobody else touches file or runtime while one program holds the lock.
`Receiving` says that what the receiver is applying is later than its last known
good policy and verified once it is done. `AllDecided` covers the file, what is
found under the lock and what is being applied, and so what a rollback brings
back. The assumptions are those `RouterConfig` names: sequences are numbers,
policies, routes and the initial region differ, and so do the two programs.

The components of `edge` are proved about one by one, each for every value of its
constants:

| module | theorem | property |
| --- | --- | --- |
| `NativeSelectionProofs` | `SelectionTypes` | `SelectionTypeOK` |
| | `FirstRungs` | `FirstRung` |
| | `UnmanagedRolesKept` | `UnmanagedKept` |
| | `ReceiptsTrue` | `ReceiptTrue` |
| | `ChainsComeFirst` | `ChainsFirst` |
| `HostProofs`, the agent | `AgentTypes` | `AgentTypeOK` |
| | `SequencesOnce` | `SequenceOnce` |
| | `ReportsWhole` | `WholeTruth` |
| | `LaggingWaits` | `LaggingBacksOff` |
| `HostProofs`, the operator | `OperatorTypes` | `OperatorTypeOK` |
| | `SequencesUnique` | `SequencesGrow` |
| | `ReceiptsCount` | `AppliedIsAccepted` |
| `HostProofs`, the stores | `TrustTypes` | `TrustTypeOK` |
| | `RevocationHolds` | `WithdrawnForGood` |
| | `InstalledForward` | `NeverInstalledBack` |
| | `DurableHolds` | `NeverUndone` |
| `EdgeProofs`, the routes | `SplitIsFair` | what `Split` returns |
| | `RoutesTypes` | `RoutesTypeOK` |
| | `SharesCapacity` | `CapacityShared` |
| `EdgeProofs`, the runway | `RunwayTypes` | `RunwayTypeOK` |
| | `ServesCurrent` | `ServedIsCurrent` |
| | `AlarmsPersistOnce` | `AlarmsOnce` |
| `EdgeProofs`, together | `EdgeIsEveryPart` | `EdgeSpec` implies the specification of each |
| | `EdgeTypes` | `EdgeTypeOK` |

What is computed from lists and sets is proved by induction. The library's
induction theorems take an operator, which no prover here can instantiate, so
`FoldInduction` starts from the well-founded induction of the library, whose
parameter is a set, and shows once what a fold of the community modules is: its
value on the empty set (`FoldUnfolds`), on a sequence with one more element
(`FoldAppend`), that a fold over a set may take any element last when the
operation commutes (`FoldAny`), that it depends on the values alone (`FoldSame`),
and that it keeps what every step keeps (`FoldKept`). A module of proofs takes
one instance for each fold of the model (the best reading, the filter of a list, a
sum, the unseen rows) and never opens the definition again.

* Selection: `Judges` says that a candidate is eligible exactly when it is
  qualified and the freshest readings of its account do not speak against it; it
  rests on what `Index` returns for any list of readings, by induction over the
  list. The other three leave the engine unopened and only use that a
  plan repeats what it found of a role it does not manage. `Shape` gives, at each
  place, the keys still to come and their order; `OthersKept` says that without an
  edit all that was read or written agrees on the roles the policy does not
  manage. `ReceiptKept` goes key by key: whatever was read, written, read back or
  restored, and not edited since, holds what the run believes it holds, so that
  the receipt is true once no key is left. `OrderKept` says, for each place, that
  either the old roles or the new chains are there, with the chains first among
  the writes and last among the restores.
* Agent: `ReportsKept` bounds what was signed by the file. `BackOffKept` adds to
  the property the controllers already posted to in the round under way, and
  that a controller without a failure is not waited for. `ReportKept` says that
  the memory names exactly the engines that answered: it is replaced only by a
  report that is not empty, and each report repeats it.
* Operator: `NumbersKept` says that who holds the lock has read the counter as
  it is. `CountKept` says that a run has counted at most as many of its posts as
  went to a controller that now holds its envelope, whether that controller took
  it at this post or earlier; controllers forget nothing, so the receipt
  stays true.
* Trust: `KeysKept` says that a withdrawn key is known and revoked in memory and
  in the file; that it is known is what keeps a replacement from taking its id.
  `WindowKept` says that what was installed, or is about to be, is in the replay
  window, whose file is never behind the memory.
* Routes: `SplitIsFair` is the method of the largest remainders. The slots left
  over are the sum of the remainders divided by the total weight, hence fewer than
  the routes; the ranks of a strict order count exactly the first of them, so they
  are all given; and a share is off by a remainder or its complement, each less
  than the total. `RegionRendered` is the invariant: a region is what `Rendered`
  makes of the engines and routes of that moment, which no later step changes.
* Runway: `MemoryKept` is what the loop remembers of the rows. `Remembers`: its
  records are the readings it has seen, in the order of their first rows, and
  nothing unseen comes before something seen; `Tallied`: for any set of spend
  events, what it holds of them is the amount of the usage rows already read and
  of the receipts already seen, each receipt once. A load of any number of rows
  keeps both, and leaves nothing unseen, so the totals of an evaluation are those
  of the rows and its best record is the preferred row. `AlarmsKept` says that
  while the breaker is closed the durable alarms of this life are exactly known to
  the loop: every one is persisted or a reported invalid event, and every
  persisted one is durable. That is what the breaker is for: after a failure it
  is not so, and the loop evaluates no more.
* Together: a step of one component leaves the variables of the others alone, so
  what is proved of a component alone holds of the instance that `edge` checks.

The assumptions are those the modules name: `Policy` is a policy and there are
situations (`PolicyAssumption`) with a clock and readings, none of which is the
value for no reading (`SituationsAssumption`), collectors are a sequence of engines
and there is a controller (`AgentAssumption`), the controllers of an operator are finitely many and there
is a payload (`OperatorAssumption`), offered envelopes have a key and a sequence
(`TrustAssumption`), weights are positive, slots taken or reserved are no more than there are
(`RoutesAssumption`, as the domain models validate), rows have the fields the
controller validates (`RunwayAssumption`), and values that stand for nothing are
not data.

Only model-checked: `CallsEnd`, `AllForwarded` and `Converges`, for liveness under
fairness is outside what the prover does. Every invariant and action property of
a passing run is a theorem.

An earlier version of `replication` checked that an operation answered as done
has one generation in both stores. Its proof failed for a good reason: the
property is false, and held only by the bound on replication sequences. After
two tries that were given up and whose aborts are late, the standby still has the
preparation of the first, accepts it again by its fingerprint, and a retry is
answered with one generation here and an older one there. `ComparedAndSwapped`
is what the code does keep, and the only thing a client can ask for: both stores
apply an operation at a generation it allowed. See the hazard at
`prepare_replication`.

## 6. What the checks found

* `operation_binding`: THEORY.MD says an operation id binds to one envelope.
  Commits are matched by id alone, so after a late abort and a late prepare the
  two stores can hold different envelopes under one id, and the client of one is
  told it is replicated.
* `outbox_recovery`: THEORY.MD says a failed remote commit leaves an outbox
  record for restart recovery. If a late abort removed the preparation, the
  failed commit has moved the peer's window past the stored envelope, and every
  recovery is refused as stale.
* `forwarder_observe_retry`: an envelope recorded by observe-only controllers
  whose answers were lost is refused as a replay on every retry; the log waits
  behind it for good.
* `budget_switch`: a transcript's tokens are charged to the provider of the
  request that opened its budget, and measured against the provider of the
  request at hand. After a fallback to another provider that one's limit blocks
  nothing.
* `resume_while_recovering`: a transcript resumed while its recovery agent runs
  has its budget closed when that agent ends; it is then refused although it is
  not parked.
* `router_retry`: THEORY.MD says a failure restores both disk and runtime state.
  After a kill between the replacement of the file and the restart, a retry that
  fails restores the half-applied file and restarts LiteLLM on it.

Seen while modelling and kept in the models as the code has it. The first
contradicts a document; it takes one call of a pure function to see and has no run
of its own, and `FirstRung` promises only what the code keeps, the primary:

* selection: a role without an eligible rung is blocked, and THEORY.MD says the
  selector "leaves blocked roles on their last-known-good configuration"
  (`THEORY.MD:74`). The code keeps its primary, but replaces its fallback chain by
  one computed from its rungs (`PlanChains`), on purpose by its own comment
  (`selection/engine.py:285`).

The others are contradicted by no document:

* selection: a chain does not ask whether a qualification has expired; an `OSError` of
  the command ends `modelctl-omp` in the middle of an apply, without rollback or
  receipt; an edit between its read and its write is lost; a reading dated in the
  future counts as fresh;
* runway: one failure of the store opens the breaker until a restart, and what was
  served last is served on; the alarms of the rows are emitted again after a
  restart; that an account is silent is said once in a life;
* agent: an engine that reports more requests than the default slots ends the
  agent, and a half-written line of the log ends it at each start; the figures of
  an engine that was never reached since the start are missing from the report;
* operator: a policy that was delivered is recorded as failed when its receipt
  cannot be written or its answers are lost;
* trust: a restart between the replay file and the policy file spends the
  envelope without its policy.

## 7. Not modelled

What is left, and why:

* `PolicyCache` of the extension: its operations are serialized within one
  process and write before they adopt, as `PolicyTrust` does with three files.
  What would differ (a cached policy that expired, two editors with one
  temporary file) is listed as a hazard. It is the next module to write;
  `OMPExtension` takes policies as they come out of it.
* The quota collector client: it takes a sequence as the agent does, without the
  memory of the agent, and posts without a back off.
* Contracts, judges and canary thresholds: comparisons over values, which decide
  between the outcomes that `RouterConfig` leaves free.
* Observe-only mode outside the forwarder: it reports and changes nothing.
* A line of the event log that is read while it is written: a strict prefix of a
  JSON object does not parse, so only a missing newline matters.
* Programs of which one is started at a time run once in the models: the
  forwarder, the receiver, the agent.
* The dashboard (renders a snapshot), the parsing of collectors' answers,
  configuration loading, field validators and the privacy scan have no state of
  their own.
