# Verification of mesh-llm

mesh-llm pools machines into a mesh that serves language models.  A model too
large for one machine is *split*: its layers are cut into stages, every stage
is run by another node, and one of the nodes coordinates.  A node drains, replaces
and unloads the model instances it serves while requests run on them, and a
worker thread batches those requests through the model.  Nodes may ask to be
paid for what they serve, and pay each other from Lightning wallets.  This
directory holds TLA+ models of the code that coordinates splits, of the life of
a model instance, of the scheduler of a stage server and of the code that pays,
TLC configurations that check them on small instances, and theorems checked by
TLAPS for every instance.  Paths below are relative to the root of the
repository; `HR` stands for `crates/mesh-llm-host-runtime/src`, `SF` for
`crates/skippy-server/src/frontend`.

To run a check: `tlc -config MCStageControl.cfg MCStageControl`; to check the
proofs: `tlapm` with `Sums.tla` or one of the `...Proofs.tla` (a module is
proved on its own; `SchedulerProofs` and `SplitCoordinationProofs` take some
minutes each).


## 1. The system

### Parts, their state and how they interact

**Coordinator fence** (`crates/skippy-coordinator/src/lib.rs`).  State: a map
from a model (`ClaimKey`: model id, package, manifest) to the last claim
accepted for it.  Operations: `accept_claim` (refuses older terms, and another
epoch of the same term), `validate_load` (a load must speak for the claim held,
within its lease), `quorum_requirement` (half of the stages plus one).  Correct
when it never goes back to an older term, and never lets two epochs share one.

**Stage control loop** (`HR/inference/skippy/stage/mod.rs`).  Every node runs
one task that owns the fence, the binary stages running on the node and, while
a load is worked on, a readiness probe.  It takes one request at a time from a
channel: `Claim` (accept, then shut the superseded stages down), `Load`
(validate, resolve the source, clear the stage key, resolve the package, start
the stage server, probe it), `Stop` (by term and generation), `Status`,
`Inventory`.  Everything is in memory.  Hard: a load has many awaits and lasts
minutes; requests arrive late, twice, and from rival coordinators; stage
servers die on their own; a process restarts with an empty fence.  Correct when
the stages that run on a node belong to the claim it holds, one per model.

**Stage control transport** (`HR/mesh/stage_transport.rs`,
`HR/mesh/stage_artifacts.rs`).  Requests to other nodes go over a QUIC stream
with a timeout per kind of request; requests to the own node through a channel.
A lock (`stage_control_tx`) serialises validation, artifact resolution and
execution.  A request that timed out is not cancelled on the node it reached.

**Split coordination** (`HR/runtime/local_split.rs` and its directory).  The
node that hosts stage 0 claims its planned stages, loads them from the last to
the first, opens stage 0 in its own process and publishes the *generation* to
the runtime loop.  A task then watches the stages: it replans when a better
topology is available, replaces the generation when stages are lost, falls back
to a local model, or withdraws.  State: the active generation, the candidate in
hand, the nodes that failed, back-offs.  Hard: claims of a candidate shut the
active generation's stages on shared nodes; calls time out with their effect
unknown; the task is aborted at any await when the model is unloaded; two nodes
may both think they coordinate.  Correct when no stage runs without a majority
behind it, nothing routed is undermined by its own coordinator, no stage is
left behind, and a broken split is always left.

**Runtime loop of a split model** (`HR/runtime/startup_handles/startup_loop.rs`).
Owns the serving handle and the route (the local target).  It handles
`Replace`, `LocalFallback`, `Withdraw` and `Drain` events of the coordinator
task, each with an acknowledgement, and the request to unload.

**Instance lifecycle and drain** (`HR/runtime/instance_lifecycle.rs`,
`HR/runtime/model_lifecycle/*`, `HR/mesh/node.rs`).  A record per model instance
with its state (loading, serving, draining, ...), its drain deadline and the
number of requests in flight; a registry of records by port, asked by the
router before it connects (`begin_runtime_instance_request`); the routes; the
servers.  Two owners drive it: the task of a model started with the node, and
the run loop for models loaded at run time.  Hard: a request reads the route,
asks the record and connects in three steps, while a cutover moves the route,
re-arms the record and registers it for another port in three steps of its own,
an unload drains the record it will abort the owner of, and a drain waits for
requests that may never end.  Correct when routes lead to open servers behind the
record that counts, a drained instance stays empty, a drain ends, and an owner
that ends leaves nothing.

**Topology planner** (`crates/skippy-coordinator/src/topology*`,
`crates/skippy-topology`).  Pure: places layers on nodes within their memory.
Correct when every layer is placed once and no node is over its budget.

**Batch scheduler** (`crates/skippy-scheduler`).  Sequences wait, are admitted
when a lane is free and their KV reservation fits, and are planned into
iterations of prefill and decode rows, apart or mixed.  State: the two queues,
per sequence its tokens and its cursor, the memory in use, the measured
durations.  Correct when memory is released once and exactly, and what is
planned continues what was evaluated.

**Iteration scheduler** (`SF/iteration_scheduler.rs`).  One worker thread owns
the runtime; request threads send it commands through a bounded queue that
refuses when it is full, and get tokens through a channel each.  A plain request
is generated by the worker alone; a request with cache or hooks has its prompt
evaluated by a *direct iteration* and then hands the generation over.  Hard:
cancellations and stops arrive at any time, cursors move before the batch runs,
batches fail in the middle, the worker may panic.  Correct when worker, engine
and runtime agree on what exists, no token is lost or evaluated twice, lanes and
memory come back, and everybody who waits is answered.

**Rest of the stage server, caches** (`crates/skippy-server`, `skippy-runtime`,
`skippy-ffi`, `skippy-cache`).  The binary stage transport and its credits,
session checkpoints, speculative decoding; a tiered page cache with pins.

**Payments, buyer's side** (`crates/mesh-llm-payments`).  `ledger.rs` keeps in
SQLite the *requests* (an authorization to spend up to a cap: pending,
approved, then rejected, failed or completed) and their *charges* (an invoice
to pay for the input, another for the output: prepared, pending, then succeeded
or failed).  `service.rs` authorizes requests against the wallet's balance and
a daily budget, submits charges to the wallet under `payment_lock`, waits for
the outcome without it, and records it; a loop comes back every 15 s to charges
that are not settled; an opening service cleans up after a crash.  Hard: a call
to pay may be lost, refused, or carried out with its answer lost; the same
charge is observed by several tasks; the process may end between any two
transactions; invoices expire; a payment settles on another day than it is
recorded.  Correct when money never moves without a reservation, neither cap
nor daily budget is exceeded, and every charge is settled in the end.

**Wallets** (`crates/mesh-llm-wallet`, `mesh-wallet-lexe`).  A provider pays an
invoice, looks a payment up, waits for its end and tells the balance.  Its
contract (`provider.rs`): a repeated `pay` finds the existing payment;
`NotSubmitted` means that this call paid nothing; any other error is uncertain.

**Payments, seller's side** (`ledger/receivables.rs`, `serving.rs`,
`HR/network/payments`).  Invoices issued, output delivered against debt, a gate
that pauses decoding until the input is paid.  Correct when what was delivered
and not paid blocks the peer, and never otherwise.

**Runtime capacity and model reconciliation** (`HR/runtime/capacity.rs`,
`model_reconciliation*`, `control_loop.rs`, `config_state.rs`).  Memory
reservations of concurrent loads; the loaded models follow the desired ones;
config revisions.

**Mesh membership, connections and routing** (`HR/mesh`, `HR/network`,
`crates/mesh-llm-protocol`, `mesh-client`, `mesh-llm-routing`,
`openai-frontend`).  Gossip of peers, heartbeats, connection reservation,
choice of a target for a request and its reservation.

**The rest**: mixture of agents and guardrails, logging and events, plugins,
configuration and identity, model files and packages, user interfaces and
SDKs, benchmarks.  `PROJECT.json` lists them all with the reason why they are
not modelled.

### How the parts modelled here interact

The split:

    coordinator task ---- Claim / Load / Stop ----> stage control loop of a node
          |     ^                (timeouts, late handling)      |
          |     '--- health tick: status, peers, losses --------'
          | Replace / LocalFallback / Withdraw + acknowledgement
          v
    runtime loop: route to stage 0      <---- unload (aborts the coordinator)

A model instance on its node:

    coordinator --- Drain / Replace / LocalFallback / Withdraw --> task of the model
                                                        |              |
    run loop --- load, unload: drain, stop, abort ------|              |
                                                        v              v
    request --> route --> record of the port (let in, counted) --> server

Requests in the server:

    request thread -- submit / direct / cancel / drop --> command queue
          ^                                                   |
          '-- tokens, verdict, replies -- worker <------------'
                                        |        |
                             batch scheduler   runtime (lanes, sessions)

The buyer's payments:

    request task: authorize, prepare, settle, finish     recovery loop
          |                  |                                |
          |                  '------- payment_lock -----------'
          v                               |
    ledger (one transaction a step)       | lookup / pay / wait
          ^                               v
          '------- reconcile ---------- wallet ---> Lightning


## 2. Modules

| Module | Models | Extends |
| --- | --- | --- |
| `ClaimFence` | the pure rules of `skippy-coordinator/src/lib.rs` | |
| `StageControl` | the stage control loop of all nodes | `ClaimFence` |
| `FencedSlot` | abstract: what a node promises coordinators | |
| `StageControlProofs` | inductive invariant, safety theorems | `StageControl` |
| `FencedSlotProofs` | claims only advance; `StageControl` implements `FencedSlot` | `StageControlProofs` |
| `SplitCoordination` | coordinators, runtime loops, calls, faults | `StageControl` |
| `SplitCoordinationProofs` | it is `StageControl` with more state; five invariants, safety theorems | `SplitCoordination`, `FencedSlotProofs` |
| `InstanceAdmission` | records, registrations, routes, servers and requests of a node | |
| `InstanceLifecycle` | the owners of instances: task, coordinator, run loop | `InstanceAdmission` |
| `InstanceLifecycleProofs` | inductive invariant, safety theorems | `InstanceLifecycle` |
| `BatchScheduler` | the engine: admission, plans, completion | |
| `IterationScheduler` | the worker, its commands, the request threads | `BatchScheduler` |
| `SchedulerProofs` | inductive invariant, safety theorems | `IterationScheduler`, `Sums` |
| `Sums` | lemmas on sums over finite sets, by induction | |
| `PaymentLedger` | the transactions on requests and charges | |
| `PaymentService` | authorization, submission, recovery, crashes, the wallet | `PaymentLedger` |
| `PaymentMandate` | abstract: what the service promises whoever pays | |
| `PaymentProofs` | inductive invariants: money in motion is reserved; caps, budget, types | `PaymentService`, `Sums` |
| `PaymentMandateProofs` | `PaymentService` implements `PaymentMandate` | `PaymentProofs` |
| `MCStageControl`, `MCSplitCoordination`, `MCInstanceLifecycle`, `MCIterationScheduler`, `MCPaymentService` | the instances TLC checks | |

### ClaimFence

An *attempt* of a coordinator to run a split is a record: run, model (`key`),
coordinator, plan, term, lease, generation number.  Claims, loads and stops
carry the fields of an attempt, so a message is modelled by the attempt it
speaks for.  `topology_id` and `run_id` are one field: the code derives the one
from the other.  `participant_set_hash` and `topology_hash` are one field,
`plan`, compared for equality.  A fence is the set of values of the code's map.
Rejections are kept apart only as far as the caller does: it looks at whether a
claim was accepted.  Identifiers and hashes sent by the code are never empty,
which leaves term and lease of `validate_claim_shape`.

### StageControl

`claims[n]`, `stages[n]`, `loading[n]` are the state of the loop of node `n`,
`clock[n]` is its wall clock.  One action per outcome of a handler:

| Code | Actions |
| --- | --- |
| `StageControlState::claim`, `fence_stale_runtime_for_claim` | `ClaimAccepted`, `ClaimFenceFailed`, `ClaimRejected` |
| `load`, up to validation | `LoadAuthorized`, `LoadRejected` |
| `load`, each following await | `LoadSourceFailed`, `LoadClearsKey`, `LoadClearFailed`, `LoadPackageFailed`, `LoadStarted`, `LoadReady`, `LoadProbeFailed` |
| `stop` | `StopApplied`, `StopIgnored` |
| a stage server ends with an error | `StageDies` |
| the process ends and starts again | `NodeRestarts` |

A load is split at the awaits after which something else may have happened:
the clock went on, a stage died, the process ended.  Other requests wait
(`Idle`), because the loop takes one at a time.  In `StageSpec` every claim,
load and stop may arrive at any node at any time and any number of times, which
covers loss, delay, duplication and reordering, and coordinators that follow no
protocol at all.  `ClaimFenceFailed` is the case of `shutdown().await?`
returning early: the claim is already installed, the stages after the failed
one stay.  (It does no harm, and that is `OneStagePerKey`: there is never a
second stage of the model.)

The load is validated twice in the code, once before the lock is used for
resolving the artifact and once in `load` itself; one validation is modelled,
the later one, since nothing else is handled between them.  Unfenced loads
(term 0) are not modelled: no code outside tests builds them.

### FencedSlot

The promise of a node, without leases, loads and failures: a slot per model,
`owner` and `working`.  `Grant` hands the slot to a newer term and stops what
worked there; only the owner may `Work`; `Forget` is a restart.  `StageControl`
instantiates it with the epochs of the claims and of the running stages.

### SplitCoordination

Composes the control loops with coordinators.  Every coordinator is a node and
stage 0 of its plans.

| Variable | Code |
| --- | --- |
| `job[c]` | where the coordinator task is: in `claim_split_coordinator_lease`, `load_downstream_split_runtime_stages`, opening stage 0, waiting for the runtime loop, `stop_split_generation`; `then` is what its caller does with a failure |
| `active[c]` | `SplitTopologyCoordinator::active` |
| `route[c]` | the target the runtime loop registered |
| `meters` | the process-wide `STAGE0_COMPUTE_METERS` |
| `late` | requests whose caller gave up or was aborted, still on their way |
| `made`, `grants`, `forsaken` | history |

A coordinator has one request outstanding, and does nothing until it is
answered; so what the node does and what the coordinator makes of the answer
are one step.  `CallTimesOut` is the timeout: the coordinator takes it for a
failure, the request goes to `late` and may be handled at any later time or
never.  The claims go to all planned nodes, whatever the first ones answer; a
majority that is not reached releases nothing.  A load that fails stops the
attempt's stages (`Stopping`), with its own number.  `Publishes` is the
`Replace` event and the clean-up of the previous generation.  `LeavesActive` is
the withdrawal or the local fallback.  `ModelStops` is unloading: the task is
aborted wherever it is, the published generation is stopped.

Two branches are not in the model because no state reaches them: the runtime
loop refusing a candidate (its receiver is dropped only after the task was
aborted) and a `Replace` without a handle.

A planned candidate is chosen freely from the attempts that the code's
conditions admit (coordinator, next generation number, avoidance of the lost
nodes, term and lease from the clock); the planner's scoring is data.  The
waiting times (health tick, grace period before withdrawing, back-offs) are
dropped: an enabled step may come at any later time.  A locked topology only
takes behaviours away.

### InstanceAdmission

`record[i]` is the `InstanceLifecycleRecord` of an instance, `registered[p]`
the map of records by port, `route` the local targets, `server[p]` the HTTP
server of a handle: open, closing (no new connection, those there are served to
their end) or off.  A request goes through `IsRouted`, `IsAdmitted`, `Connects`
and `IsAnswered`; a port without a record lets everybody in, uncounted, as the
code does.  `count` is the record whose counter holds the request's guard:
re-arming a record creates a fresh counter (`reset_startup_lifecycle`), and the
guards of before count on one nobody reads (`Uncounted`).  A deadline is ahead
or passed; `DeadlinePasses` is the clock.

The server is modelled from its use: `EmbeddedServerHandle::shutdown` waits
for all connections without a limit, and dropping a `SkippyModelHandle` ends
it with its connections cut (`CutAt`).  A port is given out again only when no
route, registration, slot or request names it (`Free`).

### InstanceLifecycle

One managed instance (its task and its coordinator) and one loaded at run time.

| Code | Actions |
| --- | --- |
| `startup_local_model_loop`, `startup_publish_loaded_runtime` | `Launches`, `LaunchFails` |
| `startup_handle_drain_event` | `Drains` |
| `startup_handle_replace_event`, at its awaits | `CutsOver`, `RegistersReplacement`, `RetiresReplaced` |
| `startup_handle_local_fallback_event`, at its awaits | `FallsBack`, `SplitIsShut`, `FallbackFails`, `FallbackRegisters` |
| `startup_shutdown_local_model_loop`, `startup_resolve_loop_outcome` | `Shuts`, `Closes` |
| `drain_serving_generation`, `await_drain_ack` | `AsksDrain`, `AckTimesOut`, `Drained` |
| `cut_over_to_boundaries`, `load_and_publish_candidate`, `request_local_fallback` | `Replans`, `LoadsCandidate`, `SendsReplace`, `CandidateFails`, `LosesStages`, `CoordinatorIsAlone` |
| `finish_runtime_model_load` | `LoadsRuntime`, `RegistersRuntime` |
| `run_auto_unload_runtime_entry` | `UnloadsRuntime`, `ShutsRuntime`, `ClosesRuntime` |
| `run_auto_unload_runtime_model`, `await_managed_model_stop` | `UnloadsManaged`, `StopsManaged`, `AbortsManaged`, `UnloadedManaged` |

Stages on other nodes are the matter of `SplitCoordination`; here a candidate
is the port of its stage 0.  `AbortsManaged` may come wherever the task is.

### BatchScheduler

A sequence is its number of generated tokens and its cursor.  `PlanIteration`
is `plan_iteration`: admission, then the rows, with the cursors moved past them
at once.  `Plan` is a mixed plan or one of a phase.  `Removed` is every way a
sequence leaves (`cancel`, and the terminal ones of `complete_iteration`).
Durations only decide whether a mixed step was too slow (`viable`), which may
turn out either way once its decode rows have been measured.  The order of
admission (affinity, age, shared prefixes) is any order; the budget has a row
for every lane (`BudgetAssumption`: `n_batch` against the lane count).
`Reservation` is what `submit` asks for: the prompt and `max_tokens`, the latter
only up to `Headroom` (`DECODE_BATCH_HEADROOM_TOKENS`).  A sequence that
generates for longer uses cells it did not reserve, as in the instance TLC
checks; `MemoryHeld` is about what is reserved.

### IterationScheduler

| Variable | Code |
| --- | --- |
| `commands` | the bounded channel; `try_send` refuses on a full one |
| `requests`, `configured` | `SchedulerWorker::requests` and `runtime_configured` |
| `stopped` | requests with a Stop, or a dropped acknowledgement, among their `pending_controls` |
| `direct`, `batch`, `plan` | direct iterations queued and running; the planned rows |
| `sessions` | runtime sessions, one per lane, and the tokens each has evaluated |
| `pc`, `inbox`, `verdict`, `reply`, `taken` | the request threads and what is in their channels |

| Code | Actions |
| --- | --- |
| `generate`, `execute_iteration` | `Begin` |
| `run_scheduler_feature_loop`, `resume_generation` | `Resume`, `PrefillFails` |
| `drive_generation_events` | `TakeToken`, `Abandon`, `TakeVerdict` |
| `cleanup_local_generation_session` | `Cleanup` |
| `handle_command` with `submit`, `cancel` | `Handle` |
| `apply_pending_controls` | `ApplyControls` |
| `run_iteration` to the plan, `take_direct_iteration_batch` | `TakePlan`, `TakeDirect` |
| `prepare_runtime_sessions` and `fail_request` | `Setup` |
| `execute_plan`, `finish_iteration`, `fail_all` | `Run` |
| `run_direct_iteration_batch` | `RunDirect` |
| `run` after a panic, `fail_queued`, the end of the thread | `Panic`, `FailQueued`, `WorkerGone` |

Request threads run between any two of these; a step of the worker is what it
does without looking at them.  The queue is drained before a turn;
a command that the bound on commands per turn would leave in it is, to the
worker, one that was sent a little later.  A feature request is a request
whose prompt fits one direct iteration and whose generation is handed over;
its session stays when the worker is done with it (`retain_runtime`), and its
thread releases it.  `Faults` names what may go wrong: a set-up, a batch
(which may have evaluated some of its rows), a missing sample, a panic.

### PaymentLedger

`requests[r]` and `charges[i]` are the rows of the two tables; a charge's row
is that of its payment hash, and an invoice stands for its hash.  The terms of
a request (cap, invoice, whether it is an operator's send) do not change and
are a constant.  One action per function of `ledger.rs`, whole transactions:
every action that may end a charge finalizes (`finalize_terminal_requests`) in
the same transaction, as the code does.  The stand-alone
`finalize_terminal_requests` is two statements outside a transaction; the first
finds nothing to do in any state these transactions leave, so it is one step.
The policy is `Automatic` with one daily budget, and is not changed; under the
other policy a send is approved without a budget.

### PaymentService

| Variable | Code |
| --- | --- |
| `phase` | how far `with_factory` got, or `up` |
| `visit` | the call of `start_or_observe_charge` that holds `payment_lock`, and the await it is at; `first` when it found the charge prepared |
| `answers` | terminal payments that some task knows and has not recorded |
| `quotes[r]` | the balance read for the authorization of `r` |
| `wire` | calls to `pay` the wallet has not taken up |
| `payments` | the wallet's records |
| `expired`, `today` | the clock, as far as the code compares it |

| Code | Actions |
| --- | --- |
| `prefetch_balance`, `await_authorization_with`, `approve` | `ReadsBalance`, `Proposes`, `Approves` |
| `cancel`, `reject` in `send_invoice`, `finish`, `pay_charge` after a refused charge | `Cancels`, `Finishes`, `RevokesAuthorization` |
| `pay_charge` | `PreparesCharge` |
| `start_or_observe_charge`, split at its awaits | `Enters`, `StartsSubmission`, `LooksUp`, `LookupFails`, `EvaluatesMiss`, `Pays`, `PayReturns`, `PayUncertain`, `PayRefused` |
| `wait_for_payment` in `settle_charge`, `lookup` in `send_invoice` | `WaitReturns` |
| `reconcile` by whoever knows the payment | `Reconciles` |
| `with_factory`, `reconcile_pending` | `Opens`, `Finalizes` |
| the end of the process | `Crashes` |

The lock is not held when an outcome is recorded, and several tasks may know
the same outcome, also one that another task has recorded since: an answer
stays until a crash.  The tasks of a request and the recovery loop are not told
apart: either may do any of these steps at any time, so that any order the
callers could produce is among the behaviours, and some they do not produce.

The wallet is an environment that keeps its contract: an invoice is paid at
most once, for the amount asked to the limit of the call; an expired invoice
starts no payment; lookups are authoritative, as `provider.rs` demands.  A call
that was sent stays in `wire` until the wallet takes it up or drops it, whether
or not the service still waits.  Only `NotSubmitted` in answer to the first
call takes the call off the wire.  Funds change by payments of this service
only.  `approve` compares with the balance its caller read before, which a
payment made, recorded and released in between has lowered (`ledger.rs:228`):
two requests may be approved against the same balance, the second with more
than the wallet holds.  The model has this behaviour and no property forbids
it: the wallet then refuses the later payment.

`LookupsLinger` says whether an invoice may expire between a lookup and its
evaluation.  If so, a charge may fail whose payment is under way (run
`payment_expiry`); the other safety properties are about what holds without
that race, so they are checked, and the theorems but that on types proved, with
it FALSE.

### PaymentMandate

The promise: money moves under an open mandate; an invoice is paid once, for
one mandate; a mandate closes only when nothing moves under it.  A mandate is
an approved request, and `moving` is what is on the wire, pending at the
wallet, or paid and not yet recorded.

### Plan

Done in this order, because everything served by a split rests on the fence:
`ClaimFence`, `StageControl`, `FencedSlot`, proofs, `SplitCoordination`; then
the buyer's payments, where mistakes cost money: `PaymentLedger`,
`PaymentService`, `PaymentMandate`, and their proofs; then what every request
goes through: `InstanceAdmission`, `InstanceLifecycle`, `BatchScheduler`,
`IterationScheduler`, and their proofs.  With `SplitCoordinationProofs` and
`Sums` every invariant a run checks is stated by a theorem.  Next:

1. An abstract specification of the scheduler (a request is accepted, gets its
   tokens in order, and ends once), and its refinement on the invariant of
   `SchedulerProofs`.
2. An abstract specification of a routed instance, refined by
   `InstanceLifecycle`.
3. `Receivables`: the seller's invoices, delivered output, debt and the gate,
   composed with the buyer's payments.
4. The cache runtime queue of the worker (waves, aging), and `CachePins`.
5. `RuntimeCapacity` and `ModelReconciliation`: reservations of concurrent
   loads; convergence under fairness.
6. `MeshMembership`: reservation of a connection, heartbeats and removal, in
   place of the free suspicion of `SplitCoordination`.
7. `TopologyPlan`: the planner as operators, checked over bounded inputs.


## 3. What is checked

### Runs that pass

| Run | Instance | Shows |
| --- | --- | --- |
| `stage_control` (`MCStageControl.cfg`) | one node, two coordinators, two models, five attempts: a lease and its renewal, an older, a newer and an equal term of a rival; clock up to 2 | `StagesBelongToClaim`, `OneStagePerKey`, `ClaimNeverGoesBack`, refinement of `FencedSlot`; no deadlock |
| `split_rivals` (`MCSplitCoordination.cfg`) | three nodes, two of them coordinators: a split over two nodes, its successor over three, and a rival whose term lies in between; timeouts, false suspicion, deaths, restarts, unloading | `QuorumBeforeStage`, `RouteBackedByStages`, `StageHasKeeper`, `MeterFollowsGeneration` |
| `split_recovery` (`MCSplitRecovery.cfg`) | one coordinator with a successor over more nodes and one that avoids a lost node, model fits locally; timeouts, deaths, restarts; fairness | `LostRouteIsLeft`, `StageHasKeeper` |
| `split_leases` (`MCSplitLeases.cfg`) | one coordinator, one stage node, attempts begun at times 0 and 1, clocks up to 2 and independent; timeouts, suspicion, restarts | `RouteBackedByStages`, `StageHasKeeper` while leases end before a claim, between claim and load, and during a load |
| `instance_lifecycle` (`MCInstanceLifecycle.cfg`) | a managed and a runtime-loaded instance, three ports, one request made again and again that may never end; drains, cutovers, fallbacks, withdrawals, unloads forced and not, aborts; fairness | `RouteIsGuarded`, `EndLeavesNothing`, `RunsOnServer`, `DrainHolds`, `DrainResumes`, `ManagedUnloadEnds` |
| `scheduler` (`MCIterationScheduler.cfg`) | two plain requests and one feature request, two permits, two lanes, four KV cells, a decode headroom of one, a waiting queue of one, a command queue of two, up to three tokens each; all faults; fairness | `Tracked`, `MemoryHeld`, `ContextIsWhole`, `SessionStays`, `TokensReachTheirRequest`, `LanesComeBack`, `Answered` |
| `payment_charges` (`MCPaymentCharges.cfg`) | one request of cap 4 with an input charge and two rival output charges of limits 2, 2 and 3; a crash | `MotionIsReserved`, `PaidWithinCap`, refinement of `PaymentMandate` |
| `payment_budget` (`MCPaymentBudget.cfg`) | an inference request and a send, each within the daily budget and both together not; two days, a crash | `DailyBudgetHeld` |
| `payment_settlement` (`MCPaymentSettlement.cfg`) | one request, input and output, a crash, lookups that linger; fairness | `ChargesSettle` |

Why the bounds are enough: the split.  Nodes do not share state, and a node's handlers see
attempts only through comparisons of their fields: one node and attempts that
differ in each field, with terms below, equal and above, produce every case of
`accept_claim` and `validate_load`.  `MaxTime = 2` lets a lease of 1 be valid,
end exactly now, and be over while a lease of 3 still runs, so that an older
term can ask for a model whose holder has expired.  In the split runs
three nodes are the least where plans of two and three stages share some nodes
and not others, so that a majority need not be everybody (2 of 3); the rival's
term lies between those of the other coordinator, so each fences the other.
Attempts are made once each; their number bounds the run, and with it all
states.  Clocks stand still (`MaxTime = 0`) in `split_rivals` and
`split_recovery`: a refused expired claim or load looks to the coordinator like
any other refusal; leases are the matter of `stage_control` and `split_leases`.  Once its attempts are spent a
coordinator rests, hence `CHECK_DEADLOCK FALSE` in the split runs.

Why the bounds are enough: payments.  Requests touch each other only through
the balance, the budget and the lock, charges of a request through its cap and
its end: one request with three charges, which can fit the cap in pairs but not
all, and two requests with one charge each, cover both.  Limits exceed amounts
where fees matter.  Two days let an approval, a payment and its record fall on
different days; a budget holds day by day, so a third adds no case.  One crash
may come before, between or after any two transactions, also those of the
start; a second start finds what a first one left, which its own transactions
treat as they treat what a run left.  When all is settled nothing is left to
do, hence `CHECK_DEADLOCK FALSE`.

Why the bounds are enough: the instance.  Three ports are the old handle, the
new one of a cutover and the runtime-loaded instance, which is all that is
alive at once.  Requests meet only through the counter of the record, which is
looked at for zero: one request, made again at any port, is there or is not.
A model that is unloaded stays so, hence `CHECK_DEADLOCK FALSE`.

Why the bounds are enough: the scheduler.  Three requests with two permits let
one come while two others run, wait, or have left commands behind.  Each plain
request reserves two cells of four, so both fit; the feature request reserves
three and fits beside neither, so it waits for memory while they wait for
nothing.  A feature request's retained session beside two new ones exhausts two
lanes, at set-up and in a batch.  A waiting queue of one and a command queue of
two fill up.  A chunk of one token in a budget of two makes prompts of two take
several iterations, mixes rows of several requests and runs out of room.  Two
tokens after the first, at least, are needed for a stop to overtake the worker.  Each
request comes once, hence `CHECK_DEADLOCK FALSE`.

Fairness: the split.  `FairSplitSpec` asks weak fairness of what the coordinator's task
does by itself: a call ends, by an answer or by its timeout (every request has
one: 30 s for claims and stops, the load budget for loads); stage 0 opens or
fails to; the runtime loop acknowledges; the health tick comes.  It asks
nothing of the nodes, the network or the planner: no request need ever be
handled, no replacement ever be found.

Fairness: payments.  `FairSpec` asks that an opening goes on, that a visit goes
on (the lookup and `pay` of a provider end, in an answer or an error), that the
recovery loop (`RECOVERY_INTERVAL`, `HR/network/payments/node_ext.rs:22`) comes
back to each unsettled charge and that not all its lookups fail, that what it
learns it records, that payments under way settle, and that time passes until
an invoice expires.  It does not ask that a request's own task goes on, that
`wait_for_payment` returns, or that any call reaches the wallet.  `Enters` and
`LooksUp` need strong fairness: other visits hold the lock in between, and
failed lookups end a visit.

Fairness: the instance.  `FairSpec` asks that the task, the coordinator and the
run loop go on, that deadlines pass, and no more: requests may last for ever,
nobody need drain, replan or unload.  `UnloadStep` needs strong fairness, for
the wait of an unload polls the record every 100 ms, and the record may be
ready only now and then while cutovers re-arm it.

Fairness: the scheduler.  `FairSpec` asks that some thread runs when one can,
the worker's or a request's.  That is all `Answered` needs: no thread can work
for ever while another one waits.  Requests need not come, be abandoned, or
stop, and nothing needs to fail.

### Runs that show a disagreement with the documentation

| Run | What the code does | What is said |
| --- | --- | --- |
| `split_resume` | a candidate that fails after its claims leaves the coordinator with a generation whose shared stages those claims shut down | log text at `coordinator.rs:1085` |
| `payment_expiry` | the clock is read after the lookup it is compared with: a charge is failed for an expired invoice while an earlier submission has landed in between | `service.rs:193` |

`LostRouteIsLeft` is the other side of `split_resume`: the state it shows does
not last.

| Run | What the code does | What the code assumes |
| --- | --- | --- |
| `instance_fallback` | a local fallback registers its handle on the record of the split, which is serving or draining; the task panics and the model is served by nobody | `.expect("managed runtime lifecycle must reach serving from warming")` at `HR/runtime/startup_handles.rs:505` |

Met while modelling, and not the matter of a run.  The models behave as the
code does in each of these, and the properties above are stated so that they
hold nevertheless; where that weakens one, it is said here.

Of the split:

- The lease is compared when a load is validated; its stage may start after the
  lease ended (`crates/skippy-coordinator/README.md:445` says it does not).
- While a replacement is prepared the failed generation stays routed
  (`docs/SKIPPY.md:645,650`); `LostRouteIsLeft` says it does not for ever.
- Unloading while a candidate opens leaves its compute meter registered
  (comment at `coordinator.rs:1289`); `MeterFollowsGeneration` excepts it.

Of the instance:

- The drain deadline does not bound the unloading of a runtime-loaded model:
  the shutdown of its server waits for its requests, and the run loop with it
  (`docs/CLI.md:689`, `docs/USAGE.md:329`, `instance_lifecycle.rs:17`).
  `ManagedUnloadEnds` is about managed models.
- A drain whose coordinator gave up waiting for the acknowledgement refuses all
  requests until the next cutover, if one comes (`local_split.rs:88`).
  `DrainResumes` is about a drain the coordinator was told of.
- A cutover, or the failure of one, re-arms a record that an unload is draining:
  the unload goes on at once, as if forced, before its deadline.
- An unload that aborts the task leaves its route and its registry entry:
  `RouteIsGuarded` and `EndLeavesNothing` except aborted tasks.
- Requests are let in uncounted between a new route and its registration, in a
  cutover and, for longer, in a load at run time (`RouteIsGuarded` names both).
- Requests from before a re-arm are counted by nobody; a later drain does not
  wait for them (it does no harm to them: `RunsOnServer`).

Of the scheduler:

- A panic during a direct batch leaves the batch's callers waiting for ever:
  `fail_all` does not know the batch, and every caller keeps a sender of its own
  channel (`DirectIterationChannel`).  The telemetry says
  `failure_contained: true`, and the test
  `worker_panic_is_contained_and_fails_active_requests` looks at a submitted
  request.  The same happens to a direct iteration sent between the last
  `try_recv` of `fail_queued` and the end of the thread.  After a panic
  `Answered` speaks of generating requests only.
- The command that drops a session is refused by a full queue, and the answer is
  ignored (`SF/local_generation.rs:106`): the lane of a feature request is never
  released.  `LanesComeBack` excepts requests with a refused command.
- A cancellation that is refused, followed by the drop of the session, leaves a
  request whose next iteration opens a new session: with no lane free, the
  batch fails and with it every request (`fail_all`).
- The worker runs ahead of acknowledgements: after a Stop, tokens already
  sent still reach `on_token` and are streamed
  (`SF/generation/streaming.rs`), unlike in the other generation loops
  (`SF/generation_flow.rs:399`).
- A sequence that does not fit may be passed over by smaller ones without end.

### Properties, in words

- `StagesBelongToClaim`: every stage, and the load in progress, is of the epoch
  whose claim the node holds.  It fails as soon as requests are handled while a
  load is suspended.
- `OneStagePerKey`: rival coordinators never share a node for a model.
- `ClaimNeverGoesBack`: not even an expired claim gives way to an older term.
- `QuorumBeforeStage`: a stage runs only if more than half of the planned nodes
  acknowledged the attempt's claim, at some time; a restart may forget that.
- `RouteBackedByStages`: a stage missing behind a route is missing because its
  node changed coordinator or restarted, never because of the route's own
  coordinator, its clean-ups or its late calls.
- `StageHasKeeper`: a running stage is of an attempt someone still has in hand,
  unless a crash, an abort or a timeout left the attempt behind.
- `LostRouteIsLeft`: a route with a missing stage ends.
- `MeterFollowsGeneration`: a published generation has its compute meter, and no
  other generation keeps one, but what an abort left.
- `RouteIsGuarded`: a routed port has an open server, and the record registered
  for it is that of the instance it belongs to: no request slips past the
  counter a drain waits for, but in the gaps named above.
- `EndLeavesNothing`: a task that came to its end, by whatever exit, left no
  route, registration, registry entry or server.
- `RunsOnServer`: a server goes off after its last request, or with it cut.
- `DrainHolds`: between the end of a drain and the cutover nobody comes in.
- `DrainResumes`, `ManagedUnloadEnds`: drains and unloads end though requests
  do not.
- `Tracked`: the worker's requests are the engine's sequences, each once.
- `MemoryHeld`: memory in use is the sum of the active sequences' reservations,
  within the pool and the lanes.
- `ContextIsWhole`: the cursor of a sequence and the tokens its session has
  evaluated are the same, but for the rows planned and not run.
- `SessionStays`: the session of an active request that listens is there.
- `TokensReachTheirRequest`: tokens taken and on their way are tokens generated,
  across the hand-over too.
- `LanesComeBack`: a request that is done occupies no lane.
- `Answered`: who waits for the worker hears an answer, an error or its end.
- `MotionIsReserved`: money that is or may be on its way, or has arrived
  unrecorded, has a pending charge of an approved request.
- `PaidWithinCap`: all the wallet pays for a request, recorded or not, is
  within its cap.
- `DailyBudgetHeld`: what the wallet pays on a day is within the budget,
  whenever it was approved and recorded.
- `MandateKept`: the service refines `PaymentMandate`.
- `ChargesSettle`: a charge does not stay unsettled for ever.

Every property has a mutant in `PROJECT.json`, a plausible slip in one mapped
definition that makes TLC find it violated.  Their operators stand before the
definitions they replace, marked `Mutant`.


## 4. What is proved

Every invariant of the runs that pass, the action property and the two
refinements, for every value of the constants:

| Theorem | States |
| --- | --- |
| `StageTypeSafety` | `StageSpec => []StageTypeOK` |
| `StagesAlwaysBelongToClaim` | `StageSpec => []StagesBelongToClaim` |
| `AlwaysOneStagePerKey` | `StageSpec => []OneStagePerKey` |
| `ClaimsOnlyAdvance` | `StageSpec => ClaimNeverGoesBack` |
| `ControlLoopImplementsSlot` | `StageSpec => ImplementsFencedSlot` |
| `SplitTyped` | `SplitSpec => []SplitTypeOK` |
| `SplitsUseControlLoop` | `SplitSpec => StageSpec` |
| `SplitsKeepTheFence` | `SplitSpec` implies all of the above about claims and stages |
| `StagesHaveQuorum` | `SplitSpec => []QuorumBeforeStage` |
| `RoutesHaveStages` | `SplitSpec => []RouteBackedByStages` |
| `StagesHaveKeepers` | `SplitSpec => []StageHasKeeper` |
| `MetersFollow` | `SplitSpec => []MeterFollowsGeneration` |
| `InstancesTyped` | `Spec => []TypeOK` (of `InstanceLifecycle`) |
| `RequestsRunOnServers` | `Spec => []RunsOnServer` (the same) |
| `RoutesAreGuarded` | `Spec => []RouteIsGuarded` (the same) |
| `EndIsClean` | `Spec => []EndLeavesNothing` (the same) |
| `DrainsHold` | `Spec => []DrainHolds` (the same) |
| `SchedulerTyped` | `Spec => []TypeOK` (of `IterationScheduler`) |
| `RequestsAreTracked` | `Spec => []Tracked` (the same) |
| `SessionsStay` | `Spec => []SessionStays` (the same) |
| `MemoryIsHeld` | `Spec => []MemoryHeld` (the same) |
| `ContextsAreWhole` | `Spec => []ContextIsWhole` (the same) |
| `TokensArrive` | `Spec => []TokensReachTheirRequest` (the same) |
| `LanesReturn` | `Spec => []LanesComeBack` (the same) |
| `ServiceTyped` | `Spec => []TypeOK` (of `PaymentService`) |
| `MotionReserved` | `~LookupsLinger /\ Spec => []MotionIsReserved` (the same) |
| `PaymentsWithinCap` | `~LookupsLinger /\ Spec => []PaidWithinCap` (the same) |
| `BudgetHolds` | `~LookupsLinger /\ Spec => []DailyBudgetHeld` (the same) |
| `ServiceKeepsMandate` | `~LookupsLinger /\ Spec => MandateKept` (the same) |

### Assumptions

The assumptions on the constants, which TLC evaluates on every instance:

- `GenerationAssumption`, `MaxTimeAssumption`: terms, leases and numbers are
  naturals.  Nodes, models and attempts are any sets, clocks arbitrary.
- `SplitAssumption`: a plan is a sequence of two or more different nodes, its
  coordinator first; a number and its successor are numbers a stop may carry,
  below the one that stops everything.
- `RunAssumption`: no two attempts share a run id.  The id is made from the
  nanosecond the attempt begins at, and the number of a later generation
  (`HR/runtime/local_split.rs:210`, `HR/runtime/local_split/coordinator.rs:656`
  and `:1148`): two attempts on one node differ, and two nodes that begin in
  the same nanosecond of their clocks are left out.  Only `RoutesHaveStages`
  uses it.
- `InstanceAssumption`: two instances, told apart.  Any ports and requests.
- `ClientAssumption`, `SizeAssumption`, `FeatureAssumption`,
  `CapacityAssumption`: sizes are positive, a prompt fits the pool and that of
  a feature request one direct iteration, the queue has a slot
  (`MIN_COMMAND_QUEUE_CAPACITY`).  A run has finitely many requests.
- `LedgerAssumption`, `ServiceAssumption`: terms and amounts are naturals, a
  charge's limit covers its amount.  Invoices and requests are finitely many:
  the sums over them are defined for finite sets, and what a finite behaviour
  violates, it violates with the finitely many that appear in it.

### The stage control loop

`StagesBelongToClaim` is not inductive.  `StageInv` adds that a fence has one
claim per model (otherwise "the" claim of a model means nothing), that a run
has one stage on a node, that a load past clearing the key has cleared it, and
that there is one load at a time.  `NodeOK` states this for one node over plain
sets; the lemmas on `NodeOK` say what each kind of handler does to it, and the
invariant proof has one step per action that cites them.  The delicate case is
`ClaimFenceFailed`: that stopping at the first failed shutdown leaves no stale
stage relies on `OneStage`, by which the failed one was the only one.

The refinement maps fence and stages of a node to `Owners` and `Workers`.
`ClaimGrants` is its core: an accepted claim is either a renewal, and nothing
abstract changes, or a newer term, and then every stage of the model is gone.

### Split coordination

`SplitsUseControlLoop` is proved first: every step of `SplitNext` is a step of
`StageNext` or leaves the nodes alone, because a coordinator's call is one of
the requests `StageControl` admits anyway (`SplitStepIsStageStep`).  So all
that is proved of the loop holds here (`SplitsKeepTheFence`), and the rest is
about what coordinators know.  `BaseInv` says what a job holds in each phase:
its attempt is its own, begun and not yet published, and its position is in the
plan.  Four invariants stand on it, each proved apart:

- `QuorumInv`: the claims a job counted are claims that were accepted, one per
  node asked; from this a job that loads has its majority, and so have the
  loads still out, the loads a node works on and the stages it runs.  Nothing
  takes a majority back, as `grants` only grows.
- `MeterInv`: the meter of a job's attempt is there exactly while it publishes.
- `KeeperInv`: every stage, and every load on its way, is behind its
  coordinator's position, of what is published, or forsaken; a clean-up keeps
  in hand the nodes it has not come to (`Kept`).
- `RouteInv`: no node is claimed twice for one attempt, late stops are never of
  something live, and where a coordinator counts on a stage (`Loaded`), the
  node runs it or has given the claim away, and no claim of that attempt is
  still out.  The delicate steps are the late ones: a claim of the attempt
  handled after its time-out could give a node that a rival had taken back to
  the attempt, and the stage would be gone; `ClaimedOnce` and the last conjunct
  exclude it.

### Instances

`RouteIsGuarded` is not inductive: `IInv` adds that handles, candidates and the runtime-loaded instance
have ports of their own (`HandlesApart`, `CandidateIsPrivate`), what the task
holds at each of its awaits (`TaskShape`, `EndShape`), whom a registration may
name (`RegistrationShape`), what an unload may still assume after a cutover
swapped what it read (`UnloadShape`), and to whom a route may lead
(`RouteShape`).  The delicate steps are those that remove a registration by
port (`RegistersReplacement`, `UnloadedManaged`): they are right because the
port they read can only be the task's own or nobody's.

`DrainsHold` adds `DrainShape`: a record with a deadline never serves again,
one that came to the end of its drain before the deadline has no request, and
only the phases of the coordinator between drain and cutover hold a drained
record.

### The scheduler

What makes `Tracked` and `SessionStays` true is the order of the commands of one
request: each queued command belongs to a place of the thread that sent it, threads
never go back, and a thread sends the drop of its session last.  `QueueShape`
and `DirectShape` say this of the queues, `RequestShape` of the worker's requests
and the plan, `SessionShape` of configured requests.  Then `cancel` of an
unknown request finds no sequence and no session of a listening one, and a
request is submitted at most once.  `Removed` is looked at through what it does
to the queues alone; memory plays no part.

The other theorems rest on `Whole`, which puts these beside `IInv`:

- `MemoryHeld` itself: with `IInv` it is inductive, once sums are
  available.  Every removal subtracts the reservations of the sequences it
  takes out of `active`, so the cut at zero is never taken.
- `PlaceShape`: the commands of one thread are in the queue once, in the order
  it sends them, and its direct iteration is in one place.
- `ThreadShape`: only a thread that generates has tokens or a verdict coming;
  one that left, with no command refused, has its cancellation on the way if
  the worker still knows its request.  `LanesComeBack` follows from this.
- `NumberShape`: the cursor is behind what is to be replayed and there once the
  request generates; a planned row begins where the cursor was and ends where it
  is.
- `TokenShape`: tokens taken and on their way are tokens generated, and no more
  than asked for.
- `ContextShape`: the session of a request that listens is where its cursor is,
  or where its planned row begins; a feature request the worker does not know
  yet has evaluated its prompt or has no session at all.
- `EngineShape`: the bounds of the type invariant.

### The payments

`MotionIsReserved` is not inductive either.  `IInv` adds what the ledger
knows of the wallet (a charge not submitted has no trace outside, one recorded
as paid is paid), that an unsettled charge has an approved request, and what a
visit may still believe after others wrote the ledger meanwhile: between two of
its awaits the charge may have been settled by a task that does not hold the
lock, and then the wallet has its payment (`VisitKnows`).  The proof has two
layers.  Lemmas on tables say what each transaction does to rows
(`FinalizeTables` is about any rows, because transactions finalize what they
have just written); `TransactionKeepsIInv` then covers every transaction that
submits nothing and records nothing, `FailureKeepsIInv` the failures, and
`VisitKeepsIInv` the steps that write no table.  The delicate steps are
`PayRefused` (the reservation is released on the first refusal only) and
`EvaluatesMiss`, where the absence of expiry after the lookup is needed.

The refinement builds on the same invariant, before and after a step:
`ClosesMandates` gets from the invariant after the step that no request that
closed has money in motion.  What else a step means to the mandate is then read
off the one charge whose motion it changes: none (`StillMoves`), one that stops
or is recorded (`StopsMoving`), or, in `Pays` alone, one that begins to move.

`PaidWithinCap` and `DailyBudgetHeld` are about sums, and rest on `Books`, the
books as the ledger keeps them: what a request spent is the sum of its settled
charges and leaves room in its cap for those it holds (`BooksOK`); what today
settled and all approved requests have left is within the budget (`BudgetOK`);
a payment is within its charge's limit, and recorded at what it cost and not
before its day (`AmountsOK`); past days stay within the budget (`PastOK`).  Most
transactions only *relax* the books (`Relaxed`: nothing is spent, held or
approved anew).  Three do more, and have lemmas of their own: preparing a
charge takes from the room of its request, approving takes from the budget, and
recording moves an amount from what is held to what is spent.  The step to
`DailyBudgetHeld` is `TodayWithinBudget`: what the wallet paid today and the
ledger has not recorded is, by `MotionIsReserved`, held by approved requests;
grouped by request (`SumGrouped`) it is at most what they have left.

`ServiceTyped` does not need the assumption on expiry: that a balance read is a
natural follows from the wallet alone, which never parts with more than it has
(`Typed`).

### Sums

`SumFunctionOnSet` of the community modules is a fold, that is, a recursive
function.  The library's induction theorems cannot be used, as they take an
operator as a parameter; `Sums` instead takes a smallest subset of the finite
set at which a fact fails (`SmallestSubset`, from the well-foundedness of the
strict subset ordering) and refutes it.  The recursive function itself is shown
to exist (`SumsExist`) by the same argument.  From `SumTake`, which takes one
element out of a sum, follow the sum of a union, of a part, of an updated
function, of a pointwise sum, and of a sum grouped by a key.

### Only model-checked

The liveness properties `LostRouteIsLeft`, `ChargesSettle`, `DrainResumes`,
`ManagedUnloadEnds` and `Answered`: liveness under fairness is out of the
prover's reach, as is `ENABLED`.  The three runs of section 3 that end in a
violation state what the code does not keep, so there is nothing to prove.


## 5. What is not modelled

In the modelled parts of the split: auto-balance sampling (what it triggers is
modelled), the grace period, back-offs and other waiting
times, artifact transfer, stage transport bridges, bind addresses, stage
configuration, status and inventory (read only), unfenced loads, topology
locks, and the contents of a stage (native inference).  Clocks of different
nodes are independent and may differ; terms are given with the attempts rather
than drawn from a clock, so a coordinator whose clock runs behind its rivals'
appears as attempts with low terms that are refused.

In the payments: the seller's side; policies other than `Automatic` and changes
of policy; prices; the bounded table of prefetched balances (a full table means
that the balance is read later, which `ReadsBalance` allows); payments made
from the wallet by others; wallets that break their contract; amounts at the
limits of their 64 bits (the ledger refuses them, `sql_amount`).

In the instance: capacity reservations of loads, a server that dies by itself
(`death_rx`), the shutdown of the whole host, several managed instances (their
ports could collide only by an immediate reuse, which `Free` excludes),
dashboards and telemetry.

In the scheduler: cache runtime operations and their waves, the coalescing
window, frame iterations and their alignment, other users of the worker (they
take slots of the queue), prompts that take several direct iterations, the
decode loop of requests that keep their generation (speculative decoding,
hooks), normal shutdown; of the engine preemption and prefix restore, which
nothing in the server calls, the recurrent-state memory, and the rotation of
decode rows.  A prompt never exceeds the KV pool (`SizeAssumption`): it would
wait for ever.

Hazards listed in `PROJECT.json` without a property carry a note: they are what
the code does against its documentation (section 3), matters of a wallet or of
the operating system, or wait for terms drawn from clocks.  All other components of
section 1 are on the plan or listed in `PROJECT.json` with the reason.
