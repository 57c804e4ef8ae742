# MNCS Forge in TLA+

MNCS Forge is a local control plane for assurance-bearing development: it keeps an
append-only history of epochs, candidates, check results, dispositions, freezes and
evaluations, decides from that history which operation is admissible next, runs the
declared commands, and supervises continuous verification of a working tree. This
directory models its core. Paths below are relative to `src/src/mncs_forge/`.

## 1. Inventory

| Component | State | Operations | Hard part | What makes it correct |
|---|---|---|---|---|
| Local record store (`record_store.py`, `ledger.py`) | record files, `ledger.jsonl`, derived index, `transactions/` | `commit`, `recover`, reads | a crash between any two renames, in recovery too; retries | a reader sees a complete old or new state; recovery never refuses what a crash left; it behaves as an append-only log |
| Store-backed record store (`store_record_store.py`) | an external MNCS Store with a generation; projection cache; action locks | `commit`, `commit_records`, `action_execution` | the expected generation is read by the commit itself | no lost update; cache and feed agree |
| Lifecycle projection (`state_machine.py`) | none: a function of the history and what was observed of the tree | `_project`, the `authorize_*` methods | ambiguity, evidence dominance, drift | a decision rests on evidence of the same candidate |
| Application services (`application/*.py`, `engine.py`) | none between calls | begin epoch, register, refresh, check, select/reject, freeze, evaluate, bundle | several processes; tree edits between observation, authorization, execution and commit | selections and freezes are backed; a freeze is final; reported evaluations ran on what was frozen |
| Micro-verifiers and recovery (`micro_verifiers.py`, `application/recovery.py`) | action, receipt binding and result records; action lock | `run`, start-up recovery | crash after the action is recorded; recovery racing the executor | every action ends; recovery leaves a live executor alone |
| Continuous supervisor, event stream (`continuous.py`) | `status.json`: acknowledged (stream, cursor); memory of two threads | `run`, `request_stop`, event ingress, job cancellation | two threads over one cursor; service restarts and expiry; torn status file | no event is lost between the threads; the durable cursor counts only handled or superseded events; stop ends |
| Continuous supervisor, work of an event (`continuous.py`, `core.mncs`) | pending table, attention list, results recorded so far | triggers, Safe repair, selected verification, `_micro`, deferral, escalation | files change and the event is superseded between jobs; bounded tables; restart | superseded work is never reported PASS; an unresolved verifier is retained or reported |
| Execution receipts (`application/execution_receipts.py`) | binding records | persist action, binding, result | three commits, any may fail | a binding never lacks its result |
| Resource envelope (`resource_envelope.py`, `resource_process.py`, `resource_policy.mncs`) | host execution lock, systemd unit, private environment file, budget | qualification, budget, admission, prepare, launch, finish, cleanup | the owner dies, or gives up while the launch is still to be served; cleanup fails; counters cannot be read | one command at a time on the host; a returned status is that of the call's own unit, and a success the command's; the slot comes free |
| Command execution (`adapters.py`, `process_effect.py`) | registry of launching and owned processes, shared by two threads | run, cancel a generation, time out | a cancellation that arrives while the process is being launched | a cancellation reported complete has left nothing running |
| Native adapter and kernels (`mncs_native.py`, `resources/native/forge/*.mncs`) | none in the decisions; warm runtime, caches | decision kernels and the envelopes they are called with | bounds of the envelopes; a second implementation of the same rules | never authorizes what the host refuses; agrees with it within its bounds |
| Development cycles (`application/mncs_development.py`, `assurance.mncs`) | the documents providers leave at fixed paths; the persisted loop document | `failure_loop` in invoke and consume mode, `observe` | a provider that fails leaves an earlier document in place; edits while the loop runs | a verdict rests on this invocation's test run; a repair answers a diagnosed failure; PASS is supported |
| Resident worker and service lifecycle (`resident.py`, `continuous_host.py`, the lifecycle functions of `continuous.py`) | the leases of supervisor and Language Service, the service's socket, the endpoint, the lifecycle lock | reconcile, `continuous start`, `stop`, `status`, `ensure_language_service`, the managed and the detached host | hosts run without the lock; callers die or meet their deadline between two steps; numbers of dead processes are given out again | one supervisor, and a lease that names it; stopped means stopped; only processes of one's own are signalled |
| Providers, compiler studies, assurance reports, configuration, CLI/MCP | records, configuration files | derived reports and dispatch | little of their own | – |

How they interact: the CLI and the MCP server construct a `Forge`, which first recovers
the store and stranded verifier actions. A service asks `LifecycleContext.machine()` for
a state machine built from the whole history and freshly observed file identities, asks it
to authorize, executes, and commits records through the record store. The supervisor is a
long-lived process that polls the Language Service over a socket and calls the same
services; what it executes goes through the process runner and the resource envelope, and
what it decides goes to native kernels. A process may also select the native adapter for
the lifecycle decisions. The development loop runs other tools (Test, Debug, RAVEL,
Actions) as processes and reads the documents they leave. Processes share the disk: the
store, the lock files, `status.json`, the provider documents and the working tree.

## 2. Modules

| Module | Models | State and actions |
|---|---|---|
| `RecordLog` | what a record store promises (abstract specification) | a log, acknowledgements, refusals; `Commit`, `Acknowledge`, `Reject` |
| `LocalRecordStore` | `record_store.py` and `ledger.py` | the files as sets of contents, one action per durable step of `commit` (stage, journal, rename, mark, index, remove) and of `_recover_transaction_unlocked`, and `Interrupt` between any two |
| `LocalRecordStore_proofs` | | the theorems about it |
| `Lifecycle` | `state_machine.py`, compatibility classification | operators on a history: active epoch, candidate lineage, readiness, drift, the authorizers |
| `NativeLifecycle` (extends `Lifecycle`) | `lifecycle.mncs`, `readiness.mncs`, `reconciliation.mncs`, `bundle.mncs`, their adapter calls in `mncs_native.py`, and the places where `state_machine.py` lets their answers replace its own | operators: the event a record is reduced to, the projection, the readiness, the bounded envelopes and preflight, the authorizers of a native process |
| `ForgeControl` (extends `NativeLifecycle`) | `application/*`, and the commit of `store_record_store.py` | processes stepping through observe, authorize, observe again, execute, read the generation, put, verify; `Edit` changes the tree at any time; `Native` is the set of processes with the adapter |
| `ForgeControl_proofs` | | the theorems about the processes |
| `VerifierAction` | `micro_verifiers.py`, `application/recovery.py`, action locks | processes that open, recover, run an action under its lock, crash |
| `VerifierAction_proofs` | | the theorems about it |
| `ContinuousSupervisor` | `continuous.py`: `run`, `_process_event`, `_job_scope`, `_ContinuousEventIngress` | the Language Service (external), the main thread, the ingress thread, `status.json` |
| `ContinuousSupervisor_proofs` | | the theorems about it |
| `VerificationPolicy` | the functions of `core.mncs` that the supervisor asks, with their adapters | operators: routing, admission, cost, aggregation, obligations, escalation |
| `VerifierEvidence` | `micro_verifiers.py`: the result `_execute` records, its dependency envelope, `_freshness` | operators |
| `PendingWork` (extends both) | `continuous.py`: what `_process_event` does with one event | one action per job step (Doctor check, dry run, apply; selected verification; one micro-verifier at a time; settling), `Edit` and `Supersede` between any two, crash and restart |
| `PendingWork_proofs` | | the theorems about it |
| `ServiceLifecycle` | `resident.py`, `continuous_host.py`, `continuous_lifecycle` and `ensure_language_service` of `continuous.py` | processes with birth and number, the two leases, socket, endpoint and durable pair; one action per step of a caller under the lock, of a host, of ensuring the service; the service, strangers and deaths (external) |
| `ServiceLifecycle_proofs` | | the theorems about it |
| `ResourcePolicy` | `resource_policy.mncs` and its adapters | operators: budget, admission, outcome |
| `ResourceEnvelope` (extends `ResourcePolicy`) | `resource_envelope.py`, `resource_process.py` | Forge processes inside `run_bounded`, the user manager (external) with one unit per run |
| `ProcessRunner` | `LocalProcessRunner` of `adapters.py` over `process_effect.py` | the worker thread, the cancelling thread, the registry under `_owned_lock`, the process service (external) |
| `CommandExecution_proofs` (extends both) | | the theorems about the envelope and the runner |
| `AssuranceLoop` | `assurance.mncs`, `assurance_loop` of `mncs_native.py` | operators: status and decision of the kernel |
| `DevelopmentLoop` (extends `AssuranceLoop`) | `failure_loop` of `application/mncs_development.py` | one action per provider run or stretch of code between two; documents on disk; the editing developer |
| `DevelopmentLoop_proofs` | | the theorems about both |
| `MC*` | | small instances; the `.cfg` files fix the bounds |

Conventions. An optional value is a set with at most one element. Digests are the values
they identify (no collisions). Definitions named `X_Something` next to a definition `X`
are deliberately wrong variants of it, each of which breaks the property listed for it
in `PROJECT.json`; no specification uses them.

Correspondence worth knowing when reading the modules:

- `LocalRecordStore`: one lock serialises all operations and no state survives between
  two of them but the disk, so one set of locals (`pc`, `op`, `rec`, `cur`, ...) stands
  for whichever process holds `ledger.lock`. The lock-free window is `pc = "idle"`.
- `ForgeControl`: `seen` is what `machine()` observed, `draft` the record that will be
  committed, `gen` the `expected` of `_commit_record`. Workflow results are committed
  with an action and a receipt binding in three generations in the code; only the
  result's commit is a step here. `With(r, changes)` is `{**r, **changes}` of the host
  and `{ ..r, changes }` of the kernels. The refusals of changed-file validation and of the
  rights policy are nondeterministic. An evaluation carries two fields that the code does
  not record (`ran`, `ranAuth`): what the tree held while the command ran.
- `NativeLifecycle`: in the passing runs no process uses the adapter; the properties
  `NativeAgrees` and `NativeFailsClosed` ask both rule sets the same question in every
  reachable state. In `native_evaluation` every process uses it. `inspect_transition` is what an
  inspection lists: the authorizers without preflight, asked with the current names, with the
  placeholder identity `prospective` for a registration and with the policy's own requirements
  for a freeze. `SubmissionFits` is what only the real call knows: the names it submits, the
  content of the tree, the plan. `NativeFailsClosed` says that the two together are exactly what
  is granted.
- `VerifierAction`: recovery's list of stranded actions (`todo`) is read once, as in
  `recovery.py:27`; the lock of an action is taken with a zero timeout.
- `ContinuousSupervisor`: `mem` is `current_cursor`, `stream_identity` and
  `current_generation`; `status` is `status.json` as far as a later run reads it.
  `handled` and `cause` are history variables. Native decisions used here are
  `verification_resource_transition` (an event older than the current generation is
  stale; a job older than an event is cancelled) and the status lattice.
- `PendingWork`: the event stream is a log that `Edit` extends, since delivery is
  `ContinuousSupervisor`'s subject; an event's generation is its place in the log. `got`,
  `told` and the like are history variables that only properties read. A native step may
  fail at any decision, which the actions show as a separate outcome.
  The pending table is a set and the matched triggers are a set of positions: the code keeps
  lists, but no decision depends on the order of the table, and `Turn` restores that of the jobs.
- `PendingWork` and `VerifierEvidence`: a document's identity is a number that `Edit` raises,
  the tree is the function `source`, and a configuration is the raw file, the policy files'
  content and the environment. A recorded result is used again only when `_freshness` finds it
  current on the tree and configuration of that moment.
- `ServiceLifecycle`: a process is named by its birth identity, which stands for the
  instance of a managed host too; its number (`pid`) is a value that is free again once it
  has ended and no parent waits for it. `call` is the holder of the lifecycle lock: a
  caller that finds it taken returns without an effect and is no step. What a
  status reads at one moment is one evaluation (`resident_status`); what is read and used
  later is kept in `call`. Whether the kernel answers, and whether a probe is in time, is
  chosen at each use. A stranger only matters with the number of a lease, and then
  it stays. `stopped` and `interrupted` are history variables.
- `ResourceEnvelope`: memory is in MiB and the memory fraction in percent, so the kernel's
  arithmetic is exact. The manager serves a launch when it gets to it, also after
  the owner died (`late`). A unit starts as the helper of `resource_process.py`, which
  becomes the command (`HelperExecs`) or ends the unit itself with 126, 127 or 1
  (`HelperFails`); `unit[r].helper` says that the command never ran. The complete cleanup that
  `Finish` may report needs the tree and the file gone, but need not be reported then.
- `ProcessRunner`: `owned`, `launching`, `waiters` and `cancelled` are the four containers
  of the class; `missed` is a history variable for the window described in section 7.
- `DevelopmentLoop`: the persisted document holds the kernel's verdict and the host's own,
  so that they can be compared. A result and its check are one document, the queries of
  the deeper diagnostic levels are like the inspection, and a reused query is the document
  at its path.

## 3. Runs

| Run | Instance | Result |
|---|---|---|
| `store` | 2 identities × 2 contents, 2 transaction names, 3 interruptions | readers see a complete old or new state, nothing is wedged, the index is bound, the store implements `RecordLog`, a prepared transaction is eventually finished |
| `control_evaluator` | a developer and an evaluator, 2 contents, 2 authorities, 2 workflows (one required), 5 records or 6 with a selection, 1 edit, no identity comes back | the history is never ambiguous, a freeze is final, a selection overlooks no FAIL or UNKNOWN, an evaluation that was reported ran on the frozen content and authority; reconciliation is the join of the results of both categories; the native adapter authorizes exactly what the host does within its bounds |
| `control_two_developers` | 2 development processes, 2 contents, a valid and an invalid plan, 4 records or 5 with a selection, 1 edit | selections and freezes are backed although authorizations go stale; a candidate is registered once; the native adapter grants exactly what an inspection lists and the call's own names, content and plan fit, and never what the host refuses |
| `native_evaluation` (violation) | a developer and an evaluator with the adapter, one content and authority, 7 records | a second evaluation record locks the evaluator out (section 6) |
| `verifier` | 2 processes, 2 actions, 2 crashes | recovery respects a live executor, results follow actions, bindings have results, every action terminates |
| `supervisor` | 3 events a stream, 2 streams, pages of 2, a queue of 1, 2 triggers, 2 starts, 1 crash | nothing is dropped between the threads, the durable cursor passes an unhandled event only through a cancellation, a stop request ends the run |
| `pending` | 2 documents, 2 configurations, 3 kinds of compiler facts, 5 triggers, 3 verifiers whose providers declare a complete, an incomplete and no envelope, batch 2, capacity 2, attention 2, 2 events, 2 starts, 1 crash | PASS means every verifier asked for passed, nothing unresolved is forgotten, a document has obligations of one generation |
| `lifecycle` | 3 processes, 3 numbers, 3 selections (the caller's own, another runtime, another checkout's), 4 events (calls, deaths, callers that give up) | every supervisor is the one its lease names, a stop that reports stopped has left none, the provider signals only services and hosts of its own checkout |
| `envelope` | 2 processes, 2 runs, 1 crash, hosts of 128 and 4096 MiB, 600 or 2048 MiB free, settings with an ill-typed limit that is ignored and one that is rejected | one command at a time, a returned status is the unit's and never a success of the helper, the slot is freed |
| `runner` | 2 generations, 3 runs, 1 failing call, a list of 1 cancelled generation | a complete cancellation left nothing running, none is lost outside one named window, both threads return |
| `development` | 2 contents, 1 test, 3 kinds of plan, 4 provider documents with an identity | verdicts are fresh, a repair answers a diagnosed failure, PASS is supported, kernel and host agree |
| `development_stale_plan` (violation) | the same with 3 provider documents | a plan of an earlier repair carries a PASS (section 6) |

Bounds. Six records are the shortest history that holds an epoch, a candidate, a result, a
selection, a freeze and an evaluation. A call begins while the history has fewer than
`MaxHistory` records, or `MaxAfterSelection` more once one is a selection, so that the bound is
not spent on histories that only check; calls that began together are all committed: the
evaluator run reaches three results before a selection (two of one workflow that conflict and
one of the other, in either order) and an evaluation after one; the two-developer run reaches
two results, and what a second process can do between the authorization and the commit of each
record up to a freeze; the native run needs seven for the second evaluation. One edit is enough
for the evaluator run: an evaluation is unsound as soon as the tree leaves what was frozen, and
without `Restore` a second edit cannot undo that. The invariant runs of `ForgeControl` use
symmetry over contents, authorities and, where both processes develop, processes, that of
`DevelopmentLoop` over contents and that of `PendingWork` over policy files: no definition tells
their members apart. Two contents and two authorities are enough to differ. Two workflows are
two categories of the reconciliation, one the policy requires and one it does not: a fold that
counts a result for the wrong category, or looks at the last category only, is seen. An invalid
plan is enough for a freeze that an inspection lists and the operation refuses; a tree whose
content is that of the current candidate is the same for a registration. The envelope bounds of
the native adapter keep the code's values (32, 8, 16): no history of the passing runs exceeds
them.

In the store two identities give a duplicate and a bystander, two contents a conflict,
and three interruptions one in the commit, one in its recovery and one in the recovery of
that. In the supervisor a queue of one is full with one event waiting, three events are
one being dispatched, one queued and one that does not fit, and two streams are one
replacement. In `pending` two events are an event and the one that supersedes it, and
three verifiers over a batch and a table of two overflow both; two configurations are one change
of a policy file between two starts. In `lifecycle` three processes are two hosts and the
service, or a host, the service and a stranger with a number of theirs, and four events are
two starts, a stop and a death, or a start, two deaths and a stop; births and numbers
are interchangeable (symmetry). In `envelope` two runs are a
command and the one that would overlap it; 128 MiB is a host whose derived budget is too
small, and 600 MiB free is below the admission threshold of the larger budget; the one
limit event is the kill for memory (the theorems are for any events). In
`runner` the third run is started after a list of one has forgotten the first
cancellation. In `development` four documents are a test run, a witness, and the same
again in a second invocation or after a repair; the instance with two tests (970 000
states) gave the same result. `Edit`, `Interrupt`, `Crash` and the actions of the external
parties are bounded by counters in their guards; all bounds are `CONSTANTS`.
`MaxCrashes` of the store bounds nothing in the proofs: they hold for every value.

`ForgeControl`, `ContinuousSupervisor`, `ProcessRunner`, `PendingWork` and `ServiceLifecycle`
stop when their bounds are used up, so their configurations do not check deadlock; the
others do. Type invariants are proved (section 4) where a module has proofs; no run
is spent on them.

Fairness. `LocalRecordStore!FairSpec`: a process inside the lock keeps running (no step
waits for anything), and the project is opened again, because every construction of
`Forge` calls `recover()`. `VerifierAction!FairSpec`: a started operation goes on
(providers run under a timeout), commands end, and Forge is started again; beginning
an action and crashing are not fair. `ContinuousSupervisor!FairSpec`: the main thread
goes on, because every request and every job has a timeout; publishing, polling and
starting are not fair. A stop request must end the run without their help.
`ResourceEnvelope!Spec`: a process inside `run_bounded` goes on or gives up at its
deadline, and the user manager serves launches and enforces `RuntimeMaxSec`; starting a
run, sampling and dying are not fair. `ProcessRunner!Spec`: both threads go on inside a
call (their waits have limits), and a process ends, at the latest at its deadline; asking
for a run or a cancellation is not fair.

## 4. Proofs

`LocalRecordStore_proofs` proves, for all sets of identities, contents and transaction
names and any number of interruptions (the only assumption is `CrashBound`):

- `StoreTypes`: the type invariant;
- `StoreCompleteOldOrNew`, `StoreNeverWedged`, `StoreIndexBound`: the three safety
  properties of the `store` run;
- `StoreImplementsRecordLog`: every step of the store is a step of `RecordLog` or
  leaves it unchanged (`log <- ledger`).

None of the three properties is inductive: each speaks only of states without a
transaction directory or of errors already raised. The inductive invariant `IInv` adds
what must hold in between. `LedgerInv`: the ledger has one entry an identity, and
every entry's file holds its content. `DirInv`: at most one directory exists, and it
has one of three shapes: no journal (its record is not published), prepared (the
ledger is the journal's `before` and each file is either staged or published), or
published (both are there, whatever has been removed since). `ControlInv`: where the
holder of the lock is determines the shape and which journal is there. `IndexInv`:
an index that lags behind the ledger is remembered by a journal that has yet to be
replayed. `failed = {}` is carried along because every error test of recovery must be
shown to be unreachable from these shapes (`ReplayAccepts`). There is one lemma per
action, and the refinement (`LogStep`) follows from `IInv` step by step. `IInv` was
model-checked on the `store` instance before it was proved.

`ForgeControl_proofs` proves, of the processes over one history, for all sets of
processes, contents, authorities, workflows, policies and plans and every bound on history
and edits:

| Theorem | Processes | What it says |
|---|---|---|
| `ControlTypes` | any, any adapter | types; a process drafts one record, of the kind its operation makes (`Shaped`) |
| `ControlSelectionBacked`, `ControlCandidateOnce` | any, any adapter | a selection has its evidence and its candidate; a candidate is registered once |
| `ControlBindings`, `ControlFreezeBacked` | any, any adapter | a record binds a candidate registered before it; a freeze binds a selection of its candidate |
| `ControlNativeFailsClosed` | any, any adapter | the native adapter grants exactly what an inspection lists and the call's names, content and plan fit; the host's rules allow it |
| `ControlReconcileSound` | any, any adapter | the native reconciliation is the worst of all results, none left out or counted twice |
| `ControlReportedEvaluationSound` | any, any adapter, no identity comes back (`~Restore`) | an evaluation reported to its caller ran on what was frozen |
| `ControlNeverAmbiguous`, `ControlSelectionClean`, `ControlFreezeIsFinal` | at most one development process, any evaluators, any adapter | the history stays unambiguous, a selection overlooks nothing, a freeze is final |
| `ControlNativeAgrees` | at most one development process, any evaluators, any adapter | records in order, envelopes within bounds: the native adapter refuses nothing the host allows, and its readiness is the host's |

The hypotheses of the last three rows are those of the code: with two development processes,
or with an identity that comes back, the properties are false (section 7). None of the
properties is inductive, because what is committed was authorized against an older
history. Each invariant therefore also says of every draft what it will need when it is
committed, and there are two kinds of need. `Selects` (evidence and registration of a
selection's candidate) and `Freezes` (the selection a freeze names) cannot be lost when
others append, so they hold with any number of processes. `Continues` (the draft's
epoch, parent and candidate are still current, nothing disposed or froze it) can be lost
to another development process, so it needs that there is one; an evaluator
commits nothing that it speaks of. With it go four facts of the history: a
candidate's epoch is recorded (`EpochsKnown`), what binds a candidate comes after its
registration (`Registered`), a frozen candidate is the last of its epoch (`FrozenLast`) and
no later record binds it (`FrozenAlone`). The evaluation's invariant follows one process
from its authorization through the run: what the tree held then (`Admitted`), what the
observation after the authorization saw (`Witnessed`), and what the run and the second
observation recorded (`Recorded`); it uses that identities of the tree are never
used again, and that contents and authorities are different values. All proofs rest on one
lemma about a step (`StepShape`): it keeps the history and the drafts, or newly
authorizes a draft, or one process appends its draft.

What a process with the native adapter commits was authorized against the kernel's answer,
so the invariants above need that this answer is never laxer than the host's rules
(`NativeToHost`, `HostAuthorizes`). The kernel folds the history into a projection, the host
reads it off the records. `Tracks` relates the two: the history is unambiguous, and the
projection shows its epoch, candidate, disposition, freeze and evaluation and the status of
the required evidence. `ProjectionRuns` unrolls the fold, `RecordTracked` shows that
a record the kernel accepts keeps the relation, and `NativeTracks` concludes that a
projection with `lineage_ok` tracks the history; this needs that a candidate is registered once
and before anything binds it. Readiness is a count by category (`NativeReadinessAgrees`).
`PreflightGrants` then shows that the stage the preflight is asked about is the one that the
tracked projection derives, and from it follow both directions of `ControlNativeFailsClosed`:
what is listed and fits is authorized (`ListedIsAuthorized`), and what is authorized was
listed and fits (`AuthorizedIsListed`). The converse with respect to the host, `ControlNativeAgrees`, needs that the kernel
accepts every record: `Lined` says that each continued the history before it
(`OrderedAccepted`), which holds with one development process. `ReconcileAnswers` follows
the fold over the categories (`FoldReached`): after k of them it has counted the results of
those k, once each, whatever the order. Functions defined by recursion over a length are
unrolled with an induction on natural numbers that is itself proved from the pigeonhole
principle (`Induction`, `Recursion`).

`VerifierAction_proofs` proves `RecoveryLeavesExecutor` and `VerifierResultsOrdered` for
all sets of processes and actions and any number of crashes (`CrashBound`). The invariant:
a process between `begin` and its result alone holds the lock of its action (`Holding`);
an executor's action is recorded and has no result (`Phases`); recovery only looks at
recorded actions (`TodoRecorded`). The property alone is not inductive: that recovery leaves
an executor's action open follows only from who holds the lock.

`ContinuousSupervisor_proofs` proves `SupervisorDropsNothing` and `SupervisorAccounts` for
any queue, page, event and stream bounds. `InOrder` says that batch, queue and polled page
are consecutive events that end at the ingress cursor, and that the main cursor lags by
exactly batch and queue as long as no cancellation moved it; `Accounted` says of the main
thread's cursor, while it runs, what the property says of the status file; `Phases` says
when there is no ingress thread, and `Numbered` that an event's generation never exceeds
its cursor, so that a cancellation for a later event moves the cursor far enough.

`CommandExecution_proofs` proves of the envelope `EnvelopeOneCommand` and `EnvelopeResult` for any number of
processes, units and crashes, any host memory and any settings (`EnvelopeInputs`: memory is
counted, a setting is absent or a raw value). `Slot`: the holder of the execution lock and
the labels agree, and an admitted budget allows one command. `Owned`: what the holder's unit
may be at each label, so that a second command could start only after the first unit is
gone, and that a helper which fails never ends with 0. `OneTree`: two units that may run are one, but for a launch request that outlives its
owner. `Exits`: an exit status is one value, and a unit that has not started has none; `Settled`: what was
returned.

Of the runner it proves `RunnerCompleteMeansGone` and `RunnerNoLostCancellation` for any
number of generations, runs and failing calls and any table of cancelled generations
(`RunnerBounds`: the limits a process may end at are those of the process service).
`WorkerRun` and `CancelRun` fix what the registry holds at each label of the two threads;
`Seen` says what the canceller has seen while it waits, `Answered` what must be true of a
generation for which it answered. The window of section 7 is part of the statement
(`missed`), because without it the property is false.

`DevelopmentLoop_proofs` proves, of the kernel alone, `SuccessIsSupported`: for every evidence record and either
phase, the kernel answers StopPass or Finalize only on bound, fresh evidence; before a
repair with a present and passing test, after one with a changed source, a current rebound
plan and a passing test of the repaired source; and with the family proof wherever one is
required. It is a case analysis of the kernel's order of questions; the question both
phases end with is a lemma (`ProofDecision`). `PassSupported` is the same of
the whole loop, where the facts come from documents that may be stale.

Of the loop it proves `LoopVerdictFresh`, `LoopRepairJustified`, `LoopPassSupported`
and `LoopModesAgree` for any contents, tests, kinds of plan and number of provider runs
(`DevelopmentAssumption`). `Begun`: a document read in invoke mode was written in this
invocation; `Selected`: what the branch taken tells of the result, the witness and the
diagnosis, from which `LoopRepairJustified` follows; `Documented`: what a persisted
document says. That kernel and host agree rests on two lemmas which compute the
kernel's status from the host's facts (`InitialStatus`, `AfterStatus`), and `SuccessIsSupported`
is used for the kernel's PASS.

`ServiceLifecycle_proofs` proves `LifecycleTracked`, `LifecycleStopped` and
`LifecycleOwnedControlled` for any number of processes and process numbers, any checkouts,
runtimes and selections and any number of calls, deaths and callers that give up
(`LifecycleConstants`: selections are records of an owner, a runtime and a revision, and the
command line is not a process). None of the three is inductive: a host that is started, or
that waits for its lease, does not supervise yet, and a host that has noted its stop still
removes the lease. `InUse` is a process that supervises, may still come to, or will remove
the lease, and the invariant is stated of those. `Processes`: two processes have different
numbers. `Leases`: a lease with a birth identity describes that process while it lives, so a
number that was given out again is not mistaken for the host; a lease without one is of a
detached host. `Leased`: every host in use is named by the lease. `Known`: what the holder of
the lifecycle lock found out is still true at each of its later steps, although hosts run
without the lock: a host in use is the one of the lease it read, and of its own checkout; before
it starts a host, none is in use. `Spawned`: a detached host without a lease is the one a start
waits for. `Quiet`: after a stop no host is left that runs or will. The last four hold
unless a continuous start was interrupted (section 7), which is part of the statement of the
properties. Most steps end a process, move it forward, or start one nothing names
(`Effect`), and a host in use after such a step was in use before (`Steady`); only
a host that writes its own lease needs an argument of its own.

`PendingWork_proofs` proves `PendingTypes`, `PassIsVerified`, `OwedIsPending` and `PendingIsCurrent` for any
list of triggers and verifiers, any envelopes, costs and configurations, any capacity, batch
and length of the attention list, and any number of events, starts and crashes
(`PendingConstants`: the triggers are a list of known actions over known verifiers, capacity and
batch are positive). The properties speak of an event when it is acknowledged; what makes
them true is collected job by job, and a job serves its verifiers one at a time. The
invariant therefore follows the jobs. `Covered`: each verifier of a micro-verifier job that is
over has a result, is pending or was reported, and each of the running job has, or is still
in one of its two queues. `Passing`: as long as only PASS was reported, each of them has a
result that `_reusable_result` would accept now, unless a newer event has arrived. Both
are claimed while the event can still be acknowledged (`Ours`); a cancellation moves the
cursor past it. `Tables`: the obligations in memory and in the status file are within the
capacity and of events of the log, each document's of one event, and of the running event's
document of that event alone. `Kept`: what an acknowledged event left behind is in the status file, and in memory
unless the supervisor is down. `Declared`: a recorded result lists the identities of exactly
the declared paths. `Within` adds what only the types need, with lemmas of its own
(`NextWithin`). Five lemmas carry the operators: what the native kernel answers for a
request (`Disposition`), what the next event of a document keeps (`KeptPendingIs`), what remembering
and resolving do to a table (`RememberKeeps`, `ResolveKeeps`), and what the deferral of a list
does, one verifier after the other (`DeferAll`, by the same induction as above). A step
within an event has to show what it settles of the job it ends (`JobDone`) and of the queues
(`Left`); the rest of the invariant is kept by every such step (`WorkingKeeps`).

Every invariant was model-checked on the instances of the runs before it was proved.

Only model-checked: all liveness (`PreparedIsFinished`, `EveryActionTerminates`,
`StopRequestEnds`, `SlotFreed`, `BothReturn`), which is out of the proof system's reach. Of
`VerificationPolicy` and `VerifierEvidence` only what the proofs of `PendingWork` need is
proved; routing and the cost decision are only exercised by the run. The properties of the
two violation runs are false.

## 5. Not modelled

- Native adapter: the retained runtime, its caches and single flight, the encoding of calls
  and answers, and the kernels for identities, records, serialization, provider policy and
  wire decoding (`identity.mncs`, `records.mncs`, `serialization.mncs`,
  `provider_policy.mncs`, `assurance_application.mncs`): conversions and digests, whose
  results are values here.
- Lifecycle: the environment key of evidence is fixed, so evidence becomes incomparable
  only through content or authority. Project-scoped checks (they bind no candidate),
  verifier results as evidence, and `Ledger.append` (tests and migration only) are left out.
- The digest-keyed ledger cache, the store projection cache and its change feed.
- The three commits of a workflow execution (action, binding, result) are one.
- Error codes: an operation is refused or not.
- Supervisor: the host's service units, counters no guard reads.
- Service lifecycle: a service or socket selected by the Environment, a file of somebody
  else at the socket path, the documents `status` prints, the Environment's `enter`, and a live
  service that is too slow to answer.
- Micro-verifiers: matching of a request to the catalogue, batch planning, disclosure.
- Development cycles: `observe`, which shares the documents with `failure_loop` but never
  repairs, and the text of a diagnosis.
- Resource envelope and runners: evidence fields, output capture, Windows job objects,
  container and fabric arguments.
- The components of section 1 without a module: see `PROJECT.json` for the reason of each.

## 6. Findings

Each has a run whose counterexample shows it.

- `native_evaluation`: `project_evaluation` of `lifecycle.mncs` rejects a second evaluation
  record of the frozen candidate, so under the native adapter an evaluation run of two
  workflows makes the history ambiguous for good; the host's rules accept it.
- `development_stale_plan`: `_regenerate_verification_plan` neither removes the earlier file
  nor looks at RAVEL's exit status nor compares the plan's source, so a plan of an earlier
  repair is taken for the repaired source and can carry a PASS.

## 7. Observations

Met while modelling; the models contain these behaviours, and the properties are stated so
that they hold in spite of them.

- Start-up recovery authorizes against the list it read before it took the action's lock
  (`application/recovery.py:27`), so an action may get a recovered UNKNOWN after its
  result (compare `docs/lifecycle.md:74`).
- The expected generation is read after the authorization (`store_record_store.py:485`),
  so two processes can both dispose a candidate; the history is then ambiguous and every
  further mutation is refused (`docs/lifecycle.md:45`).
- A check binds its result to the candidate that was authorized, not to the content it ran
  on (`application/workflows.py:281`).
- A freeze observes the protected identities again after its authorization, so it may bind
  an authority the epoch never had (`application/evaluation.py:57-76`).
- A refresh after the tree has returned to content registered earlier is authorized but
  refused by the store (`application/candidates.py:159`).
- Cancelling a superseded job advances the cursor that is persisted (`continuous.py:1358`,
  `3085`), so after the run ends the cancelled event is not dispatched again.
- A supervisor that starts while the service is unreachable overwrites the acknowledged
  pair (`continuous.py:2878`, `2906-2911`); a later start adopts a replacement stream
  unreconciled.
- `cancel_generation` may still be registered as a waiter when its five seconds are over;
  a process published in that window is cancelled by nobody (`adapters.py:176-186`,
  `380-386`). `NoLostCancellation` names this window (`missed`). A failing observation call
  loses the handle of a running process.
- A reused UNKNOWN at full capacity is not escalated by itself (`continuous.py:2362-2417`);
  the source may change between a Safe repair's identity check (`1804`) and its
  application (`1848`); the attention list is not restored by a restart.
- A `continuous start` that dies while it waits for its host leaves a host that has
  not announced itself, and nothing looks for it (`continuous.py:728-765`); it then overwrites
  whatever lease there is. `interrupted` names this. Afterwards the check for another
  checkout's host, asked only when the earlier status said `incompatible`
  (`resident.py:687`), can be passed over.
- `ensure_language_service` unlinks whatever is at the socket path and launches before it
  writes the lease (`continuous.py:514-566`). The command line calls it under the lifecycle
  lock, a managed host without; a crash in between leaves a service that no lease names, and every
  managed start refuses it (`LANGUAGE_SERVICE_SELECTION_MISMATCH`).
- `continuous stop` signals by number (`continuous.py:779`), the provider by birth.
- A provider's stop without the service, followed by a start on another runtime, finds the
  service of the old binding and no host's lease from which to replace it: the new host
  refuses it and ends.
- Under the native adapter a late result or disposition of a second developer, a 33rd event
  or a ninth result of a required workflow refuses every operation, `begin_epoch`
  included.
- An inspection may list `register_candidate` when the tree still holds the current candidate,
  because it asks for a placeholder identity (`state_machine.py:1549`), and `freeze_candidate`
  when the plan of the call is invalid or asks for more evidence than the policy
  (`state_machine.py:1579`); the operation then refuses.
- A command's status 1, 126 or 127 may be the helper's (`resource_process.py:51-81`): an
  environment file that is missing or invalid, a cgroup membership that cannot be bound, or
  a command that cannot be executed. `run_bounded` returns it as an ordinary result
  (`execution.py:174-200`) and its caller cannot tell.
- An invocation of the development loop that raises after it rewrote the source writes no document; one
  left by an earlier invocation at the caller's output path stays
  (`application/mncs_development.py:2862-2883`). The model drops it and speaks of the document
  of the running invocation.
- `validation.json` is not bound to the witness; an error after the source was rewritten
  leaves a repaired source without a document; without the native kernel, a rebound plan
  routed to the family proof leaves a document without a verdict
  (`application/mncs_development.py:2683`).

## 8. Plan

1. Extend: the three commits of a workflow execution; the projection cache and change feed
   against a direct read; the warm runtime's single flight; batch planning of verifiers.
2. Compose: the verifier's results as evidence of the lifecycle; the supervisor's jobs as
   verifier actions; `ForgeControl` over `RecordLog`.
