# Verification of the Meta-Harness Engineer (MHE)

MHE boots a set of components, stages a graph that connects their ports, and changes
that graph while it runs: a candidate graph is validated, judged by a safety pipeline,
cut over behind a drain, watched, and rolled back when a health probe or an observation
window fails. A component can be replaced by another instance of itself that takes over
its state, and a component can give a long computation to an external scheduler.
What was done is written to files that a later start reads back. Twelve domain
extensions take scientific tasks through a chain of components, and studies run such
tasks over a grid of parameters.

These TLA+ modules model that control. They are translated from the Python source under
`src/metaharness` and `src/metaharness_ext`; the maps from definitions to source lines
are in `PROJECT.json`.

## 1. Inventory

| component | state it keeps | operations | what makes it hard |
|---|---|---|---|
| graph version store (`core/graph_versions.py`) | live and archived snapshots, active version, rollback target, candidate list | commit, rollback, retire_to, save and update candidate | versions are chosen at staging and used at commit; retirement at the edge of the window; identifiers may repeat |
| connection engine (`core/connection_engine.py`) | route table, candidate graph, drain gate, buffer, in-flight counter | stage, commit, discard, rollback, emit, begin_drain, end_drain, wait_for_inflight | emitters are threads; only the counter is under a lock |
| event bus (`core/event_bus.py`) | handlers, history, drain gate, buffer | subscribe, publish, begin_drain, end_drain | as above, without a counter |
| drain coordinator (`core/drain.py`) | current epoch, suspended components and their previous phases | begin, complete, abort | four calls, each of which may raise half way |
| runtime (`core/boot.py`) | session, approvals, registry | commit_graph, review_deferred_candidate, evaluate_observation_window, recovery | BEFORE_COMMIT_GRAPH runs foreign code in the middle of a promotion; every step can raise |
| lifecycle tracker (`core/lifecycle_tracker.py`) | phase of each component | record | FAILED is terminal |
| mutation submitter (`core/mutation.py`) | - | submit | commits on the engine without drain or session event |
| auto rollback (`safety/auto_rollback.py`) | list of rollbacks | check, observe | there may be no target |
| session store (`observability/events.py`) | append-only events | append, get_events | what a recovery believes |
| hot swap (`hotreload/*.py`) | checkpoints, saga steps | swap, capture, compensate | messages arrive between two awaited calls; a call that raises may have had its effect |
| execution lifecycle (`core/execution.py`, `sdk/execution.py`) | job handle, session events of the run | run, cancel | answers are used after an await; cancel from other tasks; give-up time |
| schedulers (`*/scheduler*`) | jobs by identifier | submit, poll, cancel, await_result | the scheduler shows jobs late |
| evidence recorder (`core/execution.py`, `core/boot.py`) | - | record, _append_runtime_evidence, _persist_dependency_graph | one call writes up to fifteen entries into three stores |
| provenance log (`provenance/*.py`) | Merkle tree with its cached root, audit records, artifacts | append, save, proof_for, verify, load | a write that raises or a crash between memory and file, and between two stores; odd levels of the tree |
| boot and registry (`core/boot.py`, `sdk/*.py`) | registry, running components | boot, register, activate | sources that override each other; order of dependencies; a boot that raises half way |
| graph validation (`core/validators.py`, `core/contract_pruner.py`) | - | validate_graph, legal_pairs | cycles, required inputs, protected components judged against a graph that may change |
| safety pipeline and gates (`safety/*.py`, `core/assembly.py`) | reuse counts, dependency graph per candidate identifier | evaluate_graph_promotion | what a deferral becomes; what a gate reads may be another candidate's |
| admission (`core/boot.py`, `core/mutation.py`) | candidate records, approvals | commit_graph, review, ingest, defer, authorize, submit | five ways into service with different checks, and time between check and use |
| extensions (`metaharness_ext/*`) | run directory, artifact, reports | issue, probe, compile, execute, validate, judge, hand over | what really happened is known only through exit codes, files and printed numbers; the run directory outlives the run |
| studies (`metaharness_ext/*/study.py`) | trials, recommendation | run_study, propose | trials that fail, raise or come back in any order; early stops |
| optimizer (`optimizer/*.py`, `components/optimizer.py`) | history, cooldowns, budgets | triggers, convergence | edges and cooldowns over long histories |

How they interact: `HarnessRuntime.commit_graph` stages on the engine, asks the
validator and the pipeline, publishes BEFORE_COMMIT_GRAPH (a subscriber runs inside the
call and may promote a graph itself), opens a drain epoch that closes the gates of the
engine and of the bus and suspends components, commits on the engine (which commits on
the store and then loads the routes), completes the drain, records phases, runs the
health probes and appends GRAPH_COMMITTED. Recovery reads only the session store.
Which graph gets that far depends on the boot (what is registered and what runs), on the
validator, on the pipeline's gates, and on approvals. An extension's governance adapter
hands its candidate to the runtime as a record from outside.
A hot swap may be given the open drain epoch, and then trusts its list of suspended
components. An execution run shares nothing with promotions but the session store, the artifact
store and the audit log, into which the recorder of its outcome, the runtime's events and
a boot each write their entries in turn.

`PROJECT.json` lists every component, the extensions and scripts that are not modelled
included, and 40 hazards, each at its line.

### What makes each part correct

* Store: the running routes are those of the active snapshot; an offered rollback can be
  carried out and brings back the graph that ran before; a stored snapshot never changes;
  a decided candidate leaves the review queue.
* Drain: what was in flight has finished before the graph changes; nothing is handled
  twice, or replayed by another promotion; a promotion ends with its gates open and every
  component back in its phase; what was held is handled.
* Promotion: whatever nests, raises or is undone, the graph that runs is the active
  version's and an offered rollback can be carried out; GRAPH_COMMITTED tells what runs and
  what a rollback brings back; a promotion without that event leaves running the very graph
  that ran before; a recovery finds the version and the graph that are active.
* Admission: whatever way a graph gets into service it can be run, its components were
  activated, and protected components keep their edges unless an approval was granted.
* Extensions: a candidate that is promoted was earned by what really happened in its own
  run, and a report blames what really went wrong.
* Studies: the recommendation stands against every trial, and norms that a failed run left
  count for nothing; a trial that raises costs what the study says; nothing is left
  running; what is handed over or proposed next fits what was tried.
* Hot swap: never two instances in service; nothing accepted is lost by a swap that
  succeeds; a swap that fails gives the component back.
* Execution: the events of a run tell one story and are true of the job; the run waits as
  its strategy says and ends.
* Evidence: the audit log proves each record it holds and no other, and proves it again
  after a restart; what can be read back names nothing that is missing; what a call that
  returned wrote can be read back.

## 2. Modules

| module | models | notes |
|---|---|---|
| `ActiveGraph` | what the version store promises | abstract specification: one running graph, at most one to go back to |
| `GraphVersions` | version store and the engine's operations on it | refines `ActiveGraph` when used serially |
| `CutoverDrain` | drain coordinator, gates of the engine and of the bus, emitting threads | one action per statement between which threads switch |
| `Promotion` | runtime, lifecycle phases, session events, mutation submitter, auto rollback | extends `GraphVersions` |
| `PromotionProofs` | - | proofs about `GraphVersions` and `Promotion` |
| `HotSwap` | swap, saga, checkpoints | one action per awaited call and per way it fails |
| `ReplacementProofs` | - | proofs about `CutoverDrain` and `HotSwap` |
| `ExecutionLifecycle` | run, poll loop, cancel, SLURM backend | one action per await |
| `ExecutionLifecycleProofs` | - | proofs about `ExecutionLifecycle` |
| `MerkleTree` | the Merkle tree of the audit log | operators on the sequence of leaves and the cached root; recursive functions |
| `EvidenceRecords` | artifact store, file session store, audit log, and the three calls that write into them | one action per write and per way it is cut short |
| `EvidenceRecordsProofs` | - | proofs about `EvidenceRecords` |
| `GraphValidation` | validator and contract pruner | operators of a graph, the registry and the active graph; `Sound` says without the validator what a graph must be |
| `Selections` | - | the elements of a sequence that are in a set; what the grids and the boot order are filtered with |
| `SafetyGates` | the gates of a promotion, the assembly's dependency graph | extends `GraphValidation`; operators |
| `Boot` | discovery, boot order, registration, activation | extends `SafetyGates` and `Selections` |
| `Admission` | the ways a graph gets into service | extends `Boot` |
| `AdmissionProofs` | - | proofs about `GraphValidation`, `SafetyGates`, `Boot` and `Admission` |
| `ExtensionRun` | the state and the conventions all extensions share | - |
| `AbacusExtension` ... `QcomputeExtension` | twelve extensions, one module each | extend `ExtensionRun`; one action per component |
| `Extensions` | any of the twelve, twice over in one run directory | instantiates the twelve |
| `ExtensionsProofs` | - | proofs about `Extensions` and each of the twelve |
| `StudyGrids` | grids, objectives, Pareto front, convergence rules | extends `Selections`; operators |
| `Studies` | the studies of nine extensions and their optimizers | extends `StudyGrids` |
| `StudiesProofs` | - | proofs about `Studies` |
| `Recursion` | - | induction over the natural numbers, and recursive functions, and what `Within` selects: what the proofs about schedules, trees, searches and grids rest on |
| `MC*` | - | the instances TLC checks |

An operator with a suffix (`NextVersion_LiveOnly`, `Await_Unlocked`) is a wrong form of
the definition it is named after, the kind of mistake the properties are there to
exclude: putting it in the place of the definition makes TLC report the property.

### GraphVersions

`snapshots`, `archived`, `active`, `rollback`, `archivedList`, `retention` are the
fields of `GraphVersionStore` and its state; `candidates` the list of records; `loaded`
the engine's route table with the registry's active graph; `staged[c]` the snapshot a
caller holds between staging and deciding. Versions are 1 to `MaxVersion`, 0 is None.
A route table is not modelled beyond the graph it was compiled from.

`Stage` is `ConnectionEngine.stage`: it fixes the version. `Commit`, `CommitInvalid`,
`Discard`, `Rollback` are the engine's methods, `RetireTo` the store's, with the
retirement that ends a commit inside it. `CutoverDeferred` and `RecordReview` are the
two halves of a review. `Abandon` is an exception between staging and deciding.
`Next` allows every order of these; `SerialNext` those in which nothing is promoted from
a stale staging and no identifier is reused.

### CutoverDrain

The promoting thread is at `stage` (close, limit, reset, await, suspend, cutover, resume,
copy, open, clear, unlimit, replay), an emission `m` at `pc[m]`. `Check`, `Room`, `Hold`, `Enter`, `Start`, `Finish`
are the statements of `emit` (and of `publish`, which counts nothing): the flag is read,
the room is looked at, the message is appended, or the counter is taken and the handlers
run. `CloseGate`, `SetLimit`, `ResetBuffer` are the statements of `begin_drain`, of the
engine and then of the bus, so that an emission may find the gate closed over the old
buffer; `Await` and `Timeout` are `wait_for_inflight`; `Copy`, `OpenGate`, `Clear`,
`Unlimit`, `Replay` are those of `end_drain`. Every action
whose name ends in `Raises` is one way a call fails; what the code then does not undo
stays as it is. `early`, `heldIn` and `runs` are history.

### Promotion

Calls form a stack, because BEFORE_COMMIT_GRAPH is published in the middle of
`commit_graph`; a call's level is its caller in `GraphVersions`. The actions follow
`commit_graph` from `Submit` over `Allow` or `Refuse`, `Cutover` or one of its failures,
`RecordPhases` or `TargetLost`, to `Committed` or `Unhealthy`; `StartReview`,
`RefuseReviewed` and `RecordNothing` are the review's own steps, `SubmitMutation` and
`DecideMutation` the submitter's. `raising` is an exception on its way out: `Catch` or
`Unwind`. `log` holds the session events; `RecoveredVersion` is what `_recover_session`
takes from them. Versions are reused, so the properties speak of graphs too: a call
remembers what ran when it was made (`was`), an event the graph it is about (`graph`), and
`Recovered` is the graph that was promoted under the recovered version; these three are
history. `Unclaimed` says that the version of a deferred candidate has not gone to another
graph; the code does not look (`"stale"`). `stuck` summarises what `CutoverDrain` shows of a drain that raised in
begin or complete: the gates stay closed.

### HotSwap

An instance runs, is suspended, stopped or fresh, and holds a set of updates. `Work` is
a message that reaches a running instance, at any time. `Suspend`, `Export`,
`Deactivate`, `Migrate`, `Resume`, `Observe` are the calls of the five saga steps
(capture is the first two), each with its way to raise, before or after its effect.
`Compensate` takes the completed steps back, last one first. `held` says that the drain
epoch given to the swap has already suspended the component (`DrainBegins`, `DrainEnds`
are what `CutoverDrain` does to it). `marred` is history: a failure that the code does
not undo happened.

### ExecutionLifecycle

`pc["run"]` is where the run awaits; `Squeue` and `Sacct` are the two commands of a poll,
`answer` what they gave, used in the next step. `GoOn`, `TimeIsUp`, `JobIsOver`,
`AwaitResult`, `Result`, `Raised` are what the run does with it. `Cancel`, `Scancel`,
`Cancelled` are `ExecutionLifecycleService.cancel`, called by other tasks, or by the run
itself when its task is cancelled (`Interrupt`). `EventRaises`, `TimeIsUpRaises` and
`CancelledRaises` are the session store that raises, inside the `try` of `run` and outside
of it. `job` and `shown` are the scheduler,
which is external: `JobMoves` and `ShowMoves` are taken from how the backend uses
squeue and sacct. Delays are integers.

### MerkleTree and EvidenceRecords

A hash is the value it was taken of: a leaf of an entry, a node of a pair. `Levels` is
the pass of `root_hash` and of `proof_for` over the levels, `Grow` is `append`, which
drops the cached root, `Asked` what `root_hash` leaves behind, `ProofFor` and `Verify`
the methods of that name: `Way` is how the index halves from level to level, `Beside` the
sibling a level contributes, `Combine` one turn of the loop of `verify`. `EvidenceRecords` keeps the memory of each store (`artifacts`,
`tree`, `records`) apart from its file. `Record`, `RuntimeEvent` and `DependencyGraph`
begin a call: `writes` is what it will write, in the order of the code (`Snapshots`,
`Events`, `Audits`). `Save`, `AppendEvent` and `AppendAudit` write the next entry;
`WriteRaises` is a file that cannot be opened or written, or is written in part
(`damaged`), after the store has changed its memory; `Crash` may come between any two
writes or within one, and `Start` reads the files again. `failed` and `returned` are
history.

### GraphValidation, SafetyGates, Boot and Admission

A graph maps its components to their protected flags and has edges; the registry maps
components to what they declare. `ValidateGraph` is the union of the issues, each an
operator of its own, and `HasCycle` is the depth-first search as the code makes it, one
step for each call of `visit` that begins or ends (`SearchOn`; the code's recursion is
the path it carries along).
`Gates` puts the four gates in the order of the runtime: the policy component's review,
the sandbox validator (which validates again and lifts what an approval covers), the
shadow test, whose verdict is an input, and the assembly-health gate, which reads the
dependency graph last stored under the candidate's identifier (`deps`).

`Discover` is boot up to its order (`Winner`, `FilterEnabled`, `Kahn`, whose queue moves
by one component in each of its `Turns`), `Start` and `StartRaises` one turn of its loop. A setup is what lies on disk, how the runtime is
configured, and which graphs are tried later, in how many calls.

`CommitGraph` is `commit_graph` up to the event BEFORE_COMMIT_GRAPH; what passed waits on
`stack`, because a subscriber may call again, and `Cutover` or `CutoverUnhealthy` is the
rest of it. `Review`, `DeferCandidate`, `IngestCandidate`, `Mutate`, `RollBack` and
`Authorize` are the other calls. `by` is history: how the active graph became active, on
whose request, and whether it was judged against the graph it replaced and by its own
dependencies.

### Extensions

`ExtensionRun` declares the state of one task on its way: `task`, `env`, `plan`, `run`,
`report`, `verdict` and `handed` are what the components hand on, `stage` says which one
works next, `disk` is the run directory. `truth` is not the program's: it is what really
happened, of which the components learn only through what they probe and read; `truth.wrote` is what
this run wrote into the directory. Each extension's module gives the steps of its own
components, and two conditions of its domain: `Earned` and `CauseNamed`. Where an extension
never clears its directory `Earned` can only ask that the outputs lie there, and says so;
`FirstRunIsOwn` adds that in a first run they are its own. `Extensions` picks one and lets
it run twice in the same directory, so that what the first run left is there in the second.
`Rounds`, how often a task is run, is two for TLC and any number in the proofs.

### StudyGrids and Studies

A study has a kind (whose), a goal, axes with values or a range, and rules for stopping.
`Generate` makes the grid (or never ends, where a step of zero or less makes the loop of
that extension endless); numbers count tenths, and a sum of floats may be off by its last
digits (`drift`, `Off`), which FEALPy's study rounds away and its optimizer does not
(`Sums`, `Rounded`). `RunTrial` runs one trial, which passes, fails or raises, and in
QCompute's pool several overlap; a failed Nektar++ run may carry norms. `Conclude` is the report with recommendation, front and
hand-over, `Propose` the optimizers of Octave and FEALPy. Metrics are a few ordered
values.

## 3. Runs

| run | instance | states | what it shows |
|---|---|---|---|
| `store_serial` | 2 graphs, 3 identifiers, 2 callers, window 0 or 1, 3 versions, 3 candidates | 210 k | used serially the store refines `ActiveGraph` (`RestoresPrevious`); snapshots are immutable (`SnapshotsImmutable`), and a decided candidate leaves the queue (`DecidedNoLongerAwaits`) |
| `drain_faults` | 2 routes, 1 event, 1 component, room for 1, 2 promotions, all faults | 609 k | `InflightHonoured`, `AtMostOnce`, `ReplayedBySameEpoch` |
| `drain_live` | 1 route, 1 event, a cutover that may raise, fairness | 80 k | a promotion ends, with its gates open and the phases back; a copied message is handled |
| `drain_late` | no fault | - | a route appended after `end_drain` copied the buffer is lost |
| `promotion_any` | graphs {k1} and {k1, k2}, 2 levels, 3 calls, everything may happen | 94 k | `RunningIsActive`, `RollbackResolvable` |
| `promotion_recovery` | 4 calls; deferrals, reviews, failed drains, failed probes | 54 k | `CommitEvidenceTrue`, `UnrecordedKeepsGraph`, `RecoveredIsActive`, all three of graphs and not of version numbers only |
| `hot_swap` | 3 instances, 2 updates, 1 delta, 1 checkpoint kept, 3 swaps, all faults | 1.4 M | `OneServes`, `CheckpointExact`, `HandedOver`, `Restores` |
| `execution` | delays 1 and 2, 5 time units, 2 cancellers, all faults, fairness | 143 k | `RunTellsOneStory`, `VerdictIsTrue`, `DelaysAsScheduled`, `RunEnds` |
| `evidence` | 2 calls, 2 faults, an audit file that is empty or holds a record | 66 k | `RecordsVerify`, `RootsSurvive`, `NamesResolve`, `ReturnedIsStored` |
| `admission` | 18 setups, up to 3 calls, 2 identifiers, 2 actors, 1 approval, 2 nested submissions, 1 sick component | 112 k | `BootedInOrder` (`DependenciesFirst`, `HighestSourceOnly`), `AdmittedIsFit` (`AdmittedIsSound`, `AdmittedIsActivated`, `SearchFindsCycles`), `ProtectedNeedsApproval`, `FirstUseWaits`, `OfferedIsLegal` |
| `extensions` | 12 extensions, 2 runs of a task in one directory, every lack, exit and content their modules name | 553 k | `PromotionIsEarned`, `CauseNamed`, and the type invariant over all of them |
| `studies` | 9 kinds of study, 1 or 2 axes, up to 4 trials, a pool of 2 | 172 k | `ReportStands` (`RecommendationStands`, `ConvergenceStands`, `EarlyStopIsTheAnswer`, `SimulatorsFirst`, `FrontIsPareto`), `FailureStaysInTrial`, `NothingLeftRunning`, `HandedAsAsked`, `ProposalsAreFresh` |

### Bounds, and why they are enough

* `MaxVersion`, `MaxCandidates`, `MaxCalls`, `MaxPromotions`, `MaxSwaps` cap counters
  and lists. Three versions are the least at which a graph can leave a window of one and
  be restored afterwards, and at which a stale staging meets a committed version. With a
  retention of 1 every second commit retires.
* Two callers or two levels are what it takes for one promotion to come between the two
  halves of another.
* Two routes let one be counted while the other is about to be; one event shows the
  channel that is not counted; room for one message makes the second be refused; two
  promotions are needed for anything to come back in a later one.
* Three instances and three swaps let an instance serve, be replaced and return; one
  checkpoint kept makes every capture after the first drop one.
* A base delay of 1, a cap of 2 and a total of 5 give the delays 1, 1, 2, 1: the
  Fibonacci growth, the cap, and a last delay cut to what remains.
* Two calls of up to fifteen entries each bring the log to thirteen records, which is
  four levels of the tree, with an odd level at the leaves, above them, and at both. Two
  faults let a call be cut short, the process be restarted, and the next one be cut short
  too.

* The setups of `admission` are there for one thing each: a missing or a disabled
  dependency, a cycle of three that only a capability closes, two sources of one
  component, two claims on a slot, a boot that raises at each of its places, each policy
  mode, a pipeline with and without handlers to check. Two calls show every order of two
  ways into service; three, with fewer graphs, let both components of an edge be used
  once before they are connected, or an approval be used again. The search for cycles is
  compared with reachability on all 512 directed graphs of three components.
* Two runs in one directory are what it takes for a file to be stale. A content, an exit
  and a set of things missing are independent, so every way a run can look while being
  something else is there.
* Two axes with two values each make a grid in which a front can have several members and
  ties; a limit of three cuts it.

Model values are symmetric where a run has no liveness property and no order among them.

### Fairness

`CutoverDrain!Fairness`: the promoting thread goes on whenever it can, and so does an
emission once it has read the flag. Both are straight-line code in threads of their own,
and handlers are assumed to return. Nobody is obliged to emit, to promote or to raise.

`ExecutionLifecycle!FairSpec`: the run's own steps. Commands return and sleeps end. The
first is an assumption about the scheduler's commands: `subprocess.run` is given no
timeout. Nothing is assumed of the job: it may stay pending for ever, and the run ends
because its strategy gives up.

The other specifications state no fairness, and only safety is checked of them.

### Deadlock

`CHECK_DEADLOCK FALSE` stands where the system comes to rest: after the last call,
message, swap or record of the bound, after a run has ended, over a file with a torn line
(no start reads it), or when a drain that raised in begin
has left the gates closed. The run of the store checks deadlock.

## 4. What is proved

For every value of the constants, under the named assumptions of the modules
(`GraphVersionsAssumption`, `PromotionAssumption`, `HotSwapAssumption`,
`CutoverDrainAssumption`, `ExecutionAssumption`, `EvidenceAssumption`,
`StudiesAssumption`, `ExtensionsAssumption`, `BootAssumption`, `SafetyGatesAssumption`,
`AdmissionAssumption`),
which say of what kind the constants are; of boot, that the alphabet which orders
identifiers repeats none, and that what lies on disk is a sequence of manifests whose
identifiers are in it:

* **The store, any order of calls** (`StoreInvariants`): `TypeOK`, `RunningIsActive`,
  `RollbackResolvable`. They are inductive only together, and with `NoTargetAtFirst`
  (no rollback target before the first commit): the active snapshot must be known to be
  live for the commit that makes it the rollback target, and the target must differ from
  what a retirement drops. Retirement moves a snapshot to the archive and never forgets
  it, which is why a target stays resolvable.
* **The store, used serially**: `SerialStoredOnce`, `SerialSnapshotsImmutable` and
  `SerialRestoresPrevious`, the refinement of `ActiveGraph`. `StoredOnce` carries the
  other two: a fresh version is in neither map, so a commit overwrites nothing.
  `SerialDecidedNoLongerAwaits`: a step marks at most the records of its own identifier,
  and none of those that were decided.
* **The runtime, whatever happens** (`RuntimeInvariants`): the store's invariants hold of
  it at any depth of nesting. The invariant `PInv` says what a call on the stack has
  staged.
* **What the commit event says** (`CommitEvidence`), where no call is nested in another
  (`Alone`): `NInv` says that the target a call took along is still the version of what
  ran before, whatever was refused, undone or mutated since.
* **One promotion at a time** (`RuntimeUsesStoreSerially`, `RuntimeRestoresPrevious`):
  without nesting, reviews, mutations and reused identifiers, whatever fails, the runtime
  uses the store serially; a rollback after a failed probe or window restores exactly the
  graph that ran before.
* **What a recovery finds** (`RecoveryFindsActive`, `UnrecordedPromotionKeepsGraph`), where
  `May` leaves out rejections, nested calls, replays that raise, windows, mutations and
  stale reviews (`Calm`): section 5 shows that rejections, windows and stale reviews break
  the two, and a mutation or a replay that raises is not told to the log either. `RInv`
  says that until a call has recorded its commit the log's last one is of the graph that ran
  before the call; that the version a call is to take is free or its own graph's; that
  after the cutover the graph that ran before is still stored under its version; and that
  no component is FAILED, so that no promotion raises after its cutover. A first promotion
  that fails its probe has nothing to go back to: its graph stays, and the statement says so.
* **Evidence** (`NamesAlwaysResolve`, `ReturnedAlwaysStored`): whatever raises and
  whenever the process ends. The lemma `RecordGrounded` shows that what a call writes is
  `Grounded`, each entry naming only entries before it and none of the audit log;
  `Inv` says that what the current call has written so far, and all that calls that
  returned were to write, is in the files, so the next entry names only what is held.
* **The audit log** (`RecordsAlwaysVerify`, `RootsAlwaysSurvive`), for a log of any length.
  `LevelSizes` and `HeightExists`: halving ends in one root. `ProofSteps` follows `verify`
  up the levels: what it has after a number of steps is the node over the leaf at that
  height. `VerifyExact`: since hashes do not collide, it reaches the root from the leaf of
  the index only. `AuditInv` says that no entry is recorded twice (`Lines`: what a call
  has still to write is not there yet, and `OfCall`: it writes nothing twice), so the leaf
  is that of one record; and that, as long as no write of a line raised, the file is what
  was held, so that `ReloadAppend` makes the next start compute the same.
* **Hot swap**: `TypeCorrect`; `OneServesAlways`: `OneInv` names, for each place of a
  swap and each count of steps still to compensate, the only instance that may run, and
  `StepOf` ties the count to the place; `CheckpointExactAlways` and `HandedOverAlways`
  (for `Retries = FALSE`, see section 6): `HandInv` says that the outgoing instance rests
  from its suspension on, so its state stays what the checkpoint holds; `SwapRestores`:
  the compensation of the capture, the last one, has restarted the outgoing instance.
* **Admission** (`AdmittedAlwaysPasses`, `AdmittedAlwaysActivated`,
  `ProtectedAlwaysNeedsApproval`), for any graphs and any depth of nested submissions.
  `SandboxAllows`, `SecondGateAllows` and `ValidatedPasses` show that a graph the pipeline
  allows can be run: what the validator still reports is about protected components.
  `Inv` adds that no call comes before boot is over (`NothingYet`: the registry a graph
  was judged by is the one it runs over), that the active graph, the one a rollback
  restores and every waiting one pass (`AllPass`), and that a waiting submission whose
  active graph has not changed keeps what is protected or has its approval
  (`AllJudged`).
* **What is admitted can be run** (`AdmittedAlwaysFit`), stated with walks in the graph
  and not with the code's search. `SearchExact` shows that the search answers right for a
  graph of any size: what is on its path is a walk, so a closed one is a cycle; what it
  has left only leads to what it left before, so a search that ends without an answer has
  ranked the components; and each step enters or leaves one, so it ends.
* **The boot order** (`BootsAlwaysInOrder`). `KahnSorts`: the queue holds what has no
  dependency outstanding, nothing enters it twice, and what is left over when it is empty
  contains a component that depends on itself: the one with the fewest components before
  it (`StuckIsCyclic`). `CandidatesWin`: what is started comes from the highest
  source that has it. `OrderInv` carries both through the loop of boot, which may raise
  in the middle.
* **First use waits** (`FirstUseAlwaysWaits`), unless the policy is to warn only. `WarmInv`: a
  dependency graph stored without cold components connects, as far as the gate can see,
  only what was in a committed graph before, and so does every submission that waits for
  its cutover; nothing that is stored or recorded later takes that back (`DependKeeps`,
  `LedgerKeeps`).
* **What the pruner offers** (`OfferedAlwaysLegal`): the graph with the offered
  connection differs by one edge that fits its ports, between components that are not
  protected (`OfferExtends`), and of the validator's issues only the cycle can come from
  such an edge (`ExtensionIsLegal`).
* **The drain**, with all faults: `InflightAlwaysHonoured` from `CountInv` (the counter is
  the number of routes entered and not exited) and `EarlyInv`; `HandledAtMostOnce` and
  `AlwaysReplayedBySameEpoch` from `HoldInv`: a buffer and the copy repeat nothing, hold
  only messages that were held and not handled, and are apart once the gate is open
  again; and a gate that closes empties its buffer, so what it holds later is of this
  promotion. `GatesAlwaysOpenAtRest` assumes that nothing but the cutover raises (section
  5 says what happens otherwise); `PhaseInv` ties the phase of a component to the one
  remembered for it while others are being suspended or resumed.
* **The execution lifecycle**, with all faults and any number of cancellers:
  `RunAlwaysTellsOneStory` from `StoryInv` (no verdict of the run before it has ended),
  `VerdictAlwaysTrue` from `AnswerInv` (an answer that says completed or cancelled is
  true of the job, and a job that is over stays so), for a backend that raises on a job
  it cannot see; the other kind records completions that never were (section 5).
  `DelaysAlwaysAsScheduled`: the loop keeps two neighbours of the Fibonacci sequence and
  the time that is left (`DelayInv`); `ScheduleSteps` gives the recursive schedule the
  same steps.
* **Studies**, for any extensions, axes, trials and rules (`ReportsAlwaysStand`,
  `FailureCostsOneTrial`, `NoWorkerOutlivesStudy`, `HandedAsPolicyAsks`,
  `ProposalsAlwaysFresh`). `Course` says what the queue, the pool and the trials are at
  each stage; `QueueSorted` that simulators come before hardware, and stay so whatever
  order trials end in; `Reports` and `Handover` that recommendation, front and what is
  handed over were made of all the trials; `Fresh` that what is proposed is new. For the
  convergence study (`ConvergenceStands`) the series that its rules walk along is shown to
  hold the completed trials with a norm and no other, in the order of the trials, so that
  what a rule finds at a place of the series is so of the trials.
* **The extensions**, for any number of runs of a task in one run directory and any limit
  of FEALPy's quota (`ExtensionsTypes`, `PromotionsAreEarned`, `CausesAreNamed`).
  `ExtensionsInv` says that the extension at work is in its own invariant, one per
  extension (`OctaveInv` ... `Ai4pdeInv`), which none of the three properties is strong
  enough for: they speak of the end, and what a report is made of was read long before
  it, by other components. So each of the invariants says by stage what the components
  that have worked are known to have left and how that stands to `truth`: what the probe
  saw against what was lacking (`OctaveProbed`), the artifact's status and outputs against
  the exit code and what lies in the directory (`OctaveRan`), and of the report, at once
  that it blames what was wrong and that it passes only what was earned
  (`OctaveReported`), which the policy and the governance adapter then can only take
  away from. In a first run the directory holds what that run wrote; when a task begins
  again nothing is assumed of it but the kinds of files in it (`OctaveRestarts`), which is
  why two runs are no bound here. So what is proved of a later run's outputs is that they
  lie in the directory; its exit code, what it printed and its environment are its own.

Induction over the natural numbers cannot be cited from the library (its theorem has an
operator as a parameter); `Recursion` derives it for sets from the well-foundedness of
`<`, and from it that a recursive function has the values its definition says.

Only model-checked: liveness (`PromotionEnds`, `CopiedIsHandled`, `RunEnds`), which is out
of the prover's reach. Every invariant and every action property that a passing run checks is
proved as well. `TypeOK` of the store, `PromotionTypeOK`, `StoredOnce`, and that the
runtime uses the store serially are proved and no run repeats them.

## 5. Where the code and its documentation disagree

Shown by a run that expects a violation:

* `drain_late`: an emission that found the gate closed and appends after `end_drain`
  copied the buffer is lost, though its emitter was told that it is held
  (`core/connection_engine.py:39`, "Route emission held while a drain epoch cuts over").

Found by TLC when a run's instance is changed as said. The passing runs leave the case out,
and the properties named stand in the modules. Each is violated when it is the only one
checked; beside others one of those may fall first:

* Two candidates of one identifier (`SPECIFICATION Spec` in the cfg of `store_serial`):
  `update_candidate` replaces the first record of an identifier, the review picks the last
  deferred one, and a candidate that was decided is still among those "still awaiting
  review" (`core/graph_versions.py:79`). `DecidedNoLongerAwaits` is violated.
* `"nested"` added to `May` of `promotion_recovery`: `commit_graph` skips the check of the
  rollback target when there was none at the call (`core/boot.py:1389`). A first promotion
  that another one was nested in records that it has none, though one is in force
  (`tests/test_boot.py:622` to `624` assert that event and store agree).
  `CommitEvidenceTrue` is violated.
* `"stale"` added: a deferred candidate adopted after its version went to another graph
  replaces that graph in the store (`core/boot.py:1102`). If its probe fails, the rollback
  goes back to the number and not "to the previous graph version"
  (`safety/auto_rollback.py:5`). `UnrecordedKeepsGraph` is violated.
* `"window"` added: a failed observation window changes the active version, and recovery
  does not read GRAPH_ROLLED_BACK (`core/boot.py:226`), though the store is the "source of
  truth for session replay and crash recovery" (`observability/events.py:5`).
  `RecoveredIsActive` is violated.
* `"reject"` added: a rejection records FAILED for all the candidate's components, those
  that run included (`core/boot.py:1339`). FAILED has no successor, so the next promotion with one of them cuts over and then raises
  (`core/boot.py:1395`): no GRAPH_COMMITTED is recorded for the graph that runs.
  `RecoveredIsActive` is violated.
* The invariant `OutputsAreItsOwn` added to `extensions`: Octave's run directory is a hash
  of the task and is not cleaned; a second run that writes nothing is promoted with the
  first one's files (`octave-engine-wiki/README.md:45` calls an artifact what one execution
  produced). Nektar++, MOOSE, ABACUS, BOUT++ and a JEDI task that names its directory share
  the cause; this is why `Earned` of these may be met by what a former run left.
* `RelaxedIsThere`: ABACUS asks for "final structure evidence"
  (`abacus-engine-wiki/08-runtime-lifecycle.md:160`) and takes the input's
  (`abacus/validator.py:329`).
* `NormsWithin`: PyCFD's norms "must be present and within tolerance"
  (`pycfd-engine-wiki/04-environment-validation-and-evidence.md:67`); NaN, which is not
  greater than a tolerance, passes (`pycfd/validator.py:98`).
* `BackendsAgree`: Octave's validator need not know where a run took place
  (`octave-engine-wiki/07-v2-alignment.md:273`), but a Kubernetes job has no exit code and
  is always reported as failed (`octave/validator.py:89`), so it can never pass.
* The invariant `ProposesTheUntried` added to `studies`: FEALPy's study rounds the values of
  a range (`fealpy/study.py:108`) and its optimizer does not (`fealpy/optimizer.py:219`), so
  a number that was tried, off by its last digits, is an "untried" candidate
  (`fealpy/optimizer.py:168`).

Seen while modelling, and kept out of the passing runs by a constant or a condition that
says so:

* `GraphSnapshot` is documented as immutable (`core/models.py:128`). A deferred candidate,
  or a promotion that another one was nested in, keeps the version it was staged with;
  adopted later it replaces the snapshot another promotion stored under that version, and
  may become its own rollback target (`SnapshotsImmutable` is a property of the serial
  store only).
* `begin` closes the gates before it waits. When the wait times out they stay closed, the
  epoch stays current, and every later promotion is refused (`drain_live` lets only the
  cutover raise).
* A write to the audit file that raises leaves the tree one record ahead of the file, and
  the roots and indices written after it are not those a reload computes (`RootsSurvive`
  asks that no such write raised).
* A torn line in one of the three files makes every later start, or read of the session
  events, raise (`Start` asks for `damaged = {}`).
* `FileSessionStore.get_events` filters by type before it slices by index,
  `InMemorySessionStore` slices first (`observability/events.py:59` and `97`): the two
  answer a call with both arguments differently. `HarnessRuntime.session_events` passes
  both on; nothing in the repository gives both to it.
* A swap whose capture raises after it suspended the outgoing instance leaves it
  suspended: the saga compensates completed steps only (`Restores` asks for a capture
  that completed, `swap.failed > 0`).
* A swap retried in the drain epoch in which it failed does not suspend the component
  again, because the epoch's list says it is, and loses what the component accepted after
  the export (`Retries = FALSE`).
* The runtime takes `audit_log or AuditLog()` (`core/boot.py:165`). An `AuditLog` has a
  length, so one with a path and no record yet counts as none, and one in memory takes
  its place: nothing is persisted (`Kept` in `ReturnedIsStored`). The recorder takes the log
  it is given; it is assumed to be the runtime's own, which is what the hand-overs pass on
  when no other is configured (`deepmd/runtime_handoff.py:61`, `jedi/runtime_handoff.py:58`).
* The session store may raise after the drain has begun and before the `try` that would
  abort it (`core/boot.py:1188`): the gates stay closed. A job that the scheduler took
  before `submit` raised leaves no event and no handle (`core/execution.py:77`).
* A cancelled swap is left half way: CancelledError is no `Exception` (`marred`).
* The FEALPy backend takes a job that neither squeue nor sacct shows for completed; the
  Octave backend raises (`Unlisted`). Under `"completed"` `VerdictIsTrue` does not hold.

On admission:

* An approval is never consumed, and it covers whatever its actor proposes later. A review
  passes neither actor nor approval, so an authorised candidate that is deferred can never
  be adopted; and it repeats neither the readiness check nor the promotion policies.
* A candidate may drop a component's protected flag without an issue
  (`validators.py:75` compares edges only), and the next one may then remove the component.
* What passed the gates is exchanged even if a subscriber promoted another graph in
  between (`stale`): it was judged against a graph that is gone.
* The dependency graph is stored by candidate identifier, and identifiers repeat
  ("boot-graph" is the default): a review may judge another graph's dependencies (`own`).
  `_component_ref_from_endpoint` takes the first two parts of a dotted name, so the gate is
  blind to identifiers that have not two parts (`parts`). Nothing in the runtime supplies
  `critical_mismatch_refs`, so `reject_critical` never rejects.
* Under `defer_high_risk` a component with a required input cannot be admitted first: alone
  it lacks its input, connected it is deferred, and each review reads the stored counts.
* Types of outputs are never compared, with the payload or with the input; the pruner does
  compare them. The pruner looks at the target's protection only, so it offers connections
  out of a protected component that the validator always refuses. A component may declare
  two inputs of one name: the pruner offers both, the validator knows the last
  (`NamedOnce` in `OfferedIsLegal`).
* A boot that raises leaves what it started; what is registered and was never activated
  passes the validator, and the readiness check skips it.

In the extensions:

* A norm that is no number passes Nektar++'s check too.
* Octave takes an unreadable package list for missing packages, and a Kubernetes job without
  a result, in Octave and FEALPy, for a missing environment; `CauseNamed` of the two names
  these exceptions.
* FEALPy's darcy, stokes and navier_stokes scripts print no norms and always miss their
  outputs; a Kubernetes run of FEALPy can never pass.
* JEDI's `has_structured_signal` is always true; its environment report is not consulted by
  the executor, nor is ABACUS's.
* QCompute: a stale calibration blocks though it is documented as a warning; a submission
  whose answer is lost is repeated and may run twice; a poll that times out leaves the job.
* DeePMD: "not converged" matches the pattern for convergence; three statuses are
  unreachable. Lean: a real task without its environment variable runs the mock.
* AI4PDE commits its graph before the candidate is validated, and consults neither the
  required validators nor the risk decision.
* Studies: a step of zero or less never ends; Octave's range without values gives an empty
  grid; FEALPy's drop ratio divides by zero and loses the study; DeePMD's, QCompute's and
  FEALPy's may recommend what the policy deferred; Nektar++ takes a metric of 0.0 for
  infinity, and where nothing converged it recommends a trial that need not have passed;
  an optimizer asked for no proposal makes one; JEDI blames the policy for trials that failed
  validation.

## 6. What the models leave out

* `CutoverDrain`: the order in which one thread's messages are handled; dispatch modes (where
  a loop runs, the coroutine of an asynchronous replay is dropped,
  `core/connection_engine.py:317`);
  handlers that promote a graph themselves (they wait for their own emission, a deadlock
  up to the timeout). The phases are those a drain reads and writes.
* `Promotion`: one thread; the verdicts of validator, pipeline and probes are inputs; a
  session store that raises; selection records; provenance. Where verdicts come from, and
  the approval of protected components, is `Admission`.
* `HotSwap`: how a migration adapter is found; what probes look at; one component. A
  suspended or stopped component is assumed to accept nothing; the default `suspend`
  (`sdk/base.py:47`) does nothing, so a component has to see to that itself.
  `Retries = FALSE` excludes a second swap in an epoch whose first swap failed.
* `ExecutionLifecycle`: local executors, which run the solver inside `submit`; the
  Kubernetes backend; a run without a polling strategy. scancel is taken to have its
  effect before it returns.
* `EvidenceRecords`: one call at a time (none of these calls awaits); a payload that is
  no JSON; the filters of `get_events`; the provenance graph, which is written beside and
  read by no step. Different entries are taken to have different canonical JSON, and
  different inputs different SHA-256 digests. Two stores over the same files are not
  modelled.
* `GraphValidation`: endpoints without a port; the order of issues. A slot is a primary
  one. A payload is a type.
* `Admission`: reviews and roll-backs while a submission waits, and approvals granted by a
  subscriber (`stack = <<>>` in their guards); lifecycle phases, versions and drain, which
  are in `Promotion` and `CutoverDrain`; what shadow runners answer; a policy component
  other than the standard one; observation probes. Under `warn_only` the gate reads no
  counts, so none are kept. `calls`, `MaxDepth`, `MaxSick` are bounds.
* The extensions: the text of inputs and outputs (a file, a norm, a message is there, is
  within or beyond, is unreadable); the SLURM backends of Octave and FEALPy, which are in
  `ExecutionLifecycle`; benchmark lanes; adapters that only copy fields; one
  task at a time.
* `Studies`: metrics that are no numbers (Nektar++ drops a NaN when it reads one) or
  negative; grids of more than two axes; a midpoint that is no tenth.
* The mutation path of the safety pipeline (guards, mutators, reducers, batches), which no
  code of the runtime calls; the migration adapters' lookup.
* Not modelled at all: scores, templates and searches of the core's optimizer; metrics and
  the provenance graph, which nothing reads back; the research loop and the scripts.
* Hazards in the code that no property covers, beside the two that `PROJECT.json` lists:
  a resume of the incoming instance that raises after it took effect (`hotreload/swap.py:187`);
  a cancelled swap (`hotreload/saga.py:64`); a job taken before `submit` raised
  (`core/execution.py:77`); `after_index`, which counts differently in the two session
  stores (`observability/events.py:59`). The models exclude these cases by the conditions
  named above.

## 7. Plan

The order follows what would hurt most when wrong. Distinct questions are kept to about
a dozen runs; a new one replaces or joins the run it is closest to.

1. Done: `GraphVersions`, `CutoverDrain`, `Promotion`, `HotSwap`, `ExecutionLifecycle`,
   and the proofs about them.
2. Done: `MerkleTree` and `EvidenceRecords`, with the proofs about them. To come: a
   session store that raises in the middle of a promotion (`Promotion` over the file
   store).
3. Done: `GraphValidation`, `SafetyGates`, `Boot`, `Admission`, and the proofs about it.
   To come: `Promotion` that takes its verdict from them; the mutation path of the
   pipeline.
4. Done: `ExtensionRun`, the twelve extensions, `Studies`, and the proofs about them. To
   come: several tasks over one scheduler, benchmark lanes.
5. `OptimizerControl`: triggers with cooldown and edge, convergence, dead ends; the lookup
   of migration adapters.
6. Done: proofs about the search for cycles, the boot order, the assembly-health gate and
   the pruner, and about the extensions for any number of runs.
