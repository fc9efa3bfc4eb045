# Verification of Agentic Embedded Lab

TLA+ models of the control plane of AEL and of the Aether agent, checked with TLC
on small instances. Their safety properties and refinements are also proved with
TLAPS, for every instance. Paths below are relative to the repository; `src/ael/x.py` is
`src/src/ael/x.py` in `PROJECT.json`.

## The system

AEL runs embedded-systems experiments. A control plane (HTTP API, service,
SQL store) accepts experiments and tasks. Tasks are leased to outbound workers,
which run them in process: a scheduler co-simulates the components of a system
over backend processes and writes an evidence bundle. Device models pass a
chain of validation states, and releases are gated on the evidence. Aether is an
agent beside it whose plugins evolve at run time.

| Component | State | Operations | Talks to | Hard part | What makes it correct |
|---|---|---|---|---|---|
| Task store (`storage.py`, `storage_server.py`) | rows of `tasks` and `workers` | enqueue, cancel, register, lease (and requeue), heartbeat, complete | service, by SQL transactions | lapsed leases, stale tokens, two implementations | one story per row, idempotent submission, fencing, final verdicts |
| Outbound worker (`worker.py`) | program counter and locals of `execute`, one dispatch thread | poll, accept, renew, report | API, by HTTP; scheduler, by call and cancel event | lost, late and repeated requests, crash, a lease that lapses under a live holder | verdicts are earned, cancellation arrives, no task is stranded |
| Scheduler and evidence (`scheduler.py`, `evidence.py`) | virtual time, pending injections, adapters, status | run | adapters, by call; the control plane, by cancel event | several rates, failure of any call, cancellation | exact exchange of samples, complete checkpoints, safe stop, honest verdict |
| Service and run rows (`service.py`, `runs`) | rows of `runs`, four threads | start, run, replay, evidence | scheduler, store | crash or database failure during a run; documents edited meanwhile | a row never claims evidence that is not there; a replay repeats its run |
| Content-addressed store (`storage.py`) | files by digest | put | evidence, registry | two runs put the same content; crash during a write | a bundle's digests resolve |
| Model registry (`modeling.py`, `models`) | package file and row per model | generate, validate, transition | store, workspace files | load-check-save by several actors, two-step save | no state is reached without its evidence; file and row agree |
| Register maps (`contracts.py`, importers of `modeling.py`) | none | import, validate | registry | layout, reset values | no byte and no bit has two owners |
| Backend protocol (`adapters/`, `backend_workers/base.py`) | a process and two pipes per adapter; probe cache | probe, prepare, inject, step, snapshot, shutdown | scheduler; tools | an answer after the time limit, death of the process | answers match requests, or the adapter is not used again |
| Backend workers (Renode, openEMS) | snapshots, result caches | step, snapshot | tools | replay against resumption, cache keys | a resumed or cached step equals a computed one |
| FMI topology, wiring, SSP export and bridge (`fmi.py`, `contracts.py`, `native/`) | none | validate, export | service | loop search, dotted names | a loop is found exactly if there is one; accepted wires fit |
| Release gates and benchmarks (`benchmarks.py`, `provenance.py`, `service.py`, `scripts/`) | evidence files and manifests | run, merge, release_check | files | several runs write the same files | an open gate was earned by one run |
| Plugin registry and evolution (`aether/core`) | live plugins, snapshots | evolve, swap, roll back | agent | hooks that raise, threads | a report is true of the registry |
| Aether agent (`aether/core/agent.py`, `plugins/memory.py`, `server.py`) | working memory, event loop | run a turn, call a tool | model provider, plugins | turns and evolutions interleave | a tool's result follows its call |
| Lab worker, front ends, providers, firmware cases | mostly none | see `PROJECT.json` | | | |

`PROJECT.json` lists every component with what is modelled of it, and every
hazard with its line, and with the property that covers it or the reason why
none does.

## Modules

`TaskLifecycle` is the abstract specification of the task queue: what users rely
on, without leases, clocks or rows. A task is unknown, waiting, held or done;
grants are numbered; a worker's verdict bears the number of the latest grant; a
done task never changes.

`TaskStore` is the store. Its variables are columns, its actions transactions.
The clock is kept only as the relation of `lease_expires_at` to it (`LeaseRunsOut`).
A random token is modelled as fresh. A lease request is one action whether or
not it is granted a task, because it takes every lapsed lease back first. The
clients of `StoreSpec` are arbitrary: any worker may present any token for any
task. The module refines `TaskLifecycle` (`LifeOf`, `LifecycleSpec`). The two
implementations differ in two constants: `CandidateLimit` (20 in
`storage_server.py`, unlimited in `storage.py`) and `SkipLocked` (`FOR UPDATE SKIP
LOCKED` in `storage_server.py`: a request passes over queued rows that other
transactions hold at that moment, any set of them in the model).

`WorkerFleet` extends it with the workers. An answered request is one step of
worker and store. A request that times out stays in `late` and may be processed
at any later time or never, so that replies can be lost and requests delayed,
reordered and repeated after a restart. `earned` is a history variable: the
leases under which a dispatch returned normally. `Attended` says that the
process that holds a lease is there to renew it; a lease that lapses
nevertheless is counted as a fault.

`Scheduler` is one run of `DeterministicScheduler.run`: the preparation loop, the
loop over virtual time with one action per delivery, component step and
checkpoint, each with its exception, and the verdict, shutdown and bundle. The
documents are a constant set of records filtered by the validation of the code
(`Valid`). A value is known by the time its step ended at, which is all the
exchange properties need. `localThen` is a history variable.

`RunLifecycle` is what a reader of the `runs` table relies on: a run is queued,
starts once, gets a verdict together with its evidence, and may afterwards only be
turned to "failed". `ExperimentRun` implements it. It is the service around the
scheduler: `_execute` on the caller's thread or on one of `PoolSize` threads of the
executor, with `Scheduler.run` as one step (its own module says what that step
does), the content-addressed store to which the evidence goes, and a document that
may be edited between submission, start and replay. A database call may fail
before or after it took effect; a crash ends all threads and empties the
executor's queue, while rows and files stay. `put_bytes` is three steps (the file is
missing, it is opened, it is written), since runs put the same content.

`ModelRegistry` is the life of one device model. An operation loads the package
the row names, checks, and saves: the file first, then the row, each a step, none
under a lock. Humans and agents work at once, any operation may be cut short
between two steps, and the sources may be edited at any time. An evidence path is
known by its kind, by the generation of the IR its author saw and by whether a
human approved. `raced` and `signedOff` are history variables. `RegisterLayout` is
pure: what `HardwareBehaviorIR` accepts, and what the two importers make of a
document. A register value is the set of its 1 bits, so that shifts and masks are
set operations.

`BackendProtocol` is one backend process and its adapter. The pipes are sequences
of lines; text that the adapter's reader has fetched and not used is kept apart,
because `select()` does not see it. A call that timed out leaves its answer to come.
The user of the adapter is a probe, whose answer is cached, or a run of the
scheduler. The worker is Renode's: the state of the machine it simulates is its
history of inputs, so that a replay from reset or from a checkpoint can be compared
with what the run has been told.

`FmiTopology` is the depth-first search of `validate_fmi_topology` with its two sets,
and successors in any order. `SystemWiring` is pure: the names of ports and wires,
the split at the first dot and the table look-ups. `Acceptance` extends `FmiTopology`
with the release gates: runs of the benchmarks and of the software script that
write evidence, hash it afterwards and replace a manifest at the end, the FMI script
that searches, simulates and merges its entry into the manifest it read before, and
`release_check` of each state of the files. A run may be partial, fail or be cut short.

`PluginRegistry` is `evolve_plugin`, `hot_swap`, `create_snapshot` and `rollback`, one
action per access to the registry, with callbacks and writes that raise.
`AgentTurns` extends it with the turns of the agent: one event loop, which a turn
gives up only where it awaits or yields and an endpoint holds until its job is
done, and tools on threads that interleave with everything.

How the modules fit: `WorkerFleet` includes the store, `Acceptance` the search,
`AgentTurns` the registry. `Scheduler` is the dispatch that `WorkerFleet` only lets end
or raise, and the step that `ExperimentRun` calls `Simulate`; `RunEnds` of the one
justifies the fairness of the others. `BackendProtocol` is one adapter of `Scheduler`:
each of its calls ends with an answer or an exception (`SessionEnds`), as `Scheduler`
assumes.

`MC...` modules give constants their values, and evaluate the pure modules on bounded
inputs. Operators that precede a definition and are named for a deviation
(`LapsedOrLive`, `OpenQuantumUnchecked`) are plausible bugs: substituted for the
definition, each makes TLC refute the property `PROJECT.json` names under "mutants".

## Runs

| Run | Bounds | Shows |
|---|---|---|
| `task_store` | 2 workers of different capabilities, 3 tasks of which two share a key, 3 grants each | rows consistent, idempotent submission, live leases kept, refinement of `TaskLifecycle` |
| `fleet_safety` | 2 workers, 2 tasks, 3 grants each, 2 faults | fencing, its inductive core, earned verdicts, nothing reported after a cancellation, nothing given up that can come back |
| `fleet_progress` | the same with 2 grants and 1 fault | a cancellation reaches the worker; every task some worker can serve is decided |
| `fleet_server_limit` | 1 worker, candidate limit 1, no faults | violation: starvation behind the candidate limit |
| `scheduler` | 2 components wired both ways, steps 1 to 3 or none, macro step 1 to 3, durations 2 and 6, checkpoint interval 0 to 3 | all scheduler properties |
| `scheduler_stimuli` | the same | violation: an accepted stimulus is never injected |
| `scheduler_backends` | the same | violation: a backend whose preparation raised is not stopped |
| `experiment_run` | 3 runs, pool of 1, one shared digest, 1 edit, 1 failed call, 1 crash | rows are backed by evidence, replays repeat, digests resolve, refinement of `RunLifecycle`; without faults every run is decided |
| `model_registry` | 1 human, 1 agent, 2 versions, 2 generated IRs, 1 edit, 1 cut | states are earned, the gate counts what was signed, a version at rest is exact |
| `backend_protocol` | 3 sessions, 3 steps, 2 injections, input of 2 values, 1 death, 1 installation | answers are the call's own, Renode's replay is the run's history, sessions end |
| `agent_turns` | 2 turns of 1 step with 2 calls, 2 jobs, 2 plugins and a successor of each | results follow their calls, reports of an evolution are true |
| `acceptance` | 2 runs at once, 1 case, 1 backend, 1 Compose report, 1 FMI run, 1 fault, 2 systems of 3 components | an open gate was earned, a clean run opens it, the search decides loops |

Why the bounds are enough. A fencing error needs one lease that lapses, a second
holder and one request of the first one that is late, hence two workers and two
faults, and a third grant lets the first worker hold the task again. Two tasks make a
worker hold one while the other's lease lapses; three let a lease request pass
over one it cannot serve while two are lapsed. A duration of 6 is a common
multiple of all steps, 2 is not, and steps 2 and 3 make a quantum neither of them
has. The limit of 20 is scaled to 1, with one older task the worker cannot serve.
`SkipLocked` is TRUE in the safety runs, where it adds behaviours, and FALSE in the two
runs about progress: a row may be passed over for as long as others hold it, which no
fairness of the workers excludes, so progress is shown of the serialized store.

Three runs are a run, a replay of it and one that competes for the thread or for the
digest; one failure is enough because a row that an earlier failure has left behind
is never touched again. Two actors are the fewest that overtake each other; a second
version lets the row move between the steps of an operation, and a second
generation puts an IR under evidence for an earlier one. Three sessions are a probe, a
run and a run after it with the cached answer; three steps have two checkpoints
between them, so that a replay from the first differs from one from the second. Two
jobs are an evolution and what overlaps or follows it. Two runs of the
benchmarks can mix their entries, and the FMI script can bring back the manifest of
the first over the evidence of the second; a loop of three with a second path to its
last node has a target that is done and one that is on the way.

Some properties exclude by their premise what the code does let happen, and say so:
`AtRestExact` and `ReadyIsEarned` speak of behaviours in which no save, or no hash, was
overtaken (`raced`), `StepsSeeTheirHistory` of inputs that change only at clean
checkpoints, `EvolutionHonest` of evolutions without another at the same time,
`ResultsFollowCalls` of a memory that was not cleared under the turn. Each of these
premises is about one overlap; all others, and all failures, remain in the run.

The MC modules check, as assumptions that TLC evaluates:

- `SvdMapsDecided`, `SvdFieldsDecided`, `RdlFieldsDecided` (`MCModelRegistry`): on all
  documents of up to two registers or two fields over small sets of offsets, widths
  and resets, an importer accepts exactly those whose registers share no byte and
  whose fields share no bit, and SystemRDL's field resets agree with the register's.
- `LoopFreeIsAcyclic` (`MCAcceptance`): the definition of a loop that the search is
  measured by is that of the transitive closure, on all systems of three components.
- `WiresDecided`, `InputsToldApart` (`MCAcceptance`): accepted wires fit; without dots and
  repeated port names all wires that fit are accepted; inputs are confused by
  a backend exactly when their last parts agree, which dots in names allow.

The three violations are listed under "findings" with the lines that disagree.

`CHECK_DEADLOCK FALSE` stands where the system may stop: a run, a session, a
conversation or a model comes to its end, or a bound of the model is reached.

## Fairness

`LoopSpec` assumes that a waiting worker goes on renewing (the loop at
`worker.py:88` sleeps at most ten seconds) and not that experiments end.
`CompatibleTaskDecided` assumes `ProcessesRun` besides: each worker's steps are
taken when they stay possible, a dispatch ends (an experiment has a wall-clock
`timeout_s`, a tool call a time limit), the supervisor starts a process
that ended (`deploy/compose.yaml:124`; its limit of five attempts is ignored),
and the clock passes a lease nobody renews. No fairness is assumed of users, of
requests that timed out, or of faults. `Scheduler` needs that its thread is
scheduled and that adapter calls end, which they do by their time limit.

`ExperimentRun` assumes that each thread takes its next step when it stays possible
(`Advance`), which holds of the executor's threads and, by `RunEnds`, of the
simulation. `BackendProtocol` assumes it of the adapter alone: every wait of
`_call` and of `shutdown` has a time limit. Nothing is assumed of the process behind
the pipes, which may hang for ever. The other modules state no liveness.

## Proofs

Every theorem is about all values of the constants: any number of workers, runs,
actors, turns or components, and any number of the failures whose number the models bound.
With few exceptions an argument has the form `Init => Inv`, `Inv /\ [Next]_vars => Inv'` and
`Inv => property`; what follows says what `Inv` adds to the property, and why.

`WorkerFleetProofs`, first about `TaskStore`:

- `StoreTypeCorrect`: the type invariant.
- `StoreConsistent`: `LeaseConsistent`, the inductive core. It says for each status
  which lease columns and result a row shows. It is inductive with the types;
  it is needed because the WHERE clause of a report compares columns, and only
  this invariant ties them to the latest grant.
- `SubmissionIdempotent`: one row per key; the lemma `RowsAppearByEnqueue` says
  that no other operation makes a row.
- `LiveLeasesKept`: an action property; the step lemma goes through the operations.
- `StoreImplementsLifecycle`: the refinement. `UndecidedLife` computes the abstract
  life of a row from `LeaseConsistent`, the `...Edge` lemmas show the moves between
  written-out lives, and `LifeStep` matches each operation to one edge or a stutter.

Then about `WorkerFleet`:

- `FleetCorrect`: the inductive invariant, the types (`FleetTypeCorrect`),
  `LeaseConsistent` and `PresentedWasGranted` (`FleetPresentsGranted`). The last one is
  needed because `OneHolder` says nothing of
  tokens that are not on a row now, and a late request may present one at any later
  time: a token a worker or a request bears is at most `attempts` of its task, so that
  the next grant cannot repeat it, and was granted to that very worker.
- `FleetImplementsStore`: `FleetStepsStore` maps every step to one of the store or a
  stutter, since tokens presented are in the range `StoreNext` quantifies over. The
  store's invariants, and `FleetImplementsLifecycle`, follow without a second proof.
- `FleetOneHolder` and `FleetGaveUpOnlyWhatItLost`: from the invariant. The heart is
  `TokenMoves` (what one operation does to a token) and `LossStays` (a lost lease is
  never held again).
- `FleetSuccessIsEarned` and `FleetCancelledHasNoResult`: `DecidedStays` says that no
  operation changes a decided row, `FleetDecides` how a row becomes decided.

`SchedulerProofs` proves about `Scheduler` all the safety properties its run checks. Nothing
bounds the times of an experiment, so the argument is one about multiples:

- `QuantumDivides`: the quantum divides the duration, the checkpoint interval and every
  component's step (`Grid`); `HorizonBounds`: the times that occur are bounded. The
  arithmetic of remainders is in the lemmas at the head of the module.
- `ComponentsInLockstep`: `Lockstep` says that each component stands at the first of its
  own step ends that is not before the virtual time, or, if its turn in the open quantum
  is over, not before the end of the quantum (`Reached`). Two multiples of a step less
  than a step apart are one, which is why a component is due exactly when it stands at `now`.
- `SchedulerTypeCorrect`: with `Lockstep`, since only the place where a component stands
  bounds the times of its samples.
- `SamplesAreHeld`: `WiresHeld` says of each wire whether its newest sample is delivered or
  is the only one on the way, and for which time. It changes from one to the other at the
  two moments a reader of the code would guess, the step of the source and the opening of the
  quantum at which the sample is due.
- `NoCheckpointMissed`: `CheckpointsKept` says that every multiple of the interval up to the
  virtual time has a snapshot of every component, taken at its first step end that is not
  before. A quantum cannot pass a multiple by, since it divides the interval
  (`LastMultiple`), and by `Lockstep` the component stands where the snapshot needs it.
- `CancelStops`: after the cancellation a component whose turn in the open quantum is still
  to come has not moved (`CancelKept`).
- `EvidenceIsHonest`: `StimuliKept`, that every stimulus at an instant the loop has visited is
  injected, and `EvidenceKept`, that the status is settled where the loop is left, by what
  happened until then. `StopsSafely` is inductive as it stands.
- `RunIsFinite`: every step of the run's thread lowers its rank (the stage, the virtual time
  left, the half of the quantum, the components the loop has before it) in the
  lexicographic order of such ranks, which is well-founded (`DescentWellFounded`), and
  a cancellation leaves the rank as it is. That time left is a number is `Grid` again.

`ExperimentRunProofs` proves about `ExperimentRun`:

- `RunsCorrect`: the inductive invariant `RunInv`. `StageOK` says for each place of a
  thread what its row, its bundle and the document it recorded show; the places
  behind an exception need it most, since a call that failed may have taken effect
  (`excuse` allows a row that already names evidence). `Sourced` says that a replay's
  source has its evidence and that what either has recorded agrees; it needs
  `EvidenceKept`, that no row loses its evidence.
- `RunTypeCorrect`, `RowsBacked`, `ReplaysRepeat`: from the invariant.
- `RowsImplementLifecycle`: the refinement. `RowWritten` shows for each status written
  to the row which move of `RunLifecycle` it is.
- `BundlesResolve`: `StoreKept` says of each digest that a file opened and not yet written
  has its writer, and that a digest some run has behind it is written or being written. The
  second half is what a run relies on that found the file and put nothing itself.
- `RunsAreFinite`: every step of a run's own thread lowers its rank (its place, the digests
  still to be put, whether a file is to be opened and filled), and no step of another run, of
  a user or of the process's end raises it. Runs that meet in the store cannot send each
  other back.

`ModelRegistryProofs` proves about `ModelRegistry`:

- `RegistryCorrect`: the inductive invariant `RegistryInv`: types, `FilesOK` (every
  document in a file is earned), `SavesOK` (so is every document on its way) and
  `GateCountsSigned`. `SavesOK` adds that behind the first step of a save an approved
  document's version counts as signed; the row is written without looking at the
  file again, and only this ties it to what was saved. `PromotedEarned` is the lemma
  about the chain of states: a legal promotion that brings what its target demands
  keeps what the earlier states demanded. That operations overtake each other does not
  matter, since each saves the document it loaded with more evidence, never less.
- `RegistryTypeCorrect`, `StatesEarned`, `GateCountsOnlySigned`: from the invariant.
- `AtRestIsExact`: `ExactInv` says of each file that it is exact or some operation is still
  going to write it, and of each operation about to save the same, unless its mark shows
  that it was overtaken. The property of a version at rest is too weak to be inductive:
  in the middle of an operation nothing need agree, and what must hold is that whoever
  will make it agree is under way.

`BackendProtocolProofs` proves about `BackendProtocol`:

- `BackendTypeCorrect`: the type invariant, which contains that no machine is simulated
  past the end of its run. It needs that worker and adapter agree on the time
  (`WorkerPlaced`, `InStep`), and so that lines belong to their calls.
- `CallsGetOwnAnswers`: `LinesInv`. The lines under way (answers read and not used, answers
  in the pipe, the request in the tool, requests in the pipe) have consecutive ids that
  end with the latest one (`InOrder`); without a timeout there is at most one, the call's
  own (`Counted`), and it is the call (`Matched`). After a timeout there is one more than the
  call, so that the first id to come is not the call's.
- `StepsSeeHistory`: `RunKept`. While inputs change at clean checkpoints alone
  (`Replayable`), the snapshot has the history the run had told by then, and what was told
  since is constant: this is what makes a replay from the snapshot with the current input
  equal to the run. A step that has been done and not read is a case of its own
  (`StepAnswer`), since worker and adapter disagree there about the time.
- `SessionsAreFinite`: every step of the adapter's thread lowers its rank (the stage of the
  session, the steps left, the calls that can still come before the next step, whether the
  call is to be made and the process to be killed), and nothing the process or the host
  does raises it. It needs `MarkAwaited`, that a checkpoint that is asked for is not made twice.

`AcceptanceProofs` proves about `FmiTopology` and `Acceptance`:

- `TopologyDecided`: the search accepts exactly the systems
  without a loop, for every set of components and every order of the successors. A loop
  is a nonempty set of components each of which has a successor in it; the inductive
  invariant `SearchInv` says that the path has no repetition and follows wires, that the
  visited set is closed under successors, and that it contains no loop
  (`ReturnKeepsLoopFree`: what a returning call adds has all successors in it).
  `ExportDecided` is the same of the searches of the FMI script.
- `SearchIsLinear`: every step burns one unit of `Fuel`, which starts at `2n + 1` for n
  components and is never negative. By `PathFits` the path is an injection into the
  components that are not visited, so that no call is left without fuel to return.
- `GateIsEarned`: `EarnedInv`. As long as no hash was overtaken, every entry of a run under
  way is `About` that run, a manifest is `ManifestOf` one run that is done, and so is the
  manifest the FMI script has in hand; `FmiKept` says that the script merges an entry only
  for a system without a loop. The gate then finds a complete manifest of one revision
  only if one run wrote it.
- `CleanRunOpensGate`: the other direction. `LeftAlone` follows a complete run that is the
  only one, entry by entry: what is behind it passed and is still in the files (`Passing`),
  what is ahead is the rest of the plan (`InPlan`), and no later entry writes the file of
  an earlier one (`FilesApart`). This needs `NamesAssumption`, that cases, backends and
  entries of other kinds have different names, as in the catalog, and that each backend
  has a case.

`AgentTurnsProofs` proves about `PluginRegistry` and `AgentTurns`:

- `EvolutionReportsHonestly`: an action property. `Stage` says for each place of an intact
  evolution what is registered and loaded; `KeepsBefore` that its snapshot, if it kept one,
  is the plugin it found at the beginning, which `hot_swap`'s own snapshot of the same plugin
  does not disturb. `IntactAlone` says that nothing else is under way, so that only the job's own
  steps matter, and `HoldsMade` that a new plugin is not among those registered or kept:
  otherwise unloading the failed one could unload the one restored.
- `ResultsInOrder`: `LoopHeld` says that a turn which appends results holds the event loop,
  `LastIsOwn` that the last message is the one it appended last, or that the memory was
  cleared and is empty.

`DocumentProofs` is about the pure definitions of `RegisterLayout` and `SystemWiring`:
`AcceptedBytes` and `AcceptedBits` (an accepted map gives no byte and no bit to two
owners, although the code compares each register with the earlier ones only),
`RdlResetsAgree` (a field's reset is found in the register's again), and
`AcceptedWiresFit` (whatever dots the names hold).

The proofs assume only the named ASSUMEs of the modules, which TLC evaluates in every run:
ids of tasks, runs and jobs are numbers; NULL and the absent run, task, digest, plugin or
turn are no ids; humans are no agents; bounds are natural numbers; contents, systems,
plugins and experiments have their types (`ExperimentsAssumption`: steps and durations are
numbers, wires join components; the divisibility is what `Valid` checks, and is not assumed);
the components of a system and the files of a run's evidence are finitely many
(`ComponentsAssumption`, `ContentAssumption`);
the names of acceptance entries are apart (`NamesAssumption`). A theorem that speaks of
behaviours without a certain overlap takes over that premise from its property (see Runs).

Only model-checked: all liveness, which is out of the provers' reach, as is ENABLED
(`CancelReachesWorker`, `CompatibleTaskDecided`, `RunEnds`, `RunsAreDecided`, `SessionEnds`).
Of the last three, the half that needs no fairness is proved: the threads' steps descend in a
well-founded order (`RunIsFinite`, `RunsAreFinite`, `SessionsAreFinite`); that a thread which has
not ended can always take one, and takes it, is the half left to TLC. Also left to TLC:
what a refinement of fair specifications would add; what the MC modules assert of the
importers, of wires with dots and of the transitive closure, over bounded documents. The
three violations are shown by their runs.

## Not modelled

The components with status `not_modelled` in `PROJECT.json`, with the reason.
Within the modelled ones:

- tasks: payloads, messages, progress and timestamps; the audit table; a worker row that
  is disabled (no code does it); the look-up and insertion of a submission as two
  statements (the UNIQUE key makes the second of two concurrent insertions fail, which
  is a stutter);
- scheduler: values of signals, metrics and assertions; the files and hashes of the
  evidence; what a component did before its step raised; several runs in one process;
- runs: the system manifest of a replay (the code promises nothing of it); two processes
  on one database;
- registry: the text of a package beyond its state, evidence, signature and source hash;
  the C# source; the prompts and attempts of a generation; several models, which share
  nothing;
- backend: the other tools' workers, which keep no state between steps but openEMS's
  cache of results; the drain of stderr;
- gates: the production profile, which counts approved models besides
  (`GateCountsSigned`); files that change while the gate reads them;
- FMI: the text of an SSP, the bridge's socket server and the C++ proxies;
- agent: the model provider, sessions on disk, file endpoints, the desktop packaging.

## Plan

1. openEMS's cache of results and the workers that are wrapped by the FMI bridge; the order
   of operations of the lab worker.
2. The scheduler composed with the protocol of its adapters, so that what `Scheduler` assumes
   of a call follows from `BackendProtocol` rather than from `SessionEnds` alone.
3. The production profile of the release gate over `ModelRegistry` and `Acceptance`.
