------------------------------ MODULE Scheduler ------------------------------
(***************************************************************************)
(* One run of DeterministicScheduler.run (src/src/ael/scheduler.py): the   *)
(* multi-rate co-simulation of the components of a system, with delayed    *)
(* injections between them, stimuli, checkpoints, cancellation, failures   *)
(* of every adapter call, and the evidence that is written at the end.     *)
(*                                                                         *)
(* The value a component puts out is known by the virtual time its step    *)
(* ended at.  Stimuli and faults are injected alike and are both called    *)
(* stimuli.  An exception of any adapter call, and the wall clock timeout, *)
(* may happen wherever the code can meet them.                             *)
(***************************************************************************)
EXTENDS Naturals, FiniteSetsExt

CONSTANT Experiments   \* an experiment and its system in one record, see Valid

\* The field constraints of SystemComponent, SystemManifest and ExperimentSpec
\* (contracts.py), and that a connection joins two ports of the manifest.
ASSUME ExperimentsAssumption ==
  \A e \in Experiments :
    /\ \E n \in DOMAIN e.steps : n \in Nat /\ e.steps \in [1..n -> Nat]
    /\ e.wires \subseteq (DOMAIN e.steps) \X (DOMAIN e.steps)
    /\ e.macro_step \in Nat \ {0} /\ e.duration \in Nat \ {0}
    /\ e.checkpoint \in Nat
    /\ \A s \in e.stimuli : s.at \in Nat

VARIABLES
  experiment,   \* the documents of this run; never changes
  pc,
  now,          \* virtual_time
  next,         \* component the preparing or stepping loop is at
  entered,      \* "adapters": the components whose prepare() returned
  local,        \* virtual time each component has been simulated to
  pending,      \* pending_injections
  received,     \* per wire: the sample last injected into its target, 0 for none
  injected,     \* stimuli that have been injected
  live,         \* components whose backend process runs
  snapshots,    \* <<component, checkpoint, virtual time of the component>>
  rescued,      \* components with a snapshot taken because of an exception
  cancelled,    \* the cancel event is set ...
  localThen,    \* ... and "local" at that time (history)
  status,
  bundle        \* status in bundle.json

loopVars == <<now, local, pending, received, injected, snapshots>>
adapterVars == <<entered, live>>
cancelVars == <<cancelled, localThen>>

schedulerVars == <<experiment, pc, next, loopVars, adapterVars, rescued, cancelVars,
                   status, bundle>>

Components == DOMAIN experiment.steps
Wires == experiment.wires

QuantumLargest(e) == Max({e.macro_step} \cup {e.steps[c] : c \in DOMAIN e.steps})

\* The greatest common divisor of the macro step and the periodic steps.
QuantumOf(e) ==
  LET periods == ({e.macro_step} \cup {e.steps[c] : c \in DOMAIN e.steps}) \ {0}
  IN  Max({q \in 1..e.macro_step : \A p \in periods : p % q = 0})

Quantum == QuantumOf(experiment)

\* A component without step_us, here 0, takes part in every quantum.
StepOf(c) == IF experiment.steps[c] = 0 THEN Quantum ELSE experiment.steps[c]

\* ExperimentSpec.validate_timeline; checkpoint 0 is no checkpoint interval.
Valid(e) ==
  /\ \A s \in e.stimuli : s.at <= e.duration
  /\ e.duration % e.macro_step = 0
  /\ e.checkpoint % e.macro_step = 0

Init ==
  /\ experiment \in {e \in Experiments : Valid(e)}
  /\ pc = "preparing" /\ now = 0 /\ next = 1
  /\ entered = {} /\ live = {}
  /\ local = [c \in Components |-> 0]
  /\ pending = {} /\ injected = {}
  /\ received = [wire \in Wires |-> 0]
  /\ snapshots = {} /\ rescued = {}
  /\ cancelled = FALSE /\ localThen = local
  /\ status = "running" /\ bundle = "none"

\* The control plane sets the cancel event, at any time.
SetCancel ==
  /\ ~cancelled /\ pc # "done"
  /\ cancelled' = TRUE
  /\ localThen' = local
  /\ UNCHANGED <<experiment, pc, next, loopVars, adapterVars, rescued, status, bundle>>

\* The try block is left with status s.
LeaveWith(s) ==
  /\ pc' = "closing"
  /\ status' = s
  /\ UNCHANGED <<experiment, next, loopVars, entered, cancelVars, bundle>>

\* An exception: every prepared component is snapshotted, as far as that works.
Raise ==
  /\ LeaveWith("failed")
  /\ rescued' \in SUBSET entered

------------------------------------------------------------------------------
(* Preparation of the components, in the order of the manifest.              *)

Preparing == pc = "preparing" /\ next \in Components

PrepareAdapter ==
  /\ Preparing
  /\ live' = live \cup {next}
  /\ entered' = entered \cup {next}
  /\ next' = next + 1
  /\ UNCHANGED <<experiment, pc, loopVars, rescued, cancelVars, status, bundle>>

\* The probe says that the backend is not available.
Blocked ==
  /\ Preparing
  /\ LeaveWith("blocked")
  /\ UNCHANGED <<live, rescued>>

\* prepare() raises, before or after it has started the backend process.
PrepareFails ==
  /\ Preparing
  /\ live' \in {live, live \cup {next}}
  /\ Raise

PreparedAll ==
  /\ pc = "preparing" /\ next \notin Components
  /\ pc' = "opening"
  /\ UNCHANGED <<experiment, next, loopVars, adapterVars, rescued, cancelVars, status,
                 bundle>>

------------------------------------------------------------------------------
(* The loop over virtual time.                                               *)

Opening == pc = "opening" /\ now < experiment.duration

Due == {p \in pending : p.at = now}

OpenQuantumUnchecked ==
  /\ Opening
  /\ received' = [wire \in Wires |->
        Max({received[wire]} \cup {p.made : p \in {d \in Due : d.wire = wire}})]
  /\ pending' = pending \ Due
  /\ injected' = injected \cup {s \in experiment.stimuli : s.at = now}
  /\ pc' = "stepping" /\ next' = 1
  /\ UNCHANGED <<experiment, now, local, adapterVars, snapshots, rescued, cancelVars,
                 status, bundle>>

\* Due injections, then the stimuli of this instant, reach their components.
OpenQuantum == ~cancelled /\ OpenQuantumUnchecked

CancelThenJudge ==
  /\ Opening /\ cancelled
  /\ \E verdict \in {"passed", "failed"} : LeaveWith(verdict)
  /\ UNCHANGED <<live, rescued>>

\* The loop is left; the assertions are not evaluated.
Cancel ==
  /\ Opening /\ cancelled
  /\ LeaveWith("cancelled")
  /\ UNCHANGED <<live, rescued>>

\* The wall clock timeout, or an injection that raises.
QuantumFails ==
  /\ Opening /\ ~cancelled
  /\ Raise
  /\ UNCHANGED live

TakesPartAlways(c) == TRUE

\* A component steps at the multiples of its own step only.
TakesPart(c) == now % StepOf(c) = 0

ArrivalNextQuantum(c) == now + Quantum

\* When the output of a step that begins now reaches its targets.
Arrival(c) == now + StepOf(c)

Stepping == pc = "stepping" /\ next \in Components

StepComponent ==
  /\ Stepping /\ TakesPart(next)
  /\ local' = [local EXCEPT ![next] = now + StepOf(next)]
  /\ pending' = pending \cup
       {[at |-> Arrival(next), wire |-> wire, made |-> now + StepOf(next)] :
          wire \in {v \in Wires : v[1] = next}}
  /\ next' = next + 1
  /\ UNCHANGED <<experiment, pc, now, received, injected, adapterVars, snapshots,
                 rescued, cancelVars, status, bundle>>

SkipForever == Stepping /\ ~TakesPart(next) /\ UNCHANGED schedulerVars

SkipComponent ==
  /\ Stepping /\ ~TakesPart(next)
  /\ next' = next + 1
  /\ UNCHANGED <<experiment, pc, loopVars, adapterVars, rescued, cancelVars, status,
                 bundle>>

\* step() raises, or a value it returns is not finite.
StepFails ==
  /\ Stepping /\ TakesPart(next)
  /\ Raise
  /\ UNCHANGED live

Closing == pc = "stepping" /\ next \notin Components

CheckpointDueAtStart ==
  experiment.checkpoint # 0 /\ now % experiment.checkpoint = 0

CheckpointDue ==
  experiment.checkpoint # 0 /\ (now + Quantum) % experiment.checkpoint = 0

CloseQuantum ==
  /\ Closing
  /\ snapshots' = IF CheckpointDue
                  THEN snapshots
                          \cup {<<c, now + Quantum, local[c]>> : c \in Components}
                  ELSE snapshots
  /\ now' = now + Quantum
  /\ pc' = "opening"
  /\ UNCHANGED <<experiment, next, local, pending, received, injected, adapterVars,
                 rescued, cancelVars, status, bundle>>

SnapshotFails ==
  /\ Closing /\ CheckpointDue
  /\ Raise
  /\ UNCHANGED live

------------------------------------------------------------------------------
(* Verdict, shutdown and evidence.                                           *)

\* Every critical assertion holds, or one does not.
Judge ==
  /\ pc = "opening" /\ now >= experiment.duration
  /\ \E verdict \in {"passed", "failed"} : LeaveWith(verdict)
  /\ UNCHANGED <<live, rescued>>

\* The evaluation of an assertion raises (operands that do not compare).
JudgeFails ==
  /\ pc = "opening" /\ now >= experiment.duration
  /\ Raise
  /\ UNCHANGED live

ShutdownIfPassed ==
  /\ pc = "closing"
  /\ live' = IF status = "passed" THEN live \ entered ELSE live
  /\ pc' = "finalizing"
  /\ UNCHANGED <<experiment, next, loopVars, entered, rescued, cancelVars, status,
                 bundle>>

\* The finally clause: every adapter of "adapters", whatever the others' answer.
Shutdown ==
  /\ pc = "closing"
  /\ live' = live \ entered
  /\ pc' = "finalizing"
  /\ UNCHANGED <<experiment, next, loopVars, entered, rescued, cancelVars, status,
                 bundle>>

\* bundle.json is written last, or finalize() raises before it.
Finalize ==
  /\ pc = "finalizing"
  /\ bundle' \in {status, "none"}
  /\ pc' = "done"
  /\ UNCHANGED <<experiment, next, loopVars, adapterVars, rescued, cancelVars, status>>

RunStep ==
  \/ PrepareAdapter \/ Blocked \/ PrepareFails \/ PreparedAll
  \/ OpenQuantum \/ Cancel \/ QuantumFails
  \/ StepComponent \/ SkipComponent \/ StepFails
  \/ CloseQuantum \/ SnapshotFails
  \/ Judge \/ JudgeFails \/ Shutdown \/ Finalize

Next == RunStep \/ SetCancel

Spec == Init /\ [][Next]_schedulerVars

\* The thread of the run is scheduled, and every adapter call ends.
FairSpec == Spec /\ WF_schedulerVars(RunStep)

------------------------------------------------------------------------------
(* Properties.                                                               *)

Horizon == experiment.duration + Max({StepOf(c) : c \in Components})

\* Every variable has its type; virtual time never passes the duration.
SchedulerTypeOK ==
  /\ experiment \in Experiments
  /\ pc \in {"preparing", "opening", "stepping", "closing", "finalizing", "done"}
  /\ now \in 0..experiment.duration
  /\ next \in Nat
  /\ entered \subseteq Components /\ live \subseteq Components
  /\ local \in [Components -> 0..Horizon]
  /\ pending \subseteq [at : 0..Horizon, wire : Wires, made : 0..Horizon]
  /\ received \in [Wires -> 0..Horizon]
  /\ injected \subseteq experiment.stimuli
  /\ snapshots \subseteq Components \X (0..Horizon) \X (0..Horizon)
  /\ rescued \subseteq entered
  /\ cancelled \in BOOLEAN
  /\ localThen \in [Components -> 0..Horizon]
  /\ status \in {"running", "blocked", "passed", "failed", "cancelled"}
  /\ bundle \in {"none", "blocked", "passed", "failed", "cancelled"}

\* While components step, the target of every wire works with the sample its
\* source had completed by now: none from the future, whatever the order of the
\* components in the manifest and their rates, and none older than necessary.
SampleAndHold ==
  pc = "stepping" =>
    \A wire \in Wires : received[wire] = now - (now % StepOf(wire[1]))

\* Between two quanta every component stands at the first of its own step ends
\* that is not before the virtual time: it neither lags behind nor runs ahead.
InLockstep ==
  pc = "opening" =>
    \A c \in Components :
      /\ local[c] % StepOf(c) = 0
      /\ now <= local[c] /\ local[c] < now + StepOf(c)

\* Every checkpoint is taken: by the time the loop has reached a multiple of the
\* checkpoint interval every component has a snapshot for it, taken at the first
\* of its own step ends that is not before.
CheckpointsTaken ==
  /\ pc = "opening" /\ experiment.checkpoint # 0 =>
       \A t \in 1..now, c \in Components :
         t % experiment.checkpoint = 0 => \E s \in snapshots : s[1] = c /\ s[2] = t
  /\ \A s \in snapshots :
       s[3] % StepOf(s[1]) = 0 /\ s[2] <= s[3] /\ s[3] < s[2] + StepOf(s[1])

\* Once the cancel event is set, no component makes more than one step.
CancelStopsWork ==
  cancelled => \A c \in Components : local[c] <= localThen[c] + StepOf(c)

\* However a run ends, no component it had prepared keeps a backend process.
SafeStop == pc \in {"finalizing", "done"} => live \cap entered = {}

\* The evidence never says more than what happened: "passed" only for a run that
\* simulated every component to the end, delivered every stimulus due at an
\* instant it visited and met no exception; "cancelled" only if somebody
\* cancelled; "blocked" only if nothing was simulated.
RanToTheEnd ==
  /\ now = experiment.duration
  /\ \A c \in Components : local[c] >= experiment.duration
  /\ \A s \in experiment.stimuli :
       s.at < experiment.duration /\ s.at % Quantum = 0 => s \in injected
  /\ rescued = {}

EvidenceHonest ==
  /\ bundle = "passed" => RanToTheEnd
  /\ bundle = "cancelled" => cancelled /\ rescued = {}
  /\ bundle = "blocked" => \A c \in Components : local[c] = 0

\* Every run ends, whatever fails and whenever it is cancelled.
RunEnds == <>(pc = "done")

\* Every stimulus of an experiment that passed validation reaches its component
\* in a run that passes (message of validate_timeline: a stimulus that is
\* rejected "falls outside experiment duration").
EveryStimulusDelivered ==
  bundle = "passed" => injected = experiment.stimuli

\* A run stops its backends safely ("safe-stop behavior", README.md:68): no
\* process it started is left when it is done.
BackendsStopped == pc = "done" => live = {}
==============================================================================
