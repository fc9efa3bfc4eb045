---------------------------- MODULE BackendProtocol ----------------------------
(***************************************************************************)
(* One backend process and the adapter that talks to it over two pipes:    *)
(* SubprocessAdapter (src/src/ael/adapters/subprocess_adapter.py), used    *)
(* the way AdapterCatalog.probe and DeterministicScheduler.run use it,     *)
(* and BackendWorker.serve with the worker for Renode                      *)
(* (src/src/ael/backend_workers/base.py, renode.py).                       *)
(*                                                                         *)
(* A line of a pipe is a request or a response with its id.  A response    *)
(* may come after the call that asked for it has given up; it then stays   *)
(* in the pipe.  Text read from the pipe and not used yet waits in the     *)
(* adapter's reader, where select() does not see it.                       *)
(*                                                                         *)
(* Every step is one unit of virtual time.  A simulated machine is known   *)
(* by its history: the input that was in force in each unit since reset.   *)
(***************************************************************************)
EXTENDS Naturals, SequencesExt

CONSTANTS
  Values,        \* values of the one input; 0 is the value after reset
  MaxSteps,      \* bound of the model: steps of one run
  MaxInjections, \* bound of the model: injections of one run
  MaxSessions,   \* bound of the model: probes and runs
  MaxDeaths,     \* bound of the model: processes that die by themselves
  MaxInstalls    \* bound of the model: times the tool is installed or removed

ASSUME BackendAssumption ==
  /\ 0 \in Values
  /\ {MaxSteps, MaxInjections, MaxSessions, MaxDeaths, MaxInstalls} \subseteq Nat

VARIABLES
  session,       \* what the user of the adapter is doing
  call,          \* the request _call waits for, or NoCall
  issued,        \* requests made in this session; the last one's id
  late,          \* a call of this session has timed out (history)
  process,       \* "none", "up", or "dead" and not waited for
  stdin, stdout, \* the two pipes, lines
  reader,        \* lines the adapter has read and not used
  worker,        \* attributes of the worker in the process
  serving,       \* request whose tool runs, or NoCall
  told,          \* input in force in each step of the run that was answered
  held,          \* input injected last
  injections,
  marks,         \* checkpoints of the run, see Mark
  seen,          \* machine the last answered step was simulated on
  probed,        \* AdapterCatalog._probe_cache: "unknown", "yes" or "no"
  installed,     \* the tool, in its expected version, is on this host
  sessions, deaths, installs

callVars == <<session, call, issued, late>>
processVars == <<process, stdin, stdout, reader, worker, serving>>
runVars == <<told, held, injections, marks, seen>>
hostVars == <<installed, sessions, deaths, installs>>
vars == <<callVars, processVars, runVars, probed, hostVars>>

NoCall == [id |-> 0, op |-> "none", at |-> 0, value |-> 0]
NoSnapshot == [taken |-> FALSE, at |-> 0, history |-> <<>>]

\* A worker looks for its tool when it starts, and only then.
NewWorker ==
  [available |-> installed, prepared |-> FALSE, input |-> 0, time |-> 0,
   snapshot |-> NoSnapshot, served |-> FALSE]

Init ==
  /\ installed \in BOOLEAN
  /\ session = "idle" /\ call = NoCall /\ issued = 0 /\ late = FALSE
  /\ process = "none" /\ stdin = <<>> /\ stdout = <<>> /\ reader = <<>>
  /\ worker = NewWorker /\ serving = NoCall
  /\ told = <<>> /\ held = 0 /\ injections = 0 /\ marks = {} /\ seen = <<>>
  /\ probed = "unknown"
  /\ sessions = 0 /\ deaths = 0 /\ installs = 0

------------------------------------------------------------------------------
(* The adapter: _start, _call.                                               *)

\* A new adapter starts its process.
Open(kind) ==
  /\ session = "idle" /\ sessions < MaxSessions
  /\ session' = kind /\ issued' = 0 /\ late' = FALSE
  /\ process' = "up" /\ stdin' = <<>> /\ stdout' = <<>> /\ reader' = <<>>
  /\ worker' = NewWorker /\ serving' = NoCall
  /\ told' = <<>> /\ held' = 0 /\ injections' = 0 /\ marks' = {} /\ seen' = <<>>
  /\ sessions' = sessions + 1
  /\ UNCHANGED <<call, probed, installed, deaths, installs>>

OpenProbe == probed = "unknown" /\ Open("probe")

OpenRun == probed = "yes" /\ Open("prepare")

Write(op, at, value) ==
  LET request == [id |-> issued + 1, op |-> op, at |-> at, value |-> value]
  IN  /\ call = NoCall
      /\ call' = request
      /\ issued' = issued + 1
      /\ stdin' = Append(stdin, request)
      /\ UNCHANGED <<session, late, process, stdout, reader, worker, serving, runVars,
                     probed, hostVars>>

\* select() returned: a line in the pipe, or its end.  readline() takes the oldest
\* line of the reader, which fetches from the pipe only when it has none.
Readable == stdout # <<>> \/ process = "dead"

Lines == IF reader = <<>> THEN stdout ELSE reader

ReadLine ==
  /\ Readable /\ Lines # <<>>
  /\ reader' = Tail(Lines)
  /\ stdout' = IF reader = <<>> THEN <<>> ELSE stdout

RefusedIgnoringId == ~Head(Lines).ok

\* request_id mismatch, or the answer says ok = false.
Refused == Head(Lines).id # call.id \/ ~Head(Lines).ok

Answered == call # NoCall /\ ReadLine /\ ~Refused /\ late' = late

\* The call raises: a refused answer, the end of the pipe, or no answer in time.
Failed ==
  /\ call # NoCall
  /\ \/ ReadLine /\ Refused /\ late' = late
     \/ /\ process = "dead" /\ Lines = <<>>
        /\ UNCHANGED <<late, reader, stdout>>
     \/ /\ ~Readable /\ late' = TRUE
        /\ UNCHANGED <<reader, stdout>>

Returned(then) ==
  /\ session' = then
  /\ call' = NoCall
  /\ UNCHANGED <<issued, process, stdin, worker, serving, hostVars>>

------------------------------------------------------------------------------
(* Probing, and the life of an adapter in DeterministicScheduler.run.        *)

AskProbe == session = "probe" /\ issued = 0 /\ Write("probe", 0, 0)

\* Whatever came out of the probe is kept for the life of the catalog.
ProbeAnswered ==
  /\ session = "probe" /\ Answered
  /\ probed' = IF Head(Lines).available THEN "yes" ELSE "no"
  /\ Returned("close")
  /\ UNCHANGED runVars

ProbeFailed ==
  /\ session = "probe" /\ Failed
  /\ probed' = "no"
  /\ Returned("close")
  /\ UNCHANGED runVars

AskPrepare == session = "prepare" /\ issued = 0 /\ Write("prepare", 0, 0)

Prepared ==
  /\ session = "prepare" /\ Answered
  /\ Returned("run")
  /\ UNCHANGED <<runVars, probed>>

\* The scheduler has not listed the adapter yet: nobody shuts it down.
PrepareFailed ==
  /\ session = "prepare" /\ Failed
  /\ Returned("idle")
  /\ UNCHANGED <<runVars, probed>>

Now == Len(told)

AskInject ==
  /\ session = "run" /\ Now < MaxSteps /\ injections < MaxInjections
  /\ \E v \in Values \ {held} : Write("inject", Now, v)

AskStep == session = "run" /\ Now < MaxSteps /\ Write("step", Now, 0)

\* A checkpoint is taken at the end of a quantum.  It is clean unless the input
\* changed after the last step: a component that does not step in every quantum
\* is injected into all the same.
Mark == [at |-> Now, clean |-> held = Last(told)]

AskCheckpoint ==
  /\ session = "run" /\ Now > 0 /\ Mark \notin marks
  /\ Write("checkpoint", Now, 0)

CallAnswered ==
  /\ session = "run" /\ Answered
  /\ held' = IF call.op = "inject" THEN call.value ELSE held
  /\ injections' = IF call.op = "inject" THEN injections + 1 ELSE injections
  /\ told' = IF call.op = "step" THEN Append(told, held) ELSE told
  /\ seen' = IF call.op = "step" THEN Head(Lines).history ELSE seen
  /\ marks' = IF call.op = "checkpoint" THEN marks \cup {Mark} ELSE marks
  /\ Returned("run")
  /\ UNCHANGED probed

\* An exception ends the run; a last snapshot is tried, whatever comes of it.
CallFailed ==
  /\ session = "run" /\ Failed
  /\ Returned("rescue")
  /\ UNCHANGED <<runVars, probed>>

AskRescue == session = "rescue" /\ Write("snapshot", Now, 0)

Rescued ==
  /\ session = "rescue" /\ (Answered \/ Failed)
  /\ Returned("close")
  /\ UNCHANGED <<runVars, probed>>

RunOver ==
  /\ session = "run" /\ call = NoCall
  /\ session' = "close"
  /\ UNCHANGED <<call, issued, late, processVars, runVars, probed, hostVars>>

------------------------------------------------------------------------------
(* shutdown.                                                                 *)

AskShutdown == session = "close" /\ process = "up" /\ Write("shutdown", 0, 0)

ShutdownAnswered ==
  /\ session = "close" /\ Answered
  /\ Returned("wait")
  /\ UNCHANGED <<runVars, probed>>

ShutdownFailed ==
  /\ session = "close" /\ Failed
  /\ Returned("wait")
  /\ UNCHANGED <<runVars, probed>>

KillServed ==
  /\ session = "wait" /\ process = "up" /\ worker.served
  /\ process' = "dead"
  /\ UNCHANGED <<callVars, stdin, stdout, reader, worker, serving, runVars, probed, hostVars>>

\* terminate() after a failed call, or kill() when wait(timeout=5) expires.
Kill ==
  /\ session = "wait" /\ process = "up"
  /\ process' = "dead"
  /\ UNCHANGED <<callVars, stdin, stdout, reader, worker, serving, runVars, probed, hostVars>>

Closed ==
  /\ session \in {"close", "wait"} /\ call = NoCall /\ process = "dead"
  /\ session' = "idle"
  /\ process' = "none"
  /\ UNCHANGED <<call, issued, late, stdin, stdout, reader, worker, serving, runVars,
                 probed, hostVars>>

------------------------------------------------------------------------------
(* The worker: serve, handle, and the Renode operations.                     *)

Repeated(value, n) == [i \in 1..n |-> value]

\* The machine Renode simulates up to a time: from the last checkpoint or from
\* reset, with the inputs of today written at its start.
Simulated(until) ==
  worker.snapshot.history \o Repeated(worker.input, until - worker.snapshot.at)

Respond(request, ok, history) ==
  stdout' = Append(stdout, [id |-> request.id, ok |-> ok, history |-> history,
                            available |-> worker.available])

Waiting == process = "up" /\ serving = NoCall /\ stdin # <<>> /\ ~worker.served

\* A checkpoint at the time of the last one copies its file.
HasSnapshot == worker.snapshot.taken /\ worker.snapshot.at = worker.time

NeedsTool(request) ==
  request.op = "step" \/ (request.op = "checkpoint" /\ ~HasSnapshot)

\* _require_available and _require_prepared.
Rejected(request) ==
  \/ request.op # "probe" /\ ~worker.available
  \/ request.op \notin {"probe", "prepare"} /\ ~worker.prepared

TakeRequest ==
  /\ Waiting
  /\ stdin' = Tail(stdin)
  /\ UNCHANGED <<callVars, process, reader, runVars, probed, hostVars>>

\* serve returns after a shutdown request, also after one it rejected.
Reject ==
  /\ TakeRequest
  /\ Rejected(Head(stdin))
  /\ Respond(Head(stdin), FALSE, <<>>)
  /\ worker' = [worker EXCEPT !.served = Head(stdin).op = "shutdown"]
  /\ UNCHANGED serving

\* The requests that run no tool.  prepare() may fail on its model, a snapshot on
\* its file; one that is not a checkpoint only writes down the attributes.
MayFail(request) == request.op \in {"prepare", "checkpoint", "snapshot"}

Serve ==
  /\ TakeRequest
  /\ LET request == Head(stdin)
     IN  /\ ~Rejected(request) /\ ~NeedsTool(request)
         /\ \E ok \in {TRUE, ~MayFail(request)} : Respond(request, ok, <<>>)
         /\ worker' =
              [worker EXCEPT
                 !.prepared = (@ \/ request.op = "prepare") /\ request.op # "shutdown",
                 !.input = IF request.op = "inject" THEN request.value ELSE @,
                 !.served = request.op = "shutdown"]
  /\ UNCHANGED serving

TimeOfEnd(request) == IF request.op = "step" THEN request.at + 1 ELSE worker.time

\* "request.virtual_time_us or self.virtual_time_us": a zero is no time.
TimeOf(request) ==
  IF request.op = "step" /\ request.at # 0 THEN request.at ELSE worker.time

StartTool ==
  /\ TakeRequest
  /\ NeedsTool(Head(stdin)) /\ ~Rejected(Head(stdin))
  /\ serving' = Head(stdin)
  /\ worker' = [worker EXCEPT !.time = TimeOf(Head(stdin))]
  /\ UNCHANGED stdout

ToolRuns == process = "up" /\ serving # NoCall /\ serving' = NoCall

StepDone ==
  /\ ToolRuns /\ serving.op = "step"
  /\ Respond(serving, TRUE, Simulated(worker.time + 1))
  /\ worker' = [worker EXCEPT !.time = @ + 1]
  /\ UNCHANGED <<callVars, process, stdin, reader, runVars, probed, hostVars>>

SnapshotFromReset ==
  [taken |-> TRUE, at |-> worker.time, history |-> Repeated(worker.input, worker.time)]

Snapshot == [taken |-> TRUE, at |-> worker.time, history |-> Simulated(worker.time)]

CheckpointDone ==
  /\ ToolRuns /\ serving.op = "checkpoint"
  /\ Respond(serving, TRUE, <<>>)
  /\ worker' = [worker EXCEPT !.snapshot = Snapshot]
  /\ UNCHANGED <<callVars, process, stdin, reader, runVars, probed, hostVars>>

\* The tool exits with an error, or exceeds its own time limit.
ToolFails ==
  /\ ToolRuns
  /\ Respond(serving, FALSE, <<>>)
  /\ UNCHANGED <<callVars, process, stdin, reader, worker, runVars, probed, hostVars>>

\* serve returns after a shutdown request.
WorkerExits ==
  /\ process = "up" /\ worker.served
  /\ process' = "dead"
  /\ UNCHANGED <<callVars, stdin, stdout, reader, worker, serving, runVars, probed, hostVars>>

------------------------------------------------------------------------------
(* The host.                                                                 *)

ProcessDies ==
  /\ process = "up" /\ session # "idle" /\ deaths < MaxDeaths
  /\ process' = "dead"
  /\ deaths' = deaths + 1
  /\ UNCHANGED <<callVars, stdin, stdout, reader, worker, serving, runVars, probed,
                 installed, sessions, installs>>

InstallOrRemove ==
  /\ installs < MaxInstalls
  /\ installed' = ~installed
  /\ installs' = installs + 1
  /\ UNCHANGED <<callVars, processVars, runVars, probed, sessions, deaths>>

------------------------------------------------------------------------------

AdapterStep ==
  \/ AskProbe \/ ProbeAnswered \/ ProbeFailed
  \/ AskPrepare \/ Prepared \/ PrepareFailed
  \/ AskInject \/ AskStep \/ AskCheckpoint \/ CallAnswered \/ CallFailed
  \/ AskRescue \/ Rescued \/ RunOver
  \/ AskShutdown \/ ShutdownAnswered \/ ShutdownFailed \/ Kill \/ Closed

WorkerStep ==
  \/ Reject \/ Serve \/ StartTool \/ StepDone \/ CheckpointDone \/ ToolFails \/ WorkerExits

Next ==
  \/ OpenProbe \/ OpenRun \/ AdapterStep \/ WorkerStep
  \/ ProcessDies \/ InstallOrRemove

\* Only the adapter's thread must go on: its calls and its waits have a limit.
Spec == Init /\ [][Next]_vars /\ WF_vars(AdapterStep)

------------------------------------------------------------------------------
(* Properties.                                                               *)

Sessions == {"idle", "probe", "prepare", "run", "rescue", "close", "wait"}
Operations == {"none", "probe", "prepare", "inject", "step", "checkpoint", "snapshot",
               "shutdown"}
Times == 0..MaxSteps
Histories == UNION {[1..n -> Values] : n \in Times}
Requests == [id : Nat, op : Operations, at : Times, value : Values]
Responses == [id : Nat, ok : BOOLEAN, history : Histories, available : BOOLEAN]

\* Every variable has its type, and no machine is simulated past the end of the run.
BackendTypeOK ==
  /\ session \in Sessions
  /\ call \in Requests /\ serving \in Requests
  /\ issued \in Nat /\ injections \in 0..MaxInjections
  /\ late \in BOOLEAN /\ installed \in BOOLEAN
  /\ process \in {"none", "up", "dead"}
  /\ \A i \in DOMAIN stdin : stdin[i] \in Requests
  /\ \A i \in DOMAIN stdout : stdout[i] \in Responses
  /\ \A i \in DOMAIN reader : reader[i] \in Responses
  /\ worker.time \in Times /\ worker.input \in Values
  /\ worker.snapshot.at \in Times /\ worker.snapshot.history \in Histories
  /\ told \in Histories /\ seen \in Histories /\ held \in Values
  /\ marks \subseteq [at : Times, clean : BOOLEAN]
  /\ probed \in {"unknown", "yes", "no"}

\* An answer that a call accepts is the worker's answer to this very request: it
\* was written after every call before it had been answered, so once a call has
\* timed out no call of the same process succeeds, whatever arrives late and
\* however the lines are buffered.  And but for a probe it comes from a worker
\* that had found its tool, also when the cached probe is out of date.
Accepts == call # NoCall /\ call' = NoCall /\ ReadLine /\ ~Refused

AnswersAreOwn ==
  [][Accepts => /\ ~late
                /\ stdin = <<>> /\ serving = NoCall /\ Len(reader \o stdout) = 1
                /\ call.op = "probe" \/ worker.available]_vars

\* Replaying from reset or from a checkpoint gives the machine the run would have
\* had all along, provided that the input changed only at checkpoints and that
\* no checkpoint was taken between a change of the input and the next step.
StepsSeeTheirHistory ==
  (/\ \A m \in marks : m.clean
   /\ \A i \in 2..Len(told) :
        told[i] # told[i - 1] => [at |-> i - 1, clean |-> TRUE] \in marks)
  => seen = told

\* Every probe and every run comes to its end, whatever the process does: it may
\* die, answer late, or never answer and ignore the request to stop.
SessionEnds == (session # "idle") ~> (session = "idle")
==============================================================================
