------------------------------ MODULE AgentTurns ------------------------------
(***************************************************************************)
(* The turns of the Aether agent: AetherAgent.run_turn                     *)
(* (src/aether/core/agent.py), the working memory (src/aether/plugins/     *)
(* memory.py), the evolution tool (tools.py) and the endpoints that evolve *)
(* and roll back plugins (src/aether/server.py).                           *)
(*                                                                         *)
(* All turns and endpoints run on one event loop: a turn gives it up only  *)
(* where it awaits or yields.  An endpoint calls the registry without      *)
(* awaiting, so it holds the loop until its job is done.  A tool runs on a *)
(* thread of the executor: an evolution that a turn asked for interleaves  *)
(* with everything, the memory included.                                   *)
(***************************************************************************)
EXTENDS PluginRegistry

CONSTANTS
  Turns,         \* turns of the conversation
  Memory,        \* the id "working_memory"
  MaxSteps,      \* max_steps of a turn
  MaxCalls       \* bound of the model: tool calls of one step

ASSUME TurnAssumption ==
  /\ Memory \in Ids /\ Default[Memory] # Nobody
  /\ Nobody \notin Turns
  /\ MaxSteps \in Nat /\ MaxCalls \in Nat

VARIABLES
  turn,          \* the turns, see NewTurn
  loop,          \* the turn or job that holds the event loop, or Free
  messages,      \* history of the default WorkingMemoryPlugin
  cleared        \* its history has been cleared

turnVars == <<turn, loop, messages, cleared>>
vars == <<registryVars, turnVars>>

Free == [turn |-> Nobody, job |-> 0]
ByTurn(t) == [turn |-> t, job |-> 0]
ByJob(j) == [turn |-> Nobody, job |-> j]

NewTurn ==
  [at |-> "unborn",
   memory |-> FALSE,     \* local variable "memory" is the working memory, not None
   step |-> 0,
   calls |-> 0,          \* tool calls of this step
   ran |-> 0,            \* ... that have been executed
   wrote |-> 0,          \* ... whose messages have been appended
   waits |-> 0]          \* the evolution it waits for

Init ==
  /\ InitRegistry
  /\ turn = [t \in Turns |-> NewTurn]
  /\ loop = Free
  /\ messages = <<>>
  /\ cleared = FALSE

\* get_memory: an evolved memory is not a WorkingMemoryPlugin, the agent has none.
HasMemory == plugins[Memory] = Default[Memory]

Message(t, kind, n) == [turn |-> t, step |-> turn[t].step, kind |-> kind, n |-> n]

AppendMessage(t, kind, n) ==
  /\ messages' = IF turn[t].memory THEN Append(messages, Message(t, kind, n)) ELSE messages
  /\ UNCHANGED cleared

InTurn(t, place) == turn[t].at = place /\ loop = Free

BeginTurn(t) ==
  /\ InTurn(t, "unborn")
  /\ turn' = [turn EXCEPT ![t] = [NewTurn EXCEPT !.at = "generate", !.memory = HasMemory,
                                                 !.step = 1]]
  /\ messages' = IF HasMemory
                 THEN Append(messages, [turn |-> t, step |-> 0, kind |-> "user", n |-> 0])
                 ELSE messages
  /\ UNCHANGED <<registryVars, loop, cleared>>

\* The model answers without tool calls, or the turn has used its steps.  Its last
\* answer is not appended to the memory.
EndTurn(t) ==
  /\ InTurn(t, "generate")
  /\ turn' = [turn EXCEPT ![t].at = "done"]
  /\ UNCHANGED <<registryVars, loop, messages, cleared>>

Generate(t) ==
  /\ InTurn(t, "generate") /\ turn[t].step <= MaxSteps
  /\ \E n \in 1..MaxCalls :
       turn' = [turn EXCEPT ![t].at = "call", ![t].calls = n, ![t].ran = 0]
  /\ UNCHANGED <<registryVars, loop, messages, cleared>>

CallToolAppending(t) ==
  /\ InTurn(t, "call") /\ turn[t].ran < turn[t].calls
  /\ AppendMessage(t, "tool", turn[t].ran + 1)
  /\ turn' = [turn EXCEPT ![t].ran = @ + 1]
  /\ UNCHANGED <<registryVars, loop>>

\* A tool that does not touch the registry, a missing tool, or one that raises.
CallTool(t) ==
  /\ InTurn(t, "call") /\ turn[t].ran < turn[t].calls
  /\ turn' = [turn EXCEPT ![t].ran = @ + 1]
  /\ UNCHANGED <<registryVars, loop, messages, cleared>>

CallEvolve(t) ==
  /\ InTurn(t, "call") /\ turn[t].ran < turn[t].calls
  /\ \E j \in Jobs :
       /\ turn' = [turn EXCEPT ![t].at = "wait", ![t].waits = j]
       /\ \E i \in Ids : BeginRefused(j, i) \/ \E p \in Plugins : BeginEvolve(j, i, p)
  /\ UNCHANGED <<loop, messages, cleared>>

EvolveReturns(t) ==
  /\ InTurn(t, "wait") /\ At(turn[t].waits, "done")
  /\ turn' = [turn EXCEPT ![t].at = "call", ![t].ran = @ + 1, ![t].waits = 0]
  /\ UNCHANGED <<registryVars, loop, messages, cleared>>

\* The assistant's message and the results of its calls follow without an await.
AppendStep(t) ==
  /\ InTurn(t, "call") /\ turn[t].ran = turn[t].calls
  /\ AppendMessage(t, "assistant", 0)
  /\ turn' = [turn EXCEPT ![t].at = "results", ![t].wrote = 0]
  /\ loop' = ByTurn(t)
  /\ UNCHANGED registryVars

AppendResult(t) ==
  LET last == turn[t].wrote + 1 = turn[t].calls
  IN  /\ turn[t].at = "results" /\ loop = ByTurn(t)
      /\ AppendMessage(t, "tool", turn[t].wrote + 1)
      /\ turn' = [turn EXCEPT ![t] =
                    IF last THEN [turn[t] EXCEPT !.at = "generate", !.step = @ + 1]
                    ELSE [turn[t] EXCEPT !.wrote = @ + 1]]
      /\ loop' = IF last THEN Free ELSE loop
      /\ UNCHANGED registryVars

------------------------------------------------------------------------------
(* Jobs, on the event loop or on a thread.                                   *)

EndpointBegins(j) ==
  /\ loop = Free
  /\ \/ \E i \in Ids : BeginRollback(j, i)
     \/ \E i \in Ids, p \in Plugins : BeginEvolve(j, i, p)
  /\ loop' = ByJob(j)
  /\ UNCHANGED <<turn, messages, cleared>>

\* on_unload of the working memory clears its history.
Clears(j) ==
  \/ At(j, "unload") /\ job[j].old = Default[Memory]
  \/ At(j, "discard") /\ plugins[job[j].target] = Default[Memory]

JobGoesOn(j) ==
  /\ JobStep(j)
  /\ messages' = IF Clears(j) THEN <<>> ELSE messages
  /\ cleared' = (cleared \/ Clears(j))
  /\ loop' = IF loop = ByJob(j) /\ job'[j].at = "done" THEN Free ELSE loop
  /\ UNCHANGED turn

------------------------------------------------------------------------------

TurnStep(t) ==
  \/ BeginTurn(t) \/ Generate(t) \/ EndTurn(t)
  \/ CallTool(t) \/ CallEvolve(t) \/ EvolveReturns(t)
  \/ AppendStep(t) \/ AppendResult(t)

Next ==
  \/ \E t \in Turns : TurnStep(t)
  \/ \E j \in Jobs : EndpointBegins(j) \/ JobGoesOn(j)

Spec == Init /\ [][Next]_vars

------------------------------------------------------------------------------
(* Properties.                                                               *)

\* In the memory the model reads, the result of a tool call follows its assistant's
\* message and the results before it, without anything of another turn between
\* them, although several turns share the memory.  Only an evolution of the memory
\* itself can cut a result off: its thread clears the history at any moment.
ResultsFollowCalls ==
  \A n \in DOMAIN messages :
    messages[n].kind = "tool" =>
      \/ n = 1 /\ cleared
      \/ /\ n > 1
         /\ messages[n - 1] =
              [messages[n] EXCEPT !.n = @ - 1,
                                  !.kind = IF messages[n].n = 1 THEN "assistant" ELSE "tool"]
==============================================================================
