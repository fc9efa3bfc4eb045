---------------------------- MODULE PluginRegistry ----------------------------
(***************************************************************************)
(* The plugins of the Aether agent and their evolution at run time:        *)
(* PluginRegistry (src/aether/core/registry.py), EvolutionManager          *)
(* (evolution.py) and PluginSandbox (sandbox.py).                          *)
(*                                                                         *)
(* A job is one call of evolve_plugin or of rollback.  Jobs of several     *)
(* threads interleave between their accesses to the registry: no lock      *)
(* guards it.  A plugin is an object; its callbacks on_load and the write  *)
(* of the evolved source may raise.  A plugin is loaded when its last      *)
(* callback was an on_load that returned.                                  *)
(***************************************************************************)
EXTENDS Naturals, SequencesExt

CONSTANTS
  Ids,           \* plugin ids
  Plugins,       \* plugin objects
  IdOf,          \* IdOf[p]: metadata.id of p
  Default,       \* Default[i]: the object registered for i at the start, or Nobody
  Nobody,        \* no plugin
  Jobs           \* bound of the model: 1..n, in the order they begin

ASSUME PluginAssumption ==
  /\ Nobody \notin Plugins
  /\ IdOf \in [Plugins -> Ids]
  /\ Default \in [Ids -> Plugins \cup {Nobody}]
  /\ \A i \in Ids : Default[i] # Nobody => IdOf[Default[i]] = i
  /\ Jobs \subseteq Nat

VARIABLES
  plugins,       \* _plugins
  loaded,        \* plugins that are loaded
  snapshots,     \* _snapshots: the jobs that took them and the objects kept
  job            \* the calls under way and their results

registryVars == <<plugins, loaded, snapshots, job>>

NewJob ==
  [at |-> "unborn", kind |-> "none", target |-> "none", candidate |-> Nobody,
   before |-> Nobody,     \* plugin registered for the target when the job began
   kept |-> FALSE,        \* evolve_plugin has a snapshot_id
   old |-> Nobody,        \* local variable of hot_swap and rollback
   verdict |-> "none",
   intact |-> TRUE]       \* no other job overlapped, no restored plugin failed

InitRegistry ==
  /\ plugins = Default
  /\ loaded = {Default[i] : i \in Ids} \ {Nobody}
  /\ snapshots = [i \in Ids |-> <<>>]
  /\ job = [j \in Jobs |-> NewJob]

Underway == {j \in Jobs : job[j].at \notin {"unborn", "done"}}

\* An object nobody has made yet.
Unused(p) == (\A i \in Ids : Default[i] # p) /\ (\A j \in Jobs : job[j].candidate # p)

NextJob(j) == job[j].at = "unborn" /\ \A k \in Jobs : k < j => job[k].at # "unborn"

At(j, place) == job[j].at = place

Move(j, place) == job' = [job EXCEPT ![j].at = place]

Finish(j, verdict) == job' = [job EXCEPT ![j].at = "done", ![j].verdict = verdict]

\* A job that starts while others are under way spoils itself and them.
Begun(j, record) ==
  [k \in Jobs |->
     IF k = j THEN [record EXCEPT !.intact = (Underway = {})]
     ELSE IF k \in Underway THEN [job[k] EXCEPT !.intact = FALSE] ELSE job[k]]

------------------------------------------------------------------------------
(* create_snapshot, and the two ways to install a plugin.                    *)

\* The snapshot keeps the object itself, not a copy; its id is the position's job
\* and the caller (evolve_plugin or hot_swap).
CreateSnapshot(i, j, by) ==
  snapshots' = [snapshots EXCEPT ![i] = Append(@, [job |-> j, by |-> by,
                                                   instance |-> plugins[i]])]

Install(i, p) == plugins' = [plugins EXCEPT ![i] = p]

OnUnload(p) == loaded' = loaded \ {p}

------------------------------------------------------------------------------
(* evolve_plugin.                                                            *)

\* The sandbox made a new object from the source, and its tests passed.
BeginEvolve(j, i, p) ==
  /\ NextJob(j)
  /\ p \in Plugins /\ Unused(p)
  /\ job' = Begun(j, [NewJob EXCEPT !.at = "snapshot", !.kind = "evolve", !.target = i,
                                    !.candidate = p, !.before = plugins[i]])
  /\ UNCHANGED <<plugins, loaded, snapshots>>

\* Static analysis, compilation, self test or harness failed, or evolution is disabled,
\* which is the default: nothing is touched.
BeginRefused(j, i) ==
  /\ NextJob(j)
  /\ job' = [job EXCEPT ![j] = [NewJob EXCEPT !.at = "done", !.kind = "evolve",
                                  !.target = i, !.verdict = "conformance_failed"]]
  /\ UNCHANGED <<plugins, loaded, snapshots>>

TakeSnapshot(j) ==
  LET i == job[j].target
      present == plugins[i] # Nobody
  IN  /\ At(j, "snapshot")
      /\ IF present THEN CreateSnapshot(i, j, "evolve") ELSE UNCHANGED snapshots
      /\ job' = [job EXCEPT ![j].at = "swap", ![j].kept = present]
      /\ UNCHANGED <<plugins, loaded>>

\* hot_swap works with the id the new plugin declares, whatever the target is.
SwapId(j) == IdOf[job[j].candidate]

SwapSnapshot(j) ==
  LET i == SwapId(j)
      present == plugins[i] # Nobody
  IN  /\ At(j, "swap")
      /\ IF present THEN CreateSnapshot(i, j, "hot_swap") ELSE UNCHANGED snapshots
      /\ job' = [job EXCEPT ![j].at = "unload", ![j].old = plugins[i]]
      /\ UNCHANGED <<plugins, loaded>>

SwapUnload(j) ==
  /\ At(j, "unload")
  /\ OnUnload(job[j].old)
  /\ Move(j, "install")
  /\ UNCHANGED <<plugins, snapshots>>

SwapInstall(j) ==
  /\ At(j, "install")
  /\ Install(SwapId(j), job[j].candidate)
  /\ Move(j, "load")
  /\ UNCHANGED <<loaded, snapshots>>

SwapLoad(j) ==
  /\ At(j, "load")
  /\ loaded' = loaded \cup {job[j].candidate}
  /\ Move(j, "persist")
  /\ UNCHANGED <<plugins, snapshots>>

Persist(j) ==
  /\ At(j, "persist")
  /\ Finish(j, "hot_swapped")
  /\ UNCHANGED <<plugins, loaded, snapshots>>

\* on_load raises, or the source cannot be written although the plugin is live.
SwapFails(j) ==
  /\ job[j].at \in {"load", "persist"}
  /\ IF job[j].kept THEN Move(j, "restore") ELSE Finish(j, "rolled_back")
  /\ UNCHANGED <<plugins, loaded, snapshots>>

------------------------------------------------------------------------------
(* rollback: called by a failed evolve_plugin with its snapshot_id, or by a  *)
(* user with any or without one.                                             *)

BeginRollback(j, i) ==
  /\ NextJob(j)
  /\ job' = Begun(j, [NewJob EXCEPT !.at = "restore", !.kind = "rollback", !.target = i,
                                    !.before = plugins[i]])
  /\ UNCHANGED <<plugins, loaded, snapshots>>

\* The positions of a snapshot to restore: that a user may name, or the job's own.
Found(j) ==
  LET history == snapshots[job[j].target]
  IN  IF job[j].kind = "rollback" THEN DOMAIN history
      ELSE {n \in DOMAIN history : history[n].job = j /\ history[n].by = "evolve"}

RestorePop(j) ==
  LET i == job[j].target
  IN  /\ At(j, "restore")
      /\ \E n \in Found(j) :
           /\ job' = [job EXCEPT ![j].at = "discard", ![j].old = snapshots[i][n].instance]
           /\ snapshots' = [snapshots EXCEPT ![i] = RemoveAt(@, n)]
      /\ UNCHANGED <<plugins, loaded>>

\* evolve_plugin logs a failed rollback and reports "rolled_back" all the same.
Reported(j, verdict) == IF job[j].kind = "evolve" THEN "rolled_back" ELSE verdict

RestoreMissing(j) ==
  /\ At(j, "restore") /\ Found(j) = {}
  /\ Finish(j, Reported(j, "failed"))
  /\ UNCHANGED <<plugins, loaded, snapshots>>

RestoreDiscardNothing(j) ==
  /\ At(j, "discard")
  /\ Move(j, "reinstall")
  /\ UNCHANGED <<plugins, loaded, snapshots>>

RestoreDiscard(j) ==
  /\ At(j, "discard")
  /\ OnUnload(plugins[job[j].target])
  /\ Move(j, "reinstall")
  /\ UNCHANGED <<plugins, snapshots>>

RestoreInstall(j) ==
  /\ At(j, "reinstall")
  /\ Install(job[j].target, job[j].old)
  /\ Move(j, "reload")
  /\ UNCHANGED <<loaded, snapshots>>

RestoreLoad(j) ==
  /\ At(j, "reload")
  /\ loaded' = loaded \cup {job[j].old}
  /\ Finish(j, "rolled_back")
  /\ UNCHANGED <<plugins, snapshots>>

\* The restored plugin's on_load raises: it stays registered.
RestoreFails(j) ==
  /\ At(j, "reload")
  /\ job' = [job EXCEPT ![j].at = "done", ![j].verdict = Reported(j, "failed"),
                        ![j].intact = FALSE]
  /\ UNCHANGED <<plugins, loaded, snapshots>>

------------------------------------------------------------------------------

JobStep(j) ==
  \/ TakeSnapshot(j) \/ SwapSnapshot(j) \/ SwapUnload(j) \/ SwapInstall(j)
  \/ SwapLoad(j) \/ Persist(j) \/ SwapFails(j)
  \/ RestorePop(j) \/ RestoreMissing(j) \/ RestoreDiscard(j) \/ RestoreInstall(j)
  \/ RestoreLoad(j) \/ RestoreFails(j)

\* The result of evolve_plugin is true of the registry, if no other job ran at the
\* same time and the restored plugin loaded: "hot_swapped" leaves the new plugin
\* registered and loaded, and what it replaced unloaded; "rolled_back" leaves the
\* target as it was, provided there was one and that the new plugin declared its id.
HotSwapHolds(j) ==
  LET new == job[j].candidate
  IN  /\ plugins[IdOf[new]] = new /\ new \in loaded
      /\ IdOf[new] = job[j].target => job[j].before \notin loaded

RollbackHolds(j) ==
  LET new == job[j].candidate
      was == job[j].before
  IN  IdOf[new] = job[j].target /\ was # Nobody =>
        /\ plugins[job[j].target] = was /\ was \in loaded
        /\ new \notin loaded

Ends(j) == ~At(j, "done") /\ job'[j].at = "done" /\ job'[j].kind = "evolve" /\ job'[j].intact

EvolutionHonest ==
  [][\A j \in Jobs : Ends(j) =>
       /\ job'[j].verdict = "hot_swapped" => HotSwapHolds(j)'
       /\ job'[j].verdict = "rolled_back" => RollbackHolds(j)']_registryVars
==============================================================================
