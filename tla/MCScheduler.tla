----------------------------- MODULE MCScheduler -----------------------------
(***************************************************************************)
(* Two components, wired both ways, with every combination of steps up to  *)
(* three and "none", two experiment lengths, several checkpoint intervals, *)
(* and a stimulus at every instant.                                        *)
(***************************************************************************)
EXTENDS Scheduler

Stimuli(duration) == {[at |-> t] : t \in 0..duration}

MCExperiments ==
  {[steps |-> steps, wires |-> {<<1, 2>>, <<2, 1>>}, macro_step |-> macro,
    duration |-> duration, checkpoint |-> checkpoint, stimuli |-> Stimuli(duration)] :
     steps \in [1..2 -> 0..3], macro \in 1..3, duration \in {2, 6}, checkpoint \in 0..3}
==============================================================================
