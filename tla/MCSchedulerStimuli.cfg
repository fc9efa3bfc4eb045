CONSTANT Experiments <- MCExperiments
SPECIFICATION Spec
CHECK_DEADLOCK FALSE
INVARIANT EveryStimulusDelivered
