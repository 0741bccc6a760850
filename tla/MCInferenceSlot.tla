--------------------------- MODULE MCInferenceSlot ---------------------------
(* Instances of InferenceSlot for TLC. *)
EXTENDS InferenceSlot

CONSTANTS l1, l2, l3, j1, e1, e2
=============================================================================
