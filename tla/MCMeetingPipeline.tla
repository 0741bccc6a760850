-------------------------- MODULE MCMeetingPipeline --------------------------
(* Instances of MeetingPipeline for TLC. *)
EXTENDS MeetingPipeline, TLC

CONSTANTS m1, m2, c1, c2

\* Ids only ever compared for equality.
Symmetry == Permutations(Meetings) \cup Permutations(Clients)

\* A kill of the process or a failed write, not both in one execution.
OneTrouble == crashes + faults <= 1
=============================================================================
