---------------------------- MODULE PrioritySlot ----------------------------
(***************************************************************************)
(* What the inference coordinator promises: one task at a time uses the    *)
(* models, and work that is not live lets live work pass until its         *)
(* patience ends.  InferenceSlot implements it.                            *)
(***************************************************************************)
CONSTANTS Urgent, Patient, Nobody

VARIABLES
    owner,     \* the task that uses the models
    asking,    \* the tasks that wait for them
    tired      \* those that have waited long enough

slotVars == <<owner, asking, tired>>

SlotInit == owner = Nobody /\ asking = {} /\ tired = {}

Ask(t) ==
    /\ t \notin asking /\ t # owner
    /\ asking' = asking \cup {t}
    /\ UNCHANGED <<owner, tired>>

Tire(t) ==
    /\ t \in asking \cap Patient
    /\ tired' = tired \cup {t}
    /\ UNCHANGED <<owner, asking>>

Withdraw(t) ==
    /\ asking' = asking \ {t}
    /\ tired' = tired \ {t}
    /\ UNCHANGED owner

Take(t) ==
    /\ owner = Nobody
    /\ t \in Patient => t \in tired \/ asking \cap Urgent = {}
    /\ owner' = t
    /\ asking' = asking \ {t}
    /\ tired' = tired \ {t}

Leave == owner' = Nobody /\ UNCHANGED <<asking, tired>>

SlotNext ==
    \/ \E t \in Urgent \cup Patient : Ask(t) \/ Tire(t) \/ Withdraw(t) \/ Take(t)
    \/ Leave

SlotSpec == SlotInit /\ [][SlotNext]_slotVars
=============================================================================
