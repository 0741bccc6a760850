----------------------------- MODULE JobLifecycle -----------------------------
(***************************************************************************)
(* What the job queue promises, seen from the status column alone: one     *)
(* worker, and for every job the life cycle                                *)
(*                                                                         *)
(*     none -> queued -> running -> completed | failed | cancelled         *)
(*                                                                         *)
(* with the ways back to the queue (a retry of a job that failed or was    *)
(* cancelled, a restart under a running one) and out of the table (only    *)
(* after it ended).  MeetingPipeline implements it.                        *)
(***************************************************************************)
EXTENDS Naturals

CONSTANT JobIds

VARIABLES status, history   \* history: the ids used so far

lifeVars == <<status, history>>

Ended == {"completed", "failed", "cancelled"}

Idle == \A j \in JobIds : status[j] # "running"

SetStatus(j, s) == status' = [status EXCEPT ![j] = s] /\ UNCHANGED history

LifeInit == status = [j \in JobIds |-> "none"] /\ history = {}

\* Ids are not reused: a pruned job does not come back.
Insert(j) ==
    /\ j \notin history
    /\ history' = history \cup {j}
    /\ status' = [status EXCEPT ![j] = "queued"]

Run(j) == status[j] = "queued" /\ Idle /\ SetStatus(j, "running")

\* No job is lost while it waits or runs.
End(j) == status[j] = "running" /\ \E s \in Ended : SetStatus(j, s)

CancelWaiting(j) == status[j] = "queued" /\ SetStatus(j, "cancelled")

RunAgain(j) == status[j] \in {"failed", "cancelled"} /\ SetStatus(j, "queued")

Forget(J) ==
    /\ \A j \in J : status[j] \in Ended
    /\ status' = [j \in JobIds |-> IF j \in J THEN "none" ELSE status[j]]
    /\ UNCHANGED history

\* A restart while a job runs: the job waits again, or ends if it was to be
\* cancelled; in any case the worker is idle afterwards.
Interrupt(j) ==
    /\ status[j] = "running"
    /\ \E s \in {"queued", "cancelled"} : SetStatus(j, s)

LifeNext ==
    \/ \E j \in JobIds : \/ Insert(j) \/ Run(j) \/ End(j) \/ CancelWaiting(j)
                         \/ RunAgain(j) \/ Interrupt(j)
    \/ \E J \in SUBSET JobIds : Forget(J)

LifeSpec == LifeInit /\ [][LifeNext]_lifeVars
=============================================================================
