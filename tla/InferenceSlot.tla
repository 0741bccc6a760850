--------------------------- MODULE InferenceSlot ---------------------------
(***************************************************************************)
(* InferenceCoordinator and the watchdog of ApplicationRuntime: the one    *)
(* slot in which models may run, asked for by                              *)
(*                                                                         *)
(*   - live sessions, one per processor task, which come first;            *)
(*   - refinement jobs and the enrolment of voice samples, which wait      *)
(*     until no live task waits, or until they starve.                     *)
(*                                                                         *)
(* The tasks are coroutines of one event loop.  The lock of the            *)
(* asyncio.Condition is never held where a task suspends, so what a task   *)
(* does from one suspension to the next is one step: it arrives or is      *)
(* woken, looks at its condition, and takes the slot or goes (back) to     *)
(* sleep.  The order in which woken tasks run is left open.                *)
(***************************************************************************)
EXTENDS Integers, FiniteSets

CONSTANTS
    Live,          \* processors of live sessions
    Job,           \* refinement jobs
    Enroll,        \* voice sample uploads
    NoTask,
    Cancellable    \* tasks somebody may cancel

Offline == Job \cup Enroll
Tasks == Live \cup Offline

ASSUME SlotAssumption ==
    /\ IsFiniteSet(Tasks)
    /\ Live \cap Offline = {} /\ Job \cap Enroll = {}
    /\ NoTask \notin Tasks
    /\ Cancellable \subseteq Tasks

VARIABLES
    active,            \* _active
    liveWaiters,       \* _live_waiters
    offlineStarving,   \* _offline_starving
    pc,                \* where each task is
    starved,           \* the local of offline(): the timeout has been noticed
    late,              \* ... or has passed and is yet to be noticed
    calling,           \* the tasks whose model call runs in a worker thread
    holder,            \* _slot_holder of the watchdog
    leaked             \* _slot_leaked

coordVars == <<active, liveWaiters, offlineStarving>>
vars == <<active, liveWaiters, offlineStarving, pc, starved, late, calling, holder, leaked>>

\* Not there; asleep in the condition; woken by notify_all or a timeout, and
\* still to run; in the body of the context manager.
Pcs == {"out", "wait", "woken", "inside"}

TypeOK ==
    /\ active \in BOOLEAN
    /\ liveWaiters \in Nat
    /\ offlineStarving \in BOOLEAN
    /\ pc \in [Tasks -> Pcs]
    /\ starved \in [Offline -> BOOLEAN]
    /\ late \in [Offline -> BOOLEAN]
    /\ calling \subseteq Tasks
    /\ holder \in {"none", "live", "offline"}
    /\ leaked \in BOOLEAN

Init ==
    /\ active = FALSE
    /\ liveWaiters = 0
    /\ offlineStarving = FALSE
    /\ pc = [t \in Tasks |-> "out"]
    /\ starved = [o \in Offline |-> FALSE]
    /\ late = [o \in Offline |-> FALSE]
    /\ calling = {}
    /\ holder = "none"
    /\ leaked = FALSE

-----------------------------------------------------------------------------

\* t goes to pc p, and everybody who sleeps is woken.
NotifyAll(t, p) ==
    pc' = [u \in Tasks |-> IF u = t THEN p
                           ELSE IF pc[u] = "wait" THEN "woken" ELSE pc[u]]

Sleep(t) == pc' = [pc EXCEPT ![t] = "wait"]

\* A task acts when it arrives (its former call is over) or has been woken.
Arrives(t) == pc[t] = "out" /\ t \notin calling
Runs(t) == Arrives(t) \/ pc[t] = "woken"

Occupy(t, kind) ==
    /\ active' = TRUE
    /\ holder' = IF holder = "none" THEN kind ELSE holder
    /\ calling' = calling \cup {t}
    /\ NotifyAll(t, "inside")

-----------------------------------------------------------------------------
(* live()                                                                  *)

\* Mutant: live work never yields.
LiveNeverYields == ~active

LiveMayEnter == ~active /\ ~offlineStarving

LiveEnters(l) ==
    /\ Runs(l)
    /\ LiveMayEnter
    /\ liveWaiters' = IF pc[l] = "woken" THEN liveWaiters - 1 ELSE liveWaiters
    /\ Occupy(l, "live")
    /\ UNCHANGED <<offlineStarving, starved, late, leaked>>

LiveWaits(l) ==
    /\ Runs(l)
    /\ ~LiveMayEnter
    /\ liveWaiters' = IF pc[l] = "woken" THEN liveWaiters ELSE liveWaiters + 1
    /\ Sleep(l)
    /\ UNCHANGED <<active, offlineStarving, starved, late, calling, holder, leaked>>

\* Mutant: a cancelled live task wakes nobody.
LiveCancelledQuietly(l) ==
    /\ l \in Cancellable
    /\ pc[l] \in {"wait", "woken"}
    /\ liveWaiters' = liveWaiters - 1
    /\ pc' = [pc EXCEPT ![l] = "out"]
    /\ UNCHANGED <<active, offlineStarving, starved, late, calling, holder, leaked>>

\* The finally of the wait: it notifies for those that waited for no live task
\* to wait.
LiveCancelled(l) ==
    /\ l \in Cancellable
    /\ pc[l] \in {"wait", "woken"}
    /\ liveWaiters' = liveWaiters - 1
    /\ NotifyAll(l, "out")
    /\ UNCHANGED <<active, offlineStarving, starved, late, calling, holder, leaked>>

-----------------------------------------------------------------------------
(* offline()                                                               *)

Starved(o) == starved[o] \/ late[o]

\* Mutant: offline work enters whenever the slot is free.
OfflineMayBarge(o) == ~active

OfflineMayEnter(o) == ~active /\ (liveWaiters = 0 \/ Starved(o))

\* The finally clears the flag and what is local goes with the frame.
OfflineLeaves(o) ==
    /\ offlineStarving' = FALSE
    /\ starved' = [starved EXCEPT ![o] = FALSE]
    /\ late' = [late EXCEPT ![o] = FALSE]

OfflineEnters(o) ==
    /\ Runs(o)
    /\ OfflineMayEnter(o)
    /\ Occupy(o, "offline")
    /\ OfflineLeaves(o)
    /\ UNCHANGED <<liveWaiters, leaked>>

\* The flag is raised when the timeout is noticed, once.
OfflineWaits(o) ==
    /\ Runs(o)
    /\ ~OfflineMayEnter(o)
    /\ offlineStarving' = (offlineStarving \/ late[o])
    /\ starved' = [starved EXCEPT ![o] = Starved(o)]
    /\ late' = [late EXCEPT ![o] = FALSE]
    /\ Sleep(o)
    /\ UNCHANGED <<active, liveWaiters, calling, holder, leaked>>

\* _OFFLINE_STARVE_TIMEOUT after it first waited.
StarveTimeout(o) ==
    /\ pc[o] \in {"wait", "woken"}
    /\ ~Starved(o)
    /\ late' = [late EXCEPT ![o] = TRUE]
    /\ pc' = [pc EXCEPT ![o] = "woken"]
    /\ UNCHANGED <<coordVars, starved, calling, holder, leaked>>

\* Mutant: the flag survives the cancellation.
OfflineCancelledStarving(o) ==
    /\ o \in Cancellable
    /\ pc[o] \in {"wait", "woken"}
    /\ NotifyAll(o, "out")
    /\ starved' = [starved EXCEPT ![o] = FALSE]
    /\ late' = [late EXCEPT ![o] = FALSE]
    /\ UNCHANGED <<coordVars, calling, holder, leaked>>

OfflineCancelled(o) ==
    /\ o \in Cancellable
    /\ pc[o] \in {"wait", "woken"}
    /\ NotifyAll(o, "out")
    /\ OfflineLeaves(o)
    /\ UNCHANGED <<active, liveWaiters, calling, holder, leaked>>

-----------------------------------------------------------------------------
(* The body, and _release().                                               *)

CallReturns(t) ==
    /\ t \in calling
    /\ calling' = calling \ {t}
    /\ UNCHANGED <<coordVars, pc, starved, late, holder, leaked>>

\* Mutant: the next holder is recorded over the last one.
VacateUnrecorded(t) ==
    /\ active' = FALSE
    /\ NotifyAll(t, "out")
    /\ UNCHANGED <<liveWaiters, offlineStarving, starved, late, calling, holder, leaked>>

Vacate(t) ==
    /\ active' = FALSE
    /\ holder' = "none"
    /\ NotifyAll(t, "out")
    /\ UNCHANGED <<liveWaiters, offlineStarving, starved, late, calling, leaked>>

\* Mutant: a cancelled task gives the slot up at once.
ReleaseUnshielded(t) ==
    /\ pc[t] = "inside" /\ (t \notin calling \/ t \in Cancellable)
    /\ Vacate(t)

\* Live tasks and jobs shield the call: even cancelled they wait for it.
Release(t) ==
    /\ pc[t] = "inside" /\ t \notin calling
    /\ Vacate(t)

\* An enrolment does not: cancelled, it leaves its thread behind.
EnrollCancelled(t) ==
    /\ t \in Enroll \cap Cancellable
    /\ pc[t] = "inside" /\ t \in calling
    /\ Vacate(t)

-----------------------------------------------------------------------------
(* The watchdog: /ready finds that a live task has held the slot for       *)
(* _SLOT_LEAK_THRESHOLD, or the session behind a live task stops waiting   *)
(* for it after DEFERRED_PROCESSOR_TIMEOUT_SECONDS.                        *)

ProbeFindsLeak ==
    /\ holder = "live"
    /\ leaked' = TRUE
    /\ UNCHANGED <<coordVars, pc, starved, late, calling, holder>>

DeferredTimeout(l) ==
    /\ pc[l] # "out"
    /\ leaked' = TRUE
    /\ UNCHANGED <<coordVars, pc, starved, late, calling, holder>>

-----------------------------------------------------------------------------

Turn(t) ==
    \/ t \in Live /\ (LiveEnters(t) \/ LiveWaits(t))
    \/ t \in Offline /\ (OfflineEnters(t) \/ OfflineWaits(t))

Next ==
    \/ \E t \in Tasks : Turn(t) \/ CallReturns(t) \/ Release(t)
    \/ \E l \in Live : LiveCancelled(l) \/ DeferredTimeout(l)
    \/ \E o \in Offline : StarveTimeout(o) \/ OfflineCancelled(o)
    \/ \E t \in Enroll : EnrollCancelled(t)
    \/ ProbeFindsLeak

\* The event loop runs what has been woken, calls return, and clocks tick.
\* Nothing makes a task arrive.
Fairness ==
    /\ \A t \in Tasks : /\ WF_vars(pc[t] = "woken" /\ Turn(t))
                        /\ WF_vars(CallReturns(t))
                        /\ WF_vars(Release(t))
    /\ \A o \in Offline : WF_vars(StarveTimeout(o))

Spec == Init /\ [][Next]_vars
FairSpec == Spec /\ Fairness

-----------------------------------------------------------------------------
(* Properties.                                                             *)

Waiting(t) == pc[t] \in {"wait", "woken"}
Inside == {t \in Tasks : pc[t] = "inside"}
LiveWaiting == {l \in Live : Waiting(l)}

\* An enrolment that was cancelled in its body: its call goes on without slot.
Abandoned(t) == t \in Enroll \cap Cancellable /\ pc[t] # "inside"

\* Two model calls never overlap, not even one that outlives its request: a
\* task that is cancelled keeps the slot until its thread is done.  The calls
\* of cancelled enrolments are the one exception.
OneModelCall == \A t, u \in calling : t = u \/ Abandoned(t) \/ Abandoned(u)

\* The counter that holds back offline work counts the live tasks that wait,
\* those that were cancelled while they did included.
WaitersCounted == liveWaiters = Cardinality(LiveWaiting)

\* The flag that holds back live work is up only while a starved task waits:
\* otherwise no live session would transcribe until the next job.
FlagHasOwner == offlineStarving => \E o \in Offline : Waiting(o) /\ starved[o]

\* Nobody sleeps in front of a slot it may take: whatever made it free or made
\* the condition true has woken the sleepers.
NoLostWakeup ==
    /\ \A l \in Live : pc[l] = "wait" => ~LiveMayEnter
    /\ \A o \in Offline : pc[o] = "wait" => ~OfflineMayEnter(o)

\* The watchdog and the coordinator agree on who is inside.
HolderMatches ==
    holder = IF Inside \cap Live # {} THEN "live"
             ELSE IF Inside # {} THEN "offline" ELSE "none"

\* What the promise is about.
Owner == IF Inside = {} THEN NoTask ELSE CHOOSE t \in Inside : TRUE
Asking == {t \in Tasks : Waiting(t)}
Tired == {o \in Offline : Starved(o)}

Slot == INSTANCE PrioritySlot
            WITH Urgent <- Live, Patient <- Offline, Nobody <- NoTask,
                 owner <- Owner, asking <- Asking, tired <- Tired

\* One task at a time, live work first, offline work in spite of it after the
\* timeout.
FollowsPriority == Slot!SlotSpec

\* A refinement job, or an enrolment, is not starved by live work that keeps
\* arriving, as long as no other offline task comes with it.
OfflineRuns ==
    \A o \in Offline :
        [](\A p \in Offline \ {o} : pc[p] = "out") => (Waiting(o) ~> ~Waiting(o))

\* The slot is not left empty in front of waiting tasks.
SlotGetsUsed == (~active /\ \E t \in Tasks : Waiting(t)) ~> (active \/ \A t \in Tasks : ~Waiting(t))

-----------------------------------------------------------------------------
(* What comments of the source say and the code does not do.               *)

\* Only a live task that keeps the slot is a leak, not long offline work.
LeakIsLive == [][~leaked /\ leaked' => Inside \cap Live # {}]_vars

-----------------------------------------------------------------------------
(* The inductive invariant.                                                *)

ActiveMatches ==
    /\ active <=> Inside # {}
    /\ \A t, u \in Inside : t = u

LocalsClean ==
    \A o \in Offline : ~Waiting(o) => ~Starved(o)

CallsInside == calling \subseteq Inside \cup (Enroll \cap Cancellable)

IInv ==
    /\ TypeOK /\ ActiveMatches /\ LocalsClean /\ CallsInside
    /\ WaitersCounted /\ FlagHasOwner /\ NoLostWakeup /\ HolderMatches
=============================================================================
