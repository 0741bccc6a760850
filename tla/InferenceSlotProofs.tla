------------------------ MODULE InferenceSlotProofs ------------------------
(***************************************************************************)
(* The inductive invariant of InferenceSlot, its refinement of             *)
(* PrioritySlot, and the exclusion of model calls.                         *)
(***************************************************************************)
EXTENDS InferenceSlot, FiniteSetTheorems, TLAPS

-----------------------------------------------------------------------------
(* Who waits and who is inside after a step.  Every step moves one task    *)
(* and wakes none, some or all of the others.                              *)

\* t goes to p; the others stay, or go from sleeping to woken.
Moves(t, p) ==
    /\ pc' \in [Tasks -> Pcs]
    /\ pc'[t] = p
    /\ \A u \in Tasks : u # t => pc'[u] = pc[u] \/ (pc[u] = "wait" /\ pc'[u] = "woken")

LEMMA NotifyAllMoves ==
    ASSUME pc \in [Tasks -> Pcs], NEW t \in Tasks, NEW p \in Pcs, NotifyAll(t, p)
    PROVE  Moves(t, p) /\ \A u \in Tasks : u # t => pc'[u] # "wait"
  BY DEF NotifyAll, Moves, Pcs

LEMMA SleepMoves ==
    ASSUME pc \in [Tasks -> Pcs], NEW t \in Tasks, Sleep(t)
    PROVE  Moves(t, "wait")
  BY DEF Sleep, Moves, Pcs

LEMMA MovesInside ==
    ASSUME NEW t \in Tasks, NEW p \in Pcs, Moves(t, p)
    PROVE  Inside' = IF p = "inside" THEN Inside \cup {t} ELSE Inside \ {t}
  BY DEF Moves, Inside, Pcs

LEMMA MovesWaiting ==
    ASSUME NEW t \in Tasks, NEW p \in Pcs, Moves(t, p)
    PROVE  /\ \A u \in Tasks : u # t => (Waiting(u)' <=> Waiting(u))
           /\ Waiting(t)' <=> p \in {"wait", "woken"}
  BY DEF Moves, Waiting, Pcs

LEMMA MovesAsking ==
    ASSUME NEW t \in Tasks, NEW p \in Pcs, Moves(t, p)
    PROVE  Asking' = IF p \in {"wait", "woken"} THEN Asking \cup {t} ELSE Asking \ {t}
  BY MovesWaiting DEF Asking

LEMMA MovesLiveWaiting ==
    ASSUME NEW t \in Tasks, NEW p \in Pcs, Moves(t, p)
    PROVE  LiveWaiting' = IF t \notin Live THEN LiveWaiting
                          ELSE IF p \in {"wait", "woken"} THEN LiveWaiting \cup {t}
                          ELSE LiveWaiting \ {t}
  BY MovesWaiting DEF LiveWaiting, Tasks

\* The counter after a live task joined or left those that wait.
LEMMA LiveWaitingFinite == IsFiniteSet(LiveWaiting)
  BY SlotAssumption, FS_Subset DEF LiveWaiting, Tasks

LEMMA CountJoins ==
    ASSUME WaitersCounted, NEW l, l \notin LiveWaiting,
           LiveWaiting' = LiveWaiting \cup {l}, liveWaiters' = liveWaiters + 1
    PROVE  WaitersCounted'
  BY LiveWaitingFinite, FS_AddElement DEF WaitersCounted

LEMMA CountLeaves ==
    ASSUME WaitersCounted, NEW l, l \in LiveWaiting,
           LiveWaiting' = LiveWaiting \ {l}, liveWaiters' = liveWaiters - 1
    PROVE  WaitersCounted' /\ liveWaiters' \in Nat
<1>1. Cardinality(LiveWaiting \ {l}) = Cardinality(LiveWaiting) - 1
  BY LiveWaitingFinite, FS_RemoveElement
<1>2. IsFiniteSet(LiveWaiting \ {l})
  BY LiveWaitingFinite, FS_RemoveElement
<1>3. QED BY <1>1, <1>2, FS_CardinalityType DEF WaitersCounted

LEMMA CountZero ==
    ASSUME WaitersCounted, liveWaiters = 0
    PROVE  LiveWaiting = {}
  BY LiveWaitingFinite, FS_EmptySet DEF WaitersCounted

-----------------------------------------------------------------------------
(* The inductive invariant, one lemma per action that moves a task.        *)

LEMMA InitIInv == Init => IInv
<1> SUFFICES ASSUME Init PROVE IInv
  OBVIOUS
<1> USE DEF Init
<1>1. Inside = {} /\ LiveWaiting = {}
  BY DEF Inside, LiveWaiting, Waiting, Tasks
<1>2. TypeOK /\ ActiveMatches /\ LocalsClean /\ CallsInside /\ FlagHasOwner /\ HolderMatches
  BY <1>1 DEF TypeOK, Pcs, ActiveMatches, LocalsClean, CallsInside, FlagHasOwner,
     HolderMatches, Waiting, Starved
<1>3. WaitersCounted
  BY <1>1, FS_EmptySet DEF WaitersCounted
<1>4. NoLostWakeup
  BY DEF NoLostWakeup, Tasks
<1>5. QED BY <1>2, <1>3, <1>4 DEF IInv

\* Taking the slot: what both kinds of tasks do.
LEMMA OccupyIInv ==
    ASSUME IInv, NEW t \in Tasks, NEW kind \in {"live", "offline"},
           kind = "live" <=> t \in Live,
           Occupy(t, kind), ~active, Runs(t)
    PROVE  /\ Moves(t, "inside")
           /\ Inside' = {t}
           /\ active' /\ holder' = kind
           /\ ActiveMatches' /\ HolderMatches' /\ CallsInside' /\ NoLostWakeup'
<1> USE DEF IInv
<1>1. /\ Moves(t, "inside")
      /\ \A u \in Tasks : pc'[u] # "wait"
  <2>1. Moves(t, "inside") /\ \A u \in Tasks : u # t => pc'[u] # "wait"
    BY NotifyAllMoves DEF Occupy, TypeOK, Pcs
  <2>2. QED BY <2>1 DEF Moves
<1>2. Inside = {} /\ Inside' = {t}
  BY <1>1, MovesInside DEF ActiveMatches, Pcs
<1>3. active' /\ holder' = kind
  BY <1>2 DEF HolderMatches, Occupy
<1>4. ActiveMatches' /\ HolderMatches'
  BY <1>2, <1>3 DEF ActiveMatches, HolderMatches
<1>5. CallsInside'
  BY <1>2 DEF CallsInside, Occupy
<1>6. NoLostWakeup'
  BY <1>1 DEF NoLostWakeup, Tasks
<1>7. QED BY <1>1, <1>2, <1>3, <1>4, <1>5, <1>6

LEMMA LiveEntersIInv ==
    ASSUME IInv, NEW l \in Live, LiveEnters(l)
    PROVE  IInv'
<1> USE DEF IInv
<1>1. l \in Tasks /\ l \notin Offline
  BY SlotAssumption DEF Tasks
<1>2. /\ Moves(l, "inside") /\ Inside' = {l} /\ active' /\ holder' = "live"
      /\ ActiveMatches' /\ HolderMatches' /\ CallsInside' /\ NoLostWakeup'
  BY <1>1, OccupyIInv DEF LiveEnters, LiveMayEnter
<1>3. WaitersCounted' /\ liveWaiters' \in Nat
  <2>1. LiveWaiting' = LiveWaiting \ {l}
    BY <1>1, <1>2, MovesLiveWaiting DEF Pcs
  <2>2. CASE pc[l] = "woken"
    BY <1>1, <2>1, <2>2, CountLeaves DEF LiveEnters, LiveWaiting, Waiting
  <2>3. CASE pc[l] # "woken"
    <3>1. LiveWaiting' = LiveWaiting /\ liveWaiters' = liveWaiters
      BY <2>1, <2>3 DEF LiveEnters, Runs, Arrives, LiveWaiting, Waiting
    <3>2. QED BY <3>1 DEF WaitersCounted, TypeOK
  <2>4. QED BY <2>2, <2>3
<1>4. \A o \in Offline : Waiting(o)' <=> Waiting(o)
  BY <1>1, <1>2, MovesWaiting DEF Tasks, Pcs
<1>5. LocalsClean' /\ FlagHasOwner'
  BY <1>4 DEF LiveEnters, LocalsClean, FlagHasOwner, Starved
<1>6. TypeOK'
  BY <1>1, <1>2, <1>3 DEF TypeOK, LiveEnters, Occupy, Moves
<1>7. QED BY <1>2, <1>3, <1>5, <1>6

LEMMA LiveWaitsIInv ==
    ASSUME IInv, NEW l \in Live, LiveWaits(l)
    PROVE  IInv'
<1> USE DEF IInv
<1>1. l \in Tasks /\ l \notin Offline
  BY SlotAssumption DEF Tasks
<1>2. Moves(l, "wait")
  BY <1>1, SleepMoves DEF LiveWaits, TypeOK
<1>3. Inside' = Inside
  BY <1>1, <1>2, MovesInside DEF LiveWaits, Runs, Arrives, Inside, Pcs
<1>4. ActiveMatches' /\ HolderMatches' /\ CallsInside'
  BY <1>3 DEF ActiveMatches, HolderMatches, CallsInside, LiveWaits
<1>5. WaitersCounted' /\ liveWaiters' \in Nat
  <2>1. LiveWaiting' = LiveWaiting \cup {l}
    BY <1>1, <1>2, MovesLiveWaiting DEF Pcs
  <2>2. CASE pc[l] = "woken"
    <3>1. LiveWaiting' = LiveWaiting /\ liveWaiters' = liveWaiters
      BY <2>1, <2>2 DEF LiveWaits, LiveWaiting, Waiting
    <3>2. QED BY <3>1 DEF WaitersCounted, TypeOK
  <2>3. CASE pc[l] # "woken"
    <3>1. l \notin LiveWaiting /\ liveWaiters' = liveWaiters + 1
      BY <2>3 DEF LiveWaits, Runs, Arrives, LiveWaiting, Waiting
    <3>2. QED BY <2>1, <3>1, CountJoins DEF TypeOK
  <2>4. QED BY <2>2, <2>3
<1>6. \A o \in Offline : (Waiting(o)' <=> Waiting(o)) /\ (pc'[o] = "wait" => pc[o] = "wait")
  BY <1>1, <1>2, MovesWaiting DEF Tasks, Pcs, Moves
<1>7. LocalsClean' /\ FlagHasOwner'
  BY <1>6 DEF LiveWaits, LocalsClean, FlagHasOwner, Starved
<1>8. NoLostWakeup'
  <2>1. ASSUME NEW k \in Live, pc'[k] = "wait" PROVE ~LiveMayEnter'
    BY <1>2, <2>1 DEF Moves, NoLostWakeup, LiveWaits, LiveMayEnter, Tasks
  <2>2. ASSUME NEW o \in Offline, pc'[o] = "wait" PROVE ~OfflineMayEnter(o)'
    BY <1>6, <2>2 DEF NoLostWakeup, LiveWaits, OfflineMayEnter, Starved, TypeOK
  <2>3. QED BY <2>1, <2>2 DEF NoLostWakeup
<1>9. TypeOK'
  BY <1>2, <1>5 DEF TypeOK, LiveWaits, Moves
<1>10. QED BY <1>4, <1>5, <1>7, <1>8, <1>9

LEMMA OfflineEntersIInv ==
    ASSUME IInv, NEW o \in Offline, OfflineEnters(o)
    PROVE  IInv'
<1> USE DEF IInv
<1>1. o \in Tasks /\ o \notin Live
  BY SlotAssumption DEF Tasks
<1>2. /\ Moves(o, "inside") /\ Inside' = {o} /\ active' /\ holder' = "offline"
      /\ ActiveMatches' /\ HolderMatches' /\ CallsInside' /\ NoLostWakeup'
  BY <1>1, OccupyIInv DEF OfflineEnters, OfflineMayEnter
<1>3. WaitersCounted'
  BY <1>1, <1>2, MovesLiveWaiting DEF Pcs, WaitersCounted, OfflineEnters
<1>4. \A p \in Offline : p # o => (Waiting(p)' <=> Waiting(p))
  BY <1>1, <1>2, MovesWaiting DEF Tasks, Pcs
<1>5. LocalsClean' /\ FlagHasOwner'
  BY <1>4 DEF OfflineEnters, OfflineLeaves, LocalsClean, FlagHasOwner, Starved, TypeOK
<1>6. TypeOK'
  BY <1>1, <1>2 DEF TypeOK, OfflineEnters, OfflineLeaves, Occupy, Moves
<1>7. QED BY <1>2, <1>3, <1>5, <1>6

LEMMA OfflineWaitsIInv ==
    ASSUME IInv, NEW o \in Offline, OfflineWaits(o)
    PROVE  IInv'
<1> USE DEF IInv
<1>1. o \in Tasks /\ o \notin Live
  BY SlotAssumption DEF Tasks
<1>2. Moves(o, "wait")
  BY <1>1, SleepMoves DEF OfflineWaits, TypeOK
<1>3. Inside' = Inside
  BY <1>1, <1>2, MovesInside DEF OfflineWaits, Runs, Arrives, Inside, Pcs
<1>4. ActiveMatches' /\ HolderMatches' /\ CallsInside'
  BY <1>3 DEF ActiveMatches, HolderMatches, CallsInside, OfflineWaits
<1>5. WaitersCounted'
  BY <1>1, <1>2, MovesLiveWaiting DEF Pcs, WaitersCounted, OfflineWaits
<1>6. /\ Waiting(o)'
      /\ \A p \in Offline : p # o => (Waiting(p)' <=> Waiting(p)) /\ Starved(p)' = Starved(p)
      /\ Starved(o)' = Starved(o)
  BY <1>1, <1>2, MovesWaiting DEF Tasks, Pcs, OfflineWaits, Starved, TypeOK
<1>7. LocalsClean' /\ FlagHasOwner'
  <2>1. LocalsClean'
    BY <1>6 DEF LocalsClean
  <2>2. FlagHasOwner'
    <3>1. CASE late[o]
      BY <1>6, <3>1 DEF OfflineWaits, FlagHasOwner, Starved, TypeOK
    <3>2. CASE ~late[o]
      BY <1>6, <3>2 DEF OfflineWaits, FlagHasOwner, Starved, TypeOK
    <3>3. QED BY <3>1, <3>2
  <2>3. QED BY <2>1, <2>2
<1>8. NoLostWakeup'
  <2>1. ASSUME NEW k \in Live, pc'[k] = "wait" PROVE ~LiveMayEnter'
    BY <1>1, <1>2, <2>1 DEF Moves, NoLostWakeup, OfflineWaits, LiveMayEnter, Tasks
  <2>2. ASSUME NEW p \in Offline, pc'[p] = "wait" PROVE ~OfflineMayEnter(p)'
    <3>1. CASE p = o
      BY <1>6, <3>1 DEF OfflineWaits, OfflineMayEnter
    <3>2. CASE p # o
      BY <1>2, <1>6, <2>2, <3>2 DEF Moves, NoLostWakeup, OfflineWaits, OfflineMayEnter, Tasks
    <3>3. QED BY <3>1, <3>2
  <2>3. QED BY <2>1, <2>2 DEF NoLostWakeup
<1>9. TypeOK'
  <2>1. late[o] \in BOOLEAN /\ Starved(o) \in BOOLEAN /\ offlineStarving' \in BOOLEAN
    BY DEF TypeOK, Starved, OfflineWaits
  <2>2. QED BY <1>2, <2>1 DEF TypeOK, OfflineWaits, Moves
<1>10. QED BY <1>4, <1>5, <1>7, <1>8, <1>9

LEMMA StarveTimeoutIInv ==
    ASSUME IInv, NEW o \in Offline, StarveTimeout(o)
    PROVE  IInv'
<1> USE DEF IInv
<1>1. o \in Tasks /\ o \notin Live
  BY SlotAssumption DEF Tasks
<1>2. Moves(o, "woken")
  BY <1>1 DEF StarveTimeout, TypeOK, Moves, Pcs
<1>3. Inside' = Inside
  BY <1>1, <1>2, MovesInside DEF StarveTimeout, Inside, Pcs
<1>4. ActiveMatches' /\ HolderMatches' /\ CallsInside'
  BY <1>3 DEF ActiveMatches, HolderMatches, CallsInside, StarveTimeout, coordVars
<1>5. WaitersCounted'
  BY <1>1, <1>2, MovesLiveWaiting DEF Pcs, WaitersCounted, StarveTimeout, coordVars
<1>6. Waiting(o)' /\ \A p \in Offline : p # o => (Waiting(p)' <=> Waiting(p))
  BY <1>1, <1>2, MovesWaiting DEF Tasks, Pcs
<1>7. LocalsClean' /\ FlagHasOwner'
  BY <1>6 DEF StarveTimeout, LocalsClean, FlagHasOwner, Starved, TypeOK, coordVars
<1>8. NoLostWakeup'
  BY <1>1 DEF StarveTimeout, NoLostWakeup, LiveMayEnter, OfflineMayEnter, Starved, TypeOK,
     coordVars, Tasks
<1>9. TypeOK'
  BY <1>2 DEF TypeOK, StarveTimeout, Moves, coordVars
<1>10. QED BY <1>4, <1>5, <1>7, <1>8, <1>9

\* Whoever leaves wakes everybody.
LEMMA AwakeIsSafe ==
    ASSUME NEW t \in Tasks, NEW p \in Pcs \ {"wait"}, TypeOK, NotifyAll(t, p)
    PROVE  NoLostWakeup'
<1>1. Moves(t, p) /\ \A u \in Tasks : u # t => pc'[u] # "wait"
  BY NotifyAllMoves DEF TypeOK
<1>2. QED BY <1>1 DEF Moves, NoLostWakeup, Tasks

LEMMA LiveCancelledIInv ==
    ASSUME IInv, NEW l \in Live, LiveCancelled(l)
    PROVE  IInv'
<1> USE DEF IInv
<1>1. l \in Tasks /\ l \notin Offline
  BY SlotAssumption DEF Tasks
<1>2. Moves(l, "out") /\ NoLostWakeup'
  BY <1>1, NotifyAllMoves, AwakeIsSafe DEF LiveCancelled, TypeOK, Pcs
<1>3. Inside' = Inside
  BY <1>1, <1>2, MovesInside DEF LiveCancelled, Inside, Pcs
<1>4. ActiveMatches' /\ HolderMatches' /\ CallsInside'
  BY <1>3 DEF ActiveMatches, HolderMatches, CallsInside, LiveCancelled
<1>5. WaitersCounted' /\ liveWaiters' \in Nat
  <2>1. LiveWaiting' = LiveWaiting \ {l} /\ l \in LiveWaiting
    BY <1>1, <1>2, MovesLiveWaiting DEF Pcs, LiveCancelled, LiveWaiting, Waiting
  <2>2. QED BY <2>1, CountLeaves DEF LiveCancelled
<1>6. \A o \in Offline : Waiting(o)' <=> Waiting(o)
  BY <1>1, <1>2, MovesWaiting DEF Tasks, Pcs
<1>7. LocalsClean' /\ FlagHasOwner'
  BY <1>6 DEF LiveCancelled, LocalsClean, FlagHasOwner, Starved
<1>8. TypeOK'
  BY <1>2, <1>5 DEF TypeOK, LiveCancelled, Moves
<1>9. QED BY <1>2, <1>4, <1>5, <1>7, <1>8

LEMMA OfflineCancelledIInv ==
    ASSUME IInv, NEW o \in Offline, OfflineCancelled(o)
    PROVE  IInv'
<1> USE DEF IInv
<1>1. o \in Tasks /\ o \notin Live
  BY SlotAssumption DEF Tasks
<1>2. Moves(o, "out") /\ NoLostWakeup'
  BY <1>1, NotifyAllMoves, AwakeIsSafe DEF OfflineCancelled, TypeOK, Pcs
<1>3. Inside' = Inside
  BY <1>1, <1>2, MovesInside DEF OfflineCancelled, Inside, Pcs
<1>4. ActiveMatches' /\ HolderMatches' /\ CallsInside'
  BY <1>3 DEF ActiveMatches, HolderMatches, CallsInside, OfflineCancelled
<1>5. WaitersCounted'
  BY <1>1, <1>2, MovesLiveWaiting DEF Pcs, WaitersCounted, OfflineCancelled
<1>6. \A p \in Offline : p # o => (Waiting(p)' <=> Waiting(p))
  BY <1>1, <1>2, MovesWaiting DEF Tasks, Pcs
<1>7. LocalsClean' /\ FlagHasOwner'
  BY <1>6 DEF OfflineCancelled, OfflineLeaves, LocalsClean, FlagHasOwner, Starved, TypeOK
<1>8. TypeOK'
  BY <1>2 DEF TypeOK, OfflineCancelled, OfflineLeaves, Moves
<1>9. QED BY <1>2, <1>4, <1>5, <1>7, <1>8

LEMMA VacateIInv ==
    ASSUME IInv, NEW t \in Tasks, pc[t] = "inside", Vacate(t),
           t \notin calling \/ t \in Enroll \cap Cancellable
    PROVE  IInv' /\ Inside = {t} /\ Inside' = {} /\ Moves(t, "out")
<1> USE DEF IInv
<1>1. Moves(t, "out") /\ NoLostWakeup'
  BY NotifyAllMoves, AwakeIsSafe DEF Vacate, TypeOK, Pcs
<1>2. Inside = {t} /\ Inside' = {}
  BY <1>1, MovesInside DEF ActiveMatches, Inside, Pcs
<1>3. ActiveMatches' /\ HolderMatches' /\ CallsInside'
  BY <1>2 DEF ActiveMatches, HolderMatches, CallsInside, Vacate
<1>4. WaitersCounted'
  <2>1. LiveWaiting' = LiveWaiting
    BY <1>1, MovesLiveWaiting DEF Pcs, LiveWaiting, Waiting
  <2>2. QED BY <2>1 DEF WaitersCounted, Vacate
<1>5. \A o \in Offline : Waiting(o)' <=> Waiting(o)
  BY <1>1, MovesWaiting DEF Tasks, Pcs, Waiting
<1>6. LocalsClean' /\ FlagHasOwner'
  BY <1>5 DEF Vacate, LocalsClean, FlagHasOwner, Starved
<1>7. TypeOK'
  BY <1>1 DEF TypeOK, Vacate, Moves
<1>8. QED BY <1>1, <1>2, <1>3, <1>4, <1>6, <1>7

\* Steps of the worker threads and of the watchdog.
Aside == UNCHANGED <<coordVars, pc, starved, late, holder>>

LEMMA AsideIInv ==
    ASSUME IInv, Aside, calling' \subseteq calling, leaked' \in BOOLEAN
    PROVE  IInv' /\ UNCHANGED <<Owner, Asking, Tired>>
<1> USE DEF IInv, Aside, coordVars
<1>1. UNCHANGED <<Inside, LiveWaiting, Asking, Tired>> /\ \A t : Waiting(t)' <=> Waiting(t)
  BY DEF Inside, LiveWaiting, Asking, Tired, Waiting, Starved
<1>2. TypeOK' /\ ActiveMatches' /\ HolderMatches' /\ CallsInside' /\ WaitersCounted'
  BY <1>1 DEF TypeOK, ActiveMatches, HolderMatches, CallsInside, WaitersCounted
<1>3. LocalsClean' /\ FlagHasOwner' /\ NoLostWakeup'
  BY <1>1 DEF LocalsClean, FlagHasOwner, NoLostWakeup, Starved, LiveMayEnter, OfflineMayEnter
<1>4. UNCHANGED Owner
  BY <1>1 DEF Owner
<1>5. QED BY <1>1, <1>2, <1>3, <1>4

LEMMA AsideSteps ==
    ASSUME IInv,
           \/ \E t \in Tasks : CallReturns(t)
           \/ \E l \in Live : DeferredTimeout(l)
           \/ ProbeFindsLeak \/ UNCHANGED vars
    PROVE  Aside /\ calling' \subseteq calling /\ leaked' \in BOOLEAN
  BY DEF CallReturns, DeferredTimeout, ProbeFindsLeak, Aside, vars, coordVars, IInv, TypeOK

LEMMA StepIInv == IInv /\ [Next]_vars => IInv'
<1> SUFFICES ASSUME IInv, [Next]_vars PROVE IInv'
  OBVIOUS
<1>1. ASSUME NEW t \in Tasks, Turn(t) PROVE IInv'
  BY <1>1, LiveEntersIInv, LiveWaitsIInv, OfflineEntersIInv, OfflineWaitsIInv DEF Turn
<1>2. ASSUME NEW t \in Tasks, Release(t) PROVE IInv'
  BY <1>2, VacateIInv DEF Release
<1>3. ASSUME NEW l \in Live, LiveCancelled(l) PROVE IInv'
  BY <1>3, LiveCancelledIInv
<1>4. ASSUME NEW o \in Offline, StarveTimeout(o) \/ OfflineCancelled(o) PROVE IInv'
  BY <1>4, StarveTimeoutIInv, OfflineCancelledIInv
<1>5. ASSUME NEW t \in Enroll, EnrollCancelled(t) PROVE IInv'
  BY <1>5, VacateIInv DEF EnrollCancelled, Tasks, Offline
<1>6. CASE \/ \E t \in Tasks : CallReturns(t)
           \/ \E l \in Live : DeferredTimeout(l)
           \/ ProbeFindsLeak \/ UNCHANGED vars
  BY <1>6, AsideSteps, AsideIInv
<1>7. QED BY <1>1, <1>2, <1>3, <1>4, <1>5, <1>6 DEF Next

\* The slot's invariant, for any number of tasks of each kind.
THEOREM SlotInvariant == Spec => []IInv
  BY InitIInv, StepIInv, PTL DEF Spec

\* No sleeper is forgotten: nobody sleeps in front of a slot it may take.
THEOREM WakeupsArrive == Spec => []NoLostWakeup
<1>1. IInv => NoLostWakeup
  BY DEF IInv
<1>2. QED BY <1>1, SlotInvariant, PTL

\* Model calls exclude each other, those of cancelled enrolments excepted: the
\* slot is only as good as the shielding of the calls in it.
THEOREM CallsExclude == Spec => []OneModelCall
<1>1. IInv => OneModelCall
  BY DEF IInv, TypeOK, CallsInside, ActiveMatches, OneModelCall, Abandoned, Inside
<1>2. QED BY <1>1, SlotInvariant, PTL

-----------------------------------------------------------------------------
(* InferenceSlot implements PrioritySlot.                                  *)

LEMMA OwnerIs ==
    /\ \A t : Inside = {t} => Owner = t
    /\ Inside = {} => Owner = NoTask
  BY DEF Owner

LEMMA OwnerNotAsking ==
    ASSUME IInv, NEW t \in Asking
    PROVE  t # Owner
  BY SlotAssumption DEF Owner, Asking, Inside, Waiting, Pcs

\* Both kinds of tasks take the slot as promised.
LEMMA TakeStep ==
    ASSUME IInv, NEW t \in Tasks, Inside = {}, Inside' = {t}, Moves(t, "inside"),
           Tired' = Tired \ {t},
           t \in Offline => t \in Tired \/ LiveWaiting = {}
    PROVE  Slot!Take(t)
<1>1. Owner = NoTask /\ Owner' = t
  BY DEF Owner
<1>2. Asking' = Asking \ {t}
  BY MovesAsking DEF Pcs
<1>3. Asking \cap Live = LiveWaiting
  BY DEF Asking, LiveWaiting, Tasks
<1>4. QED BY <1>1, <1>2, <1>3 DEF Slot!Take

\* Going to sleep: a new task asks, a woken one asks on.
LEMMA WaitStep ==
    ASSUME IInv, NEW t \in Tasks, Runs(t), Moves(t, "wait"), Tired' = Tired
    PROVE  Slot!Ask(t) \/ UNCHANGED Slot!slotVars
<1>0. Inside' = Inside
  BY MovesInside DEF Inside, Runs, Arrives, Pcs
<1>1. UNCHANGED Owner
  BY <1>0 DEF Owner
<1>2. Asking' = Asking \cup {t}
  BY MovesAsking DEF Pcs
<1>3. CASE t \in Asking
  BY <1>1, <1>2, <1>3 DEF Slot!slotVars
<1>4. CASE t \notin Asking
  <2>1. t # Owner
    BY <1>4, SlotAssumption DEF Asking, Waiting, Runs, Arrives, Owner, Inside
  <2>2. QED BY <1>1, <1>2, <1>4, <2>1 DEF Slot!Ask
<1>5. QED BY <1>3, <1>4

LEMMA WithdrawStep ==
    ASSUME IInv, NEW t \in Tasks, Waiting(t), Moves(t, "out"), Tired' = Tired \ {t}
    PROVE  Slot!Withdraw(t)
<1>0. Inside' = Inside
  BY MovesInside DEF Inside, Waiting, Pcs
<1>1. UNCHANGED Owner
  BY <1>0 DEF Owner
<1>2. Asking' = Asking \ {t}
  BY MovesAsking DEF Pcs
<1>3. QED BY <1>1, <1>2 DEF Slot!Withdraw

LEMMA LeaveStep ==
    ASSUME IInv, NEW t \in Tasks, pc[t] = "inside", Vacate(t),
           t \notin calling \/ t \in Enroll \cap Cancellable
    PROVE  Slot!Leave
<1>1. Inside = {t} /\ Inside' = {} /\ Moves(t, "out")
  BY VacateIInv
<1>2. Owner' = NoTask
  BY <1>1 DEF Owner
<1>3. Asking' = Asking
  BY <1>1, MovesAsking DEF Pcs, Asking, Waiting
<1>4. Tired' = Tired
  BY DEF Vacate, Tired, Starved
<1>5. QED BY <1>2, <1>3, <1>4 DEF Slot!Leave

\* What the steps do to the starved.
LEMMA TiredAfter ==
    ASSUME IInv, NEW t \in Tasks
    PROVE  /\ t \in Live /\ UNCHANGED <<starved, late>> => Tired' = Tired /\ Tired \ {t} = Tired
           /\ t \in Offline /\ OfflineLeaves(t) => Tired' = Tired \ {t}
           /\ t \in Offline /\ OfflineWaits(t) => Tired' = Tired
  BY SlotAssumption DEF Tired, Starved, OfflineLeaves, OfflineWaits, IInv, TypeOK

LEMMA TurnStep ==
    ASSUME IInv, NEW t \in Tasks, Turn(t)
    PROVE  Slot!Take(t) \/ Slot!Ask(t) \/ UNCHANGED Slot!slotVars
<1> USE DEF IInv
<1>1. CASE t \in Live /\ LiveEnters(t)
  <2>1. Moves(t, "inside") /\ Inside = {} /\ Inside' = {t}
    BY <1>1, OccupyIInv DEF LiveEnters, LiveMayEnter, ActiveMatches
  <2>2. Tired' = Tired \ {t} /\ t \notin Offline
    BY <1>1, TiredAfter, SlotAssumption DEF LiveEnters
  <2>3. QED BY <2>1, <2>2, TakeStep
<1>2. CASE t \in Live /\ LiveWaits(t)
  <2>1. Moves(t, "wait") /\ Tired' = Tired /\ Runs(t)
    BY <1>2, SleepMoves, TiredAfter DEF LiveWaits, TypeOK
  <2>2. QED BY <2>1, WaitStep
<1>3. CASE t \in Offline /\ OfflineEnters(t)
  <2>1. Moves(t, "inside") /\ Inside = {} /\ Inside' = {t}
    BY <1>3, OccupyIInv, SlotAssumption DEF OfflineEnters, OfflineMayEnter, ActiveMatches
  <2>2. Tired' = Tired \ {t}
    BY <1>3, TiredAfter DEF OfflineEnters
  <2>3. t \in Tired \/ LiveWaiting = {}
    BY <1>3, CountZero DEF OfflineEnters, OfflineMayEnter, Tired
  <2>4. QED BY <2>1, <2>2, <2>3, TakeStep
<1>4. CASE t \in Offline /\ OfflineWaits(t)
  <2>1. Moves(t, "wait") /\ Tired' = Tired /\ Runs(t)
    BY <1>4, SleepMoves, TiredAfter DEF OfflineWaits, TypeOK
  <2>2. QED BY <2>1, WaitStep
<1>5. QED BY <1>1, <1>2, <1>3, <1>4 DEF Turn

LEMMA StarveStep ==
    ASSUME IInv, NEW o \in Offline, StarveTimeout(o)
    PROVE  Slot!Tire(o)
<1> USE DEF IInv
<1>1. o \in Tasks /\ Moves(o, "woken")
  BY DEF StarveTimeout, TypeOK, Moves, Pcs, Tasks
<1>0. Inside' = Inside
  BY <1>1, MovesInside DEF StarveTimeout, Inside, Pcs
<1>2. UNCHANGED Owner
  BY <1>0 DEF Owner
<1>3. Asking' = Asking /\ o \in Asking
  BY <1>1, MovesAsking DEF Pcs, StarveTimeout, Asking, Waiting
<1>4. Tired' = Tired \cup {o}
  BY DEF Tired, Starved, StarveTimeout, TypeOK
<1>5. QED BY <1>2, <1>3, <1>4 DEF Slot!Tire

LEMMA SlotStep == IInv /\ [Next]_vars => [Slot!SlotNext]_(Slot!slotVars)
<1> SUFFICES ASSUME IInv, [Next]_vars PROVE Slot!SlotNext \/ UNCHANGED Slot!slotVars
  OBVIOUS
<1>1. ASSUME NEW t \in Tasks, Turn(t) PROVE Slot!SlotNext \/ UNCHANGED Slot!slotVars
  BY <1>1, TurnStep DEF Slot!SlotNext, Tasks
<1>2. ASSUME NEW t \in Tasks, Release(t) PROVE Slot!SlotNext
  BY <1>2, LeaveStep DEF Release, Slot!SlotNext
<1>3. ASSUME NEW l \in Live, LiveCancelled(l) PROVE Slot!SlotNext
  <2>1. Moves(l, "out") /\ Waiting(l) /\ Tired' = Tired \ {l} /\ l \in Tasks
    BY <1>3, NotifyAllMoves, TiredAfter DEF LiveCancelled, IInv, TypeOK, Pcs, Waiting, Tasks
  <2>2. QED BY <2>1, WithdrawStep DEF Slot!SlotNext
<1>4. ASSUME NEW o \in Offline, OfflineCancelled(o) PROVE Slot!SlotNext
  <2>1. Moves(o, "out") /\ Waiting(o) /\ Tired' = Tired \ {o} /\ o \in Tasks
    BY <1>4, NotifyAllMoves, TiredAfter DEF OfflineCancelled, IInv, TypeOK, Pcs, Waiting, Tasks
  <2>2. QED BY <2>1, WithdrawStep DEF Slot!SlotNext
<1>5. ASSUME NEW o \in Offline, StarveTimeout(o) PROVE Slot!SlotNext
  BY <1>5, StarveStep DEF Slot!SlotNext
<1>6. ASSUME NEW t \in Enroll, EnrollCancelled(t) PROVE Slot!SlotNext
  BY <1>6, LeaveStep DEF EnrollCancelled, Slot!SlotNext, Tasks, Offline
<1>7. CASE \/ \E t \in Tasks : CallReturns(t)
           \/ \E l \in Live : DeferredTimeout(l)
           \/ ProbeFindsLeak \/ UNCHANGED vars
  BY <1>7, AsideSteps, AsideIInv DEF Slot!slotVars
<1>8. QED BY <1>1, <1>2, <1>3, <1>4, <1>5, <1>6, <1>7 DEF Next

LEMMA SlotStarts == Init => Slot!SlotInit
  BY DEF Init, Slot!SlotInit, Owner, Asking, Tired, Inside, Waiting, Starved, Tasks

\* The coordinator keeps its promise, for any number of tasks of each kind.
THEOREM KeepsPriority == Spec => FollowsPriority
  BY SlotStarts, SlotStep, SlotInvariant, PTL DEF Spec, FollowsPriority, Slot!SlotSpec
=============================================================================
