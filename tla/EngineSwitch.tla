---------------------------- MODULE EngineSwitch ----------------------------
(***************************************************************************)
(* Changing the speaker engine or the ASR engine while sessions run:        *)
(* SpeakerEngineManager (engine/speaker/speaker_factory.py),                *)
(* ASREngineManager (engine/asr/factory.py), the two PUT endpoints          *)
(* (app/api/engines.py, app/api/settings.py) and the engine snapshot of a   *)
(* session (app/runtime.py, app/api/websocket.py).                          *)
(*                                                                         *)
(* switch_engine runs in a thread of its own and the rest of the handler in *)
(* the event loop, so several requests are between the two at once.  Both   *)
(* managers are here, as kind says: they differ in how they lock, in how    *)
(* many engines they cache and in when they evict.                          *)
(***************************************************************************)
EXTENDS Integers, Sequences, SequencesExt, FiniteSets

CONSTANTS
  Type,        \* ENGINE_CONFIG, ASR_ENGINE_CONFIG
  SwitchCall,  \* PUT requests
  Session,     \* live sessions
  Nothing,     \* None
  MaxLoads     \* bound: engines loaded in a run

ASSUME EngineAssumption ==
  /\ MaxLoads \in Nat \ {0} /\ Nothing \notin Type \cup SwitchCall
  /\ Nothing \notin [type : Type, id : 1..MaxLoads]

VARIABLES
  kind,        \* which manager this is: "speaker" or "asr"
  cache,       \* _engine_cache: the engines in the order they were loaded
  curType,     \* _current_type
  curEngine,   \* _current_engine
  switchLock,  \* who holds _switch_lock
  served,      \* the engine the runtime gives to new sessions and jobs
  switch,      \* request -> where it is, what it asks for, what it loaded
  live,        \* session -> where it is and its engine
  kept,        \* pairs session, engine: what the engine keeps for the session
  excused,     \* history: sessions that were given up, or whose cleanup failed
  loads        \* how many engines were loaded

engineVars == <<kind, cache, curType, curEngine, switchLock, served, switch, live, kept,
                excused, loads>>

Engine == [type : Type, id : 1..MaxLoads]
MaxCache == IF kind = "speaker" THEN 2 ELSE 1

EngineTypes ==
  /\ kind \in {"speaker", "asr"}
  /\ cache \in Seq(Engine) /\ IsInjective([i \in DOMAIN cache |-> cache[i].type])
  /\ curType \in Type
  /\ curEngine \in Engine \cup {Nothing} /\ served \in Engine \cup {Nothing}
  /\ switchLock \in SwitchCall \cup {Nothing}
  /\ switch \in [SwitchCall -> [pc : {"idle", "waiting", "loading", "loaded", "set", "tail"},
                          type : Type \cup {Nothing}, engine : Engine \cup {Nothing}]]
  /\ live \in [Session -> [pc : {"out", "open", "calling", "drained", "closing", "abandoned", "over"},
                           engine : Engine \cup {Nothing}]]
  /\ kept \subseteq Session \X Engine /\ excused \subseteq Session
  /\ loads \in 0..MaxLoads

NoRequest == [pc |-> "idle", type |-> Nothing, engine |-> Nothing]
NoSession == [pc |-> "out", engine |-> Nothing]

(* _init_engines: an engine that does not load leaves the runtime without. *)
EngineInit ==
  /\ kind \in {"speaker", "asr"} /\ curType \in Type
  /\ \/ /\ curEngine = [type |-> curType, id |-> 1]
        /\ cache = <<curEngine>> /\ loads = 1
     \/ curEngine = Nothing /\ cache = <<>> /\ loads = 0
  /\ served = curEngine /\ switchLock = Nothing
  /\ switch = [r \in SwitchCall |-> NoRequest]
  /\ live = [s \in Session |-> NoSession]
  /\ kept = {} /\ excused = {}

Cached(t) == {cache[i] : i \in {i \in DOMAIN cache : cache[i].type = t}}

(* The eviction inside SpeakerEngineManager._load_engine, before the current *)
(* type changes; ASREngineManager evicts after it.                          *)
Trimmed(c) ==
  IF kind = "speaker" /\ Len(c) > MaxCache
    THEN LET oldest == CHOOSE i \in DOMAIN c :
                         /\ c[i].type # curType
                         /\ \A j \in 1..(i - 1) : c[j].type = curType
         IN RemoveAt(c, oldest)
    ELSE c

(* _load_engine, when it succeeds.                                         *)
Loads(t, e) ==
  \/ e \in Cached(t) /\ UNCHANGED <<cache, loads>>
  \/ /\ Cached(t) = {} /\ loads < MaxLoads
     /\ e = [type |-> t, id |-> loads + 1]
     /\ loads' = loads + 1
     /\ cache' = Trimmed(Append(cache, e))

(* switch_engine up to its lock.  (Types that are unknown, or whose modules  *)
(* are not installed, are refused before it.)                                *)
Ask(r, t) ==
  /\ switch[r].pc = "idle"
  /\ switch' = [switch EXCEPT ![r] = [pc |-> IF t = curType THEN "tail" ELSE "waiting",
                                type |-> t, engine |-> Nothing]]
  /\ UNCHANGED <<kind, cache, curType, curEngine, switchLock, served, live, kept, excused, loads>>

(* A thread waits for the lock of the speaker manager; the ASR manager      *)
(* refuses ("already in progress").                                         *)
Lock(r) ==
  /\ switch[r].pc = "waiting"
  /\ \/ switchLock = Nothing /\ switchLock' = r /\ switch' = [switch EXCEPT ![r].pc = "loading"]
     \/ switchLock # Nothing /\ kind = "asr" /\ switch' = [switch EXCEPT ![r] = NoRequest] /\ UNCHANGED switchLock
  /\ UNCHANGED <<kind, cache, curType, curEngine, served, live, kept, excused, loads>>

Load(r) ==
  /\ switch[r].pc = "loading"
  /\ \E e \in Engine :
       Loads(switch[r].type, e) /\ switch' = [switch EXCEPT ![r].pc = "loaded", ![r].engine = e]
  /\ UNCHANGED <<kind, curType, curEngine, switchLock, served, live, kept, excused>>

(* A load that raises leaves the current engine as it is.                  *)
LoadFails(r) ==
  /\ switch[r].pc = "loading"
  /\ switch' = [switch EXCEPT ![r] = NoRequest] /\ switchLock' = Nothing
  /\ UNCHANGED <<kind, cache, curType, curEngine, served, live, kept, excused, loads>>

SetEngine(r) ==
  /\ switch[r].pc = "loaded"
  /\ curEngine' = switch[r].engine
  /\ switch' = [switch EXCEPT ![r].pc = "set"]
  /\ UNCHANGED <<kind, cache, curType, switchLock, served, live, kept, excused, loads>>

(* The second assignment, _evict_except_current, and the end of the lock.  *)
SetType(r) ==
  /\ switch[r].pc = "set"
  /\ curType' = switch[r].type
  /\ cache' = IF kind = "asr" /\ Len(cache) > MaxCache
                THEN SetToSeq(Cached(switch[r].type)) ELSE cache
  /\ switchLock' = Nothing
  /\ switch' = [switch EXCEPT ![r].pc = "tail"]
  /\ UNCHANGED <<kind, curEngine, served, live, kept, excused, loads>>

\* Mutant: the handler publishes the engine its own switch loaded.
PublishesOwn(r) ==
  /\ switch[r].pc = "tail"
  /\ curEngine # Nothing \/ switch[r].engine # Nothing
  /\ served' = IF switch[r].engine # Nothing THEN switch[r].engine ELSE curEngine
  /\ UNCHANGED <<curEngine, cache, loads>>
(* The rest of the handler: get_engine, which loads the engine a start      *)
(* without one still lacks, and set_speaker or set_asr.                     *)
Publishes(r) ==
  /\ switch[r].pc = "tail"
  /\ \/ curEngine # Nothing /\ served' = curEngine /\ UNCHANGED <<curEngine, cache, loads>>
     \/ /\ curEngine = Nothing /\ switchLock = Nothing
        /\ \E e \in Engine : Loads(curType, e) /\ curEngine' = e /\ served' = e

Publish(r) ==
  /\ Publishes(r)
  /\ switch' = [switch EXCEPT ![r] = NoRequest]
  /\ UNCHANGED <<kind, curType, switchLock, live, kept, excused>>

PublishFails(r) ==
  /\ switch[r].pc = "tail" /\ curEngine = Nothing /\ switchLock = Nothing
  /\ switch' = [switch EXCEPT ![r] = NoRequest]
  /\ UNCHANGED <<kind, cache, curType, curEngine, switchLock, served, live, kept, excused, loads>>

-----------------------------------------------------------------------------
(* Sessions.                                                               *)

(* check_engines, and the snapshot every later step of the session uses.   *)
OpenSession(s) ==
  /\ live[s].pc = "out" /\ served # Nothing
  /\ live' = [live EXCEPT ![s] = [pc |-> "open", engine |-> served]]
  /\ UNCHANGED <<kind, cache, curType, curEngine, switchLock, served, switch, kept, excused, loads>>

SpeechStarts(s) ==
  /\ live[s].pc = "open"
  /\ live' = [live EXCEPT ![s].pc = "calling"]
  /\ UNCHANGED <<kind, cache, curType, curEngine, switchLock, served, switch, kept, excused, loads>>

(* The model call ends: compare_and_identify has added to a cluster.       *)
Identify(s) ==
  /\ live[s].pc \in {"calling", "closing", "abandoned"}
  /\ live' = [live EXCEPT ![s].pc = CASE @ = "calling" -> "open"
                                      [] @ = "closing" -> "drained"
                                      [] @ = "abandoned" -> "over"]
  /\ kept' = kept \cup {<<s, live[s].engine>>}
  /\ UNCHANGED <<kind, cache, curType, curEngine, switchLock, served, switch, excused, loads>>

(* The socket closes; a call under way is waited for, here or by the        *)
(* deferred processor.                                                      *)
Close(s) ==
  /\ live[s].pc \in {"open", "calling"}
  /\ live' = [live EXCEPT ![s].pc = IF @ = "open" THEN "drained" ELSE "closing"]
  /\ UNCHANGED <<kind, cache, curType, curEngine, switchLock, served, switch, kept, excused, loads>>

\* Mutant: the engine of the runtime forgets the session.
ForgetsCurrent(s) == kept \ {<<s, served>>}
(* cleanup_client on the engine of the session's own snapshot.             *)
Forgets(s) == kept \ {<<s, live[s].engine>>}

(* The end of _finalize_live_session; a deletion that fails is logged only, *)
(* and a call that was given up may still add to a cluster.                 *)
Cleanup(s) ==
  /\ \/ live[s].pc = "drained" /\ live' = [live EXCEPT ![s].pc = "over"]
     \/ live[s].pc = "closing" /\ live' = [live EXCEPT ![s].pc = "abandoned"]
  /\ \/ kept' = Forgets(s)
        /\ excused' = IF live[s].pc = "closing" THEN excused \cup {s} ELSE excused
     \/ excused' = excused \cup {s} /\ UNCHANGED kept
  /\ UNCHANGED <<kind, cache, curType, curEngine, switchLock, served, switch, loads>>

EngineNext ==
  \/ \E r \in SwitchCall, t \in Type : Ask(r, t)
  \/ \E r \in SwitchCall : \/ Lock(r) \/ Load(r) \/ LoadFails(r) \/ SetEngine(r) \/ SetType(r)
                        \/ Publish(r) \/ PublishFails(r)
  \/ \E s \in Session : OpenSession(s) \/ SpeechStarts(s) \/ Identify(s) \/ Close(s) \/ Cleanup(s)

EngineSpec == EngineInit /\ [][EngineNext]_engineVars

-----------------------------------------------------------------------------
(* Once no request is between its switch and the end of its handler, new    *)
(* sessions and jobs get the engine the manager calls current, in whatever  *)
(* order the threads and the handlers of several requests ran, and whether  *)
(* the service started with an engine or without one.                       *)
SettledOnCurrent ==
  (\A r \in SwitchCall : switch[r].pc \notin {"set", "tail"}) => served = curEngine

(* The engine in use is always in the cache, so that asking for it again     *)
(* never loads a second copy beside it, although the speaker manager evicts  *)
(* before the current type changes and the ASR manager after; and with no    *)
(* switch under way at most MaxCache engines are kept, the current type's    *)
(* among them.                                                               *)
CacheKeepsCurrent ==
  /\ curEngine # Nothing => \E t \in Type : curEngine \in Cached(t)
  /\ switchLock = Nothing =>
       /\ Len(cache) <= MaxCache
       /\ curEngine # Nothing => curEngine \in Cached(curType)

(* A session that ended leaves nothing in any engine, although the engine   *)
(* was changed during the session (engines.py 26-37), unless its last model  *)
(* call was given up or the deletion failed.                                *)
ScopesReleased ==
  \A s \in Session, e \in Engine :
    live[s].pc = "over" /\ <<s, e>> \in kept => s \in excused

(* No engine is lost, loaded twice or left with a session's clusters.       *)
EnginesReleased == CacheKeepsCurrent /\ ScopesReleased
=============================================================================
