--------------------------- MODULE ServicesProofs ---------------------------
(***************************************************************************)
(* Proofs about the services around the recordings: EngineSwitch,           *)
(* LlmGateway, AuthSessions, SchemaUpgrade, SpeakerClusters and RateLimits, *)
(* each for any number of requests, sessions, engines, tokens, interrupted  *)
(* starts, utterances and addresses; and about the types of all of them in  *)
(* the composition MCServices checks.                                       *)
(***************************************************************************)
EXTENDS MCServices,
        SequenceTheorems, FiniteSetTheorems, WellFoundedInduction, TLAPS

-----------------------------------------------------------------------------
(* Engines: what new sessions get, and what ended ones leave.               *)

(* What SettledOnCurrent needs beside itself: only a request whose handler   *)
(* has still to publish separates the runtime from the manager, and the      *)
(* runtime has no engine the manager lacks.                                  *)
SwitchInv ==
  /\ DOMAIN switch = SwitchCall
  /\ \A r \in SwitchCall : switch[r].pc = "loaded" => switch[r].engine \in Engine
  /\ curEngine = Nothing => served = Nothing
  /\ SettledOnCurrent

(* A session's clusters are kept by the engine of its snapshot only, and a   *)
(* session that was given up is excused.                                     *)
ScopeInv ==
  /\ DOMAIN live = Session /\ DOMAIN switch = SwitchCall
  /\ kept \subseteq Session \X Engine /\ excused \subseteq Session
  /\ \A s \in Session :
       /\ live[s].pc # "out" => live[s].engine \in Engine
       /\ live[s].pc = "abandoned" => s \in excused
       /\ \A e \in Engine : <<s, e>> \in kept =>
            live[s].pc # "out" /\ e = live[s].engine
  /\ served \in Engine \cup {Nothing}
  /\ curEngine \in Engine \cup {Nothing}
  /\ \A r \in SwitchCall : switch[r].pc = "loaded" => switch[r].engine \in Engine
  /\ ScopesReleased

LEMMA NothingIsNoEngine == Nothing \notin Engine
BY EngineAssumption DEF Engine

LEMMA SwitchInit == EngineInit => SwitchInv
BY DEF EngineInit, SwitchInv, SettledOnCurrent, NoRequest

(* Every action keeps SwitchInv.                                            *)
LEMMA SwitchStep == SwitchInv /\ [EngineNext]_engineVars => SwitchInv'
<1> SUFFICES ASSUME SwitchInv, [EngineNext]_engineVars PROVE SwitchInv'
  OBVIOUS
<1> USE NothingIsNoEngine DEF SwitchInv, SettledOnCurrent, NoRequest
<1>1. ASSUME NEW r \in SwitchCall, NEW t \in Type, Ask(r, t) PROVE SwitchInv'
  BY <1>1 DEF Ask
<1>2. ASSUME NEW r \in SwitchCall, Lock(r) PROVE SwitchInv'
  <2>1. CASE switch' = [switch EXCEPT ![r].pc = "loading"]
    BY <1>2, <2>1 DEF Lock
  <2>2. CASE switch' = [switch EXCEPT ![r] = NoRequest]
    BY <1>2, <2>2 DEF Lock
  <2> QED
    BY <1>2, <2>1, <2>2 DEF Lock
<1>3. ASSUME NEW r \in SwitchCall, Load(r) PROVE SwitchInv'
  BY <1>3 DEF Load
<1>4. ASSUME NEW r \in SwitchCall, LoadFails(r) PROVE SwitchInv'
  BY <1>4 DEF LoadFails
<1>5. ASSUME NEW r \in SwitchCall, SetEngine(r) PROVE SwitchInv'
  BY <1>5 DEF SetEngine
<1>6. ASSUME NEW r \in SwitchCall, SetType(r) PROVE SwitchInv'
  BY <1>6 DEF SetType
<1>7. ASSUME NEW r \in SwitchCall, Publish(r) PROVE SwitchInv'
  BY <1>7 DEF Publish, Publishes
<1>8. ASSUME NEW r \in SwitchCall, PublishFails(r) PROVE SwitchInv'
  BY <1>8 DEF PublishFails
<1>9. ASSUME NEW s \in Session,
             OpenSession(s) \/ SpeechStarts(s) \/ Identify(s) \/ Close(s) \/ Cleanup(s)
      PROVE  SwitchInv'
  BY <1>9 DEF OpenSession, SpeechStarts, Identify, Close, Cleanup
<1>10. CASE UNCHANGED engineVars
  BY <1>10 DEF engineVars
<1> QED
  BY <1>1, <1>2, <1>3, <1>4, <1>5, <1>6, <1>7, <1>8, <1>9, <1>10 DEF EngineNext

(* Once no handler is between its switch and its end, new sessions and jobs  *)
(* get the manager's engine (engines.py 25-50), for any number of requests.  *)
THEOREM SettlesOnCurrent == EngineSpec => []SettledOnCurrent
<1>1. SwitchInv => SettledOnCurrent
  BY DEF SwitchInv
<1> QED
  BY SwitchInit, SwitchStep, <1>1, PTL DEF EngineSpec

-----------------------------------------------------------------------------
LEMMA ScopeInit == EngineInit => ScopeInv
<1> SUFFICES ASSUME EngineInit PROVE ScopeInv
  OBVIOUS
<1>1. curEngine \in Engine \cup {Nothing}
  <2>1. CASE curEngine = Nothing
    BY <2>1
  <2>2. CASE curEngine = [type |-> curType, id |-> 1] /\ loads = 1
    BY <2>2, EngineAssumption DEF EngineInit, Engine
  <2> QED
    BY <2>1, <2>2 DEF EngineInit
<1> QED
  BY <1>1 DEF EngineInit, ScopeInv, ScopesReleased, NoSession, NoRequest

(* Every action keeps ScopeInv.                                             *)
LEMMA ScopeStep == ScopeInv /\ [EngineNext]_engineVars => ScopeInv'
<1> SUFFICES ASSUME ScopeInv, [EngineNext]_engineVars PROVE ScopeInv'
  OBVIOUS
<1> USE NothingIsNoEngine DEF ScopeInv, ScopesReleased, NoRequest
<1>1. ASSUME NEW r \in SwitchCall, NEW t \in Type, Ask(r, t) PROVE ScopeInv'
  BY <1>1 DEF Ask
<1>2. ASSUME NEW r \in SwitchCall, Lock(r) PROVE ScopeInv'
  <2>1. CASE switch' = [switch EXCEPT ![r].pc = "loading"]
    BY <1>2, <2>1 DEF Lock
  <2>2. CASE switch' = [switch EXCEPT ![r] = NoRequest]
    BY <1>2, <2>2 DEF Lock
  <2> QED
    BY <1>2, <2>1, <2>2 DEF Lock
<1>3. ASSUME NEW r \in SwitchCall, Load(r) PROVE ScopeInv'
  <2>1. PICK e \in Engine :
            switch' = [switch EXCEPT ![r].pc = "loaded", ![r].engine = e]
    BY <1>3 DEF Load
  <2>2. \A q \in SwitchCall : switch'[q].pc = "loaded" => switch'[q].engine \in Engine
    BY <2>1
  <2> QED
    BY <1>3, <2>2 DEF Load
<1>4. ASSUME NEW r \in SwitchCall, LoadFails(r) PROVE ScopeInv'
  BY <1>4 DEF LoadFails
<1>5. ASSUME NEW r \in SwitchCall, SetEngine(r) PROVE ScopeInv'
  BY <1>5 DEF SetEngine
<1>6. ASSUME NEW r \in SwitchCall, SetType(r) PROVE ScopeInv'
  BY <1>6 DEF SetType
<1>7. ASSUME NEW r \in SwitchCall, Publish(r) PROVE ScopeInv'
  BY <1>7 DEF Publish, Publishes
<1>8. ASSUME NEW r \in SwitchCall, PublishFails(r) PROVE ScopeInv'
  BY <1>8 DEF PublishFails
<1>9. ASSUME NEW s \in Session, OpenSession(s) PROVE ScopeInv'
  BY <1>9 DEF OpenSession
<1>10. ASSUME NEW s \in Session, SpeechStarts(s) PROVE ScopeInv'
  BY <1>10 DEF SpeechStarts
<1>11. ASSUME NEW s \in Session, Identify(s) PROVE ScopeInv'
  BY <1>11 DEF Identify
<1>12. ASSUME NEW s \in Session, Close(s) PROVE ScopeInv'
  BY <1>12 DEF Close
<1>13. ASSUME NEW s \in Session, Cleanup(s) PROVE ScopeInv'
  <2>1. CASE /\ live[s].pc = "drained" /\ live' = [live EXCEPT ![s].pc = "over"]
    <3>1. CASE kept' = Forgets(s) /\ UNCHANGED excused
      BY <1>13, <2>1, <3>1 DEF Cleanup, Forgets
    <3>2. CASE excused' = excused \cup {s} /\ UNCHANGED kept
      BY <1>13, <2>1, <3>2 DEF Cleanup
    <3> QED
      BY <1>13, <2>1, <3>1, <3>2 DEF Cleanup
  <2>2. CASE /\ live[s].pc = "closing" /\ live' = [live EXCEPT ![s].pc = "abandoned"]
    <3>1. excused' = excused \cup {s} /\ kept' \subseteq kept
      BY <1>13, <2>2 DEF Cleanup, Forgets
    <3> QED
      BY <1>13, <2>2, <3>1 DEF Cleanup
  <2> QED
    BY <1>13, <2>1, <2>2 DEF Cleanup
<1>14. CASE UNCHANGED engineVars
  BY <1>14 DEF engineVars
<1> QED
  BY <1>1, <1>2, <1>3, <1>4, <1>5, <1>6, <1>7, <1>8, <1>9, <1>10, <1>11, <1>12, <1>13, <1>14
     DEF EngineNext

(* A session that ended leaves nothing in any engine, although the engine    *)
(* was changed meanwhile, unless its last call was given up or the deletion  *)
(* failed (cleanup_client, engine/speaker/base_engine.py).                            *)
THEOREM EndedSessionsLeaveNothing == EngineSpec => []ScopesReleased
<1>1. ScopeInv => ScopesReleased
  BY DEF ScopeInv
<1> QED
  BY ScopeInit, ScopeStep, <1>1, PTL DEF EngineSpec

-----------------------------------------------------------------------------
(* The caches.  An engine is found by its type, one for each type.          *)
OnePerType(c) == \A i, j \in 1..Len(c) : c[i].type = c[j].type => i = j
Holds(c, e) == \E i \in 1..Len(c) : c[i] = e

SwitchSteps == {"idle", "waiting", "loading", "loaded", "set", "tail"}
SwitchRequest == [pc : SwitchSteps, type : Type \cup {Nothing}, engine : Engine \cup {Nothing}]
Loaded(r) == switch[r].pc = "loaded"
Between(r) == switch[r].pc = "set"

CacheShape ==
  /\ kind \in {"speaker", "asr"} /\ curType \in Type
  /\ cache \in Seq(Engine) /\ OnePerType(cache)
  /\ curEngine \in Engine \cup {Nothing}
  /\ switchLock \in SwitchCall \cup {Nothing}
  /\ switch \in [SwitchCall -> SwitchRequest]
  /\ \A r \in SwitchCall :
       /\ switch[r].pc # "idle" => switch[r].type \in Type
       /\ switch[r].pc \in {"loading", "loaded", "set"} <=> switchLock = r

(* The engine in use is in the cache, and it is of the current type unless a *)
(* switch is between its two assignments; the cache of the ASR manager is    *)
(* too long only while a switch has still to evict; and it is empty until    *)
(* the first engine is there.                                               *)
CacheFollows ==
  /\ curEngine # Nothing => Holds(cache, curEngine)
  /\ (\A r \in SwitchCall : ~Between(r)) /\ curEngine # Nothing => curEngine.type = curType
  /\ \A r \in SwitchCall :
       /\ Loaded(r) => /\ switch[r].engine \in Engine /\ switch[r].engine.type = switch[r].type
                       /\ Holds(cache, switch[r].engine)
       /\ Between(r) => curEngine \in Engine /\ curEngine.type = switch[r].type
  /\ Len(cache) <= 2
  /\ kind = "asr" /\ (\A r \in SwitchCall : ~Loaded(r) /\ ~Between(r)) => Len(cache) <= 1
  /\ curEngine = Nothing /\ (\A r \in SwitchCall : ~Loaded(r)) => Len(cache) = 0

CacheInv == CacheShape /\ CacheFollows

LEMMA CacheEntries ==
  ASSUME CacheShape
  PROVE  /\ Len(cache) \in Nat /\ DOMAIN cache = 1..Len(cache)
         /\ \A i \in 1..Len(cache) : cache[i] \in Engine
         /\ \A e \in Engine : e \in Cached(e.type) <=> Holds(cache, e)
<1>1. /\ Len(cache) \in Nat /\ DOMAIN cache = 1..Len(cache)
      /\ \A i \in 1..Len(cache) : cache[i] \in Engine
  BY DEF CacheShape
<1> QED
  BY <1>1 DEF Cached, Holds

LEMMA Removing ==
  ASSUME NEW S, NEW c \in Seq(S), NEW i \in 1..Len(c)
  PROVE  /\ RemoveAt(c, i) \in Seq(S) /\ Len(RemoveAt(c, i)) = Len(c) - 1
         /\ \A j \in 1..(Len(c) - 1) : RemoveAt(c, i)[j] = IF j < i THEN c[j] ELSE c[j + 1]
<1> DEFINE before == SubSeq(c, 1, i - 1)
           after == SubSeq(c, i + 1, Len(c))
<1>1. /\ before \in Seq(S) /\ Len(before) = i - 1
      /\ \A j \in 1..(i - 1) : before[j] = c[j]
  BY SubSeqProperties
<1>2. /\ after \in Seq(S) /\ Len(after) = Len(c) - i
      /\ \A j \in 1..(Len(c) - i) : after[j] = c[i + j]
  BY SubSeqProperties
<1>3. RemoveAt(c, i) = before \o after
  BY DEF RemoveAt
<1> HIDE DEF before, after
<1>4. /\ before \o after \in Seq(S) /\ Len(before \o after) = Len(before) + Len(after)
      /\ \A j \in 1..(Len(before) + Len(after)) :
           (before \o after)[j] = IF j <= Len(before) THEN before[j] ELSE after[j - Len(before)]
  BY <1>1, <1>2, ConcatProperties
<1>5. Len(c) \in Nat /\ i \in Nat
  OBVIOUS
<1>6. ASSUME NEW j \in 1..(Len(c) - 1)
      PROVE  (before \o after)[j] = IF j < i THEN c[j] ELSE c[j + 1]
  <2>1. CASE j < i
    BY <1>1, <1>2, <1>4, <1>5, <2>1
  <2>2. CASE ~(j < i)
    <3>1. j - (i - 1) \in 1..(Len(c) - i) /\ i + (j - (i - 1)) = j + 1
      BY <1>5, <2>2
    <3>2. (before \o after)[j] = after[j - (i - 1)]
      BY <1>1, <1>2, <1>4, <1>5, <2>2
    <3> QED
      BY <1>2, <2>2, <3>1, <3>2
  <2> QED
    BY <2>1, <2>2
<1> QED
  BY <1>1, <1>2, <1>3, <1>4, <1>5, <1>6

(* The eviction of the speaker manager keeps the engine of the current type  *)
(* and the one that was just loaded.                                        *)
LEMMA Trimming ==
  ASSUME NEW c \in Seq(Engine), OnePerType(c), Len(c) <= 3,
         kind \in {"speaker", "asr"}, kind = "asr" => Len(c) <= 2
  PROVE  /\ Trimmed(c) \in Seq(Engine) /\ OnePerType(Trimmed(c))
         /\ Len(Trimmed(c)) <= 2 /\ Len(Trimmed(c)) <= Len(c)
         /\ \A i \in 1..Len(c) : c[i].type = curType \/ i = Len(c) => Holds(Trimmed(c), c[i])
<1>1. Len(c) \in Nat
  OBVIOUS
<1>2. CASE ~(kind = "speaker" /\ Len(c) > MaxCache)
  <2>1. Trimmed(c) = c
    BY <1>2 DEF Trimmed
  <2>2. Len(c) <= 2
    <3>1. kind = "speaker" => MaxCache = 2
      BY DEF MaxCache
    <3> QED
      BY <1>1, <1>2, <3>1
  <2> QED
    BY <1>1, <2>1, <2>2 DEF Holds
<1>3. CASE kind = "speaker" /\ Len(c) > MaxCache
  <2>1. Len(c) = 3
    <3>1. MaxCache = 2
      BY <1>3 DEF MaxCache
    <3>2. Len(c) > 2
      BY <1>3, <3>1
    <3>3. \A n \in Nat : n > 2 /\ n <= 3 => n = 3
      OBVIOUS
    <3> QED
      BY ONLY <1>1, <3>2, <3>3, Len(c) <= 3
  <2> DEFINE IsOldest(i) == /\ c[i].type # curType
                          /\ \A j \in 1..(i - 1) : c[j].type = curType
             oldest == CHOOSE i \in DOMAIN c : IsOldest(i)
  <2>2. DOMAIN c = 1..3
    BY <2>1
  <2>3. \E i \in DOMAIN c : IsOldest(i)
    <3>1. CASE c[1].type # curType
      BY <2>2, <3>1
    <3>2. CASE c[1].type = curType
      <4>1. c[2].type # curType
        BY <2>1, <3>2 DEF OnePerType
      <4>2. \A j \in 1..(2 - 1) : c[j].type = curType
        BY <3>2
      <4> QED
        BY <2>2, <4>1, <4>2
    <3> QED
      BY <3>1, <3>2
  <2>4. oldest \in DOMAIN c /\ IsOldest(oldest)
    BY <2>3
  <2>5. Trimmed(c) = RemoveAt(c, oldest)
    BY <1>3 DEF Trimmed
  <2> HIDE DEF oldest
  <2>6. oldest # 3
    <3>1. SUFFICES ASSUME oldest = 3 PROVE FALSE
      OBVIOUS
    <3>2. c[1].type = curType /\ c[2].type = curType
      BY <2>4, <3>1
    <3> QED
      BY <2>1, <3>2 DEF OnePerType
  <2>7. oldest \in {1, 2} /\ c[oldest].type # curType
    BY <2>2, <2>4, <2>6
  <2> DEFINE d == RemoveAt(c, oldest)
  <2>8. /\ d \in Seq(Engine) /\ Len(d) = 2
        /\ \A j \in 1..2 : d[j] = IF j < oldest THEN c[j] ELSE c[j + 1]
    <3>1. oldest \in 1..Len(c)
      BY <2>1, <2>7
    <3>2. /\ d \in Seq(Engine) /\ Len(d) = Len(c) - 1
          /\ \A j \in 1..(Len(c) - 1) : d[j] = IF j < oldest THEN c[j] ELSE c[j + 1]
      BY <3>1, Removing
    <3> HIDE DEF d
    <3> QED
      BY <2>1, <3>2
  <2> HIDE DEF d
  <2>9. d[2] = c[3] /\ d[1] = IF oldest = 1 THEN c[2] ELSE c[1]
    BY <2>7, <2>8
  <2>10. OnePerType(d)
    BY <2>1, <2>8, <2>9 DEF OnePerType
  <2>11. ASSUME NEW i \in 1..3, c[i].type = curType \/ i = 3 PROVE Holds(d, c[i])
    BY <2>7, <2>8, <2>9, <2>11 DEF Holds
  <2> QED
    BY <2>1, <2>5, <2>8, <2>10, <2>11 DEF d
<1> QED
  BY <1>2, <1>3

(* A load leaves the engine of the type asked for in the cache, and keeps    *)
(* the one of the current type.                                             *)
LEMMA Loading ==
  ASSUME CacheShape, Len(cache) <= 2, kind = "asr" => Len(cache) <= 1,
         NEW t \in Type, NEW e \in Engine, Loads(t, e)
  PROVE  /\ cache' \in Seq(Engine) /\ OnePerType(cache') /\ Len(cache') <= 2
         /\ Len(cache') <= Len(cache) + 1
         /\ e.type = t /\ Holds(cache', e)
         /\ \A x \in Engine : Holds(cache, x) /\ x.type = curType => Holds(cache', x)
<1>1. /\ Len(cache) \in Nat /\ DOMAIN cache = 1..Len(cache) /\ cache \in Seq(Engine)
      /\ \A i \in 1..Len(cache) : cache[i] \in Engine
      /\ OnePerType(cache) /\ kind \in {"speaker", "asr"}
  BY CacheEntries DEF CacheShape
<1>2. CASE e \in Cached(t) /\ UNCHANGED <<cache, loads>>
  <2>1. e.type = t /\ Holds(cache, e) /\ cache' = cache
    BY <1>1, <1>2 DEF Cached, Holds
  <2> QED
    BY <1>1, <2>1
<1>3. CASE Cached(t) = {} /\ e = [type |-> t, id |-> loads + 1] /\ cache' = Trimmed(Append(cache, e))
  <2> DEFINE d == Append(cache, e)
  <2>1. e.type = t
    BY <1>3
  <2>2. /\ d \in Seq(Engine) /\ Len(d) = Len(cache) + 1 /\ d[Len(cache) + 1] = e
        /\ \A i \in 1..Len(cache) : d[i] = cache[i]
    BY <1>1, AppendProperties
  <2>3. \A i \in 1..Len(cache) : cache[i].type # t
    BY <1>1, <1>3 DEF Cached
  <2> HIDE DEF d
  <2>4. OnePerType(d)
    <3> SUFFICES ASSUME NEW i \in 1..Len(d), NEW j \in 1..Len(d), d[i].type = d[j].type PROVE i = j
      BY DEF OnePerType
    <3>1. /\ i \in 1..Len(cache) \/ i = Len(cache) + 1
          /\ j \in 1..Len(cache) \/ j = Len(cache) + 1
      BY <1>1, <2>2
    <3> QED
      BY <1>1, <2>1, <2>2, <2>3, <3>1 DEF OnePerType
  <2>5. Len(d) <= 3 /\ (kind = "asr" => Len(d) <= 2)
    BY <1>1, <2>2
  <2>6. /\ Trimmed(d) \in Seq(Engine) /\ OnePerType(Trimmed(d))
        /\ Len(Trimmed(d)) <= 2 /\ Len(Trimmed(d)) <= Len(d)
        /\ \A i \in 1..Len(d) : d[i].type = curType \/ i = Len(d) => Holds(Trimmed(d), d[i])
    BY <1>1, <2>2, <2>4, <2>5, Trimming
  <2>7. cache' = Trimmed(d)
    BY <1>3 DEF d
  <2>8. Holds(cache', e)
    <3>1. Len(d) \in 1..Len(d) /\ d[Len(d)] = e
      BY <1>1, <2>2
    <3> QED
      BY <2>6, <2>7, <3>1
  <2>9. ASSUME NEW x \in Engine, Holds(cache, x), x.type = curType PROVE Holds(cache', x)
    <3>1. PICK i \in 1..Len(cache) : cache[i] = x
      BY <2>9 DEF Holds
    <3>2. i \in 1..Len(d) /\ d[i] = x
      BY <1>1, <2>2, <3>1
    <3> QED
      BY <2>6, <2>7, <2>9, <3>2
  <2> QED
    BY <1>1, <2>1, <2>2, <2>6, <2>7, <2>8, <2>9
<1> QED
  BY <1>2, <1>3 DEF Loads

(* What is left when the ASR manager has evicted.                           *)
LEMMA Evicting ==
  ASSUME CacheShape, curEngine \in Engine, Holds(cache, curEngine)
  PROVE  LET left == SetToSeq(Cached(curEngine.type)) IN
         left \in Seq(Engine) /\ Len(left) = 1 /\ left[1] = curEngine
<1>1. Cached(curEngine.type) = {curEngine}
  <2>1. curEngine \in Cached(curEngine.type)
    BY CacheEntries
  <2>2. \A x \in Cached(curEngine.type) : x = curEngine
    BY CacheEntries DEF Cached, Holds, CacheShape, OnePerType
  <2> QED
    BY <2>1, <2>2
<1>2. Cardinality({curEngine}) = 1
  BY FS_Singleton
<1> DEFINE f == [i \in 1..1 |-> curEngine]
           left == SetToSeq({curEngine})
<1>3. f \in [1..Cardinality({curEngine}) -> {curEngine}] /\ IsInjective(f)
  BY <1>2 DEF IsInjective
<1>4. left \in [1..Cardinality({curEngine}) -> {curEngine}]
  BY <1>3 DEF SetToSeq
<1> HIDE DEF left
<1>5. left \in [1..1 -> {curEngine}]
  BY <1>2, <1>4
<1>6. left \in Seq(Engine) /\ Len(left) = 1 /\ left[1] = curEngine
  <2>1. left \in [1..1 -> Engine] /\ left[1] = curEngine
    BY <1>5
  <2>2. 1 \in Nat
    OBVIOUS
  <2>3. left \in Seq(Engine)
    BY <2>1, <2>2, SeqDef
  <2>4. DOMAIN left = 1..Len(left) /\ DOMAIN left = 1..1 /\ Len(left) \in Nat
    BY <2>1, <2>3
  <2> QED
    BY <2>1, <2>3, <2>4
<1> QED
  BY <1>1, <1>6 DEF left

LEMMA CacheStarts == EngineInit => CacheInv
<1> SUFFICES ASSUME EngineInit PROVE CacheInv
  OBVIOUS
<1>1. /\ kind \in {"speaker", "asr"} /\ curType \in Type /\ switchLock = Nothing
      /\ switch = [r \in SwitchCall |-> NoRequest]
  BY DEF EngineInit
<1>2. \A r \in SwitchCall : switch[r].pc = "idle" /\ switch[r] \in SwitchRequest
  BY <1>1 DEF NoRequest, SwitchRequest, SwitchSteps
<1>3. \A r \in SwitchCall : r # Nothing
  BY EngineAssumption
<1>4. CASE curEngine = [type |-> curType, id |-> 1] /\ cache = <<curEngine>>
  <2>1. curEngine \in Engine /\ curEngine.type = curType
    BY <1>1, <1>4, EngineAssumption DEF Engine
  <2>2. cache \in Seq(Engine) /\ Len(cache) = 1 /\ cache[1] = curEngine
    BY <1>4, <2>1
  <2>3. OnePerType(cache) /\ Holds(cache, curEngine)
    BY <2>2 DEF OnePerType, Holds
  <2> QED
    BY <1>1, <1>2, <1>3, <2>1, <2>2, <2>3, NothingIsNoEngine
       DEF CacheInv, CacheShape, CacheFollows, Loaded, Between
<1>5. CASE curEngine = Nothing /\ cache = <<>>
  <2>1. cache \in Seq(Engine) /\ Len(cache) = 0 /\ OnePerType(cache)
    BY <1>5 DEF OnePerType
  <2> QED
    BY <1>1, <1>2, <1>3, <1>5, <2>1 DEF CacheInv, CacheShape, CacheFollows, Loaded, Between
<1> QED
  BY <1>4, <1>5 DEF EngineInit

(* The record of one request changes.                                       *)
LEMMA SwitchMoves ==
  ASSUME CacheShape, NEW r \in SwitchCall, NEW q \in SwitchRequest, switch' = [switch EXCEPT ![r] = q],
         q.pc # "idle" => q.type \in Type,
         switchLock' \in SwitchCall \cup {Nothing},
         q.pc \in {"loading", "loaded", "set"} <=> switchLock' = r,
         switchLock' = r \/ switchLock = r \/ switchLock' = switchLock,
         switchLock' # switchLock => switchLock = Nothing \/ switchLock' = Nothing
  PROVE  /\ switch' \in [SwitchCall -> SwitchRequest]
         /\ switch'[r] = q /\ \A o \in SwitchCall \ {r} : switch'[o] = switch[o]
         /\ \A o \in SwitchCall :
              /\ switch'[o].pc # "idle" => switch'[o].type \in Type
              /\ switch'[o].pc \in {"loading", "loaded", "set"} <=> switchLock' = o
<1>1. /\ switch' \in [SwitchCall -> SwitchRequest]
      /\ switch'[r] = q /\ \A o \in SwitchCall \ {r} : switch'[o] = switch[o]
  BY DEF CacheShape
<1>2. Nothing \notin SwitchCall
  BY EngineAssumption
<1> QED
  BY <1>1, <1>2 DEF CacheShape

(* Requests move that neither loaded an engine nor are about to name it.    *)
LEMMA QuietSwitch ==
  ASSUME CacheInv, NEW r \in SwitchCall, NEW q \in SwitchRequest, switch' = [switch EXCEPT ![r] = q],
         UNCHANGED <<kind, cache, curType, curEngine>>,
         switch[r].pc \notin {"loaded", "set"}, q.pc \notin {"loaded", "set"},
         q.pc # "idle" => q.type \in Type,
         switchLock' \in SwitchCall \cup {Nothing},
         q.pc \in {"loading", "loaded", "set"} <=> switchLock' = r,
         switchLock' = r \/ switchLock = r \/ switchLock' = switchLock,
         switchLock' # switchLock => switchLock = Nothing \/ switchLock' = Nothing
  PROVE  CacheInv'
<1>1. /\ switch' \in [SwitchCall -> SwitchRequest]
      /\ switch'[r] = q /\ \A o \in SwitchCall \ {r} : switch'[o] = switch[o]
      /\ \A o \in SwitchCall :
           /\ switch'[o].pc # "idle" => switch'[o].type \in Type
           /\ switch'[o].pc \in {"loading", "loaded", "set"} <=> switchLock' = o
  BY SwitchMoves DEF CacheInv
<1>2. CacheShape'
  BY <1>1 DEF CacheInv, CacheShape
<1>3. \A o \in SwitchCall : /\ Loaded(o)' <=> Loaded(o)
                            /\ Between(o)' <=> Between(o)
                            /\ Loaded(o) \/ Between(o) => switch'[o] = switch[o]
  BY <1>1 DEF Loaded, Between
<1>4. CacheFollows'
  BY <1>1, <1>3 DEF CacheInv, CacheFollows
<1> QED
  BY <1>2, <1>4 DEF CacheInv

(* The lock has one holder: nobody else has an engine in hand.              *)
LEMMA OneSwitch ==
  ASSUME CacheShape, NEW r \in SwitchCall, switch[r].pc \in {"loading", "loaded", "set"}
  PROVE  switchLock = r /\ \A o \in SwitchCall \ {r} : ~Loaded(o) /\ ~Between(o)
BY DEF CacheShape, Loaded, Between

(* Every action keeps CacheInv.                                             *)
LEMMA CacheKept == CacheInv /\ [EngineNext]_engineVars => CacheInv'
<1> SUFFICES ASSUME CacheInv, [EngineNext]_engineVars PROVE CacheInv'
  OBVIOUS
<1>1. CacheShape /\ NoRequest \in SwitchRequest /\ NoRequest.pc = "idle" /\ Nothing \notin SwitchCall
  BY EngineAssumption DEF CacheInv, NoRequest, SwitchRequest, SwitchSteps
<1>2. \A r \in SwitchCall : switch[r] \in SwitchRequest
  BY <1>1 DEF CacheShape
<1>3. \A r \in SwitchCall : switch[r].pc \in {"loading", "loaded", "set"} <=> switchLock = r
  BY <1>1 DEF CacheShape
<1>4. switchLock \in SwitchCall \cup {Nothing}
  BY <1>1 DEF CacheShape
<1>5. ASSUME NEW r \in SwitchCall, NEW t \in Type, Ask(r, t) PROVE CacheInv'
  <2> DEFINE q == [pc |-> IF t = curType THEN "tail" ELSE "waiting", type |-> t, engine |-> Nothing]
  <2>1. q \in SwitchRequest /\ q.pc \in {"tail", "waiting"} /\ q.type = t
    BY DEF SwitchRequest, SwitchSteps
  <2>2. switch' = [switch EXCEPT ![r] = q] /\ UNCHANGED <<kind, cache, curType, curEngine, switchLock>>
          /\ switch[r].pc = "idle"
    BY <1>5 DEF Ask
  <2> HIDE DEF q
  <2>3. switchLock # r
    BY <1>3, <2>2
  <2> QED
    BY <1>4, <2>1, <2>2, <2>3, QuietSwitch
<1>6. ASSUME NEW r \in SwitchCall, Lock(r) PROVE CacheInv'
  <2>1. switch[r].pc = "waiting" /\ UNCHANGED <<kind, cache, curType, curEngine>> /\ switchLock # r
    BY <1>3, <1>6 DEF Lock
  <2>2. CASE switchLock = Nothing /\ switchLock' = r /\ switch' = [switch EXCEPT ![r].pc = "loading"]
    <3> DEFINE q == [switch[r] EXCEPT !.pc = "loading"]
    <3>1. q \in SwitchRequest /\ q.pc = "loading" /\ q.type = switch[r].type
      BY <1>2 DEF SwitchRequest, SwitchSteps
    <3>2. switch' = [switch EXCEPT ![r] = q] /\ q.type \in Type
      BY <1>1, <2>1, <2>2, <3>1 DEF CacheShape
    <3> HIDE DEF q
    <3> QED
      BY <1>4, <2>1, <2>2, <3>1, <3>2, QuietSwitch
  <2>3. CASE switch' = [switch EXCEPT ![r] = NoRequest] /\ UNCHANGED switchLock
    BY <1>1, <1>4, <2>1, <2>3, QuietSwitch
  <2> QED
    BY <1>6, <2>2, <2>3 DEF Lock
<1>7. ASSUME NEW r \in SwitchCall, Load(r) PROVE CacheInv'
  <2>1. PICK e \in Engine :
          Loads(switch[r].type, e) /\ switch' = [switch EXCEPT ![r].pc = "loaded", ![r].engine = e]
    BY <1>7 DEF Load
  <2>2. switch[r].pc = "loading" /\ UNCHANGED <<kind, curType, curEngine, switchLock>>
    BY <1>7 DEF Load
  <2>3. switchLock = r /\ \A o \in SwitchCall \ {r} : ~Loaded(o) /\ ~Between(o)
    BY <1>1, <2>2, OneSwitch
  <2>4. ~Loaded(r) /\ ~Between(r) /\ switch[r].type \in Type
    BY <1>1, <2>2 DEF Loaded, Between, CacheShape
  <2>5. /\ Len(cache) <= 2 /\ (kind = "asr" => Len(cache) <= 1)
        /\ curEngine # Nothing => curEngine.type = curType /\ Holds(cache, curEngine)
    BY <2>3, <2>4 DEF CacheInv, CacheFollows
  <2>6. /\ cache' \in Seq(Engine) /\ OnePerType(cache') /\ Len(cache') <= 2
        /\ e.type = switch[r].type /\ Holds(cache', e)
        /\ \A x \in Engine : Holds(cache, x) /\ x.type = curType => Holds(cache', x)
    BY <1>1, <2>1, <2>4, <2>5, Loading
  <2> DEFINE q == [switch[r] EXCEPT !.pc = "loaded", !.engine = e]
  <2>7. q \in SwitchRequest /\ q.pc = "loaded" /\ q.type = switch[r].type /\ q.engine = e
    BY <1>2 DEF SwitchRequest, SwitchSteps
  <2>8. switch' = [switch EXCEPT ![r] = q]
    BY <2>1
  <2> HIDE DEF q
  <2>9. /\ switch' \in [SwitchCall -> SwitchRequest]
        /\ switch'[r] = q /\ \A o \in SwitchCall \ {r} : switch'[o] = switch[o]
        /\ \A o \in SwitchCall :
             /\ switch'[o].pc # "idle" => switch'[o].type \in Type
             /\ switch'[o].pc \in {"loading", "loaded", "set"} <=> switchLock' = o
    BY <1>1, <1>4, <2>2, <2>3, <2>4, <2>7, <2>8, SwitchMoves
  <2>10. CacheShape'
    BY <1>1, <2>2, <2>6, <2>9 DEF CacheShape
  <2>11. Loaded(r)' /\ \A o \in SwitchCall : ~Between(o)' /\ (Loaded(o)' => o = r)
    BY <2>3, <2>7, <2>9 DEF Loaded, Between
  <2>12. curEngine # Nothing => curEngine \in Engine
    BY <1>1 DEF CacheShape
  <2>13. CacheFollows'
    BY <2>2, <2>5, <2>6, <2>7, <2>9, <2>11, <2>12 DEF CacheFollows
  <2> QED
    BY <2>10, <2>13 DEF CacheInv
<1>8. ASSUME NEW r \in SwitchCall, LoadFails(r) PROVE CacheInv'
  <2>1. /\ switch[r].pc = "loading" /\ UNCHANGED <<kind, cache, curType, curEngine>>
        /\ switch' = [switch EXCEPT ![r] = NoRequest] /\ switchLock' = Nothing
    BY <1>8 DEF LoadFails
  <2>2. switchLock = r
    BY <1>3, <2>1
  <2> QED
    BY <1>1, <1>4, <2>1, <2>2, QuietSwitch
<1>9. ASSUME NEW r \in SwitchCall, SetEngine(r) PROVE CacheInv'
  <2>1. /\ switch[r].pc = "loaded" /\ curEngine' = switch[r].engine
        /\ switch' = [switch EXCEPT ![r].pc = "set"]
        /\ UNCHANGED <<kind, cache, curType, switchLock>>
    BY <1>9 DEF SetEngine
  <2>2. switchLock = r /\ \A o \in SwitchCall \ {r} : ~Loaded(o) /\ ~Between(o)
    BY <1>1, <2>1, OneSwitch
  <2>3. /\ switch[r].engine \in Engine /\ switch[r].engine.type = switch[r].type
        /\ Holds(cache, switch[r].engine) /\ switch[r].type \in Type /\ Len(cache) <= 2
    BY <1>1, <2>1 DEF CacheInv, CacheFollows, CacheShape, Loaded
  <2> DEFINE q == [switch[r] EXCEPT !.pc = "set"]
  <2>4. q \in SwitchRequest /\ q.pc = "set" /\ q.type = switch[r].type
    BY <1>2 DEF SwitchRequest, SwitchSteps
  <2>5. switch' = [switch EXCEPT ![r] = q]
    BY <2>1
  <2> HIDE DEF q
  <2>6. /\ switch' \in [SwitchCall -> SwitchRequest]
        /\ switch'[r] = q /\ \A o \in SwitchCall \ {r} : switch'[o] = switch[o]
        /\ \A o \in SwitchCall :
             /\ switch'[o].pc # "idle" => switch'[o].type \in Type
             /\ switch'[o].pc \in {"loading", "loaded", "set"} <=> switchLock' = o
    BY <1>1, <1>4, <2>1, <2>2, <2>3, <2>4, <2>5, SwitchMoves
  <2>7. CacheShape'
    BY <1>1, <2>1, <2>3, <2>6 DEF CacheShape
  <2>8. Between(r)' /\ \A o \in SwitchCall : ~Loaded(o)' /\ (Between(o)' => o = r)
    BY <2>2, <2>4, <2>6 DEF Loaded, Between
  <2>9. CacheFollows'
    BY <2>1, <2>3, <2>4, <2>6, <2>8, NothingIsNoEngine DEF CacheFollows
  <2> QED
    BY <2>7, <2>9 DEF CacheInv
<1>10. ASSUME NEW r \in SwitchCall, SetType(r) PROVE CacheInv'
  <2>1. /\ switch[r].pc = "set" /\ curType' = switch[r].type
        /\ cache' = IF kind = "asr" /\ Len(cache) > MaxCache
                      THEN SetToSeq(Cached(switch[r].type)) ELSE cache
        /\ switch' = [switch EXCEPT ![r].pc = "tail"] /\ switchLock' = Nothing
        /\ UNCHANGED <<kind, curEngine>>
    BY <1>10 DEF SetType
  <2>2. switchLock = r /\ \A o \in SwitchCall \ {r} : ~Loaded(o) /\ ~Between(o)
    BY <1>1, <2>1, OneSwitch
  <2>3. /\ curEngine \in Engine /\ curEngine.type = switch[r].type /\ curEngine # Nothing
        /\ Holds(cache, curEngine) /\ switch[r].type \in Type /\ Len(cache) <= 2
    BY <1>1, <2>1, NothingIsNoEngine DEF CacheInv, CacheFollows, CacheShape, Between
  <2>4. /\ cache' \in Seq(Engine) /\ OnePerType(cache') /\ Holds(cache', curEngine)
        /\ Len(cache') <= 2 /\ (kind = "asr" => Len(cache') <= 1)
    <3>1. CASE kind = "asr" /\ Len(cache) > MaxCache
      <4> DEFINE left == SetToSeq(Cached(curEngine.type))
      <4>1. left \in Seq(Engine) /\ Len(left) = 1 /\ left[1] = curEngine
        BY <1>1, <2>3, Evicting
      <4>2. cache' = left
        BY <2>1, <2>3, <3>1
      <4> HIDE DEF left
      <4>3. 1..Len(left) = {1}
        BY <4>1
      <4>4. OnePerType(left) /\ Holds(left, curEngine)
        BY <4>1, <4>3 DEF OnePerType, Holds
      <4>5. Len(left) <= 2 /\ Len(left) <= 1
        BY <4>1
      <4> QED
        BY <4>1, <4>2, <4>4, <4>5
    <3>2. CASE ~(kind = "asr" /\ Len(cache) > MaxCache)
      <4>1. cache' = cache
        BY <2>1, <3>2
      <4>2. kind = "asr" => Len(cache) <= 1
        <5>1. kind = "asr" => MaxCache = 1
          BY DEF MaxCache
        <5> QED
          BY <1>1, <3>2, <5>1, CacheEntries
      <4> QED
        BY <1>1, <2>3, <4>1, <4>2 DEF CacheShape
    <3> QED
      BY <3>1, <3>2
  <2> DEFINE q == [switch[r] EXCEPT !.pc = "tail"]
  <2>5. q \in SwitchRequest /\ q.pc = "tail" /\ q.type = switch[r].type
    BY <1>2 DEF SwitchRequest, SwitchSteps
  <2>6. switch' = [switch EXCEPT ![r] = q]
    BY <2>1
  <2> HIDE DEF q
  <2>7. /\ switch' \in [SwitchCall -> SwitchRequest]
        /\ switch'[r] = q /\ \A o \in SwitchCall \ {r} : switch'[o] = switch[o]
        /\ \A o \in SwitchCall :
             /\ switch'[o].pc # "idle" => switch'[o].type \in Type
             /\ switch'[o].pc \in {"loading", "loaded", "set"} <=> switchLock' = o
    BY <1>1, <2>1, <2>2, <2>3, <2>5, <2>6, SwitchMoves
  <2>8. CacheShape'
    BY <1>1, <2>1, <2>3, <2>4, <2>7 DEF CacheShape
  <2>9. \A o \in SwitchCall : ~Loaded(o)' /\ ~Between(o)'
    BY <2>2, <2>5, <2>7 DEF Loaded, Between
  <2>10. CacheFollows'
    BY <2>1, <2>3, <2>4, <2>9 DEF CacheFollows
  <2> QED
    BY <2>8, <2>10 DEF CacheInv
<1>11. ASSUME NEW r \in SwitchCall, Publish(r) PROVE CacheInv'
  <2>1. /\ switch[r].pc = "tail" /\ switch' = [switch EXCEPT ![r] = NoRequest]
        /\ UNCHANGED <<kind, curType, switchLock>>
    BY <1>11 DEF Publish, Publishes
  <2>2. switchLock # r
    BY <1>3, <2>1
  <2>3. CASE UNCHANGED <<curEngine, cache, loads>>
    BY <1>1, <1>4, <2>1, <2>2, <2>3, QuietSwitch
  <2>4. CASE curEngine = Nothing /\ switchLock = Nothing
               /\ \E e \in Engine : Loads(curType, e) /\ curEngine' = e
    <3>1. PICK e \in Engine : Loads(curType, e) /\ curEngine' = e
      BY <2>4
    <3>2. \A o \in SwitchCall : ~Loaded(o) /\ ~Between(o)
      BY <1>1, <1>3, <2>4 DEF Loaded, Between
    <3>3. Len(cache) = 0
      BY <2>4, <3>2 DEF CacheInv, CacheFollows
    <3>4. Len(cache) <= 2 /\ (kind = "asr" => Len(cache) <= 1) /\ curType \in Type
      BY <1>1, <3>3 DEF CacheShape
    <3>5. /\ cache' \in Seq(Engine) /\ OnePerType(cache') /\ Len(cache') <= 2 /\ Len(cache') <= Len(cache) + 1
          /\ e.type = curType /\ Holds(cache', e)
      BY <1>1, <3>1, <3>4, Loading
    <3>6. Len(cache') <= 1
      BY <3>3, <3>5
    <3>7. /\ switch' \in [SwitchCall -> SwitchRequest]
          /\ switch'[r] = NoRequest /\ \A o \in SwitchCall \ {r} : switch'[o] = switch[o]
          /\ \A o \in SwitchCall :
               /\ switch'[o].pc # "idle" => switch'[o].type \in Type
               /\ switch'[o].pc \in {"loading", "loaded", "set"} <=> switchLock' = o
      BY <1>1, <1>4, <2>1, <2>2, SwitchMoves
    <3>8. CacheShape'
      BY <1>1, <2>1, <3>1, <3>5, <3>7 DEF CacheShape
    <3>9. \A o \in SwitchCall : ~Loaded(o)' /\ ~Between(o)'
      BY <1>1, <3>2, <3>7 DEF Loaded, Between
    <3>10. CacheFollows'
      BY <2>1, <3>1, <3>5, <3>6, <3>9, NothingIsNoEngine DEF CacheFollows
    <3> QED
      BY <3>8, <3>10 DEF CacheInv
  <2> QED
    BY <1>11, <2>3, <2>4 DEF Publish, Publishes
<1>12. ASSUME NEW r \in SwitchCall, PublishFails(r) PROVE CacheInv'
  <2>1. /\ switch[r].pc = "tail" /\ UNCHANGED <<kind, cache, curType, curEngine, switchLock>>
        /\ switch' = [switch EXCEPT ![r] = NoRequest]
    BY <1>12 DEF PublishFails
  <2>2. switchLock # r
    BY <1>3, <2>1
  <2> QED
    BY <1>1, <1>4, <2>1, <2>2, QuietSwitch
<1>13. ASSUME UNCHANGED <<kind, cache, curType, curEngine, switchLock, switch>> PROVE CacheInv'
  BY <1>13 DEF CacheInv, CacheShape, CacheFollows, Loaded, Between
<1>14. ASSUME NEW s \in Session,
              OpenSession(s) \/ SpeechStarts(s) \/ Identify(s) \/ Close(s) \/ Cleanup(s)
       PROVE  CacheInv'
  BY <1>13, <1>14 DEF OpenSession, SpeechStarts, Identify, Close, Cleanup
<1>15. CASE UNCHANGED engineVars
  BY <1>13, <1>15 DEF engineVars
<1> QED
  BY <1>5, <1>6, <1>7, <1>8, <1>9, <1>10, <1>11, <1>12, <1>14, <1>15 DEF EngineNext

LEMMA CacheInvSuffices == CacheInv => CacheKeepsCurrent
<1> SUFFICES ASSUME CacheInv PROVE CacheKeepsCurrent
  OBVIOUS
<1>1. CacheShape /\ CacheFollows /\ Nothing \notin SwitchCall
  BY EngineAssumption DEF CacheInv
<1>2. ASSUME curEngine # Nothing PROVE curEngine \in Engine /\ curEngine \in Cached(curEngine.type)
  BY <1>1, <1>2, CacheEntries DEF CacheShape, CacheFollows
<1>3. curEngine # Nothing => \E t \in Type : curEngine \in Cached(t)
  <2>1. curEngine \in Engine => curEngine.type \in Type
    BY DEF Engine
  <2> QED
    BY <1>2, <2>1
<1>4. ASSUME switchLock = Nothing
      PROVE  Len(cache) <= MaxCache /\ (curEngine # Nothing => curEngine \in Cached(curType))
  <2>1. \A r \in SwitchCall : ~Loaded(r) /\ ~Between(r)
    BY <1>1, <1>4 DEF CacheShape, Loaded, Between
  <2>2. Len(cache) <= 2 /\ (kind = "asr" => Len(cache) <= 1) /\ kind \in {"speaker", "asr"}
    BY <1>1, <2>1 DEF CacheFollows, CacheShape
  <2>3. Len(cache) <= MaxCache
    BY <2>2 DEF MaxCache
  <2>4. curEngine # Nothing => curEngine.type = curType
    BY <1>1, <2>1 DEF CacheFollows
  <2> QED
    BY <1>2, <2>3, <2>4
<1> QED
  BY <1>3, <1>4 DEF CacheKeepsCurrent

(* No engine is lost, loaded twice or left with a session's clusters, for any *)
(* number of engines, requests and sessions: the engine in use stays in the  *)
(* cache, although the managers evict at different moments                   *)
(* (speaker_factory.py, asr/factory.py), and a session that ended leaves     *)
(* nothing behind unless it was given up.                                   *)
THEOREM EnginesAreReleased == EngineSpec => []EnginesReleased
<1>1. ScopeInv /\ CacheInv => EnginesReleased
  BY CacheInvSuffices DEF EnginesReleased, ScopeInv
<1> QED
  BY ScopeInit, ScopeStep, CacheStarts, CacheKept, <1>1, PTL DEF EngineSpec

-----------------------------------------------------------------------------
(* The LLM gateway.                                                         *)

Posting == {"waiting", "sending", "sent"}

(* A caller that has resolved a target goes by a name, and one that sends to *)
(* a pinned target has the lock.                                            *)
TargetsAreNamed ==
    \A c \in Callers :
        /\ caller[c].pc = "waiting" => caller[c].target # Nowhere
        /\ caller[c].pc \in Posting /\ caller[c].target # Nowhere => caller[c].host \in Names
        /\ caller[c].pc \in {"sending", "sent"} /\ caller[c].target # Nowhere => patchLock = c

HolderHasTarget == patchLock # Nobody => caller[patchLock].target # Nowhere

(* What was validated as private is what is pinned and what is called.      *)
StrictIsPinned ==
    \A c \in Callers : ~caller[c].public /\ caller[c].host = "named" =>
        /\ caller[c].pc \in Posting \cup {"post"} => caller[c].pin = "private"
        /\ caller[c].pc \in Posting => caller[c].target = "private"

LlmInv == LlmTypes /\ PinnedCalls /\ TargetsAreNamed /\ HolderHasTarget /\ StrictIsPinned

Fields ==
    [pc : {"idle", "flags", "post", "waiting", "sending", "sent"}, test : BOOLEAN,
     host : Hosts, public : BOOLEAN, pin : HostAddresses \cup {Nowhere},
     target : HostAddresses \cup {Nowhere}, left : 0..(MaxCalls + 1),
     addr : HostAddresses \cup {Nowhere}]

(* The record of a caller that goes on to its next call.                    *)
LEMMA PostsAgain ==
    ASSUME NEW q \in Fields, q.left > 1,
           NEW r, r = [q EXCEPT !.pc = "post", !.left = @ - 1, !.target = Nowhere, !.addr = Nowhere]
    PROVE  r \in Fields /\ r.pc = "post" /\ r.public = q.public /\ r.host = q.host /\ r.pin = q.pin
<1>1. q.left - 1 \in 0..(MaxCalls + 1)
  BY LlmAssumption DEF Fields
<1> QED
  BY <1>1 DEF Fields

LEMMA LlmStarts == LlmInit => LlmInv
<1> SUFFICES ASSUME LlmInit PROVE LlmInv
  OBVIOUS
<1> USE LlmAssumption DEF LlmInit, Hosts, Names, HostAddresses, Nowhere, Nobody
<1>1. Out \in Fields /\ Out.pc = "idle"
  BY DEF Out, Fields
<1>2. LlmTypes
  BY <1>1 DEF LlmTypes, NoSave, NoProbe, Fields
<1>3. \A c \in Callers : caller[c].pc = "idle"
  BY <1>1
<1>4. PinnedCalls
  BY <1>3 DEF PinnedCalls, PatchFollowsCall, StrictStaysPrivate
<1> QED
  BY <1>2, <1>3, <1>4 DEF LlmInv, TargetsAreNamed, HolderHasTarget, StrictIsPinned, Posting

(* A call that ends takes its patch and its lock with it, and no other's.   *)
LEMMA LeavingClears ==
    ASSUME LlmInv, NEW c \in Callers, caller[c].pc \in {"sending", "sent"}, Leaves(c)
    PROVE  /\ pins' \in [Names -> HostAddresses \cup {Nowhere}] /\ patched' \in BOOLEAN
           /\ \/ UNCHANGED shared /\ patchLock # c
              \/ /\ patchLock = c /\ patchLock' = Nobody /\ patched' = FALSE
                 /\ \A n \in Names : pins'[n] = Nowhere
<1> USE DEF LlmInv, LlmTypes, PinnedCalls, PatchFollowsCall, TargetsAreNamed, HolderHasTarget, Posting
<1>1. CASE caller[c].target = Nowhere
  <2>1. UNCHANGED shared
    BY <1>1 DEF Leaves
  <2>2. patchLock # c
    BY <1>1, LlmAssumption DEF Nobody
  <2> QED
    BY <2>1, <2>2 DEF shared
<1>2. CASE caller[c].target # Nowhere
  <2>1. patchLock = c /\ caller[c].host \in Names
    BY <1>2
  <2>2. \A n \in Names : n # caller[c].host => pins[n] = Nowhere
    BY <2>1
  <2>3. /\ pins' = [pins EXCEPT ![caller[c].host] = Nowhere]
        /\ patched' = (patched /\ \E n \in Names \ {caller[c].host} : pins[n] # Nowhere)
        /\ patchLock' = Nobody
    BY <1>2, <2>1 DEF Leaves
  <2>4. patched' = FALSE
    BY <2>2, <2>3
  <2>5. pins' \in [Names -> HostAddresses \cup {Nowhere}] /\ \A n \in Names : pins'[n] = Nowhere
    BY <2>1, <2>2, <2>3
  <2> QED
    BY <2>1, <2>3, <2>4, <2>5
<1> QED
  BY <1>1, <1>2

(* One caller stops being a caller that posts, with or without a patch.     *)
LEMMA QuietStep ==
    ASSUME LlmInv, NEW c \in Callers, NEW r \in Fields,
           caller' = [caller EXCEPT ![c] = r], UNCHANGED dns,
           r.pc \notin Posting,
           ~r.public /\ r.host = "named" /\ r.pc = "post" => r.pin = "private",
           pins' \in [Names -> HostAddresses \cup {Nowhere}], patched' \in BOOLEAN,
           \/ UNCHANGED shared /\ patchLock # c
           \/ /\ patchLock = c /\ patchLock' = Nobody /\ patched' = FALSE
              /\ \A n \in Names : pins'[n] = Nowhere,
           saved' \in [host : Hosts, public : BOOLEAN],
           saver' \in [step : {"idle", "endpoint", "public", "reset"}, host : Hosts, public : BOOLEAN],
           probe' \in [host : Hosts, public : BOOLEAN, available : {"unknown", "yes", "no"}]
    PROVE  LlmInv'
<1> USE LlmAssumption DEF LlmInv, Posting
<1>1. caller \in [Callers -> Fields]
  BY DEF LlmTypes, Fields
<1>2. caller' \in [Callers -> Fields] /\ caller'[c] = r /\ \A d \in Callers \ {c} : caller'[d] = caller[d]
  BY <1>1
<1>3. patchLock' \in Callers \cup {Nobody}
  BY DEF LlmTypes, shared
<1>4. LlmTypes'
  BY <1>2, <1>3 DEF LlmTypes, Fields
<1>5. TargetsAreNamed'
  BY <1>2 DEF TargetsAreNamed, shared, Nobody
<1>6. HolderHasTarget'
  BY <1>2, <1>3 DEF HolderHasTarget, shared, LlmTypes, Nobody
<1>7. StrictIsPinned'
  BY <1>2 DEF StrictIsPinned
<1>8. PatchFollowsCall'
  BY <1>2, <1>3 DEF PinnedCalls, PatchFollowsCall, TargetsAreNamed, shared, LlmTypes, Nobody
<1>9. StrictStaysPrivate'
  BY <1>2 DEF PinnedCalls, StrictStaysPrivate
<1> QED
  BY <1>4, <1>5, <1>6, <1>7, <1>8, <1>9 DEF PinnedCalls

(* Every action keeps LlmInv.                                               *)
LEMMA LlmKept == LlmInv /\ [LlmNext]_llmVars => LlmInv'
<1> SUFFICES ASSUME LlmInv, [LlmNext]_llmVars PROVE LlmInv'
  OBVIOUS
<1>1. /\ caller \in [Callers -> Fields]
      /\ \A c \in Callers : caller[c].pc \notin {"sending", "sent"} => patchLock # c
      /\ pins \in [Names -> HostAddresses \cup {Nowhere}] /\ patched \in BOOLEAN
      /\ saved \in [host : Hosts, public : BOOLEAN]
      /\ saver \in [step : {"idle", "endpoint", "public", "reset"}, host : Hosts, public : BOOLEAN]
      /\ probe \in [host : Hosts, public : BOOLEAN, available : {"unknown", "yes", "no"}]
      /\ dns \in HostAddresses \cup {Nowhere}
  BY LlmAssumption DEF LlmInv, LlmTypes, Fields, PinnedCalls, PatchFollowsCall, Nobody
<1>2. Out \in Fields
  BY LlmAssumption DEF Out, Fields, Hosts, HostAddresses, Nowhere
<1>3. ASSUME NEW c \in Callers, NEW available \in {"yes", "no"}, Ends(c, available)
        PROVE  /\ caller' = [caller EXCEPT ![c] = Out]
               /\ probe' \in [host : Hosts, public : BOOLEAN, available : {"unknown", "yes", "no"}]
  <2>1. probe' = probe
          \/ probe' = [host |-> caller[c].host, public |-> caller[c].public, available |-> available]
    BY <1>3 DEF Ends
  <2>2. caller[c].host \in Hosts /\ caller[c].public \in BOOLEAN
    BY <1>1 DEF Fields
  <2> QED
    BY <1>1, <1>3, <2>1, <2>2 DEF Ends
<1>4. Out.pc = "idle"
  BY DEF Out
<1>5. ASSUME NEW h \in Hosts, NEW p \in BOOLEAN, SaveBegins(h, p) PROVE LlmInv'
  BY <1>5, LlmAssumption DEF LlmInv, LlmTypes, PinnedCalls, PatchFollowsCall, StrictStaysPrivate, TargetsAreNamed,
       HolderHasTarget, StrictIsPinned, Hosts, Names, HostAddresses, Nowhere, Posting, Nobody, shared, config,
       SaveBegins
<1>6. ASSUME SaveEndpoint PROVE LlmInv'
  BY <1>6, LlmAssumption DEF LlmInv, LlmTypes, PinnedCalls, PatchFollowsCall, StrictStaysPrivate, TargetsAreNamed,
       HolderHasTarget, StrictIsPinned, Hosts, Names, HostAddresses, Nowhere, Posting, Nobody, shared, config,
       SaveEndpoint
<1>7. ASSUME SavePublic PROVE LlmInv'
  BY <1>7, LlmAssumption DEF LlmInv, LlmTypes, PinnedCalls, PatchFollowsCall, StrictStaysPrivate, TargetsAreNamed,
       HolderHasTarget, StrictIsPinned, Hosts, Names, HostAddresses, Nowhere, Posting, Nobody, shared, config,
       SavePublic
<1>8. ASSUME SaveResets PROVE LlmInv'
  BY <1>8, LlmAssumption DEF LlmInv, LlmTypes, PinnedCalls, PatchFollowsCall, StrictStaysPrivate, TargetsAreNamed,
       HolderHasTarget, StrictIsPinned, Hosts, Names, HostAddresses, Nowhere, Posting, Nobody, shared, config,
       SaveResets, NoProbe, NoSave
<1>9. ASSUME NEW c \in Callers, NEW test \in BOOLEAN, Begins(c, test) PROVE LlmInv'
  <2> DEFINE r == [Out EXCEPT !.pc = "flags", !.test = test, !.host = saved.host]
  <2>1. r \in Fields /\ r.pc = "flags"
    BY <1>1, <1>2 DEF Out, Fields, Hosts
  <2>2. caller[c].pc = "idle"
    BY <1>9 DEF Begins, Out
  <2>3. caller' = [caller EXCEPT ![c] = r] /\ UNCHANGED <<dns, saved, saver, pins, patched, shared, probe>>
    BY <1>9 DEF Begins, config, shared
  <2> HIDE DEF r
  <2> QED
    BY <1>1, <2>1, <2>2, <2>3, QuietStep DEF Posting
<1>10. ASSUME NEW c \in Callers, NEW n \in 1..(MaxCalls + 1), BuildGateway(c, n) PROVE LlmInv'
  <2> DEFINE built == [caller[c] EXCEPT !.public = saved.public]
             r == [built EXCEPT !.pc = "post", !.pin = PinOf(built.host, saved.public), !.left = n]
  <2>1. /\ built \in Fields /\ built.public = saved.public /\ built.host = caller[c].host
    BY <1>1 DEF Fields
  <2>2. PinOf(built.host, saved.public) \in HostAddresses \cup {Nowhere}
    BY <1>1 DEF PinOf
  <2>3. r \in Fields /\ r.pc = "post" /\ r.public = saved.public /\ r.host = built.host
          /\ r.pin = PinOf(built.host, saved.public)
    <3>1. n \in 0..(MaxCalls + 1)
      BY LlmAssumption
    <3>2. r = [built EXCEPT !.pc = "post", !.pin = PinOf(built.host, saved.public), !.left = n]
      OBVIOUS
    <3> HIDE DEF built, r
    <3> QED
      <4>1. built \in Fields
        BY <2>1
      <4>2. r \in Fields /\ r.pc = "post" /\ r.pin = PinOf(built.host, saved.public)
               /\ r.public = built.public /\ r.host = built.host
        BY ONLY <4>1, <2>2, <3>1, <3>2 DEF Fields
      <4> QED
        BY <2>1, <4>2
  <2>4. UNCHANGED <<dns, saved, saver, pins, patched, shared>> /\ caller[c].pc = "flags"
    BY <1>10 DEF BuildGateway, config, shared
  <2>5. patchLock # c
    BY <1>1, <2>4
  <2>6. CASE Valid(built.host, saved.public)
    <3>1. caller' = [caller EXCEPT ![c] = r] /\ UNCHANGED probe
      BY <1>10, <2>6 DEF BuildGateway
    <3>2. ~r.public /\ r.host = "named" => r.pin = "private"
      BY <2>6, <2>3 DEF Valid, PinOf
    <3> HIDE DEF r, built
    <3> QED
      BY <1>1, <2>3, <2>4, <2>5, <3>1, <3>2, QuietStep DEF Posting
  <2>7. CASE ~Valid(built.host, saved.public)
    <3>1. caller' = [caller EXCEPT ![c] = Out]
      BY <1>10, <2>7 DEF BuildGateway
    <3>2. probe' \in [host : Hosts, public : BOOLEAN, available : {"unknown", "yes", "no"}]
      <4>1. probe' = probe \/ probe' = [host |-> built.host, public |-> built.public, available |-> "no"]
        BY <1>10, <2>7 DEF BuildGateway
      <4>2. built.host \in Hosts /\ built.public \in BOOLEAN
        BY <2>1 DEF Fields
      <4> QED
        BY <1>1, <4>1, <4>2
    <3>3. Out.pc = "idle"
      BY DEF Out
    <3> QED
      BY <1>1, <1>2, <2>4, <2>5, <3>1, <3>2, <3>3, QuietStep DEF Posting
  <2> QED
    BY <2>6, <2>7
<1>11. ASSUME NEW c \in Callers, Posts(c) PROVE LlmInv'
  <2>1. caller[c].pc = "post" /\ UNCHANGED <<dns, saved, saver, pins, patched, shared>> /\ patchLock # c
    BY <1>1, <1>11 DEF Posts, config, shared
  <2>2. CASE Rebound(c)
    BY <1>1, <1>2, <1>4, <1>11, <1>3, <2>1, <2>2, QuietStep DEF Posts, Posting
  <2>3. CASE ~Rebound(c)
    <3>1. Target(c) \in HostAddresses \cup {Nowhere}
      BY <1>1 DEF Target, Fields
    <3>2. UNCHANGED probe
      BY <1>11, <2>3 DEF Posts
    <3>3. PICK q \in {"sending", "waiting"} :
            /\ caller' = [caller EXCEPT ![c].target = Target(c), ![c].pc = q]
            /\ q = "sending" <=> Target(c) = Nowhere
      BY <1>11, <2>3 DEF Posts
    <3> DEFINE r == [caller[c] EXCEPT !.target = Target(c), !.pc = q]
    <3>4. caller' = [caller EXCEPT ![c] = r] /\ r = [caller[c] EXCEPT !.target = Target(c), !.pc = q]
      BY <1>1, <3>3
    <3> HIDE DEF r
    <3>5. /\ r \in Fields /\ r.pc = q /\ r.target = Target(c) /\ r.host = caller[c].host
          /\ r.public = caller[c].public /\ r.pin = caller[c].pin
      <4>1. caller[c] \in Fields
        BY <1>1
      <4>2. r = [caller[c] EXCEPT !.target = Target(c), !.pc = q]
        BY <3>4
      <4> QED
        BY ONLY <4>1, <3>1, <4>2, q \in {"sending", "waiting"} DEF Fields
    <3>6. Target(c) # Nowhere => caller[c].host \in Names
      BY <1>1 DEF Target, Fields, Hosts, Names
    <3>7. ~r.public /\ r.host = "named" => r.pin = "private" /\ r.target = "private"
      BY <2>1, <3>5 DEF LlmInv, StrictIsPinned, Target
    <3>8. caller' \in [Callers -> Fields] /\ caller'[c] = r /\ \A d \in Callers \ {c} : caller'[d] = caller[d]
      BY <1>1, <3>4, <3>5
    <3>9. LlmTypes'
      BY <1>1, <2>1, <3>2, <3>8 DEF LlmTypes, LlmInv, Fields, shared
    <3>10. TargetsAreNamed' /\ HolderHasTarget' /\ StrictIsPinned' /\ StrictStaysPrivate'
      BY <2>1, <3>3, <3>5, <3>6, <3>7, <3>8, LlmAssumption
         DEF LlmInv, LlmTypes, TargetsAreNamed, HolderHasTarget, StrictIsPinned, PinnedCalls, StrictStaysPrivate,
             Posting, shared, Nowhere
    <3>11. PatchFollowsCall'
      BY <2>1, <3>3, <3>5, <3>8, LlmAssumption DEF LlmInv, LlmTypes, PinnedCalls, PatchFollowsCall, shared
    <3> QED
      BY <3>9, <3>10, <3>11 DEF LlmInv, PinnedCalls
  <2> QED
    BY <2>2, <2>3
<1>12. ASSUME NEW c \in Callers, Enters(c) PROVE LlmInv'
  BY <1>12, LlmAssumption DEF LlmInv, LlmTypes, PinnedCalls, PatchFollowsCall, StrictStaysPrivate, TargetsAreNamed,
       HolderHasTarget, StrictIsPinned, Hosts, Names, HostAddresses, Nowhere, Posting, Nobody, shared, config,
       Enters
<1>13. ASSUME NEW c \in Callers, Connects(c) PROVE LlmInv'
  <2> DEFINE a == Resolved(caller[c].host)
             r == [caller[c] EXCEPT !.pc = "sent", !.addr = a]
  <2>1. caller[c].pc = "sending" /\ UNCHANGED <<dns, saved, saver, patchLock, pins, patched, probe>>
    BY <1>13 DEF Connects, config, shared
  <2>2. a \in HostAddresses \cup {Nowhere}
    BY <1>1 DEF Resolved, Fields, Hosts, Names, HostAddresses
  <2>3. ~caller[c].public /\ caller[c].host = "named" => a = "private"
    <3>1. SUFFICES ASSUME ~caller[c].public, caller[c].host = "named" PROVE a = "private"
      OBVIOUS
    <3>2. caller[c].target = "private" /\ "private" # Nowhere
      BY <2>1, <3>1 DEF LlmInv, StrictIsPinned, Posting, Nowhere
    <3>3. patchLock = c /\ pins["named"] = "private"
      BY <2>1, <3>1, <3>2 DEF LlmInv, TargetsAreNamed, PinnedCalls, PatchFollowsCall
    <3>4. patched
      BY <3>3, LlmAssumption DEF LlmInv, PinnedCalls, PatchFollowsCall, Nobody
    <3> QED
      BY <3>1, <3>2, <3>3, <3>4 DEF Resolved
  <2>4. caller' = [caller EXCEPT ![c] = r] /\ r = [caller[c] EXCEPT !.pc = "sent", !.addr = a]
    BY <1>1, <1>13 DEF Connects
  <2> HIDE DEF r, a
  <2>5. /\ r \in Fields /\ r.pc = "sent" /\ r.addr = a /\ r.host = caller[c].host /\ r.public = caller[c].public
        /\ r.pin = caller[c].pin /\ r.target = caller[c].target
    <3>1. caller[c] \in Fields
      BY <1>1
    <3>2. r = [caller[c] EXCEPT !.pc = "sent", !.addr = a]
      BY <2>4
    <3> QED
      BY ONLY <3>1, <3>2, <2>2 DEF Fields
  <2>6. caller' \in [Callers -> Fields] /\ caller'[c] = r /\ \A d \in Callers \ {c} : caller'[d] = caller[d]
    BY <1>1, <2>4, <2>5
  <2>7. LlmTypes'
    BY <1>1, <2>1, <2>6 DEF LlmTypes, LlmInv, Fields
  <2>8. TargetsAreNamed' /\ HolderHasTarget' /\ StrictIsPinned' /\ StrictStaysPrivate'
    BY <2>1, <2>3, <2>5, <2>6, LlmAssumption
       DEF LlmInv, LlmTypes, TargetsAreNamed, HolderHasTarget, StrictIsPinned, PinnedCalls, StrictStaysPrivate, Posting
  <2>9. PatchFollowsCall'
    BY <2>1, <2>5, <2>6, LlmAssumption DEF LlmInv, LlmTypes, PinnedCalls, PatchFollowsCall
  <2> QED
    BY <2>7, <2>8, <2>9 DEF LlmInv, PinnedCalls
<1>14. ASSUME NEW c \in Callers, Answered(c) PROVE LlmInv'
  <2>1. caller[c].pc = "sent" /\ Leaves(c) /\ UNCHANGED <<dns, saved, saver>>
    BY <1>14 DEF Answered, config
  <2>2. CASE caller[c].left > 1
    <3> DEFINE r == [caller[c] EXCEPT !.pc = "post", !.left = @ - 1, !.target = Nowhere, !.addr = Nowhere]
    <3>1. caller' = [caller EXCEPT ![c] = r] /\ UNCHANGED probe
      BY <1>1, <1>14, <2>2 DEF Answered
    <3>2. /\ r \in Fields /\ r.pc = "post" /\ r.public = caller[c].public /\ r.host = caller[c].host
          /\ r.pin = caller[c].pin
      BY <1>1, <2>2, PostsAgain
    <3>3. ~r.public /\ r.host = "named" => r.pin = "private"
      BY <2>1, <3>2 DEF LlmInv, StrictIsPinned, Posting
    <3> HIDE DEF r
    <3> QED
      BY <1>1, <2>1, <3>1, <3>2, <3>3, LeavingClears, QuietStep DEF Posting
  <2>3. CASE ~(caller[c].left > 1)
    BY <1>1, <1>2, <1>4, <1>14, <1>3, <2>1, <2>3, LeavingClears, QuietStep DEF Answered, Posting
  <2> QED
    BY <2>2, <2>3
<1>15. ASSUME NEW c \in Callers, Fails(c) PROVE LlmInv'
  <2>1. /\ caller[c].pc \in {"sending", "sent"} /\ Leaves(c) /\ Ends(c, "no")
        /\ UNCHANGED <<dns, saved, saver>>
    BY <1>15 DEF Fails, config
  <2>2. /\ caller' = [caller EXCEPT ![c] = Out]
        /\ probe' \in [host : Hosts, public : BOOLEAN, available : {"unknown", "yes", "no"}]
    BY <2>1, <1>3
  <2> QED
    BY <1>1, <1>2, <1>4, <2>1, <2>2, LeavingClears, QuietStep DEF Posting
<1>16. ASSUME NEW c \in Callers, Cancelled(c) PROVE LlmInv'
  <2>1. caller' = [caller EXCEPT ![c] = Out] /\ UNCHANGED <<dns, saved, saver, probe>>
    BY <1>16 DEF Cancelled, config
  <2>2. CASE caller[c].pc = "waiting"
    <3>1. UNCHANGED <<pins, patched, shared>> /\ patchLock # c
      BY <1>1, <1>16, <2>2 DEF Cancelled, shared
    <3> QED
      BY <1>1, <1>2, <1>4, <2>1, <3>1, QuietStep DEF Posting
  <2>3. CASE caller[c].pc \in {"sending", "sent"}
    <3>1. Leaves(c)
      BY <1>16, <2>3 DEF Cancelled
    <3> QED
      BY <1>1, <1>2, <1>4, <2>1, <2>3, <3>1, LeavingClears, QuietStep DEF Posting
  <2> QED
    BY <1>16, <2>2, <2>3 DEF Cancelled
<1>17. ASSUME NEW a \in HostAddresses \cup {Nowhere}, DnsChanges(a) PROVE LlmInv'
  BY <1>17, LlmAssumption DEF LlmInv, LlmTypes, PinnedCalls, PatchFollowsCall, StrictStaysPrivate, TargetsAreNamed,
       HolderHasTarget, StrictIsPinned, Hosts, Names, HostAddresses, Nowhere, Posting, Nobody, shared, config,
       DnsChanges
<1>18. CASE UNCHANGED llmVars
  BY <1>18, LlmAssumption DEF LlmInv, LlmTypes, PinnedCalls, PatchFollowsCall, StrictStaysPrivate, TargetsAreNamed,
       HolderHasTarget, StrictIsPinned, Hosts, Names, HostAddresses, Nowhere, Posting, Nobody, shared, config,
       llmVars
<1> QED
  BY <1>5, <1>6, <1>7, <1>8, <1>9, <1>10, <1>11, <1>12, <1>13, <1>14, <1>15, <1>16, <1>17, <1>18
     DEF LlmNext

(* A strict call reaches the address it was pinned to and the patch of the   *)
(* resolver comes and goes with its call, in any order of requests.         *)
THEOREM CallsStayPinned == LlmSpec => []PinnedCalls
<1>1. LlmInv => PinnedCalls
  BY DEF LlmInv
<1> QED
  BY LlmStarts, LlmKept, <1>1, PTL DEF LlmSpec

-----------------------------------------------------------------------------
(* Access: tokens, logouts, connections.                                    *)

Token == [pwd : Nat, stamp : Nat, exp : Nat, key : Nat, sure : BOOLEAN, dead : Int]
RequestSteps == {"idle", "verified", "checked", "stamped", "changed"}
Delay == Interval + RecvTimeout

AuthShape ==
    /\ time \in Nat /\ stamps \in Nat /\ dbErrors \in Nat /\ key \in Nat
    /\ user \in [pwd : Nat, changed : Nat, must : BOOLEAN]
    /\ issued \in Seq(Token)
    /\ revoked \subseteq Tokens /\ signedOut \subseteq Tokens
    /\ prune = NoPrune \/ prune \subseteq Tokens
    /\ req \in [Requests -> [pc : RequestSteps, pwd : Nat, stamp : Nat]]
    /\ sock \in [Sockets -> [pc : {"closed", "top", "recv"}, token : Nat, checked : Nat, since : Nat]]

(* A stamp is taken before it is written, and a key before it signs.        *)
StampsOrdered ==
    /\ user.pwd = user.changed /\ user.changed <= stamps
    /\ \A t \in Tokens : issued[t].stamp <= stamps /\ issued[t].key <= key
    /\ \A r \in Requests : req[r].pc = "stamped" => req[r].stamp <= stamps

(* A token that is `sure` has the stamp of its password, and every change    *)
(* that is still to be written has a later one.                             *)
SureTokens ==
    \A t \in Tokens : issued[t].sure =>
        /\ issued[t].pwd = issued[t].stamp /\ issued[t].stamp <= user.changed
        /\ \A r \in Requests : req[r].pc = "stamped" => issued[t].stamp < req[r].stamp

(* What was logged out is in the set, and in the one a prune is building,    *)
(* unless it does not decode any more.                                      *)
OutsRemembered ==
    \A t \in signedOut :
        /\ t \in revoked \/ ~Decodes(t)
        /\ prune # NoPrune => t \in prune \/ ~Decodes(t)

(* A token is dead for a reason that a check of a socket sees.              *)
DeadForAReason ==
    \A t \in Tokens : issued[t].dead # -1 => t \in signedOut \/ ~Decodes(t) \/ ~Follows(t)

(* How far a connection may be behind, check by check.                      *)
SocketsChecked ==
    \A s \in Sockets : sock[s].pc # "closed" =>
        /\ sock[s].token \in Tokens
        /\ sock[s].checked <= sock[s].since /\ sock[s].since <= time
        /\ sock[s].since - sock[s].checked < Interval
        /\ time - sock[s].since <= RecvTimeout
        /\ issued[sock[s].token].dead # -1 =>
             sock[s].checked - issued[sock[s].token].dead <= dbErrors * Delay

AuthInv ==
    AuthShape /\ StampsOrdered /\ SureTokens /\ OutsRemembered /\ DeadForAReason /\ SocketsChecked

LEMMA DelayIsNat == Delay \in Nat /\ Interval \in Nat \ {0} /\ RecvTimeout \in Nat \ {0} /\ TokenLife \in Nat
BY AuthAssumption DEF Delay

LEMMA OneMoreDelay ==
    ASSUME NEW e \in Nat
    PROVE  e * Delay \in Nat /\ (e + 1) * Delay = e * Delay + Delay /\ (1 + e) * Delay = e * Delay + Delay
BY DelayIsNat

LEMMA AuthStarts == AuthInit => AuthInv
<1> SUFFICES ASSUME AuthInit PROVE AuthInv
  OBVIOUS
<1>1. Tokens = {}
  BY DEF AuthInit, Tokens
<1>2. AuthShape
  BY <1>1 DEF AuthInit, AuthShape, Free, Closed, RequestSteps
<1>3. \A s \in Sockets : sock[s].pc = "closed"
  BY DEF AuthInit, Closed
<1> QED
  BY <1>1, <1>2, <1>3 DEF AuthInit, Free, AuthInv, StampsOrdered, SureTokens, OutsRemembered, DeadForAReason, SocketsChecked

(* What a step that rewrites the history of the tokens leaves as it was.    *)
Rewritten ==
    /\ issued' \in Seq(Token) /\ Tokens' = Tokens
    /\ \A t \in Tokens :
         /\ issued'[t].pwd = issued[t].pwd /\ issued'[t].stamp = issued[t].stamp
         /\ issued'[t].exp = issued[t].exp /\ issued'[t].key = issued[t].key
         /\ issued'[t].sure = issued[t].sure

LEMMA Rewriting ==
    ASSUME issued \in Seq(Token), NEW d \in [Tokens -> Int],
           issued' = [t \in Tokens |-> [issued[t] EXCEPT !.dead = d[t]]]
    PROVE  Rewritten /\ \A t \in Tokens : issued'[t].dead = d[t]
<1>1. Len(issued) \in Nat /\ \A t \in Tokens : issued[t] \in Token
  BY DEF Tokens
<1>2. \A t \in Tokens : [issued[t] EXCEPT !.dead = d[t]] \in Token
  BY <1>1 DEF Token
<1>3. issued' \in [1..Len(issued) -> Token]
  BY <1>2 DEF Tokens
<1>4. issued' \in Seq(Token) /\ Len(issued') = Len(issued)
  BY <1>1, <1>3
<1>5. Tokens' = Tokens
  BY <1>4 DEF Tokens
<1> QED
  BY <1>1, <1>4, <1>5 DEF Rewritten, Token

(* Died, as a rewriting.                                                    *)
LEMMA Dying ==
    ASSUME AuthShape, NEW S, NEW back, Died(S, back)
    PROVE  /\ Rewritten
           /\ \A t \in Tokens :
                issued'[t].dead = IF t \in S /\ issued[t].dead = -1 THEN time
                                  ELSE IF t \in back THEN -1 ELSE issued[t].dead
<1> DEFINE d == [t \in Tokens |-> IF t \in S /\ issued[t].dead = -1 THEN time
                                  ELSE IF t \in back THEN -1 ELSE issued[t].dead]
<1>1. \A t \in Tokens : issued[t] \in Token
  BY DEF AuthShape, Tokens
<1>2. d \in [Tokens -> Int]
  BY <1>1 DEF AuthShape, Token
<1>3. \A t \in Tokens : issued[t] = [issued[t] EXCEPT !.dead = issued[t].dead]
  BY <1>1 DEF Token
<1>4. issued' = [t \in Tokens |-> [issued[t] EXCEPT !.dead = d[t]]]
  BY <1>1, <1>3 DEF Died
<1>5. \A t \in Tokens :
                d[t] = IF t \in S /\ issued[t].dead = -1 THEN time
                                  ELSE IF t \in back THEN -1 ELSE issued[t].dead
  OBVIOUS
<1> HIDE DEF d
<1>6. issued \in Seq(Token)
  BY DEF AuthShape
<1> QED
  BY <1>2, <1>4, <1>5, <1>6, Rewriting

(* A signature adds a token and touches no other.                           *)
LEMMA Signing ==
    ASSUME AuthShape, NEW r \in Requests, NEW pwd \in Nat, NEW stamp \in Nat, Sign(r, pwd, stamp)
    PROVE  /\ issued' \in Seq(Token) /\ Tokens' = Tokens \cup {Len(issued) + 1}
           /\ Len(issued) + 1 \notin Tokens
           /\ \A t \in Tokens : issued'[t] = issued[t]
           /\ LET new == issued'[Len(issued) + 1] IN
              /\ new.pwd = pwd /\ new.stamp = stamp /\ new.dead = -1 /\ new.key = key
              /\ new.sure => pwd = user.pwd /\ \A q \in Requests \ {r} : req[q].pc # "stamped"
<1> DEFINE certain == pwd = user.pwd /\ \A q \in Requests \ {r} : req[q].pc # "stamped"
           new == [pwd |-> pwd, stamp |-> stamp, exp |-> time + TokenLife, key |-> key,
                   sure |-> certain, dead |-> -1]
<1>1. issued' = Append(issued, new)
  BY DEF Sign
<1>2. new \in Token
  <2>1. time + TokenLife \in Nat /\ key \in Nat
    BY DelayIsNat DEF AuthShape
  <2>2. certain \in BOOLEAN
    OBVIOUS
  <2> HIDE DEF certain
  <2> QED
    BY <2>1, <2>2 DEF Token
<1>3. issued \in Seq(Token)
  BY DEF AuthShape
<1>4. new.pwd = pwd /\ new.stamp = stamp /\ new.dead = -1 /\ new.key = key
  OBVIOUS
<1>5. new.sure = certain
  <2> HIDE DEF certain
  <2> QED
    OBVIOUS
<1> HIDE DEF new
<1>6. /\ issued' \in Seq(Token) /\ Len(issued') = Len(issued) + 1 /\ Len(issued) \in Nat
      /\ \A t \in 1..Len(issued) : issued'[t] = issued[t]
      /\ issued'[Len(issued) + 1] = new
  BY <1>1, <1>2, <1>3
<1>7. Tokens' = 1..(Len(issued) + 1) /\ Tokens = 1..Len(issued)
  BY <1>6 DEF Tokens
<1>8. new.sure => certain
  BY <1>5
<1> QED
  BY <1>4, <1>6, <1>7, <1>8

(* The record of one request changes.                                       *)
LEMMA RequestMoves ==
    ASSUME AuthShape, NEW r \in Requests, NEW q, q \in [pc : RequestSteps, pwd : Nat, stamp : Nat],
           req' = [req EXCEPT ![r] = q]
    PROVE  /\ req' \in [Requests -> [pc : RequestSteps, pwd : Nat, stamp : Nat]]
           /\ req'[r] = q /\ \A o \in Requests \ {r} : req'[o] = req[o]
BY DEF AuthShape

LEMMA Signed ==
    ASSUME AuthInv, NEW r \in Requests, NEW pwd \in Nat, Sign(r, pwd, user.changed),
           req' = [req EXCEPT ![r] = Free], UNCHANGED <<time, account, keys, outs, sock, dbErrors>>
    PROVE  AuthInv'
<1> DEFINE n == Len(issued) + 1
<1>1. Free \in [pc : RequestSteps, pwd : Nat, stamp : Nat] /\ Free.pc = "idle"
  BY DEF Free, RequestSteps
<1>2. AuthShape /\ user.changed \in Nat
  BY DEF AuthInv, AuthShape
<1>3. /\ req' \in [Requests -> [pc : RequestSteps, pwd : Nat, stamp : Nat]]
      /\ req'[r] = Free /\ \A o \in Requests \ {r} : req'[o] = req[o]
  BY <1>1, <1>2, RequestMoves
<1>4. /\ issued' \in Seq(Token) /\ Tokens' = Tokens \cup {n} /\ n \notin Tokens
      /\ \A t \in Tokens : issued'[t] = issued[t]
  BY <1>2, Signing
<1>5. /\ issued'[n].pwd = pwd /\ issued'[n].stamp = user.changed /\ issued'[n].dead = -1
      /\ issued'[n].key = key /\ key <= key
      /\ issued'[n].sure => pwd = user.pwd /\ \A q \in Requests \ {r} : req[q].pc # "stamped"
  BY <1>2, Signing DEF AuthShape
<1> HIDE DEF n
<1>6. /\ time' = time /\ user' = user /\ stamps' = stamps /\ key' = key /\ revoked' = revoked
      /\ prune' = prune /\ signedOut' = signedOut /\ sock' = sock /\ dbErrors' = dbErrors
  BY DEF account, keys, outs
<1>7. AuthShape'
  BY <1>2, <1>3, <1>4, <1>6 DEF AuthShape
<1>8. StampsOrdered'
  BY <1>1, <1>3, <1>4, <1>5, <1>6 DEF AuthInv, StampsOrdered
<1>9. SureTokens'
  <2> SUFFICES ASSUME NEW t \in Tokens', issued'[t].sure
               PROVE  /\ issued'[t].pwd = issued'[t].stamp /\ issued'[t].stamp <= user'.changed
                      /\ \A o \in Requests : req'[o].pc = "stamped" => issued'[t].stamp < req'[o].stamp
    BY DEF SureTokens
  <2>1. CASE t = n
    BY <1>1, <1>2, <1>3, <1>5, <1>6, <2>1 DEF AuthInv, StampsOrdered
  <2>2. CASE t \in Tokens
    BY <1>1, <1>3, <1>4, <1>6, <2>2 DEF AuthInv, SureTokens
  <2> QED
    BY <1>4, <2>1, <2>2
<1>10. OutsRemembered'
  <2>1. \A t \in signedOut : t \in Tokens
    BY <1>2 DEF AuthShape
  <2>2. \A t \in Tokens : Decodes(t)' <=> Decodes(t)
    BY <1>4, <1>6 DEF Decodes
  <2> QED
    BY <1>6, <2>1, <2>2 DEF AuthInv, OutsRemembered
<1>11. DeadForAReason'
  BY <1>4, <1>5, <1>6 DEF AuthInv, DeadForAReason, Decodes, Follows
<1>12. SocketsChecked'
  BY <1>4, <1>6 DEF AuthInv, SocketsChecked
<1> QED
  BY <1>7, <1>8, <1>9, <1>10, <1>11, <1>12 DEF AuthInv

(* A request goes on, and neither the account nor a token changes.          *)
LEMMA Requested ==
    ASSUME AuthInv, NEW r \in Requests, NEW q, q \in [pc : RequestSteps, pwd : Nat, stamp : Nat],
           req' = [req EXCEPT ![r] = q], stamps' \in Nat, stamps <= stamps',
           q.pc = "stamped" => stamps < q.stamp /\ q.stamp <= stamps',
           UNCHANGED <<time, user, issued, keys, outs, sock, dbErrors>>
    PROVE  AuthInv'
<1>1. AuthShape
  BY DEF AuthInv
<1>2. /\ req' \in [Requests -> [pc : RequestSteps, pwd : Nat, stamp : Nat]]
      /\ req'[r] = q /\ \A o \in Requests \ {r} : req'[o] = req[o]
  BY <1>1, RequestMoves
<1>3. /\ time' = time /\ user' = user /\ issued' = issued /\ key' = key /\ revoked' = revoked
      /\ prune' = prune /\ signedOut' = signedOut /\ sock' = sock /\ dbErrors' = dbErrors /\ Tokens' = Tokens
  BY DEF keys, outs, Tokens
<1>4. \A t \in Tokens : issued[t] \in Token
  BY <1>1 DEF AuthShape, Tokens
<1>5. AuthShape'
  BY <1>1, <1>2, <1>3 DEF AuthShape
<1>6. StampsOrdered'
  <2>1. user.changed \in Nat /\ stamps \in Nat
    BY <1>1 DEF AuthShape
  <2>2. \A t \in Tokens : issued[t].stamp \in Nat
    BY <1>4 DEF Token
  <2>3. \A o \in Requests \ {r} : req'[o].stamp \in Nat
    BY <1>2
  <2>4. \A o \in Requests : req'[o].pc = "stamped" => req'[o].stamp <= stamps'
    BY <1>2, <2>1, <2>3 DEF AuthInv, StampsOrdered
  <2> QED
    BY <1>3, <2>1, <2>2, <2>4 DEF AuthInv, StampsOrdered
<1>7. SureTokens'
  <2> SUFFICES ASSUME NEW t \in Tokens, issued[t].sure, NEW o \in Requests, req'[o].pc = "stamped"
               PROVE  issued[t].stamp < req'[o].stamp
    BY <1>3 DEF AuthInv, SureTokens
  <2>1. CASE o = r
    <3>1. issued[t].stamp <= stamps /\ stamps < q.stamp /\ req'[o].stamp = q.stamp
      BY <1>2, <2>1 DEF AuthInv, StampsOrdered
    <3>2. issued[t].stamp \in Nat /\ stamps \in Nat /\ q.stamp \in Nat
      BY <1>1, <1>4 DEF AuthShape, Token
    <3> QED
      BY <3>1, <3>2
  <2>2. CASE o # r
    BY <1>2, <2>2 DEF AuthInv, SureTokens
  <2> QED
    BY <2>1, <2>2
<1>8. OutsRemembered'
  BY <1>3 DEF AuthInv, OutsRemembered, Decodes
<1>9. DeadForAReason'
  BY <1>3 DEF AuthInv, DeadForAReason, Decodes, Follows
<1>10. SocketsChecked'
  BY <1>3 DEF AuthInv, SocketsChecked
<1> QED
  BY <1>5, <1>6, <1>7, <1>8, <1>9, <1>10 DEF AuthInv

(* Tokens of one kind have their history set.                               *)
LEMMA Resetting ==
    ASSUME AuthShape, NEW S, NEW v \in Int,
           issued' = [t \in Tokens |-> IF t \in S THEN [issued[t] EXCEPT !.dead = v] ELSE issued[t]]
    PROVE  /\ Rewritten
           /\ \A t \in Tokens : issued'[t].dead = IF t \in S THEN v ELSE issued[t].dead
<1> DEFINE d == [t \in Tokens |-> IF t \in S THEN v ELSE issued[t].dead]
<1>1. \A t \in Tokens : issued[t] \in Token
  BY DEF AuthShape, Tokens
<1>2. d \in [Tokens -> Int]
  BY <1>1 DEF Token
<1>3. \A t \in Tokens : issued[t] = [issued[t] EXCEPT !.dead = issued[t].dead]
  BY <1>1 DEF Token
<1>4. issued' = [t \in Tokens |-> [issued[t] EXCEPT !.dead = d[t]]]
  BY <1>1, <1>3
<1>5. \A t \in Tokens : d[t] = IF t \in S THEN v ELSE issued[t].dead
  OBVIOUS
<1> HIDE DEF d
<1>6. issued \in Seq(Token)
  BY DEF AuthShape
<1> QED
  BY <1>2, <1>4, <1>5, <1>6, Rewriting

(* A change of the password is written.                                     *)
LEMMA Committed == ASSUME AuthInv, NEW r \in Requests, ChangeCommit(r) PROVE AuthInv'
<1> DEFINE stamp == req[r].stamp
           back == {t \in Tokens \ signedOut : Decodes(t) /\ issued[t].stamp >= stamp}
           q == [req[r] EXCEPT !.pc = "changed"]
<1>1. AuthShape
  BY DEF AuthInv
<1>2. req[r].pc = "stamped" /\ stamp \in Nat
  BY <1>1 DEF ChangeCommit, AuthShape
<1>3. q \in [pc : RequestSteps, pwd : Nat, stamp : Nat] /\ q.pc = "changed" /\ req' = [req EXCEPT ![r] = q]
  <2>1. req[r] \in [pc : RequestSteps, pwd : Nat, stamp : Nat]
    BY <1>1 DEF AuthShape
  <2>2. q \in [pc : RequestSteps, pwd : Nat, stamp : Nat] /\ q.pc = "changed"
    BY <2>1 DEF RequestSteps
  <2>3. req' = [req EXCEPT ![r].pc = "changed"]
    BY DEF ChangeCommit
  <2> QED
    BY <2>2, <2>3
<1>4. /\ req' \in [Requests -> [pc : RequestSteps, pwd : Nat, stamp : Nat]]
      /\ req'[r] = q /\ \A o \in Requests \ {r} : req'[o] = req[o]
  <2> HIDE DEF q
  <2> QED
    BY <1>1, <1>3, RequestMoves
<1>5. /\ time' = time /\ stamps' = stamps /\ key' = key /\ revoked' = revoked /\ prune' = prune
      /\ signedOut' = signedOut /\ sock' = sock /\ dbErrors' = dbErrors
      /\ user' = [pwd |-> stamp, changed |-> stamp, must |-> FALSE]
  BY DEF ChangeCommit, keys, outs
<1>6. /\ Rewritten
      /\ \A t \in Tokens :
           issued'[t].dead = IF t \in {u \in Tokens : issued[u].stamp < stamp} /\ issued[t].dead = -1 THEN time
                             ELSE IF t \in back THEN -1 ELSE issued[t].dead
  <2>1. Died({t \in Tokens : issued[t].stamp < stamp}, back)
    BY DEF ChangeCommit
  <2> HIDE DEF back
  <2> QED
    BY <1>1, <2>1, Dying
<1>7. \A t \in Tokens : issued[t].stamp \in Nat /\ issued[t].dead \in Int
  <2>1. \A t \in Tokens : issued[t] \in Token
    BY <1>1 DEF AuthShape, Tokens
  <2> QED
    BY <2>1 DEF Token
<1>8. \A t \in Tokens : Decodes(t)' <=> Decodes(t)
  BY <1>5, <1>6 DEF Rewritten, Decodes
<1> HIDE DEF q
<1>9. user'.pwd = stamp /\ user'.changed = stamp
  BY <1>5
<1>10. stamp <= stamps
  BY <1>2 DEF AuthInv, StampsOrdered
<1>11. AuthShape'
  BY <1>1, <1>2, <1>4, <1>5, <1>6 DEF AuthShape, Rewritten
<1>12. StampsOrdered'
  BY <1>3, <1>4, <1>5, <1>6, <1>9, <1>10 DEF AuthInv, StampsOrdered, Rewritten
<1>13. SureTokens'
  <2> SUFFICES ASSUME NEW t \in Tokens, issued[t].sure
               PROVE  /\ issued[t].pwd = issued[t].stamp /\ issued[t].stamp <= stamp
                      /\ \A o \in Requests : req'[o].pc = "stamped" => issued[t].stamp < req'[o].stamp
    BY <1>6, <1>9 DEF SureTokens, Rewritten
  <2>1. issued[t].stamp < stamp
    BY <1>2 DEF AuthInv, SureTokens
  <2> QED
    BY <1>2, <1>3, <1>4, <1>7, <2>1 DEF AuthInv, SureTokens
<1>14. OutsRemembered'
  BY <1>1, <1>5, <1>8 DEF AuthInv, AuthShape, OutsRemembered
<1>15. DeadForAReason'
  <2> SUFFICES ASSUME NEW t \in Tokens, issued'[t].dead # -1, t \notin signedOut, Decodes(t)
               PROVE  ~(user'.changed <= issued'[t].stamp)
    BY <1>5, <1>6, <1>8 DEF DeadForAReason, Rewritten, Follows
  <2>1. issued'[t].stamp = issued[t].stamp
    BY <1>6 DEF Rewritten
  <2>2. t \notin back
    <3>1. SUFFICES ASSUME t \in back PROVE FALSE
      OBVIOUS
    <3>2. ~(issued[t].stamp < stamp)
      BY <1>2, <1>7, <3>1
    <3>3. t \notin {u \in Tokens : issued[u].stamp < stamp}
      BY <3>2
    <3> QED
      BY <1>6, <3>1, <3>3
  <2>3. issued[t].stamp < stamp
    BY <1>2, <1>7, <2>2
  <2> QED
    BY <1>2, <1>7, <1>9, <2>1, <2>3
<1>16. SocketsChecked'
  <2> SUFFICES ASSUME NEW s \in Sockets, sock[s].pc # "closed"
               PROVE  /\ sock[s].token \in Tokens
                      /\ issued'[sock[s].token].dead # -1 =>
                           sock[s].checked - issued'[sock[s].token].dead <= dbErrors * Delay
    BY <1>5, <1>6 DEF AuthInv, SocketsChecked, Rewritten
  <2>1. sock[s].token \in Tokens /\ sock[s].checked <= sock[s].since /\ sock[s].since <= time
    BY DEF AuthInv, SocketsChecked
  <2>2. sock[s].checked \in Nat /\ sock[s].since \in Nat /\ time \in Nat /\ dbErrors * Delay \in Nat
    BY <1>1, OneMoreDelay DEF AuthShape
  <2>3. \/ issued'[sock[s].token].dead = time \/ issued'[sock[s].token].dead = -1
        \/ issued'[sock[s].token].dead = issued[sock[s].token].dead
    BY <1>6, <2>1
  <2>4. sock[s].checked - time <= dbErrors * Delay
    BY <2>1, <2>2
  <2> QED
    BY <2>1, <2>3, <2>4 DEF AuthInv, SocketsChecked
<1> QED
  BY <1>11, <1>12, <1>13, <1>14, <1>15, <1>16 DEF AuthInv

LEMMA LoggedOut == ASSUME AuthInv, NEW t \in Tokens, Logout(t) PROVE AuthInv'
<1>1. AuthShape
  BY DEF AuthInv
<1>2. /\ time' = time /\ user' = user /\ stamps' = stamps /\ key' = key /\ req' = req
      /\ sock' = sock /\ dbErrors' = dbErrors /\ revoked' = revoked \cup {t}
      /\ prune = NoPrune => signedOut' = signedOut \cup {t}
      /\ prune # NoPrune => signedOut' = signedOut /\ prune' = prune
      /\ prune' = prune \/ prune' = Kept(revoked \cup {t})
  BY DEF Logout, account, keys
<1>3. /\ Rewritten
      /\ \A u \in Tokens : \/ issued'[u].dead = issued[u].dead
                           \/ prune = NoPrune /\ u = t /\ issued'[u].dead = time
  <2> DEFINE S == IF prune = NoPrune THEN {t} ELSE {}
  <2>1. Died(S, {})
    BY DEF Logout
  <2>2. \A u \in S : prune = NoPrune /\ u = t
    OBVIOUS
  <2> HIDE DEF S
  <2>3. Rewritten /\ \A u \in Tokens :
            issued'[u].dead = IF u \in S /\ issued[u].dead = -1 THEN time
                              ELSE IF u \in {} THEN -1 ELSE issued[u].dead
    BY <1>1, <2>1, Dying
  <2> QED
    BY <2>2, <2>3
<1>4. \A u \in Tokens : /\ Decodes(u)' <=> Decodes(u)
                        /\ Follows(u)' <=> Follows(u)
  BY <1>2, <1>3 DEF Rewritten, Decodes, Follows
<1>5. AuthShape'
  <2>1. revoked' \subseteq Tokens' /\ signedOut' \subseteq Tokens'
    BY <1>1, <1>2, <1>3 DEF AuthShape, Rewritten
  <2>2. prune' = NoPrune \/ prune' \subseteq Tokens'
    <3>1. Kept(revoked \cup {t}) \subseteq Tokens
      BY <1>1 DEF AuthShape, Kept
    <3> QED
      BY <1>1, <1>2, <1>3, <3>1 DEF AuthShape, Rewritten
  <2>3. NoPrune' = NoPrune
    BY DEF NoPrune
  <2> QED
    BY <1>1, <1>2, <1>3, <2>1, <2>2, <2>3 DEF AuthShape, Rewritten
<1>6. StampsOrdered' /\ SureTokens'
  BY <1>2, <1>3 DEF AuthInv, StampsOrdered, SureTokens, Rewritten
<1>7. OutsRemembered'
  <2> SUFFICES ASSUME NEW u \in signedOut', Decodes(u)
               PROVE  u \in revoked' /\ (prune' # NoPrune => u \in prune')
    BY <1>1, <1>2, <1>4 DEF AuthShape, OutsRemembered
  <2>1. u \in revoked \cup {t}
    BY <1>2 DEF AuthInv, OutsRemembered
  <2>2. CASE prune' = Kept(revoked \cup {t})
    BY <1>2, <2>1, <2>2 DEF Kept
  <2>3. CASE prune' = prune
    BY <1>2, <2>1, <2>3 DEF AuthInv, OutsRemembered
  <2> QED
    BY <1>2, <2>1, <2>2, <2>3
<1>8. DeadForAReason'
  BY <1>2, <1>3, <1>4 DEF AuthInv, DeadForAReason, Rewritten
<1>9. SocketsChecked'
  <2> SUFFICES ASSUME NEW s \in Sockets, sock[s].pc # "closed"
               PROVE  /\ sock[s].token \in Tokens
                      /\ issued'[sock[s].token].dead # -1 =>
                           sock[s].checked - issued'[sock[s].token].dead <= dbErrors * Delay
    BY <1>2, <1>3 DEF AuthInv, SocketsChecked, Rewritten
  <2>1. sock[s].token \in Tokens /\ sock[s].checked <= sock[s].since /\ sock[s].since <= time
    BY DEF AuthInv, SocketsChecked
  <2>2. sock[s].checked \in Nat /\ sock[s].since \in Nat /\ time \in Nat /\ dbErrors * Delay \in Nat
    BY <1>1, OneMoreDelay DEF AuthShape
  <2>3. sock[s].checked - time <= dbErrors * Delay
    BY <2>1, <2>2
  <2> QED
    BY <1>3, <2>1, <2>3 DEF AuthInv, SocketsChecked
<1> QED
  BY <1>5, <1>6, <1>7, <1>8, <1>9 DEF AuthInv

LEMMA Pruned == ASSUME AuthInv, PruneEnds PROVE AuthInv'
BY DEF AuthInv, PruneEnds, AuthShape, StampsOrdered, SureTokens, OutsRemembered, DeadForAReason,
       SocketsChecked, account, keys, Decodes, Follows, Tokens

(* One connection moves, and nothing else does.                             *)
LEMMA SocketMoves ==
    ASSUME AuthInv, NEW s \in Sockets,
           NEW k \in [pc : {"closed", "top", "recv"}, token : Nat, checked : Nat, since : Nat],
           sock' = [sock EXCEPT ![s] = k], dbErrors' \in Nat, dbErrors <= dbErrors',
           UNCHANGED <<time, account, issued, keys, outs, req>>,
           k.pc # "closed" =>
             /\ k.token \in Tokens /\ k.checked <= k.since /\ k.since <= time
             /\ k.since - k.checked < Interval /\ time - k.since <= RecvTimeout
             /\ issued[k.token].dead # -1 => k.checked - issued[k.token].dead <= dbErrors' * Delay
    PROVE  AuthInv'
<1>1. AuthShape
  BY DEF AuthInv
<1>2. /\ sock' \in [Sockets -> [pc : {"closed", "top", "recv"}, token : Nat, checked : Nat, since : Nat]]
      /\ sock'[s] = k /\ \A o \in Sockets \ {s} : sock'[o] = sock[o]
  BY <1>1 DEF AuthShape
<1>3. /\ time' = time /\ user' = user /\ stamps' = stamps /\ key' = key /\ req' = req
      /\ issued' = issued /\ revoked' = revoked /\ prune' = prune /\ signedOut' = signedOut
      /\ Tokens' = Tokens
  BY DEF account, keys, outs, Tokens
<1>4. AuthShape'
  BY <1>1, <1>2, <1>3 DEF AuthShape, NoPrune
<1>5. StampsOrdered' /\ SureTokens' /\ OutsRemembered' /\ DeadForAReason'
  BY <1>3 DEF AuthInv, StampsOrdered, SureTokens, OutsRemembered, DeadForAReason, Decodes, Follows, NoPrune
<1>6. dbErrors * Delay <= dbErrors' * Delay
  BY <1>1, DelayIsNat DEF AuthShape
<1>7. SocketsChecked'
  <2> SUFFICES ASSUME NEW o \in Sockets, o # s, sock[o].pc # "closed", issued[sock[o].token].dead # -1
               PROVE  sock[o].checked - issued[sock[o].token].dead <= dbErrors' * Delay
    BY <1>2, <1>3 DEF AuthInv, SocketsChecked
  <2>1. sock[o].token \in Tokens /\ sock[o].checked - issued[sock[o].token].dead <= dbErrors * Delay
    BY DEF AuthInv, SocketsChecked
  <2>2. sock[o].checked \in Nat /\ dbErrors * Delay \in Nat /\ dbErrors' * Delay \in Nat
    BY <1>1, OneMoreDelay DEF AuthShape
  <2>3. issued[sock[o].token].dead \in Int
    <3>1. issued[sock[o].token] \in Token
      BY <1>1, <2>1 DEF AuthShape, Tokens
    <3> QED
      BY <3>1 DEF Token
  <2> QED
    BY <1>6, <2>1, <2>2, <2>3
<1> QED
  BY <1>4, <1>5, <1>7 DEF AuthInv

(* A token a check finds good is not dead.                                  *)
LEMMA GoodIsAlive ==
    ASSUME AuthInv, NEW t \in Tokens, t \notin revoked, Decodes(t), Follows(t)
    PROVE  issued[t].dead = -1
BY DEF AuthInv, OutsRemembered, DeadForAReason

LEMMA SocketSteps ==
    ASSUME AuthInv, NEW s \in Sockets,
           \/ \E t \in Tokens : SocketOpens(s, t)
           \/ SocketChecks(s) \/ SocketCheckFails(s) \/ SocketMessage(s) \/ SocketEnds(s)
    PROVE  AuthInv'
<1> DEFINE K == [pc : {"closed", "top", "recv"}, token : Nat, checked : Nat, since : Nat]
<1>1. AuthShape
  BY DEF AuthInv
<1>2. sock[s] \in K /\ dbErrors \in Nat /\ time \in Nat
  BY <1>1 DEF AuthShape
<1>3. Closed \in K /\ Closed.pc = "closed"
  BY DEF Closed
<1>4. sock[s].pc # "closed" =>
        /\ sock[s].token \in Tokens
        /\ sock[s].checked <= sock[s].since /\ sock[s].since <= time
        /\ sock[s].since - sock[s].checked < Interval
        /\ time - sock[s].since <= RecvTimeout
        /\ issued[sock[s].token].dead # -1 =>
             sock[s].checked - issued[sock[s].token].dead <= dbErrors * Delay
  BY DEF AuthInv, SocketsChecked
<1>5. \A t \in Tokens : t \in Nat /\ issued[t].dead \in Int
  <2>1. \A t \in Tokens : issued[t] \in Token /\ t \in Nat
    BY <1>1 DEF AuthShape, Tokens
  <2> QED
    BY <2>1 DEF Token
<1>6. ASSUME NEW t \in Tokens, SocketOpens(s, t) PROVE AuthInv'
  <2> DEFINE k == [pc |-> "top", token |-> t, checked |-> time, since |-> time]
  <2>1. sock' = [sock EXCEPT ![s] = k] /\ dbErrors' = dbErrors /\ UNCHANGED <<time, account, issued, keys, outs, req>>
    BY <1>6 DEF SocketOpens
  <2>2. issued[t].dead = -1
    BY <1>6, GoodIsAlive DEF SocketOpens, Accepts
  <2>3. k \in K /\ k.pc = "top" /\ k.token = t /\ k.checked = time /\ k.since = time
    BY <1>2, <1>5
  <2> HIDE DEF k, K
  <2>4. time <= time /\ time - time < Interval /\ time - time <= RecvTimeout /\ dbErrors <= dbErrors
    BY <1>2, DelayIsNat
  <2> QED
    BY <1>2, <2>1, <2>2, <2>3, <2>4, SocketMoves DEF K
<1>7. ASSUME sock[s].pc = "top", Receives(s), UNCHANGED <<time, account, issued, keys, outs, req>>,
             \/ dbErrors' = dbErrors /\ (Due(s) => issued[sock[s].token].dead = -1)
             \/ dbErrors' = dbErrors + 1 /\ Due(s)
      PROVE  AuthInv'
  <2> DEFINE k == [sock[s] EXCEPT !.pc = "recv", !.checked = CheckedAt(s), !.since = time]
  <2>1. sock' = [sock EXCEPT ![s] = k]
    BY <1>7 DEF Receives
  <2>2. /\ sock[s].checked \in Nat /\ sock[s].since \in Nat
        /\ CheckedAt(s) = IF time - sock[s].checked >= Interval THEN time ELSE sock[s].checked
    BY <1>2 DEF CheckedAt, Due
  <2>3. /\ k \in K /\ k.pc = "recv" /\ k.token = sock[s].token /\ k.checked = CheckedAt(s)
        /\ k.since = time
    BY <1>2, <2>2
  <2> HIDE DEF k, K
  <2>4. /\ k.token \in Tokens /\ k.checked <= k.since /\ k.since <= time
        /\ k.since - k.checked < Interval /\ time - k.since <= RecvTimeout
    BY <1>2, <1>4, <1>7, <2>2, <2>3, DelayIsNat
  <2>5. dbErrors' \in Nat /\ dbErrors <= dbErrors'
    BY <1>2, <1>7
  <2>6. ASSUME issued[k.token].dead # -1 PROVE k.checked - issued[k.token].dead <= dbErrors' * Delay
    <3> DEFINE dead == issued[k.token].dead
               e == dbErrors * Delay
    <3>1. dead \in Int /\ e \in Nat /\ (dbErrors + 1) * Delay = e + Delay
      BY <1>2, <1>5, <2>4, OneMoreDelay
    <3>2. sock[s].checked - dead <= e /\ time - sock[s].since <= RecvTimeout
            /\ sock[s].since - sock[s].checked < Interval
      BY <1>4, <1>7, <2>3, <2>6
    <3> HIDE DEF dead, e
    <3>3. CASE dbErrors' = dbErrors /\ ~Due(s)
      <4>1. k.checked = sock[s].checked /\ dbErrors' * Delay = e
        BY <2>2, <2>3, <3>3 DEF Due, e
      <4> QED
        BY <3>2, <4>1 DEF dead
    <3>4. CASE dbErrors' = dbErrors + 1 /\ Due(s)
      <4>1. k.checked = time /\ dbErrors' * Delay = e + Delay
        BY <2>2, <2>3, <3>1, <3>4 DEF Due
      <4>2. time - dead <= e + Delay
        BY <1>2, <2>2, <3>1, <3>2, DelayIsNat DEF Delay
      <4> QED
        BY <4>1, <4>2 DEF dead
    <3> QED
      BY <1>7, <2>3, <2>6, <3>3, <3>4
  <2> QED
    BY <1>7, <2>1, <2>3, <2>4, <2>5, <2>6, SocketMoves DEF K
<1>8. ASSUME UNCHANGED <<time, account, issued, keys, outs, req, dbErrors>>, sock' = [sock EXCEPT ![s] = Closed]
      PROVE  AuthInv'
  <2> HIDE DEF K
  <2>1. dbErrors' \in Nat /\ dbErrors <= dbErrors'
    BY <1>2, <1>8
  <2> QED
    BY <1>3, <1>8, <2>1, SocketMoves DEF K
<1>9. ASSUME SocketChecks(s) PROVE AuthInv'
  <2>1. CASE Due(s) /\ ~StillGood(sock[s].token)
    BY <1>8, <1>9, <2>1 DEF SocketChecks
  <2>2. CASE ~(Due(s) /\ ~StillGood(sock[s].token))
    <3>1. Due(s) => issued[sock[s].token].dead = -1
      BY <1>4, <1>9, <2>2, GoodIsAlive DEF SocketChecks, StillGood
    <3> QED
      BY <1>7, <1>9, <2>2, <3>1 DEF SocketChecks
  <2> QED
    BY <2>1, <2>2
<1>10. ASSUME SocketCheckFails(s) PROVE AuthInv'
  BY <1>7, <1>10 DEF SocketCheckFails
<1>11. ASSUME SocketMessage(s) PROVE AuthInv'
  <2> DEFINE k == [sock[s] EXCEPT !.pc = "top"]
  <2>1. sock[s].pc = "recv" /\ sock' = [sock EXCEPT ![s] = k] /\ dbErrors' = dbErrors
          /\ UNCHANGED <<time, account, issued, keys, outs, req>>
    BY <1>11 DEF SocketMessage
  <2>2. /\ k \in K /\ k.pc = "top" /\ k.token = sock[s].token /\ k.checked = sock[s].checked
        /\ k.since = sock[s].since
    BY <1>2
  <2> HIDE DEF k, K
  <2>3. dbErrors' \in Nat /\ dbErrors <= dbErrors'
    BY <1>2, <2>1
  <2> QED
    BY <1>4, <2>1, <2>2, <2>3, SocketMoves DEF K
<1>12. ASSUME SocketEnds(s) PROVE AuthInv'
  BY <1>8, <1>12 DEF SocketEnds
<1> QED
  BY <1>6, <1>9, <1>10, <1>11, <1>12

(* The process starts again.                                                *)
LEMMA Restarted == ASSUME AuthInv, Restarts PROVE AuthInv'
<1> DEFINE S == {t \in Tokens : t \in signedOut /\ time < issued[t].exp /\ Follows(t)}
<1>1. AuthShape
  BY DEF AuthInv
<1>2. /\ time' = time /\ user' = user /\ stamps' = stamps /\ dbErrors' = dbErrors
      /\ key' = key \/ key' = key + 1
      /\ revoked' = {} /\ prune' = NoPrune /\ signedOut' = {}
      /\ req' = [r \in Requests |-> Free] /\ sock' = [s \in Sockets |-> Closed]
  BY DEF Restarts, account
<1>3. /\ Rewritten
      /\ \A t \in Tokens : issued'[t].dead = IF t \in S THEN -1 ELSE issued[t].dead
  <2>1. issued' = [t \in Tokens |-> IF t \in S THEN [issued[t] EXCEPT !.dead = -1] ELSE issued[t]]
    BY DEF Restarts
  <2>2. -1 \in Int
    OBVIOUS
  <2> HIDE DEF S
  <2> QED
    BY <1>1, <2>1, <2>2, Resetting
<1>4. key' \in Nat /\ Free \in [pc : RequestSteps, pwd : Nat, stamp : Nat] /\ Free.pc = "idle"
      /\ Closed \in [pc : {"closed", "top", "recv"}, token : Nat, checked : Nat, since : Nat]
      /\ Closed.pc = "closed"
  BY <1>1, <1>2 DEF AuthShape, Free, RequestSteps, Closed
<1>5. AuthShape'
  BY <1>1, <1>2, <1>3, <1>4 DEF AuthShape, Rewritten, NoPrune
<1>6. StampsOrdered' /\ SureTokens'
  <2>1. \A t \in Tokens : issued[t] \in Token
    BY <1>1 DEF AuthShape, Tokens
  <2>2. \A t \in Tokens : issued[t].key \in Nat /\ key \in Nat
    BY <1>1, <2>1 DEF AuthShape, Token
  <2>3. \A t \in Tokens : issued[t].key <= key'
    BY <1>2, <2>2 DEF AuthInv, StampsOrdered
  <2> QED
    BY <1>2, <1>3, <1>4, <2>3 DEF AuthInv, StampsOrdered, SureTokens, Rewritten
<1>7. OutsRemembered' /\ SocketsChecked'
  BY <1>2, <1>4 DEF OutsRemembered, SocketsChecked
<1>8. DeadForAReason'
  <2> SUFFICES ASSUME NEW t \in Tokens, issued'[t].dead # -1 PROVE ~Decodes(t)' \/ ~Follows(t)'
    BY <1>2, <1>3 DEF DeadForAReason, Rewritten
  <2>1. t \notin S /\ issued[t].dead # -1
    BY <1>3
  <2>2. Follows(t)' <=> Follows(t)
    BY <1>2, <1>3 DEF Rewritten, Follows
  <2>3. CASE ~(time < issued[t].exp)
    BY <1>2, <1>3, <2>3 DEF Rewritten, Decodes
  <2>4. CASE time < issued[t].exp /\ Follows(t)
    <3>1. t \notin signedOut
      BY <2>1, <2>4
    <3>2. issued[t].key # key
      BY <2>1, <2>4, <3>1 DEF AuthInv, DeadForAReason, Decodes
    <3>3. issued[t].key \in Nat /\ key \in Nat /\ issued[t].key <= key
      <4>1. issued[t] \in Token
        BY <1>1 DEF AuthShape, Tokens
      <4> QED
        BY <1>1, <4>1 DEF AuthInv, AuthShape, Token, StampsOrdered
    <3>4. issued[t].key # key'
      BY <1>2, <3>2, <3>3
    <3> QED
      BY <1>3, <3>4 DEF Rewritten, Decodes
  <2> QED
    BY <2>2, <2>3, <2>4
<1> QED
  BY <1>5, <1>6, <1>7, <1>8 DEF AuthInv

(* The clock.                                                               *)
LEMMA Ticked == ASSUME AuthInv, AuthTick PROVE AuthInv'
<1> DEFINE S == {t \in Tokens : issued[t].exp = time + 1 /\ issued[t].dead = -1}
<1>1. AuthShape
  BY DEF AuthInv
<1>2. /\ time' = time + 1 /\ user' = user /\ stamps' = stamps /\ dbErrors' = dbErrors /\ key' = key
      /\ revoked' = revoked /\ prune' = prune /\ signedOut' = signedOut /\ req' = req /\ sock' = sock
  BY DEF AuthTick, account, keys, outs
<1>3. time \in Nat /\ time + 1 \in Int /\ time' \in Nat
  BY <1>1, <1>2 DEF AuthShape
<1>4. /\ Rewritten
      /\ \A t \in Tokens : issued'[t].dead = IF t \in S THEN time + 1 ELSE issued[t].dead
  <2>1. issued' = [t \in Tokens |-> IF t \in S THEN [issued[t] EXCEPT !.dead = time + 1] ELSE issued[t]]
    BY DEF AuthTick
  <2> HIDE DEF S
  <2> QED
    BY <1>1, <1>3, <2>1, Resetting
<1>5. \A t \in Tokens : issued[t].exp \in Nat
  <2>1. \A t \in Tokens : issued[t] \in Token
    BY <1>1 DEF AuthShape, Tokens
  <2> QED
    BY <2>1 DEF Token
<1>6. \A t \in Tokens : ~Decodes(t) => ~Decodes(t)'
  BY <1>2, <1>3, <1>4, <1>5 DEF Rewritten, Decodes
<1>7. AuthShape'
  BY <1>1, <1>2, <1>3, <1>4 DEF AuthShape, Rewritten, NoPrune
<1>8. StampsOrdered' /\ SureTokens'
  BY <1>2, <1>4 DEF AuthInv, StampsOrdered, SureTokens, Rewritten
<1>9. OutsRemembered'
  <2>1. \A t \in signedOut : t \in Tokens
    BY <1>1 DEF AuthShape
  <2> QED
    BY <1>2, <1>6, <2>1 DEF AuthInv, OutsRemembered, NoPrune
<1>10. DeadForAReason'
  <2> SUFFICES ASSUME NEW t \in Tokens, issued'[t].dead # -1
               PROVE t \in signedOut \/ ~Decodes(t)' \/ ~Follows(t)'
    BY <1>2, <1>4 DEF DeadForAReason, Rewritten
  <2>1. Follows(t)' <=> Follows(t)
    BY <1>2, <1>4 DEF Rewritten, Follows
  <2>2. CASE t \in S
    BY <1>2, <1>3, <1>4, <2>2 DEF Rewritten, Decodes
  <2>3. CASE t \notin S
    BY <1>4, <1>6, <2>1, <2>3 DEF AuthInv, DeadForAReason
  <2> QED
    BY <2>2, <2>3
<1>11. SocketsChecked'
  <2> SUFFICES ASSUME NEW s \in Sockets, sock[s].pc # "closed"
               PROVE  /\ sock[s].token \in Tokens
                      /\ sock[s].checked <= sock[s].since /\ sock[s].since <= time + 1
                      /\ sock[s].since - sock[s].checked < Interval
                      /\ (time + 1) - sock[s].since <= RecvTimeout
                      /\ issued'[sock[s].token].dead # -1 =>
                           sock[s].checked - issued'[sock[s].token].dead <= dbErrors * Delay
    BY <1>2, <1>4 DEF SocketsChecked, Rewritten
  <2>1. /\ sock[s].token \in Tokens
        /\ sock[s].checked <= sock[s].since /\ sock[s].since <= time
        /\ sock[s].since - sock[s].checked < Interval
        /\ issued[sock[s].token].dead # -1 =>
             sock[s].checked - issued[sock[s].token].dead <= dbErrors * Delay
    BY DEF AuthInv, SocketsChecked
  <2>2. sock[s].checked \in Nat /\ sock[s].since \in Nat /\ sock[s].pc \in {"closed", "top", "recv"}
    BY <1>1 DEF AuthShape
  <2>3. time - sock[s].since < RecvTimeout
    BY <2>2 DEF AuthTick
  <2>4. dbErrors * Delay \in Nat
    BY <1>1, OneMoreDelay DEF AuthShape
  <2>5. sock[s].checked - (time + 1) <= dbErrors * Delay
    BY <1>3, <2>1, <2>2, <2>4
  <2>6. issued'[sock[s].token].dead = time + 1 \/ issued'[sock[s].token].dead = issued[sock[s].token].dead
    BY <1>4, <2>1
  <2>7. sock[s].since <= time + 1 /\ (time + 1) - sock[s].since <= RecvTimeout
    BY <1>3, <2>1, <2>2, <2>3, DelayIsNat
  <2> QED
    BY <2>1, <2>5, <2>6, <2>7
<1> QED
  BY <1>7, <1>8, <1>9, <1>10, <1>11 DEF AuthInv

(* Every action keeps AuthInv.                                              *)
LEMMA AuthKept == AuthInv /\ [AuthNext]_authVars => AuthInv'
<1> SUFFICES ASSUME AuthInv, [AuthNext]_authVars PROVE AuthInv'
  OBVIOUS
<1>1. AuthShape
  BY DEF AuthInv
<1>2. user.pwd \in Nat /\ user.changed \in Nat /\ stamps \in Nat
  BY <1>1 DEF AuthShape
<1>3. ASSUME NEW r \in Requests, LoginVerify(r) PROVE AuthInv'
  <2> DEFINE q == [Free EXCEPT !.pc = "verified", !.pwd = user.pwd]
  <2>1. q \in [pc : RequestSteps, pwd : Nat, stamp : Nat] /\ q.pc = "verified"
    BY <1>2 DEF Free, RequestSteps
  <2>2. req' = [req EXCEPT ![r] = q] /\ stamps' = stamps
          /\ UNCHANGED <<time, user, issued, keys, outs, sock, dbErrors>>
    BY <1>3 DEF LoginVerify, account
  <2>3. stamps' \in Nat /\ stamps <= stamps' /\ q.pc # "stamped"
    BY <1>2, <2>1, <2>2
  <2> HIDE DEF q
  <2> QED
    BY <2>1, <2>2, <2>3, Requested
<1>4. ASSUME NEW r \in Requests, LoginIssue(r) PROVE AuthInv'
  <2>1. req[r].pwd \in Nat
    BY <1>1 DEF AuthShape
  <2> QED
    BY <1>4, <2>1, Signed DEF LoginIssue
<1>5. ASSUME NEW r \in Requests, NEW t \in Tokens, ChangeBegin(r, t) PROVE AuthInv'
  <2> DEFINE q == [Free EXCEPT !.pc = "checked"]
  <2>1. q \in [pc : RequestSteps, pwd : Nat, stamp : Nat] /\ q.pc = "checked"
    BY DEF Free, RequestSteps
  <2>2. req' = [req EXCEPT ![r] = q] /\ stamps' = stamps
          /\ UNCHANGED <<time, user, issued, keys, outs, sock, dbErrors>>
    BY <1>5 DEF ChangeBegin, account
  <2>3. stamps' \in Nat /\ stamps <= stamps' /\ q.pc # "stamped"
    BY <1>2, <2>1, <2>2
  <2> HIDE DEF q
  <2> QED
    BY <2>1, <2>2, <2>3, Requested
<1>6. ASSUME NEW r \in Requests, ChangeStamp(r) PROVE AuthInv'
  <2> DEFINE q == [req[r] EXCEPT !.pc = "stamped", !.stamp = stamps + 1]
  <2>1. req[r] \in [pc : RequestSteps, pwd : Nat, stamp : Nat]
    BY <1>1 DEF AuthShape
  <2>2. q \in [pc : RequestSteps, pwd : Nat, stamp : Nat] /\ q.pc = "stamped" /\ q.stamp = stamps + 1
    <3>1. stamps + 1 \in Nat
      BY <1>2
    <3> QED
      BY <2>1, <3>1 DEF RequestSteps
  <2>3. req' = [req EXCEPT ![r] = q] /\ stamps' = stamps + 1
          /\ UNCHANGED <<time, user, issued, keys, outs, sock, dbErrors>>
    BY <1>6 DEF ChangeStamp
  <2> HIDE DEF q
  <2>4. stamps' \in Nat /\ stamps <= stamps' /\ stamps < q.stamp /\ q.stamp <= stamps'
    BY <1>2, <2>2, <2>3
  <2> QED
    BY <2>2, <2>3, <2>4, Requested
<1>7. ASSUME NEW r \in Requests, ChangeCommit(r) PROVE AuthInv'
  BY <1>7, Committed
<1>8. ASSUME NEW r \in Requests, ChangeAnswer(r) PROVE AuthInv'
  <2>1. req[r].stamp \in Nat
    BY <1>1 DEF AuthShape
  <2> QED
    BY <1>8, <2>1, Signed DEF ChangeAnswer
<1>9. ASSUME NEW t \in Tokens, Logout(t) PROVE AuthInv'
  BY <1>9, LoggedOut
<1>10. CASE PruneEnds
  BY <1>10, Pruned
<1>11. ASSUME NEW s \in Sockets,
              \/ \E t \in Tokens : SocketOpens(s, t)
              \/ SocketChecks(s) \/ SocketCheckFails(s) \/ SocketMessage(s) \/ SocketEnds(s)
       PROVE  AuthInv'
  BY <1>11, SocketSteps
<1>12. CASE Restarts
  BY <1>12, Restarted
<1>13. CASE AuthTick
  BY <1>13, Ticked
<1>14. CASE UNCHANGED authVars
  BY <1>14 DEF authVars, account, keys, outs, AuthInv, AuthShape, StampsOrdered, SureTokens, OutsRemembered,
       DeadForAReason, SocketsChecked, Decodes, Follows, Tokens, NoPrune
<1> QED
  BY <1>3, <1>4, <1>5, <1>6, <1>7, <1>8, <1>9, <1>10, <1>11, <1>12, <1>13, <1>14 DEF AuthNext

LEMMA AuthInvSuffices == AuthInv => AccessEnds
<1> SUFFICES ASSUME AuthInv PROVE AccessEnds
  OBVIOUS
<1>1. AuthShape
  BY DEF AuthInv
<1>2. \A t \in Tokens : issued[t].stamp \in Nat /\ issued[t].dead \in Int
  <2>1. \A t \in Tokens : issued[t] \in Token
    BY <1>1 DEF AuthShape, Tokens
  <2> QED
    BY <2>1 DEF Token
<1>3. TokensFollowPassword
  <2> SUFFICES ASSUME NEW t \in Tokens, Follows(t), issued[t].sure PROVE issued[t].pwd = user.pwd
    BY DEF TokensFollowPassword, Accepts
  <2>1. issued[t].pwd = issued[t].stamp /\ issued[t].stamp <= user.changed /\ user.pwd = user.changed
    BY DEF AuthInv, SureTokens, StampsOrdered
  <2>2. user.changed <= issued[t].stamp /\ user.changed \in Nat
    BY <1>1 DEF Follows, AuthShape
  <2> QED
    BY <1>2, <2>1, <2>2
<1>4. SignedOutStaysOut
  BY DEF AuthInv, OutsRemembered, SignedOutStaysOut, Accepts
<1>5. SocketsFollow
  <2> SUFFICES ASSUME NEW s \in Sockets, sock[s].pc = "recv", issued[sock[s].token].dead # -1
               PROVE  time - issued[sock[s].token].dead < (1 + dbErrors) * (Interval + RecvTimeout)
    BY DEF SocketsFollow
  <2> DEFINE e == dbErrors * Delay
             dead == issued[sock[s].token].dead
  <2>1. e \in Nat /\ (1 + dbErrors) * (Interval + RecvTimeout) = e + (Interval + RecvTimeout)
    BY <1>1, OneMoreDelay DEF AuthShape, Delay
  <2>2. /\ sock[s].since - sock[s].checked < Interval /\ time - sock[s].since <= RecvTimeout
        /\ sock[s].checked - dead <= e
    BY DEF AuthInv, SocketsChecked
  <2>3. sock[s].checked \in Nat /\ sock[s].since \in Nat /\ time \in Nat /\ dead \in Int
    BY <1>1, <1>2 DEF AuthInv, AuthShape, SocketsChecked
  <2> HIDE DEF e, dead
  <2>4. time - dead < e + (Interval + RecvTimeout)
    BY <2>1, <2>2, <2>3, DelayIsNat
  <2> QED
    BY <2>1, <2>4 DEF dead
<1> QED
  BY <1>3, <1>4, <1>5 DEF AccessEnds

(* Access ends with what it rests on, for any number of requests, changes of *)
(* password, tokens and connections, and any interval: a token serves the    *)
(* password it was obtained with (middleware/auth.py), a token that was      *)
(* logged out stays out until the process restarts (services/auth.py), and   *)
(* a connection outlives its credentials by one check (realtime_auth.py      *)
(* 195-230).                                                                *)
THEOREM AccessDoesEnd == AuthSpec => []AccessEnds
<1> QED
  BY AuthStarts, AuthKept, AuthInvSuffices, PTL DEF AuthSpec

-----------------------------------------------------------------------------
(* The upgrade of the schema.                                               *)

Db == [tables : SUBSET Tables, version : 0..5, columns : SUBSET Columns, names : BOOLEAN,
       index : {"valid", "stale"}, admin : BOOLEAN]

(* What a start may find, or leave behind: a database that is being made, one *)
(* of an earlier version, one of this version, one of a version to come.    *)
Fresh(db) ==
  /\ db.names = TRUE /\ db.index = "valid"
  /\ \/ db.tables = {} /\ db.version = 0 /\ db.columns = {}
     \/ db.tables = {"product_meta"} /\ db.version \in {0, Current} /\ db.columns = {}
     \/ db.tables = {"product_meta", "content"} /\ db.version = Current /\ db.columns = Columns
Old(db) ==
  /\ db.tables = Tables /\ db.version \in Alpha /\ db.admin = TRUE
  /\ db.version # 1 => MeetingColumns \subseteq db.columns
Upgraded(db) == db.tables = Tables /\ db.version = Current /\ db.columns = Columns
Known(db) == Fresh(db) \/ Old(db) \/ Upgraded(db)
Unknown(db) == db.tables = Tables /\ db.version = 5 /\ db.columns = Columns

(* What each step of a start may count on.                                   *)
Reached(step, db, o) ==
  CASE step = "off" -> Known(db) /\ ~o
    [] step = "inspect" -> Known(db) /\ ~o /\ "product_meta" \in db.tables
    [] step = "bootstrap" -> (Fresh(db) \/ Upgraded(db)) /\ ~o
    [] step = "meetings" -> Old(db) /\ ~o
    [] step = "speakers" -> Old(db) /\ ~o /\ MeetingColumns \subseteq db.columns
    [] step = "backfill" ->
         Old(db) /\ ~o /\ MeetingColumns \cup {"identity_status"} \subseteq db.columns
    [] step = "samples" -> Old(db) /\ MeetingColumns \cup {"identity_status"} \subseteq db.columns
    [] step = "version" -> Old(db) /\ db.columns = Columns
    [] step = "script" -> (Fresh(db) \/ Upgraded(db)) /\ "product_meta" \in db.tables
    [] step = "index" -> Upgraded(db)
    [] step = "admin" -> Upgraded(db) /\ db.index = "valid"
    [] step = "up" -> Upgraded(db) /\ db.index = "valid" /\ db.admin = TRUE /\ ~o
    [] OTHER -> FALSE

(* Where the names of confirmed speakers may be missing.                    *)
NamesKept ==
  /\ view.names = FALSE => "identity_status" \notin view.columns \/ cut = TRUE \/ pc = "backfill"
  /\ disk.names = FALSE =>
       \/ "identity_status" \notin disk.columns \/ cut = TRUE \/ pc = "backfill"
       \/ open /\ view.names = TRUE

SchemaInv ==
  /\ view \in Db /\ disk \in Db /\ open \in BOOLEAN /\ cut \in BOOLEAN
  /\ ~open => view = disk
  /\ \/ origin.version \in Alpha \cup {0, Current} /\ Known(disk)
        /\ Reached(pc, view, open) /\ NamesKept
     \/ /\ origin.version = 5 /\ Unknown(view) /\ view = disk /\ ~open
        /\ pc \in {"off", "inspect", "script", "refused"}

LEMMA SchemaStarts == SchemaInit => SchemaInv
<1> SUFFICES ASSUME SchemaInit PROVE SchemaInv
  OBVIOUS
<1>1. disk \in Legacy \cup {Empty} /\ view = disk /\ origin = disk /\ pc = "off" /\ open = FALSE /\ cut = FALSE
  BY DEF SchemaInit
<1>2. CASE disk = Empty
  <2>1. disk \in Db /\ Fresh(disk) /\ disk.version = 0 /\ disk.names = TRUE
    BY <1>2 DEF Empty, Db, Fresh, Tables, Columns
  <2> QED
    BY <1>1, <2>1 DEF SchemaInv, Known, Reached, NamesKept
<1>3. CASE disk \in Legacy
  <2>1. PICK v \in 1..5, ix \in {"valid", "stale"}, cols \in SUBSET Columns :
          disk = [tables |-> Tables, version |-> v, columns |-> cols, names |-> "identity_status" \in cols,
                  index |-> ix, admin |-> TRUE]
    BY <1>3 DEF Legacy, OldDatabases
  <2>2. /\ disk.tables = Tables /\ disk.version = v /\ disk.columns = cols /\ disk.index = ix /\ disk.admin = TRUE
        /\ disk.names = ("identity_status" \in cols)
    BY <2>1
  <2>3. disk \in Db
    <3>1. ("identity_status" \in cols) \in BOOLEAN
      OBVIOUS
    <3> QED
      BY <2>1, <3>1 DEF Db
  <2>4. /\ disk.version \in {2, 3} => MeetingColumns \subseteq disk.columns
        /\ disk.version >= Current => disk.columns = Columns
    BY <1>3 DEF Legacy
  <2>5. disk.names = FALSE => "identity_status" \notin disk.columns
    BY <2>2
  <2>6. v \in Alpha => Old(disk)
    BY <2>2, <2>4 DEF Old, Alpha
  <2>7. v = Current => Upgraded(disk)
    BY <2>2, <2>4 DEF Upgraded, Current
  <2>8. v = 5 => Unknown(disk)
    BY <2>2, <2>4 DEF Unknown, Current
  <2>9. v \in Alpha \/ v = Current \/ v = 5
    BY DEF Alpha, Current
  <2> QED
    BY <1>1, <2>2, <2>3, <2>5, <2>6, <2>7, <2>8, <2>9 DEF SchemaInv, Known, Reached, NamesKept
<1> QED
  BY <1>1, <1>2, <1>3

(* A statement keeps the invariant when the database it makes is one the     *)
(* next step may count on.                                                  *)
LEMMA StatementKeeps ==
  ASSUME SchemaInv, origin.version # 5,
         NEW a, NEW b, NEW db \in Db, NEW t \in BOOLEAN, Statement(a, b, db, t), UNCHANGED cut,
         Known(db), Reached(b, db, t),
         db.names = FALSE => "identity_status" \notin db.columns \/ cut = TRUE \/ b = "backfill",
         t = TRUE => \/ disk.names = TRUE \/ "identity_status" \notin disk.columns
                    \/ cut = TRUE \/ b = "backfill" \/ db.names = TRUE
  PROVE  SchemaInv'
<1>1. /\ disk \in Db /\ open \in BOOLEAN /\ cut \in BOOLEAN
      /\ origin.version \in Alpha \cup {0, Current} /\ Known(disk) /\ NamesKept
  BY DEF SchemaInv
<1>2. /\ pc' = b /\ view' = db /\ open' = t /\ origin' = origin /\ cut' = cut
      /\ t = TRUE => disk' = disk
      /\ t = FALSE => disk' = db
  BY DEF Statement
<1>3. view' \in Db /\ disk' \in Db /\ open' \in BOOLEAN /\ cut' \in BOOLEAN /\ (~open' => view' = disk')
  BY <1>1, <1>2
<1>4. Known(disk')
  BY <1>1, <1>2
<1>5. NamesKept'
  BY <1>2 DEF NamesKept
<1> QED
  BY <1>1, <1>2, <1>3, <1>4, <1>5 DEF SchemaInv

(* The columns of the view grow.                                            *)
LEMMA AddingColumns ==
  ASSUME view \in Db, NEW cols \in SUBSET Columns
  PROVE  /\ Adding(cols) \in Db /\ Adding(cols).columns = view.columns \cup cols
         /\ Adding(cols).tables = view.tables /\ Adding(cols).version = view.version
         /\ Adding(cols).names = view.names /\ Adding(cols).index = view.index
         /\ Adding(cols).admin = view.admin
BY DEF Adding, Db

(* executescript: whatever of the schema is there, the rest is made.        *)
LEMMA ScriptKeeps == ASSUME SchemaInv, Script PROVE SchemaInv'
<1>1. view \in Db /\ disk \in Db /\ open \in BOOLEAN /\ cut \in BOOLEAN
  BY DEF SchemaInv
<1>2. UNCHANGED cut
  BY DEF Script
<1>3. PICK step \in {"bootstrap", "script"} :
       IF open THEN Statement(step, step, view, FALSE)
       ELSE IF "product_meta" \notin view.tables THEN Statement(step, step, Made("product_meta"), FALSE)
       ELSE IF view.version = 0 THEN Statement(step, step, [view EXCEPT !.version = Current], FALSE)
       ELSE IF "content" \notin view.tables THEN Statement(step, step, Made("content"), FALSE)
       ELSE IF "users" \notin view.tables THEN Statement(step, step, Made("users"), FALSE)
       ELSE Statement(step, IF view.version = Current /\ view.columns = Columns
                              THEN Following(step) ELSE "refused", view, FALSE)
  BY DEF Script, Committing
<1>4. pc = step
  BY <1>3 DEF Statement
<1>5. CASE origin.version = 5
  <2>1. Unknown(view) /\ view = disk /\ open = FALSE /\ step = "script"
    BY <1>1, <1>3, <1>4, <1>5 DEF SchemaInv, Alpha, Current
  <2>2. Statement(step, "refused", view, FALSE)
    <3>1. {"product_meta", "content", "users"} \subseteq view.tables /\ view.version = 5
      BY <2>1 DEF Unknown, Tables
    <3>2. /\ "product_meta" \in view.tables /\ "content" \in view.tables /\ "users" \in view.tables
          /\ view.version # 0 /\ view.version # Current
      BY <3>1 DEF Current
    <3> QED
      BY <1>3, <2>1, <3>2
  <2> QED
    BY <1>1, <1>2, <1>5, <2>1, <2>2 DEF SchemaInv, Statement
<1>6. CASE origin.version # 5
  <2>1. /\ Fresh(view) \/ Upgraded(view)
        /\ step = "bootstrap" => open = FALSE
        /\ step = "script" => "product_meta" \in view.tables
        /\ NamesKept
    BY <1>1, <1>3, <1>4, <1>6 DEF SchemaInv, Reached
  <2>2. view.names = FALSE => cut = TRUE
    BY <1>3, <1>4, <2>1 DEF NamesKept, Fresh, Upgraded, Columns
  <2>3. ASSUME NEW db \in Db, NEW b, Statement(step, b, db, FALSE), Known(db), Reached(b, db, FALSE),
               db.names = view.names
        PROVE  SchemaInv'
    BY <1>2, <1>6, <2>2, <2>3, StatementKeeps
  <2>4. ASSUME NEW db \in Db, Statement(step, step, db, FALSE), Fresh(db) \/ Upgraded(db),
               "product_meta" \in db.tables, db.names = view.names
        PROVE  SchemaInv'
    <3>1. Reached(step, db, FALSE) /\ Known(db)
      BY <1>3, <2>4 DEF Reached, Known
    <3> QED
      BY <2>3, <2>4, <3>1
  <2>5. CASE open
    BY <1>1, <1>3, <2>1, <2>4, <2>5
  <2>6. CASE ~open /\ "product_meta" \notin view.tables
    <3> DEFINE db == Made("product_meta")
    <3>1. /\ db \in Db /\ db.tables = view.tables \cup {"product_meta"} /\ db.version = view.version
          /\ db.columns = view.columns /\ db.names = view.names /\ db.index = view.index
      BY <1>1 DEF Made, Db, Tables
    <3> HIDE DEF db
    <3>2. view.tables = {} /\ view.version = 0 /\ view.columns = {} /\ Fresh(view)
      BY <2>1, <2>6 DEF Fresh, Upgraded, Tables
    <3>3. Fresh(db)
      BY <3>1, <3>2 DEF Fresh
    <3> QED
      BY <1>3, <2>4, <2>6, <3>1, <3>3 DEF db
  <2>7. CASE ~open /\ "product_meta" \in view.tables /\ view.version = 0
    <3> DEFINE db == [view EXCEPT !.version = Current]
    <3>1. /\ db \in Db /\ db.tables = view.tables /\ db.version = Current
          /\ db.columns = view.columns /\ db.names = view.names /\ db.index = view.index
      BY <1>1 DEF Db, Current
    <3> HIDE DEF db
    <3>2. view.tables = {"product_meta"} /\ view.columns = {} /\ Fresh(view)
      BY <2>1, <2>7 DEF Fresh, Upgraded, Current
    <3>3. Fresh(db)
      BY <3>1, <3>2 DEF Fresh
    <3> QED
      BY <1>3, <2>4, <2>7, <3>1, <3>2, <3>3 DEF db
  <2>8. CASE ~open /\ "product_meta" \in view.tables /\ view.version # 0 /\ "content" \notin view.tables
    <3> DEFINE db == Made("content")
    <3>1. /\ db \in Db /\ db.tables = view.tables \cup {"content"} /\ db.version = view.version
          /\ db.columns = Columns /\ db.names = view.names /\ db.index = view.index
      BY <1>1 DEF Made, Db, Tables
    <3> HIDE DEF db
    <3>2. view.tables = {"product_meta"} /\ view.version = Current /\ Fresh(view)
      BY <2>1, <2>8 DEF Fresh, Upgraded, Tables
    <3>3. db.tables = {"product_meta", "content"}
      BY <3>1, <3>2
    <3>4. Fresh(db)
      BY <3>1, <3>2, <3>3 DEF Fresh
    <3>5. Statement(step, step, db, FALSE)
      BY <1>3, <2>8 DEF db
    <3> QED
      BY <2>4, <3>1, <3>3, <3>4, <3>5
  <2>9. CASE /\ ~open /\ "product_meta" \in view.tables /\ view.version # 0 /\ "content" \in view.tables
             /\ "users" \notin view.tables
    <3> DEFINE db == Made("users")
    <3>1. /\ db \in Db /\ db.tables = view.tables \cup {"users"} /\ db.version = view.version
          /\ db.columns = view.columns /\ db.names = view.names /\ db.index = view.index
      BY <1>1 DEF Made, Db, Tables
    <3> HIDE DEF db
    <3>2. view.tables = {"product_meta", "content"} /\ view.version = Current /\ view.columns = Columns
      BY <2>1, <2>9 DEF Fresh, Upgraded, Tables
    <3>3. db.tables = Tables
      BY <3>1, <3>2 DEF Tables
    <3>4. Upgraded(db)
      BY <3>1, <3>2, <3>3 DEF Upgraded
    <3>5. Statement(step, step, db, FALSE)
      BY <1>3, <2>9 DEF db
    <3>6. "product_meta" \in db.tables
      BY <3>3 DEF Tables
    <3> QED
      BY <2>4, <3>1, <3>4, <3>5, <3>6
  <2>10. CASE /\ ~open /\ "product_meta" \in view.tables /\ view.version # 0 /\ "content" \in view.tables
              /\ "users" \in view.tables
    <3>1. Upgraded(view) /\ Known(view)
      BY <2>1, <2>10 DEF Fresh, Known
    <3>2. Statement(step, Following(step), view, FALSE)
      BY <1>3, <2>10, <3>1 DEF Upgraded
    <3>3. Reached(Following(step), view, FALSE)
      BY <1>3, <2>10, <3>1 DEF Following, Reached
    <3> QED
      BY <1>1, <2>3, <3>1, <3>2, <3>3
  <2> QED
    BY <2>5, <2>6, <2>7, <2>8, <2>9, <2>10
<1> QED
  BY <1>5, <1>6

(* Every statement keeps SchemaInv, and so does a start that is cut short.   *)
LEMMA SchemaKept == SchemaInv /\ [SchemaNext]_schemaVars => SchemaInv'
<1> SUFFICES ASSUME SchemaInv, [SchemaNext]_schemaVars PROVE SchemaInv'
  OBVIOUS
<1>1. view \in Db /\ disk \in Db /\ open \in BOOLEAN /\ cut \in BOOLEAN
  BY DEF SchemaInv
<1>2. origin.version # 5 => Reached(pc, view, open) /\ NamesKept /\ Known(disk)
  BY DEF SchemaInv
<1>3. origin.version = 5 => Unknown(view) /\ view = disk /\ ~open /\ pc \in {"off", "inspect", "script", "refused"}
  BY DEF SchemaInv, Alpha, Current
<1>4. CASE Open
  <2>1. /\ pc = "off" /\ view' = disk /\ open' = FALSE /\ disk' = disk /\ origin' = origin /\ cut' = cut
        /\ pc' = IF "product_meta" \in disk.tables THEN "inspect" ELSE "bootstrap"
    BY <1>4 DEF Open
  <2>2. CASE origin.version = 5
    BY <1>1, <1>3, <2>1, <2>2 DEF SchemaInv, Unknown, Tables
  <2>3. CASE origin.version # 5
    <3>1. Known(view) /\ view = disk /\ NamesKept /\ origin.version \in Alpha \cup {0, Current}
      BY <1>2, <2>1, <2>3 DEF Reached, SchemaInv
    <3>2. Reached(pc', view', open')
      <4>1. CASE "product_meta" \in disk.tables
        BY <2>1, <3>1, <4>1 DEF Reached
      <4>2. CASE "product_meta" \notin disk.tables
        <5>1. ~Old(disk)
          BY <4>2 DEF Old, Tables
        <5> QED
          BY <2>1, <3>1, <4>2, <5>1 DEF Reached, Known
      <4> QED
        BY <4>1, <4>2
    <3>3. NamesKept'
      BY <2>1, <3>1 DEF NamesKept
    <3> QED
      BY <1>1, <2>1, <3>1, <3>2, <3>3 DEF SchemaInv
  <2> QED
    BY <2>2, <2>3
<1>5. CASE Inspect
  <2> DEFINE b == IF view.version \in Alpha THEN "meetings" ELSE "script"
  <2>1. Statement("inspect", b, view, open) /\ UNCHANGED cut
    BY <1>5 DEF Inspect, DDL
  <2>2. pc = "inspect"
    BY <2>1 DEF Statement
  <2>3. CASE origin.version = 5
    <3>1. b = "script"
      BY <1>3, <2>3 DEF Unknown, Alpha
    <3> QED
      BY <1>1, <1>3, <2>1, <2>3, <3>1 DEF SchemaInv, Statement, Unknown
  <2>4. CASE origin.version # 5
    <3>1. Known(view) /\ ~open /\ "product_meta" \in view.tables
      BY <1>2, <2>2, <2>4 DEF Reached
    <3>2. Reached(b, view, open)
      <4>1. CASE view.version \in Alpha
        BY <3>1, <4>1 DEF Reached, Known, Fresh, Upgraded, Alpha, Current
      <4>2. CASE view.version \notin Alpha
        BY <3>1, <4>2 DEF Reached, Known, Old
      <4> QED
        BY <4>1, <4>2
    <3>3. view.names = FALSE => "identity_status" \notin view.columns \/ cut = TRUE
      BY <1>2, <2>2, <2>4 DEF NamesKept
    <3> HIDE DEF b
    <3> QED
      BY <1>1, <2>1, <2>4, <3>1, <3>2, <3>3, StatementKeeps
  <2> QED
    BY <2>3, <2>4
<1>6. CASE AlterMeetings
  <2>1. pc = "meetings" /\ UNCHANGED cut
    BY <1>6 DEF AlterMeetings, DDL, Statement
  <2>2. origin.version # 5 /\ Old(view) /\ ~open /\ NamesKept
    BY <1>2, <1>3, <2>1 DEF Reached
  <2>3. view.names = FALSE => "identity_status" \notin view.columns \/ cut = TRUE
    BY <2>1, <2>2 DEF NamesKept
  <2>4. ASSUME NEW c \in MeetingColumns \ view.columns, Statement("meetings", "meetings", Adding({c}), open)
        PROVE  SchemaInv'
    <3>1. c \in Columns /\ c # "identity_status"
      BY DEF Columns, MeetingColumns
    <3> DEFINE db == Adding({c})
    <3>2. /\ db \in Db /\ db.columns = view.columns \cup {c} /\ db.tables = view.tables
          /\ db.version = view.version /\ db.names = view.names /\ db.admin = view.admin
      BY <1>1, <3>1, AddingColumns
    <3> HIDE DEF db
    <3>3. Old(db)
      BY <2>2, <3>2 DEF Old
    <3>4. Reached("meetings", db, open) /\ Known(db)
      BY <2>2, <3>3 DEF Reached, Known
    <3>5. db.names = FALSE => "identity_status" \notin db.columns \/ cut = TRUE
      BY <2>3, <3>1, <3>2
    <3> QED
      BY <1>1, <2>1, <2>2, <2>4, <3>2, <3>4, <3>5, StatementKeeps DEF db
  <2>5. ASSUME view.version # 1 \/ MeetingColumns \subseteq view.columns,
               Statement("meetings", "speakers", view, open)
        PROVE  SchemaInv'
    <3>1. Reached("speakers", view, open) /\ Known(view)
      BY <2>2, <2>5 DEF Reached, Known, Old
    <3> QED
      BY <1>1, <2>1, <2>2, <2>3, <2>5, <3>1, StatementKeeps
  <2> QED
    BY <1>6, <2>4, <2>5 DEF AlterMeetings, DDL
<1>7. CASE AlterSpeakers
  <2>1. pc = "speakers" /\ UNCHANGED cut
    BY <1>7 DEF AlterSpeakers, DDL, Statement
  <2>2. origin.version # 5 /\ Old(view) /\ ~open /\ NamesKept /\ MeetingColumns \subseteq view.columns
    BY <1>2, <1>3, <2>1 DEF Reached
  <2>3. view.names = FALSE => "identity_status" \notin view.columns \/ cut = TRUE
    BY <2>1, <2>2 DEF NamesKept
  <2>4. CASE "identity_status" \in view.columns
    <3>1. Statement("speakers", "samples", view, open)
      BY <1>7, <2>4 DEF AlterSpeakers, DDL
    <3>2. Reached("samples", view, open) /\ Known(view)
      BY <2>2, <2>4 DEF Reached, Known
    <3> QED
      BY <1>1, <2>1, <2>2, <2>3, <3>1, <3>2, StatementKeeps
  <2>5. CASE "identity_status" \notin view.columns
    <3> DEFINE more == Adding({"identity_status"})
               db == [more EXCEPT !.names = FALSE]
    <3>1. Statement("speakers", "backfill", db, open)
      BY <1>7, <2>5 DEF AlterSpeakers, DDL
    <3>2. /\ more \in Db /\ more.columns = view.columns \cup {"identity_status"} /\ more.tables = view.tables
          /\ more.version = view.version /\ more.admin = view.admin
      BY <1>1, AddingColumns DEF Columns
    <3>3. /\ db \in Db /\ db.columns = view.columns \cup {"identity_status"} /\ db.tables = view.tables
          /\ db.version = view.version /\ db.admin = view.admin
      <4> HIDE DEF more
      <4> QED
        BY <3>2 DEF Db
    <3> HIDE DEF db
    <3>4. Old(db) /\ MeetingColumns \cup {"identity_status"} \subseteq db.columns
      BY <2>2, <3>3 DEF Old
    <3>5. Reached("backfill", db, open) /\ Known(db)
      BY <2>2, <3>4 DEF Reached, Known
    <3> QED
      BY <1>1, <2>1, <2>2, <3>1, <3>3, <3>5, StatementKeeps
  <2> QED
    BY <2>4, <2>5
<1>8. CASE Backfill
  <2> DEFINE db == [view EXCEPT !.names = TRUE]
  <2>1. Statement("backfill", "samples", db, TRUE) /\ UNCHANGED cut /\ pc = "backfill"
    BY <1>8 DEF Backfill, Backfilled, DML, Statement
  <2>2. origin.version # 5 /\ Old(view) /\ MeetingColumns \cup {"identity_status"} \subseteq view.columns
    BY <1>2, <1>3, <2>1 DEF Reached
  <2>3. /\ db \in Db /\ db.names = TRUE /\ db.columns = view.columns /\ db.tables = view.tables
        /\ db.version = view.version /\ db.admin = view.admin
    BY <1>1 DEF Db
  <2> HIDE DEF db
  <2>4. Reached("samples", db, TRUE) /\ Known(db)
    BY <2>2, <2>3 DEF Reached, Known, Old
  <2> QED
    BY <1>1, <2>1, <2>2, <2>3, <2>4, StatementKeeps
<1>9. CASE AlterSamples
  <2>1. pc = "samples" /\ UNCHANGED cut
    BY <1>9 DEF AlterSamples, DDL, Statement
  <2>2. /\ origin.version # 5 /\ Old(view) /\ NamesKept
        /\ MeetingColumns \cup {"identity_status"} \subseteq view.columns
    BY <1>2, <1>3, <2>1 DEF Reached
  <2>3. /\ view.names = FALSE => cut = TRUE
        /\ open = TRUE => disk.names = TRUE \/ "identity_status" \notin disk.columns \/ cut = TRUE \/ view.names = TRUE
    BY <2>1, <2>2, <1>1 DEF NamesKept, Db
  <2>4. ASSUME NEW c \in SampleColumns \ view.columns, Statement("samples", "samples", Adding({c}), open)
        PROVE  SchemaInv'
    <3>1. c \in Columns
      BY DEF Columns
    <3> DEFINE db == Adding({c})
    <3>2. /\ db \in Db /\ db.columns = view.columns \cup {c} /\ db.tables = view.tables
          /\ db.version = view.version /\ db.names = view.names /\ db.admin = view.admin
      BY <1>1, <3>1, AddingColumns
    <3> HIDE DEF db
    <3>3. Reached("samples", db, open) /\ Known(db)
      BY <2>2, <3>2 DEF Reached, Known, Old
    <3> QED
      BY <1>1, <2>1, <2>2, <2>3, <2>4, <3>2, <3>3, StatementKeeps DEF db
  <2>5. ASSUME SampleColumns \subseteq view.columns, Statement("samples", "version", view, open)
        PROVE  SchemaInv'
    <3>1. view.columns = Columns
      BY <1>1, <2>2, <2>5 DEF Columns, Db
    <3>2. Reached("version", view, open) /\ Known(view)
      BY <2>2, <3>1 DEF Reached, Known
    <3> QED
      BY <1>1, <2>1, <2>2, <2>3, <2>5, <3>2, StatementKeeps
  <2> QED
    BY <1>9, <2>4, <2>5 DEF AlterSamples, DDL
<1>10. CASE SetVersion
  <2> DEFINE db == [view EXCEPT !.version = Current]
  <2>1. Statement("version", "script", db, TRUE) /\ UNCHANGED cut /\ pc = "version"
    BY <1>10 DEF SetVersion, DML, Statement
  <2>2. origin.version # 5 /\ Old(view) /\ view.columns = Columns /\ NamesKept
    BY <1>2, <1>3, <2>1 DEF Reached
  <2>3. /\ db \in Db /\ db.names = view.names /\ db.columns = view.columns /\ db.tables = view.tables
        /\ db.version = Current
    BY <1>1 DEF Db, Current
  <2> HIDE DEF db
  <2>4. Upgraded(db) /\ "product_meta" \in db.tables
    BY <2>2, <2>3 DEF Upgraded, Old, Tables
  <2>5. Reached("script", db, TRUE) /\ Known(db)
    BY <2>4 DEF Reached, Known
  <2>6. db.names = FALSE => cut = TRUE
    BY <2>1, <2>2, <2>3 DEF NamesKept, Columns
  <2>7. db.names \in BOOLEAN
    BY <2>3 DEF Db
  <2> QED
    BY <1>1, <2>1, <2>2, <2>3, <2>5, <2>6, <2>7, StatementKeeps
<1>11. CASE Script
  BY <1>11, ScriptKeeps
<1>12. CASE RepairIndex
  <2>1. pc = "index" /\ UNCHANGED cut
    BY <1>12 DEF RepairIndex, DDL, DML, Statement
  <2>2. origin.version # 5 /\ Upgraded(view) /\ NamesKept
    BY <1>2, <1>3, <2>1 DEF Reached
  <2>3. /\ view.names = FALSE => cut = TRUE
        /\ open = TRUE => disk.names = TRUE \/ "identity_status" \notin disk.columns \/ cut = TRUE \/ view.names = TRUE
    BY <2>1, <2>2, <1>1 DEF NamesKept, Db, Upgraded, Columns
  <2>4. CASE view.index = "valid"
    <3>1. Statement("index", "admin", view, open)
      BY <1>12, <2>4 DEF RepairIndex, DDL
    <3>2. Reached("admin", view, open) /\ Known(view)
      BY <2>2, <2>4 DEF Reached, Known
    <3> QED
      BY <1>1, <2>1, <2>2, <2>3, <3>1, <3>2, StatementKeeps
  <2>5. CASE view.index # "valid"
    <3> DEFINE db == [view EXCEPT !.index = "valid"]
    <3>1. Statement("index", "admin", db, TRUE)
      BY <1>12, <2>5 DEF RepairIndex, DML
    <3>2. /\ db \in Db /\ db.names = view.names /\ db.columns = view.columns /\ db.tables = view.tables
          /\ db.version = view.version /\ db.index = "valid"
      BY <1>1 DEF Db
    <3> HIDE DEF db
    <3>3. Reached("admin", db, TRUE) /\ Known(db) /\ db.names \in BOOLEAN
      BY <2>2, <3>2 DEF Reached, Known, Upgraded, Db
    <3> QED
      BY <1>1, <2>1, <2>2, <2>3, <3>1, <3>2, <3>3, StatementKeeps
  <2> QED
    BY <2>4, <2>5
<1>13. CASE EnsureAdmin
  <2> DEFINE db == [view EXCEPT !.admin = TRUE]
  <2>1. Statement("admin", "up", db, FALSE) /\ UNCHANGED cut /\ pc = "admin"
    BY <1>13 DEF EnsureAdmin, Committing, Statement
  <2>2. origin.version # 5 /\ Upgraded(view) /\ view.index = "valid" /\ NamesKept
    BY <1>2, <1>3, <2>1 DEF Reached
  <2>3. /\ db \in Db /\ db.names = view.names /\ db.columns = view.columns /\ db.tables = view.tables
        /\ db.version = view.version /\ db.index = view.index /\ db.admin = TRUE
    BY <1>1 DEF Db
  <2> HIDE DEF db
  <2>4. Reached("up", db, FALSE) /\ Known(db)
    BY <2>2, <2>3 DEF Reached, Known, Upgraded
  <2>5. db.names = FALSE => cut = TRUE
    BY <2>1, <2>2, <2>3 DEF NamesKept, Upgraded, Columns
  <2> QED
    BY <1>1, <2>1, <2>2, <2>3, <2>4, <2>5, StatementKeeps
<1>14. CASE Stop
  <2>1. /\ pc' = "off" /\ open' = FALSE /\ view' = disk /\ disk' = disk /\ origin' = origin
        /\ cut' = (cut \/ (~disk.names /\ "identity_status" \in disk.columns))
    BY <1>14 DEF Stop
  <2>2. disk.names \in BOOLEAN /\ cut' \in BOOLEAN
    BY <1>1, <2>1 DEF Db
  <2>3. CASE origin.version = 5
    BY <1>1, <1>3, <2>1, <2>2, <2>3 DEF SchemaInv
  <2>4. CASE origin.version # 5
    <3>1. Reached(pc', view', open')
      BY <1>2, <2>1, <2>4 DEF Reached
    <3>2. NamesKept'
      BY <2>1, <2>2 DEF NamesKept
    <3> QED
      BY <1>1, <1>2, <2>1, <2>2, <2>4, <3>1, <3>2 DEF SchemaInv
  <2> QED
    BY <2>3, <2>4
<1>15. CASE UNCHANGED schemaVars
  BY <1>15 DEF schemaVars, SchemaInv, NamesKept
<1> QED
  BY <1>4, <1>5, <1>6, <1>7, <1>8, <1>9, <1>10, <1>11, <1>12, <1>13, <1>14, <1>15 DEF SchemaNext

LEMMA SchemaInvSuffices == SchemaInv => UpgradesComplete
<1> SUFFICES ASSUME SchemaInv PROVE UpgradesComplete
  OBVIOUS
<1>1. CASE origin.version = 5
  BY <1>1 DEF SchemaInv, UpgradesComplete, OnlyUnknownRefused, UpMeansUpgraded, Alpha, Current
<1>2. CASE origin.version # 5
  <2>1. Reached(pc, view, open) /\ NamesKept /\ view \in Db /\ cut \in BOOLEAN /\ (~open => view = disk)
    BY <1>2 DEF SchemaInv
  <2>2. pc # "refused"
    BY <2>1 DEF Reached
  <2>3. ASSUME pc = "up" PROVE Upgraded(disk) /\ disk.index = "valid" /\ disk.admin /\ (disk.names \/ cut)
    <3>1. Upgraded(view) /\ view.index = "valid" /\ view.admin = TRUE /\ view = disk
      BY <2>1, <2>3 DEF Reached
    <3>2. "identity_status" \in view.columns
      BY <3>1 DEF Upgraded, Columns
    <3>3. view.names \in BOOLEAN
      BY <2>1 DEF Db
    <3>4. view.names = TRUE \/ cut = TRUE
      BY <2>1, <2>3, <3>2, <3>3 DEF NamesKept
    <3> QED
      BY <3>1, <3>4
  <2> QED
    BY <2>2, <2>3 DEF UpgradesComplete, OnlyUnknownRefused, UpMeansUpgraded, Upgraded
<1> QED
  BY <1>1, <1>2

(* However many starts are cut short, and wherever: a start refuses only a   *)
(* database of a version to come, and a server that is up has the whole      *)
(* schema (init_schema, repositories/database.py 185-330).                  *)
THEOREM UpgradeCompletes == SchemaSpec => []UpgradesComplete
<1> QED
  BY SchemaStarts, SchemaKept, SchemaInvSuffices, PTL DEF SchemaSpec

-----------------------------------------------------------------------------
(* Speakers of a session: labels and counts.                                *)

TimesSaid(h, c) == Cardinality({u \in DOMAIN h : h[u] = c})
Waiting(n) == [id : 1..(n - 1), count : Nat \ {0}]

(* The clusters cl and the pending speakers pe account for the labels h,     *)
(* when n is the next identifier.                                           *)
Accounts(cl, pe, h, n) ==
  /\ n \in Nat \ {0}
  /\ cl = [c \in DOMAIN cl |-> cl[c]] /\ DOMAIN cl \subseteq 1..(n - 1)
  /\ \A c \in DOMAIN cl : cl[c] \in Nat \ {0}
  /\ pe \in Seq(Waiting(n)) /\ h \in Seq(1..(n - 1))
  /\ \A u \in 1..Len(h) : h[u] \in DOMAIN cl \/ \E i \in 1..Len(pe) : pe[i].id = h[u]
  /\ \A i \in 1..Len(pe) : pe[i].id \notin DOMAIN cl
  /\ \A i, j \in 1..Len(pe) : pe[i].id = pe[j].id => i = j
  /\ \A c \in DOMAIN cl : cl[c] = TimesSaid(h, c)
  /\ \A i \in 1..Len(pe) : pe[i].count = TimesSaid(h, pe[i].id)

ClusterInv == Accounts(clusters, pending, said, nextId)

(* One more utterance counts for its own label and no other.                *)
LEMMA OneMoreSaid ==
  ASSUME NEW n \in Nat \ {0}, NEW h \in Seq(1..(n - 1)), NEW c \in Nat
  PROVE  /\ \A d : d # c => TimesSaid(Append(h, c), d) = TimesSaid(h, d)
         /\ TimesSaid(Append(h, c), c) = TimesSaid(h, c) + 1
         /\ \A d : TimesSaid(h, d) \in Nat
         /\ TimesSaid(h, n) = 0
<1>1. /\ Len(h) \in Nat /\ DOMAIN h = 1..Len(h) /\ \A u \in 1..Len(h) : h[u] \in 1..(n - 1)
      /\ DOMAIN Append(h, c) = 1..(Len(h) + 1) /\ Append(h, c)[Len(h) + 1] = c
      /\ \A u \in 1..Len(h) : Append(h, c)[u] = h[u]
  <2>1. h \in Seq(Nat)
    <3>1. 1..(n - 1) \subseteq Nat
      OBVIOUS
    <3> QED
      BY <3>1
  <2> QED
    BY <2>1
<1> DEFINE at(d) == {u \in DOMAIN h : h[u] = d}
           later(d) == {u \in DOMAIN Append(h, c) : Append(h, c)[u] = d}
<1>2. \A d : IsFiniteSet(at(d)) /\ Cardinality(at(d)) \in Nat
  <2>1. \A d : at(d) \in SUBSET (1..Len(h))
    BY <1>1
  <2>2. IsFiniteSet(1..Len(h))
    BY <1>1, FS_Interval
  <2> HIDE DEF at
  <2>3. \A d : IsFiniteSet(at(d))
    BY <2>1, <2>2, FS_Subset
  <2> QED
    BY <2>3, FS_CardinalityType
<1>3. ASSUME NEW d, d # c PROVE later(d) = at(d)
  BY <1>1, <1>3
<1>4. later(c) = at(c) \cup {Len(h) + 1}
  BY <1>1
<1>5. Len(h) + 1 \notin at(c)
  BY <1>1
<1>6. at(n) = {}
  BY <1>1
<1>7. Cardinality(later(c)) = Cardinality(at(c)) + 1
  <2> HIDE DEF at, later
  <2> QED
    BY <1>2, <1>4, <1>5, FS_AddElement
<1>8. Cardinality(at(n)) = 0
  BY <1>6, FS_EmptySet
<1> QED
  BY <1>2, <1>3, <1>7, <1>8 DEF TimesSaid

(* A cluster hears one utterance more.                                      *)
LEMMA ClusterHears ==
  ASSUME NEW cl, NEW pe, NEW h, NEW n, Accounts(cl, pe, h, n), NEW c \in DOMAIN cl
  PROVE  Accounts([cl EXCEPT ![c] = @ + 1], pe, Append(h, c), n)
<1> DEFINE dl == [cl EXCEPT ![c] = @ + 1]
           g == Append(h, c)
<1>0. n \in Nat \ {0} /\ h \in Seq(1..(n - 1)) /\ c \in 1..(n - 1) /\ c \in Nat
  BY DEF Accounts
<1>1. /\ g \in Seq(1..(n - 1)) /\ Len(g) = Len(h) + 1 /\ Len(h) \in Nat
      /\ \A u \in 1..Len(h) : g[u] = h[u]
      /\ g[Len(h) + 1] = c
  BY <1>0
<1>2. /\ \A d : d # c => TimesSaid(g, d) = TimesSaid(h, d)
      /\ TimesSaid(g, c) = TimesSaid(h, c) + 1
  BY <1>0, OneMoreSaid
<1> HIDE DEF g
<1>3. DOMAIN dl = DOMAIN cl /\ dl = [d \in DOMAIN dl |-> dl[d]]
      /\ \A d \in DOMAIN cl : dl[d] = IF d = c THEN cl[c] + 1 ELSE cl[d]
  BY DEF Accounts
<1> HIDE DEF dl
<1>4. ASSUME NEW u \in 1..Len(g) PROVE g[u] \in DOMAIN dl \/ \E i \in 1..Len(pe) : pe[i].id = g[u]
  <2>1. CASE u = Len(h) + 1
    BY <1>1, <1>3, <2>1
  <2>2. CASE u # Len(h) + 1
    <3>1. u \in 1..Len(h) /\ g[u] = h[u]
      BY <1>1, <2>2
    <3> QED
      BY <1>3, <3>1 DEF Accounts
  <2> QED
    BY <2>1, <2>2
<1>5. ASSUME NEW d \in DOMAIN dl PROVE dl[d] \in Nat \ {0} /\ dl[d] = TimesSaid(g, d)
  <2>1. cl[d] \in Nat \ {0} /\ cl[d] = TimesSaid(h, d)
    BY <1>3 DEF Accounts
  <2> QED
    BY <1>2, <1>3, <2>1
<1>6. \A i \in 1..Len(pe) : pe[i].count = TimesSaid(g, pe[i].id)
  BY <1>2 DEF Accounts
<1> QED
  BY <1>1, <1>3, <1>4, <1>5, <1>6 DEF Accounts, dl, g

(* A pending speaker hears one utterance more.                              *)
LEMMA PendingHears ==
  ASSUME NEW cl, NEW pe, NEW h, NEW n, Accounts(cl, pe, h, n), NEW k \in 1..Len(pe)
  PROVE  Accounts(cl, [pe EXCEPT ![k] = [pe[k] EXCEPT !.count = @ + 1]], Append(h, pe[k].id), n)
<1> DEFINE p == [pe[k] EXCEPT !.count = @ + 1]
           qe == [pe EXCEPT ![k] = p]
           c == pe[k].id
           g == Append(h, c)
<1>0. n \in Nat \ {0} /\ h \in Seq(1..(n - 1)) /\ pe \in Seq(Waiting(n)) /\ Len(pe) \in Nat
  BY DEF Accounts
<1>1. pe[k] \in Waiting(n) /\ \A i \in 1..Len(pe) : pe[i] \in Waiting(n)
  BY <1>0
<1>2. c \in 1..(n - 1) /\ p \in Waiting(n) /\ p.id = c /\ p.count = pe[k].count + 1
  BY <1>1 DEF Waiting
<1>3. /\ g \in Seq(1..(n - 1)) /\ Len(g) = Len(h) + 1 /\ Len(h) \in Nat
      /\ \A u \in 1..Len(h) : g[u] = h[u]
      /\ g[Len(h) + 1] = c
  BY <1>0, <1>2
<1>4. /\ \A d : d # c => TimesSaid(g, d) = TimesSaid(h, d)
      /\ TimesSaid(g, c) = TimesSaid(h, c) + 1
  BY <1>0, <1>2, OneMoreSaid
<1> HIDE DEF g, p
<1>5. /\ qe \in Seq(Waiting(n)) /\ Len(qe) = Len(pe)
      /\ \A i \in 1..Len(pe) : qe[i] = IF i = k THEN p ELSE pe[i]
  BY <1>0, <1>2
<1> HIDE DEF qe
<1>6. \A i \in 1..Len(pe) : qe[i].id = pe[i].id
  BY <1>2, <1>5
<1>7. ASSUME NEW u \in 1..Len(g) PROVE g[u] \in DOMAIN cl \/ \E i \in 1..Len(qe) : qe[i].id = g[u]
  <2>1. CASE u = Len(h) + 1
    BY <1>3, <1>5, <1>6, <2>1
  <2>2. CASE u # Len(h) + 1
    <3>1. u \in 1..Len(h) /\ g[u] = h[u]
      BY <1>3, <2>2
    <3> QED
      BY <1>5, <1>6, <3>1 DEF Accounts
  <2> QED
    BY <2>1, <2>2
<1>8. \A d \in DOMAIN cl : cl[d] = TimesSaid(g, d)
  BY <1>4 DEF Accounts
<1>9. ASSUME NEW i \in 1..Len(qe) PROVE qe[i].count = TimesSaid(g, qe[i].id)
  <2>1. CASE i = k
    BY <1>2, <1>4, <1>5, <2>1 DEF Accounts
  <2>2. CASE i # k
    BY <1>4, <1>5, <2>2 DEF Accounts
  <2> QED
    BY <2>1, <2>2
<1>10. /\ \A i \in 1..Len(qe) : qe[i].id \notin DOMAIN cl
       /\ \A i, j \in 1..Len(qe) : qe[i].id = qe[j].id => i = j
  BY <1>5, <1>6 DEF Accounts
<1> QED
  BY <1>3, <1>5, <1>7, <1>8, <1>9, <1>10 DEF Accounts, qe, g, p

(* A new label waits.                                                       *)
LEMMA NewWaits ==
  ASSUME NEW cl, NEW pe, NEW h, NEW n, Accounts(cl, pe, h, n)
  PROVE  Accounts(cl, Append(pe, [id |-> n, count |-> 1]), Append(h, n), n + 1)
<1> DEFINE p == [id |-> n, count |-> 1]
           qe == Append(pe, p)
           g == Append(h, n)
<1>0. n \in Nat \ {0} /\ h \in Seq(1..(n - 1)) /\ pe \in Seq(Waiting(n)) /\ Len(pe) \in Nat
  BY DEF Accounts
<1>1. Waiting(n) \subseteq Waiting(n + 1) /\ p \in Waiting(n + 1) /\ p.id = n /\ p.count = 1
      /\ 1..(n - 1) \subseteq 1..(n + 1 - 1) /\ n \in 1..(n + 1 - 1) /\ n + 1 \in Nat \ {0}
  BY <1>0 DEF Waiting
<1>2. /\ h \in Seq(1..(n + 1 - 1)) /\ pe \in Seq(Waiting(n + 1))
      /\ \A i \in 1..Len(pe) : pe[i] \in Waiting(n)
      /\ \A u \in 1..Len(h) : h[u] \in 1..(n - 1)
  BY <1>0, <1>1
<1>3. /\ g \in Seq(1..(n + 1 - 1)) /\ Len(g) = Len(h) + 1 /\ Len(h) \in Nat
      /\ \A u \in 1..Len(h) : g[u] = h[u]
      /\ g[Len(h) + 1] = n
  BY <1>1, <1>2
<1>4. /\ \A d : d # n => TimesSaid(g, d) = TimesSaid(h, d)
      /\ TimesSaid(g, n) = 1
  <2>1. n \in Nat /\ TimesSaid(h, n) = 0
    BY <1>0, OneMoreSaid
  <2> QED
    BY <1>0, <2>1, OneMoreSaid
<1> HIDE DEF g, p
<1>5. /\ qe \in Seq(Waiting(n + 1)) /\ Len(qe) = Len(pe) + 1
      /\ \A i \in 1..Len(pe) : qe[i] = pe[i]
      /\ qe[Len(pe) + 1] = p
  BY <1>0, <1>1, <1>2
<1> HIDE DEF qe
<1>6. \A i \in 1..Len(pe) : pe[i].id \in 1..(n - 1) /\ pe[i].id # n
  BY <1>0, <1>2 DEF Waiting
<1>7. DOMAIN cl \subseteq 1..(n - 1) /\ n \notin DOMAIN cl
  BY <1>0 DEF Accounts
<1>8. ASSUME NEW u \in 1..Len(g) PROVE g[u] \in DOMAIN cl \/ \E i \in 1..Len(qe) : qe[i].id = g[u]
  <2>1. CASE u = Len(h) + 1
    BY <1>0, <1>1, <1>3, <1>5, <2>1
  <2>2. CASE u # Len(h) + 1
    <3>1. u \in 1..Len(h) /\ g[u] = h[u]
      BY <1>3, <2>2
    <3>2. ASSUME NEW i \in 1..Len(pe), pe[i].id = h[u] PROVE i \in 1..Len(qe) /\ qe[i].id = g[u]
      BY <1>0, <1>5, <3>1, <3>2
    <3> QED
      BY <3>1, <3>2 DEF Accounts
  <2> QED
    BY <2>1, <2>2
<1>9. \A d \in DOMAIN cl : cl[d] = TimesSaid(g, d)
  BY <1>4, <1>7 DEF Accounts
<1>10. ASSUME NEW i \in 1..Len(qe) PROVE qe[i].count = TimesSaid(g, qe[i].id) /\ qe[i].id \notin DOMAIN cl
  <2>1. CASE i = Len(pe) + 1
    BY <1>1, <1>4, <1>5, <1>7, <2>1
  <2>2. CASE i # Len(pe) + 1
    <3>1. i \in 1..Len(pe) /\ qe[i] = pe[i]
      BY <1>0, <1>5, <2>2
    <3> QED
      BY <1>4, <1>6, <3>1 DEF Accounts
  <2> QED
    BY <2>1, <2>2
<1>11. ASSUME NEW i \in 1..Len(qe), NEW j \in 1..Len(qe), qe[i].id = qe[j].id PROVE i = j
  <2>1. \A k \in 1..Len(qe) : k = Len(pe) + 1 \/ (k \in 1..Len(pe) /\ qe[k] = pe[k])
    BY <1>0, <1>5
  <2> QED
    BY <1>1, <1>5, <1>6, <1>11, <2>1 DEF Accounts
<1> QED
  <2>1. DOMAIN cl \subseteq 1..(n + 1 - 1)
    BY <1>1, <1>7
  <2>2. cl = [c \in DOMAIN cl |-> cl[c]] /\ \A c \in DOMAIN cl : cl[c] \in Nat \ {0}
    BY DEF Accounts
  <2>3. Accounts(cl, qe, g, n + 1)
    BY <1>1, <1>3, <1>5, <1>8, <1>9, <1>10, <1>11, <2>1, <2>2 DEF Accounts
  <2> QED
    BY <2>3 DEF qe, g, p

(* A new label is a cluster at once.                                        *)
LEMMA NewJoins ==
  ASSUME NEW cl, NEW pe, NEW h, NEW n, Accounts(cl, pe, h, n)
  PROVE  Accounts([x \in DOMAIN cl \cup {n} |-> IF x = n THEN 1 ELSE cl[x]], pe, Append(h, n), n + 1)
<1> DEFINE dl == [x \in DOMAIN cl \cup {n} |-> IF x = n THEN 1 ELSE cl[x]]
           g == Append(h, n)
<1>0. n \in Nat \ {0} /\ h \in Seq(1..(n - 1)) /\ pe \in Seq(Waiting(n)) /\ Len(pe) \in Nat
  BY DEF Accounts
<1>1. Waiting(n) \subseteq Waiting(n + 1) /\ n \in 1..(n + 1 - 1) /\ n + 1 \in Nat \ {0}
      /\ 1..(n - 1) \subseteq 1..(n + 1 - 1)
  BY <1>0 DEF Waiting
<1>2. /\ h \in Seq(1..(n + 1 - 1)) /\ pe \in Seq(Waiting(n + 1))
      /\ \A i \in 1..Len(pe) : pe[i] \in Waiting(n)
  BY <1>0, <1>1
<1>3. /\ g \in Seq(1..(n + 1 - 1)) /\ Len(g) = Len(h) + 1 /\ Len(h) \in Nat
      /\ \A u \in 1..Len(h) : g[u] = h[u]
      /\ g[Len(h) + 1] = n
  BY <1>1, <1>2
<1>4. /\ \A d : d # n => TimesSaid(g, d) = TimesSaid(h, d)
      /\ TimesSaid(g, n) = 1
  <2>1. n \in Nat /\ TimesSaid(h, n) = 0
    BY <1>0, OneMoreSaid
  <2> QED
    BY <1>0, <2>1, OneMoreSaid
<1> HIDE DEF g
<1>5. /\ DOMAIN dl = DOMAIN cl \cup {n} /\ dl = [c \in DOMAIN dl |-> dl[c]]
      /\ dl[n] = 1 /\ \A c \in DOMAIN cl : c # n => dl[c] = cl[c]
  OBVIOUS
<1> HIDE DEF dl
<1>6. \A i \in 1..Len(pe) : pe[i].id \in 1..(n - 1) /\ pe[i].id # n
  BY <1>0, <1>2 DEF Waiting
<1>7. DOMAIN cl \subseteq 1..(n - 1) /\ n \notin DOMAIN cl
  BY <1>0 DEF Accounts
<1>8. ASSUME NEW u \in 1..Len(g) PROVE g[u] \in DOMAIN dl \/ \E i \in 1..Len(pe) : pe[i].id = g[u]
  <2>1. CASE u = Len(h) + 1
    BY <1>3, <1>5, <2>1
  <2>2. CASE u # Len(h) + 1
    <3>1. u \in 1..Len(h) /\ g[u] = h[u]
      BY <1>3, <2>2
    <3> QED
      BY <1>5, <3>1 DEF Accounts
  <2> QED
    BY <2>1, <2>2
<1>9. ASSUME NEW d \in DOMAIN dl PROVE dl[d] = TimesSaid(g, d) /\ dl[d] \in Nat \ {0}
  <2>1. CASE d = n
    BY <1>4, <1>5, <2>1
  <2>2. CASE d # n
    BY <1>4, <1>5, <2>2 DEF Accounts
  <2> QED
    BY <2>1, <2>2
<1>10. \A i \in 1..Len(pe) : pe[i].id \notin DOMAIN dl /\ pe[i].count = TimesSaid(g, pe[i].id)
  BY <1>4, <1>5, <1>6 DEF Accounts
<1>11. DOMAIN dl \subseteq 1..(n + 1 - 1)
  BY <1>1, <1>5, <1>7
<1>12. \A i, j \in 1..Len(pe) : pe[i].id = pe[j].id => i = j
  BY DEF Accounts
<1>13. Accounts(dl, pe, g, n + 1)
  BY <1>1, <1>2, <1>3, <1>5, <1>8, <1>9, <1>10, <1>11, <1>12 DEF Accounts
<1> QED
  BY <1>13 DEF dl, g

(* What is left of a sequence without its k-th element, and a function with  *)
(* one more value.                                                          *)
Without(qe, pe, k) ==
  /\ Len(qe) = Len(pe) - 1
  /\ \A j \in 1..(Len(pe) - 1) : qe[j] = IF j < k THEN pe[j] ELSE pe[j + 1]
Gains(dl, cl, c, v) ==
  /\ dl = [x \in DOMAIN dl |-> dl[x]] /\ DOMAIN dl = DOMAIN cl \cup {c}
  /\ dl[c] = v /\ \A d \in DOMAIN cl : d # c => dl[d] = cl[d]

(* A pending speaker becomes a cluster.                                     *)
LEMMA PendingJoins ==
  ASSUME NEW cl, NEW pe, NEW h, NEW n, Accounts(cl, pe, h, n), NEW k \in 1..Len(pe),
         NEW qe \in Seq(Waiting(n)), Without(qe, pe, k),
         NEW dl, Gains(dl, cl, pe[k].id, pe[k].count)
  PROVE  Accounts(dl, qe, h, n)
<1> DEFINE c == pe[k].id
<1>0. n \in Nat \ {0} /\ pe \in Seq(Waiting(n)) /\ Len(pe) \in Nat
  BY DEF Accounts
<1>1. /\ \A i \in 1..Len(pe) : pe[i] \in Waiting(n)
      /\ c \in 1..(n - 1) /\ pe[k].count \in Nat \ {0}
  <2>1. \A i \in 1..Len(pe) : pe[i] \in Waiting(n)
    BY <1>0
  <2> QED
    BY <2>1 DEF Waiting
<1>2. \A i \in 1..Len(pe) : i # k => pe[i].id # c
  BY DEF Accounts
<1>3. /\ DOMAIN dl = DOMAIN cl \cup {c} /\ dl = [d \in DOMAIN dl |-> dl[d]]
      /\ dl[c] = pe[k].count /\ \A d \in DOMAIN cl : d # c => dl[d] = cl[d]
  BY DEF Gains
<1> USE DEF Without
<1>4. ASSUME NEW j \in 1..Len(qe)
      PROVE  \E i \in 1..Len(pe) : i # k /\ qe[j] = pe[i] /\ i = IF j < k THEN j ELSE j + 1
  <2>1. CASE j < k
    BY <1>0, <2>1
  <2>2. CASE ~ (j < k)
    <3>1. j + 1 \in 1..Len(pe) /\ j + 1 # k /\ qe[j] = pe[j + 1]
      BY <1>0, <2>2
    <3> QED
      BY <2>2, <3>1
  <2> QED
    BY <2>1, <2>2
<1>5. ASSUME NEW i \in 1..Len(pe), i # k PROVE \E j \in 1..Len(qe) : qe[j] = pe[i]
  <2>1. CASE i < k
    <3>1. i \in 1..Len(qe) /\ qe[i] = pe[i]
      BY <1>0, <2>1
    <3> QED
      BY <3>1
  <2>2. CASE ~ (i < k)
    <3>1. i - 1 \in 1..Len(qe) /\ ~ (i - 1 < k) /\ (i - 1) + 1 = i
      BY <1>0, <1>5, <2>2
    <3>2. qe[i - 1] = pe[i]
      BY <1>0, <3>1
    <3> QED
      BY <3>1, <3>2
  <2> QED
    BY <2>1, <2>2
<1>6. ASSUME NEW u \in 1..Len(h) PROVE h[u] \in DOMAIN dl \/ \E j \in 1..Len(qe) : qe[j].id = h[u]
  <2>1. CASE h[u] \in DOMAIN cl
    BY <1>3, <2>1
  <2>2. CASE \E i \in 1..Len(pe) : pe[i].id = h[u]
    <3>1. PICK i \in 1..Len(pe) : pe[i].id = h[u]
      BY <2>2
    <3>2. CASE i = k
      BY <1>3, <3>1, <3>2
    <3>3. CASE i # k
      BY <1>5, <3>1, <3>3
    <3> QED
      BY <3>2, <3>3
  <2> QED
    BY <2>1, <2>2 DEF Accounts
<1>7. \A j \in 1..Len(qe) : qe[j].id \notin DOMAIN dl /\ qe[j].count = TimesSaid(h, qe[j].id)
  BY <1>2, <1>3, <1>4 DEF Accounts
<1>8. ASSUME NEW i \in 1..Len(qe), NEW j \in 1..Len(qe), qe[i].id = qe[j].id PROVE i = j
  <2>1. PICK x \in 1..Len(pe) : qe[i] = pe[x] /\ x = IF i < k THEN i ELSE i + 1
    BY <1>4
  <2>2. PICK y \in 1..Len(pe) : qe[j] = pe[y] /\ y = IF j < k THEN j ELSE j + 1
    BY <1>4
  <2>3. pe[x].id = pe[y].id
    BY <1>8, <2>1, <2>2
  <2>4. x = y
    BY <2>3 DEF Accounts
  <2> QED
    BY <1>0, <2>1, <2>2, <2>4
<1>9. ASSUME NEW d \in DOMAIN dl PROVE dl[d] = TimesSaid(h, d) /\ dl[d] \in Nat \ {0}
  <2>1. CASE d = c
    BY <1>1, <1>3, <2>1 DEF Accounts
  <2>2. CASE d # c
    BY <1>3, <2>2 DEF Accounts
  <2> QED
    BY <2>1, <2>2
<1>10. DOMAIN dl \subseteq 1..(n - 1) /\ h \in Seq(1..(n - 1))
  BY <1>1, <1>3 DEF Accounts
<1> QED
  BY <1>0, <1>3, <1>6, <1>7, <1>8, <1>9, <1>10 DEF Accounts

LEMMA LeastExists ==
  ASSUME NEW X, X \subseteq Nat, X # {}
  PROVE  \E x \in X : \A y \in X : x <= y
<1>1. PICK x \in X : \A y \in X : ~ (<<y, x>> \in OpToRel(<, Nat))
  BY WFMin, NatLessThanWellFounded
<1>2. ASSUME NEW y \in X PROVE x <= y
  <2>1. y \in Nat /\ x \in Nat
    OBVIOUS
  <2>2. ~ (<<y, x>> \in {ss \in Nat \X Nat : ss[1] < ss[2]})
    BY <1>1 DEF OpToRel
  <2>3. ~ (y < x)
    BY <2>1, <2>2
  <2> QED
    BY <2>1, <2>3
<1> QED
  BY <1>2

(* What a query finds are clusters, at least one where there is any.        *)
LEMMA QueryFinds ==
  ASSUME ClusterInv, ClusterIds # {}, NEW q \in Results
  PROVE  /\ DOMAIN q.ids \subseteq Nat /\ 1 \in DOMAIN q.ids
         /\ \A i \in DOMAIN q.ids : q.ids[i] \in ClusterIds
<1> DEFINE k == Cardinality(ClusterIds)
           n == Min({3, k})
<1>1. k \in Nat /\ k # 0
  <2>1. nextId - 1 \in Int /\ ClusterIds \in SUBSET (1..(nextId - 1))
    BY DEF ClusterInv, Accounts, ClusterIds
  <2>2. IsFiniteSet(1..(nextId - 1))
    BY <2>1, FS_Interval
  <2>3. IsFiniteSet(ClusterIds)
    BY <2>1, <2>2, FS_Subset
  <2> QED
    BY <2>3, FS_CardinalityType, FS_EmptySet
<1> HIDE DEF k
<1>2. n \in {3, k}
  <2>1. \E x \in {3, k} : \A y \in {3, k} : x <= y
    BY <1>1
  <2> QED
    BY <2>1 DEF Min
<1>3. n \in Nat /\ 1 <= n
  BY <1>1, <1>2
<1>4. q.ids \in [1..n -> ClusterIds]
  BY DEF Results, k
<1> HIDE DEF n
<1> QED
  BY <1>3, <1>4

LEMMA MatchJoins ==
  ASSUME ClusterInv, NEW c \in ClusterIds, Joins(c)
  PROVE  ClusterInv'
<1>1. clusters' = [clusters EXCEPT ![c] = @ + 1] /\ UNCHANGED <<pending, nextId>> /\ said' = Append(said, c)
  BY DEF Joins, Answer, Bump
<1> QED
  BY <1>1, ClusterHears DEF ClusterInv, ClusterIds

LEMMA NewKept ==
  ASSUME ClusterInv, NEW class, NewSpeaker(class)
  PROVE  ClusterInv'
<1>1. said' = Append(said, nextId) /\ nextId' = nextId + 1
  BY DEF NewSpeaker, Answer
<1> DEFINE all == Append(pending, [id |-> nextId, count |-> 1])
<1>2. Accounts(clusters, all, said', nextId')
  BY <1>1, NewWaits DEF ClusterInv
<1>3. CASE flavor = "camplus" /\ class = "short"
  <2>1. CASE Len(all) > PendingLimit
    <3>1. /\ clusters' = [x \in DOMAIN clusters \cup {all[1].id} |-> IF x = all[1].id THEN all[1].count ELSE clusters[x]]
          /\ pending' = Tail(all)
      BY <1>3, <2>1 DEF NewSpeaker, NewPending, Register, ClusterIds
    <3>2. all \in Seq(Waiting(nextId')) /\ Len(all) \in Nat
      BY <1>2 DEF Accounts
    <3>3. 1 \in 1..Len(all)
      BY <2>1, <3>2, ClusterAssumption
    <3> HIDE DEF all
    <3>4. /\ Tail(all) \in Seq(Waiting(nextId')) /\ Len(Tail(all)) = Len(all) - 1
          /\ \A j \in 1..(Len(all) - 1) : Tail(all)[j] = all[j + 1]
      BY <3>2, <3>3
    <3>5. \A j \in 1..(Len(all) - 1) : Tail(all)[j] = IF j < 1 THEN all[j] ELSE all[j + 1]
      BY <3>2, <3>4
    <3>6. Without(Tail(all), all, 1) /\ Gains(clusters', clusters, all[1].id, all[1].count)
      BY <3>1, <3>4, <3>5 DEF Without, Gains
    <3>7. Accounts(clusters', Tail(all), said', nextId')
      BY <1>2, <3>3, <3>4, <3>6, PendingJoins
    <3> QED
      BY <3>1, <3>7 DEF ClusterInv
  <2>2. CASE ~ (Len(all) > PendingLimit)
    BY <1>2, <1>3, <2>2 DEF NewSpeaker, NewPending, ClusterInv
  <2> QED
    BY <2>1, <2>2
<1>4. CASE ~ (flavor = "camplus" /\ class = "short")
  <2>1. /\ clusters' = [x \in DOMAIN clusters \cup {nextId} |-> IF x = nextId THEN 1 ELSE clusters[x]]
        /\ pending' = pending
    BY <1>4 DEF NewSpeaker, Register, ClusterIds
  <2> QED
    BY <1>1, <2>1, NewJoins DEF ClusterInv
<1> QED
  BY <1>3, <1>4

LEMMA PendingKept ==
  ASSUME ClusterInv, NEW near \in SUBSET DOMAIN pending, near # {}, PendingMatch(near)
  PROVE  ClusterInv'
<1> DEFINE k == CHOOSE i \in near : \A j \in near : i <= j
           p == [pending[k] EXCEPT !.count = @ + 1]
           qe == [pending EXCEPT ![k] = p]
<1>1. pending \in Seq(Waiting(nextId)) /\ Len(pending) \in Nat /\ DOMAIN pending = 1..Len(pending)
  BY DEF ClusterInv, Accounts
<1>2. k \in 1..Len(pending)
  <2>1. \E i \in near : \A j \in near : i <= j
    BY <1>1, LeastExists
  <2> QED
    BY <1>1, <2>1
<1>3. /\ said' = Append(said, p.id) /\ nextId' = nextId
      /\ \/ /\ clusters' = [x \in DOMAIN clusters \cup {p.id} |-> IF x = p.id THEN p.count ELSE clusters[x]]
            /\ pending' = RemoveAt(pending, k)
         \/ pending' = qe /\ clusters' = clusters
  BY DEF PendingMatch, Answer, Register, ClusterIds
<1> HIDE DEF k
<1>4. pending[k] \in Waiting(nextId)
  BY <1>1, <1>2
<1>5. p \in Waiting(nextId) /\ p.id = pending[k].id
  BY <1>4 DEF Waiting
<1>6. Accounts(clusters, qe, said', nextId')
  BY <1>2, <1>3, <1>5, PendingHears DEF ClusterInv
<1> HIDE DEF p
<1>7. Len(qe) = Len(pending) /\ qe[k] = p /\ \A i \in 1..Len(pending) : i # k => qe[i] = pending[i]
  BY <1>1, <1>2, <1>5
<1>8. CASE pending' = RemoveAt(pending, k)
  <2>1. /\ RemoveAt(pending, k) \in Seq(Waiting(nextId)) /\ Len(RemoveAt(pending, k)) = Len(pending) - 1
        /\ \A j \in 1..(Len(pending) - 1) : RemoveAt(pending, k)[j] = IF j < k THEN pending[j] ELSE pending[j + 1]
    BY <1>1, <1>2, Removing
  <2>2. \A j \in 1..(Len(qe) - 1) : RemoveAt(pending, k)[j] = IF j < k THEN qe[j] ELSE qe[j + 1]
    <3>1. ASSUME NEW j \in 1..(Len(pending) - 1) PROVE RemoveAt(pending, k)[j] = IF j < k THEN qe[j] ELSE qe[j + 1]
      BY <1>1, <1>2, <1>7, <2>1
    <3> QED
      BY <1>7, <3>1
  <2> DEFINE re == RemoveAt(pending, k)
             dl == [x \in DOMAIN clusters \cup {p.id} |-> IF x = p.id THEN p.count ELSE clusters[x]]
  <2>3. CASE clusters' = dl
    <3>1. Gains(dl, clusters, qe[k].id, qe[k].count)
      BY <1>7 DEF Gains
    <3>2. re \in Seq(Waiting(nextId')) /\ Len(re) = Len(qe) - 1 /\ k \in 1..Len(qe)
      BY <1>2, <1>3, <1>7, <2>1
    <3> HIDE DEF re, qe, dl
    <3>3. Accounts(dl, re, said', nextId')
      <4>1. Without(re, qe, k)
        BY <2>2, <3>2 DEF re, Without
      <4> QED
        BY <1>6, <3>1, <3>2, <4>1, PendingJoins
    <3> QED
      BY <1>8, <2>3, <3>3 DEF ClusterInv, re
  <2>4. CASE pending' = qe /\ clusters' = clusters
    BY <1>6, <2>4 DEF ClusterInv
  <2> QED
    BY <1>3, <2>3, <2>4
<1>9. CASE pending' = qe /\ clusters' = clusters
  BY <1>6, <1>9 DEF ClusterInv
<1> QED
  BY <1>3, <1>8, <1>9

LEMMA MatchKept ==
  ASSUME ClusterInv, NEW class, NEW q \in Results, Match(class, q)
  PROVE  ClusterInv'
<1>1. CASE ClusterIds = {}
  BY <1>1, NewKept DEF Match
<1>2. CASE ClusterIds # {}
  <2>1. /\ DOMAIN q.ids \subseteq Nat /\ 1 \in DOMAIN q.ids
        /\ \A i \in DOMAIN q.ids : q.ids[i] \in ClusterIds
    BY <1>2, QueryFinds
  <2>2. ASSUME NEW takers, takers \subseteq DOMAIN q.ids, takers # {} PROVE q.ids[Min(takers)] \in ClusterIds
    <3>1. \E x \in takers : \A y \in takers : x <= y
      BY <2>1, <2>2, LeastExists
    <3>2. Min(takers) \in takers
      BY <3>1 DEF Min
    <3> QED
      BY <2>1, <2>2, <3>2
  <2>3. \/ NewSpeaker(class)
        \/ Joins(q.ids[1])
        \/ \E takers \in SUBSET DOMAIN q.ids : takers # {} /\ Joins(q.ids[Min(takers)])
    <3> DEFINE T == CamPlusEdge(q, Limits(class, clusters[q.ids[1]]).high)
    <3>1. T \subseteq DOMAIN q.ids
      BY DEF CamPlusEdge
    <3>2. \/ NewSpeaker(class) \/ Joins(q.ids[1])
          \/ T # {} /\ Joins(q.ids[Min(T)])
      BY <1>2 DEF Match
    <3> HIDE DEF T
    <3> QED
      BY <3>1, <3>2
  <2> QED
    BY <2>1, <2>2, <2>3, NewKept, MatchJoins
<1> QED
  BY <1>1, <1>2

LEMMA ClusterStarts == ClusterInit => ClusterInv
<1> SUFFICES ASSUME ClusterInit PROVE ClusterInv
  OBVIOUS
<1>1. clusters = <<>> /\ pending = <<>> /\ said = <<>> /\ nextId = 1
  BY DEF ClusterInit
<1>2. DOMAIN clusters = {} /\ clusters = [c \in DOMAIN clusters |-> clusters[c]]
  BY <1>1
<1>3. Len(pending) = 0 /\ Len(said) = 0 /\ pending \in Seq(Waiting(nextId)) /\ said \in Seq(1..(nextId - 1))
  BY <1>1
<1> QED
  BY <1>1, <1>2, <1>3 DEF ClusterInv, Accounts

LEMMA ClusterKept == ClusterInv /\ [ClusterNext]_clusterVars => ClusterInv'
<1> SUFFICES ASSUME ClusterInv, [ClusterNext]_clusterVars PROVE ClusterInv'
  OBVIOUS
<1>1. ASSUME NEW class \in {"short", "reliable"}, Utterance(class) PROVE ClusterInv'
  <2>1. ASSUME NEW near \in SUBSET DOMAIN pending, near # {}, PendingMatch(near) PROVE ClusterInv'
    BY <2>1, PendingKept
  <2>2. ASSUME NEW q \in Results, Match(class, q) PROVE ClusterInv'
    BY <2>2, MatchKept
  <2>3. ASSUME NEW near \in (SUBSET DOMAIN pending) \ {{}}, PendingMatch(near) PROVE ClusterInv'
    BY <2>1, <2>3
  <2> QED
    BY <1>1, <2>2, <2>3 DEF Utterance
<1>2. CASE ResetBuffer
  BY <1>2 DEF ResetBuffer, ClusterInv
<1>3. CASE UNCHANGED clusterVars
  BY <1>3 DEF clusterVars, ClusterInv
<1> QED
  BY <1>1, <1>2, <1>3 DEF ClusterNext

LEMMA ClusterInvSuffices == ClusterInv => SpeakersCounted
<1> SUFFICES ASSUME ClusterInv PROVE SpeakersCounted
  OBVIOUS
<1>1. /\ DOMAIN pending = 1..Len(pending) /\ DOMAIN said = 1..Len(said)
      /\ nextId \in Nat \ {0} /\ said \in Seq(1..(nextId - 1))
  BY DEF ClusterInv, Accounts
<1>2. \A i \in 1..Len(pending) : pending[i].count \in Nat \ {0}
  <2>1. \A i \in 1..Len(pending) : pending[i] \in Waiting(nextId)
    BY DEF ClusterInv, Accounts
  <2> QED
    BY <2>1 DEF Waiting
<1>3. ASSUME NEW c, TimesSaid(said, c) # 0 PROVE c \in Shown
  <2>1. {u \in DOMAIN said : said[u] = c} # {}
    BY <1>3, FS_EmptySet DEF TimesSaid
  <2> QED
    BY <2>1 DEF Shown
<1>4. Shown = ClusterIds \cup PendingIds
  <2>1. Shown \subseteq ClusterIds \cup PendingIds
    BY <1>1 DEF ClusterInv, Accounts, Shown, ClusterIds, PendingIds
  <2>2. ASSUME NEW c \in ClusterIds PROVE c \in Shown
    BY <1>3 DEF ClusterInv, Accounts, ClusterIds
  <2>3. ASSUME NEW i \in 1..Len(pending) PROVE pending[i].id \in Shown
    BY <1>2, <1>3 DEF ClusterInv, Accounts
  <2> QED
    BY <1>1, <2>1, <2>2, <2>3 DEF PendingIds
<1>5. ClusterIds \cap PendingIds = {}
  BY <1>1 DEF ClusterInv, Accounts, ClusterIds, PendingIds
<1>6. IsInjective([i \in DOMAIN pending |-> pending[i].id])
  BY <1>1 DEF ClusterInv, Accounts, IsInjective
<1>7. UtterancesCounted
  BY <1>1 DEF ClusterInv, Accounts, UtterancesCounted, SaidBySpeaker, TimesSaid, ClusterIds
<1> QED
  BY <1>4, <1>5, <1>6, <1>7 DEF SpeakersCounted, LabelsStay

(* A label that went out names one speaker for ever, pending or in the       *)
(* collection, whose count is the number of utterances it went out with     *)
(* (compare_and_identify): for any distances, limits and number of          *)
(* utterances.                                                              *)
THEOREM LabelsAreCounted == ClusterSpec => []SpeakersCounted
BY ClusterStarts, ClusterKept, ClusterInvSuffices, PTL DEF ClusterSpec

-----------------------------------------------------------------------------
(* Rate limits: what a list keeps of what was let through or has failed.    *)

Recent(l, span, now) == {e \in l : e.at > now - span}

(* A list of requests or connections at the time now.                       *)
ListOK(l, now) ==
  /\ l \subseteq Entry /\ IsFiniteSet(l)
  /\ \E b \in Nat : \A e \in l : e.n <= b
  /\ \A e, f \in l : e.n = f.n => e = f
  /\ \A e \in l : e.at <= now

(* The list l still has every failure, request and request of the hour that *)
(* a limit may count, and no failed login that was forgiven.                *)
Counted(l, failed, passed, cleared, now) ==
  /\ failed \subseteq Entry /\ passed \subseteq Entry /\ cleared \in Int
  /\ \A e \in failed : e.login /\ (e.at > now - Window => e \in l)
  /\ \A e \in l : e.login => e \in failed
  /\ \A e \in passed : ~e.login /\ (e.at > now - Window => e \in l)
  /\ \A e \in passed : e.at > now - Hour /\ e.at > cleared => e \in l

(* The limits of LoginBudget and RequestBudget, for one address.            *)
Pending(waiting, fl, now) == {r \in waiting : fl[r].at > now - Window}
FailsWithin(failed, waiting, fl, now) ==
  Cardinality(Recent(failed, Window, now)) + Cardinality(Pending(waiting, fl, now)) <= LoginLimit
PassesWithin(passed, cleared, now) ==
  /\ Cardinality(Recent(passed, Window, now)) <= MinuteLimit
  /\ Cardinality({e \in Recent(passed, Hour, now) : e.at > cleared}) <= HourLimit

(* An address with this list, this history and these logins in flight.     *)
AddressOK(l, failed, passed, cleared, waiting, fl, now) ==
  /\ ListOK(l, now)
  /\ Counted(l, failed, passed, cleared, now)
  /\ IsFiniteSet(waiting)
  /\ FailsWithin(failed, waiting, fl, now)
  /\ PassesWithin(passed, cleared, now)

FlightsOK ==
  /\ flight \in [Logins -> {Idle} \cup [addr : Addresses, at : Times]]
  /\ \A r \in Logins : flight[r].at <= clock

HttpInv ==
  /\ clock \in Times
  /\ FlightsOK
  /\ DOMAIN log = Addresses /\ DOMAIN failures = Addresses
  /\ DOMAIN admitted = Addresses /\ DOMAIN pardoned = Addresses
  /\ \A a \in Addresses :
       AddressOK(log[a], failures[a], admitted[a], pardoned[a], InFlight(a), flight, clock)

(* The same for the connections, which nothing but their age removes.       *)
Dialled(d, now) == {e \in d : e.at >= now - Window}

PeerOK(c, d, now) ==
  /\ ListOK(c, now)
  /\ \A e, f \in c : e.n <= f.n => e.at <= f.at
  /\ d \subseteq Entry /\ Dialled(d, now) \subseteq c
  /\ Cardinality(Dialled(d, now)) <= ConnectLimit

SocketInv ==
  /\ clock \in Times
  /\ DOMAIN connects = Addresses /\ DOMAIN dialled = Addresses
  /\ \A a \in Addresses : PeerOK(connects[a], dialled[a], clock)

TableInv ==
  /\ tracked \subseteq Addresses
  /\ \A a \in Addresses : a \notin tracked => log[a] = {}
  /\ lock \in [Addresses -> 0..(MaxClock + LockSeconds)]

LEMMA LimitsAreNat ==
  /\ {Window, Hour, LockSeconds, LoginLimit, MinuteLimit, HourLimit, ConnectLimit,
      MaxTracked, MaxClock} \subseteq Nat
  /\ Window \in Nat /\ Hour \in Nat /\ LockSeconds \in Nat /\ LoginLimit \in Nat
  /\ MinuteLimit \in Nat /\ HourLimit \in Nat /\ ConnectLimit \in Nat /\ MaxClock \in Nat
  /\ Window <= Hour /\ Window > 0
BY LimitsAssumption

LEMMA EntryFields ==
  ASSUME NEW e \in Entry
  PROVE  e.n \in Nat /\ e.at \in Nat /\ e.at \in Times /\ e.login \in BOOLEAN
BY LimitsAreNat DEF Entry, Times

-----------------------------------------------------------------------------
(* Lists.                                                                   *)

LEMMA ListShrinks ==
  ASSUME NEW l, NEW now, ListOK(l, now), NEW m, m \subseteq l
  PROVE  ListOK(m, now)
BY FS_Subset DEF ListOK

LEMMA ListStarts ==
  ASSUME NEW now
  PROVE  ListOK({}, now)
BY FS_EmptySet DEF ListOK

LEMMA ListAges ==
  ASSUME NEW l, NEW now \in Int, ListOK(l, now), NEW later \in Int, now <= later
  PROVE  ListOK(l, later)
<1>1. \A e \in l : e.at \in Nat
  BY EntryFields DEF ListOK
<1> QED
  BY <1>1 DEF ListOK

LEMMA ListGrows ==
  ASSUME NEW l, NEW now \in Int, ListOK(l, now), NEW at \in Times, at <= now, NEW login \in BOOLEAN
  PROVE  LET e == New(l, at, login)
         IN /\ e \in Entry /\ e.at = at /\ e.login = login
            /\ \A f \in l : f.n < e.n
            /\ ListOK(l \cup {e}, now)
<1> DEFINE e == New(l, at, login)
<1>1. e.at = at /\ e.login = login /\ e.n = IF l = {} THEN 0 ELSE Newest(l).n + 1
  BY DEF New
<1>2. e.n \in Nat /\ \A f \in l : f.n < e.n
  <2>1. CASE l = {}
    BY <1>1, <2>1
  <2>2. CASE l # {}
    <3>1. \A f \in l : f.n \in Nat
      BY EntryFields DEF ListOK
    <3>2. PICK b \in Nat : \A f \in l : f.n <= b
      BY DEF ListOK
    <3> DEFINE X == {b - f.n : f \in l}
    <3>3. X \subseteq Nat /\ X # {}
      BY <2>2, <3>1, <3>2
    <3>4. PICK x \in X : \A y \in X : x <= y
      BY <3>3, LeastExists
    <3>5. PICK f \in l : x = b - f.n
      BY <3>4
    <3>6. \A g \in l : g.n <= f.n
      <4>1. TAKE g \in l
      <4>2. b - f.n <= b - g.n
        BY <3>4, <3>5
      <4> QED
        BY <3>1, <4>2
    <3>7. Newest(l) \in l /\ \A g \in l : g.n <= Newest(l).n
      BY <3>6 DEF Newest
    <3> QED
      BY <1>1, <2>2, <3>1, <3>7
  <2> QED
    BY <2>1, <2>2
<1>3. e \in Entry
  BY <1>2 DEF New, Entry
<1> HIDE DEF e
<1>4. ListOK(l \cup {e}, now)
  <2>1. IsFiniteSet(l \cup {e})
    BY FS_AddElement DEF ListOK
  <2>2. \A f \in l \cup {e} : f.n <= e.n
    BY <1>2, EntryFields DEF ListOK
  <2>3. \A f \in l : f.n # e.n
    BY <1>2, EntryFields DEF ListOK
  <2> QED
    BY <1>1, <1>2, <1>3, <2>1, <2>2, <2>3 DEF ListOK
<1> QED
  BY <1>1, <1>2, <1>3, <1>4 DEF e

(* Sets that are smaller by inclusion, or by one element.                   *)
LEMMA Fewer ==
  ASSUME NEW S, NEW T, IsFiniteSet(T), S \subseteq T
  PROVE  IsFiniteSet(S) /\ Cardinality(S) \in Nat /\ Cardinality(T) \in Nat /\ Cardinality(S) <= Cardinality(T)
BY FS_Subset, FS_CardinalityType

LEMMA OneMore ==
  ASSUME NEW S, NEW T, NEW x, IsFiniteSet(T), S \subseteq T \cup {x}
  PROVE  IsFiniteSet(S) /\ Cardinality(S) \in Nat /\ Cardinality(T) \in Nat /\ Cardinality(S) <= Cardinality(T) + 1
<1>1. IsFiniteSet(T \cup {x}) /\ Cardinality(T \cup {x}) <= Cardinality(T) + 1
  <2>1. Cardinality(T) \in Nat
    BY FS_CardinalityType
  <2> QED
    BY <2>1, FS_AddElement
<1>2. Cardinality(T) \in Nat /\ Cardinality(T \cup {x}) \in Nat
  BY <1>1, FS_CardinalityType
<1> QED
  BY <1>1, <1>2, Fewer

LEMMA OneLess ==
  ASSUME NEW S, IsFiniteSet(S), NEW x \in S
  PROVE  Cardinality(S \ {x}) \in Nat /\ Cardinality(S) \in Nat /\ Cardinality(S \ {x}) = Cardinality(S) - 1
BY FS_RemoveElement, FS_CardinalityType

-----------------------------------------------------------------------------
(* What each operation does to the list of an address and its history.      *)

(* Only what is recent is counted, so an hour's entries are enough.         *)
LEMMA CountedTrims ==
  ASSUME NEW l, NEW failed, NEW passed, NEW cleared, NEW now \in Int, l \subseteq Entry,
         Counted(l, failed, passed, cleared, now)
  PROVE  Counted(Recent(l, Hour, now), failed, passed, cleared, now)
<1>1. \A e \in Entry : e.at > now - Window => e.at > now - Hour
  BY LimitsAreNat, EntryFields
<1> QED
  BY <1>1 DEF Counted, Recent

LEMMA CountedPasses ==
  ASSUME NEW l, NEW failed, NEW passed, NEW cleared, NEW now \in Int, NEW e \in Entry, ~e.login,
         Counted(l, failed, passed, cleared, now)
  PROVE  Counted(l \cup {e}, failed, passed \cup {e}, cleared, now)
BY DEF Counted

LEMMA CountedFails ==
  ASSUME NEW l, NEW failed, NEW passed, NEW cleared, NEW now, NEW e \in Entry, e.login,
         Counted(l, failed, passed, cleared, now)
  PROVE  Counted(l \cup {e}, failed \cup {e}, passed, cleared, now)
BY DEF Counted

LEMMA CountedStarts ==
  ASSUME NEW cleared \in Int, NEW now
  PROVE  Counted({}, {}, {}, cleared, now)
BY DEF Counted

LEMMA CountedAges ==
  ASSUME NEW l, NEW failed, NEW passed, NEW cleared, NEW now \in Int,
         Counted(l, failed, passed, cleared, now), NEW later \in Int, now <= later
  PROVE  Counted(l, failed, passed, cleared, later)
<1>1. \A e \in Entry : /\ e.at > later - Window => e.at > now - Window
                       /\ e.at > later - Hour => e.at > now - Hour
  BY LimitsAreNat, EntryFields
<1> QED
  BY <1>1 DEF Counted

(* A success forgives the failures, and clears what is older than a minute   *)
(* before it began.                                                         *)
LEMMA CountedForgives ==
  ASSUME NEW l, NEW failed, NEW passed, NEW cleared, NEW now \in Int, l \subseteq Entry,
         NEW at \in Nat, at <= now, Counted(l, failed, passed, cleared, now),
         NEW left, left = {e \in l : e.at > at - Window /\ ~e.login},
         NEW upto, upto = IF at - Window > cleared THEN at - Window ELSE cleared
  PROVE  Counted(left, {}, passed, upto, now)
<1>1. upto \in Int /\ upto >= cleared /\ upto >= at - Window
  BY LimitsAreNat DEF Counted
<1>2. \A e \in left : ~e.login
  OBVIOUS
<1>3. ASSUME NEW e \in passed, e.at > now - Window PROVE e \in left
  <2>1. e \in l /\ ~e.login /\ e.at \in Nat
    BY <1>3, EntryFields DEF Counted
  <2>2. e.at > at - Window
    BY <1>3, <2>1, LimitsAreNat
  <2> QED
    BY <2>1, <2>2
<1>4. ASSUME NEW e \in passed, e.at > now - Hour, e.at > upto PROVE e \in left
  <2>1. e.at \in Nat /\ ~e.login
    BY EntryFields DEF Counted
  <2>2. e.at > cleared /\ e.at > at - Window
    BY <1>1, <1>4, <2>1, LimitsAreNat DEF Counted
  <2>3. e \in l
    BY <1>4, <2>2 DEF Counted
  <2> QED
    BY <2>1, <2>2, <2>3
<1> QED
  BY <1>1, <1>2, <1>3, <1>4 DEF Counted

(* A request that is let through keeps the limits.                          *)
LEMMA PassKeepsLimits ==
  ASSUME NEW now \in Int, NEW l, ListOK(l, now), NEW failed, NEW passed, NEW cleared,
         Counted(l, failed, passed, cleared, now), NEW e \in Entry,
         ~ (Cardinality(Recent(l, Window, now)) >= MinuteLimit), ~ (Cardinality(l) >= HourLimit)
  PROVE  PassesWithin(passed \cup {e}, cleared, now)
<1>1. IsFiniteSet(l) /\ IsFiniteSet(Recent(l, Window, now))
  BY FS_Subset DEF ListOK, Recent
<1>2. Recent(passed \cup {e}, Window, now) \subseteq Recent(l, Window, now) \cup {e}
  BY DEF Counted, Recent
<1>3. {f \in Recent(passed \cup {e}, Hour, now) : f.at > cleared} \subseteq l \cup {e}
  BY DEF Counted, Recent
<1>4. Cardinality(Recent(l, Window, now)) \in Nat /\ Cardinality(l) \in Nat
  BY <1>1, FS_CardinalityType
<1>5. /\ Cardinality(Recent(passed \cup {e}, Window, now)) \in Nat
      /\ Cardinality(Recent(passed \cup {e}, Window, now)) <= Cardinality(Recent(l, Window, now)) + 1
  BY <1>1, <1>2, OneMore
<1>6. /\ Cardinality({f \in Recent(passed \cup {e}, Hour, now) : f.at > cleared}) \in Nat
      /\ Cardinality({f \in Recent(passed \cup {e}, Hour, now) : f.at > cleared}) <= Cardinality(l) + 1
  BY <1>1, <1>3, OneMore
<1> QED
  BY <1>4, <1>5, <1>6, LimitsAreNat DEF PassesWithin

LEMMA NothingPassed ==
  ASSUME NEW cleared, NEW now
  PROVE  PassesWithin({}, cleared, now)
<1>1. Recent({}, Window, now) = {} /\ {f \in Recent({}, Hour, now) : f.at > cleared} = {}
  BY DEF Recent
<1> QED
  BY <1>1, FS_EmptySet, LimitsAreNat DEF PassesWithin

(* Time, and what a success clears, only take away from what is counted.    *)
LEMMA PassesShrink ==
  ASSUME NEW now \in Int, NEW l, ListOK(l, now), NEW failed, NEW passed, NEW cleared,
         Counted(l, failed, passed, cleared, now), PassesWithin(passed, cleared, now),
         NEW later \in Int, now <= later, NEW upto \in Int, cleared <= upto
  PROVE  PassesWithin(passed, upto, later)
<1>1. IsFiniteSet(Recent(passed, Window, now))
  <2>1. Recent(passed, Window, now) \subseteq l
    BY DEF Counted, Recent
  <2> QED
    BY <2>1, Fewer DEF ListOK
<1>2. IsFiniteSet({f \in Recent(passed, Hour, now) : f.at > cleared})
  <2>1. {f \in Recent(passed, Hour, now) : f.at > cleared} \subseteq l
    BY DEF Counted, Recent
  <2> QED
    BY <2>1, Fewer DEF ListOK
<1>3. \A f \in passed : f.at \in Nat /\ cleared \in Int
  BY EntryFields DEF Counted
<1>4. Recent(passed, Window, later) \subseteq Recent(passed, Window, now)
  BY <1>3, LimitsAreNat DEF Recent
<1>5. {f \in Recent(passed, Hour, later) : f.at > upto} \subseteq {f \in Recent(passed, Hour, now) : f.at > cleared}
  BY <1>3, LimitsAreNat DEF Recent
<1>6. /\ Cardinality(Recent(passed, Window, later)) \in Nat
      /\ Cardinality(Recent(passed, Window, now)) \in Nat
      /\ Cardinality(Recent(passed, Window, later)) <= Cardinality(Recent(passed, Window, now))
  BY <1>1, <1>4, Fewer
<1>7. /\ Cardinality({f \in Recent(passed, Hour, later) : f.at > upto}) \in Nat
      /\ Cardinality({f \in Recent(passed, Hour, now) : f.at > cleared}) \in Nat
      /\ Cardinality({f \in Recent(passed, Hour, later) : f.at > upto})
           <= Cardinality({f \in Recent(passed, Hour, now) : f.at > cleared})
  BY <1>2, <1>5, Fewer
<1> QED
  BY <1>6, <1>7, LimitsAreNat DEF PassesWithin

(* The failures a window counts are on the list, and so finitely many.      *)
LEMMA RecentFailures ==
  ASSUME NEW now \in Int, NEW l, ListOK(l, now), NEW failed, NEW passed, NEW cleared,
         Counted(l, failed, passed, cleared, now)
  PROVE  /\ Recent(failed, Window, now) = {e \in Recent(l, Window, now) : e.login}
         /\ IsFiniteSet(Recent(failed, Window, now))
         /\ Cardinality(Recent(failed, Window, now)) \in Nat
<1>1. Recent(failed, Window, now) = {e \in Recent(l, Window, now) : e.login}
  BY DEF Counted, Recent
<1>2. {e \in Recent(l, Window, now) : e.login} \subseteq l
  BY DEF Recent
<1> QED
  BY <1>1, <1>2, Fewer DEF ListOK

(* Failures and requests in flight: fewer of both, or one that moves.       *)
LEMMA FailsShrink ==
  ASSUME NEW now \in Int, NEW later \in Int, NEW failed, NEW W, NEW fl, FailsWithin(failed, W, fl, now),
         IsFiniteSet(Recent(failed, Window, now)), IsFiniteSet(W),
         NEW fewer, NEW V, NEW gl,
         Recent(fewer, Window, later) \subseteq Recent(failed, Window, now),
         Pending(V, gl, later) \subseteq Pending(W, fl, now)
  PROVE  FailsWithin(fewer, V, gl, later)
<1>1. IsFiniteSet(Pending(W, fl, now))
  BY FS_Subset DEF Pending
<1>2. /\ Cardinality(Recent(fewer, Window, later)) \in Nat /\ Cardinality(Recent(failed, Window, now)) \in Nat
      /\ Cardinality(Recent(fewer, Window, later)) <= Cardinality(Recent(failed, Window, now))
  BY Fewer
<1>3. /\ Cardinality(Pending(V, gl, later)) \in Nat /\ Cardinality(Pending(W, fl, now)) \in Nat
      /\ Cardinality(Pending(V, gl, later)) <= Cardinality(Pending(W, fl, now))
  BY <1>1, Fewer
<1> QED
  BY <1>2, <1>3, LimitsAreNat DEF FailsWithin

LEMMA FailsAdmit ==
  ASSUME NEW now \in Int, NEW failed, IsFiniteSet(Recent(failed, Window, now)),
         NEW W, NEW fl, IsFiniteSet(W), NEW r, NEW V, NEW gl,
         Cardinality(Recent(failed, Window, now)) + Cardinality(W) < LoginLimit,
         V \subseteq W \cup {r}
  PROVE  FailsWithin(failed, V, gl, now)
<1>1. Pending(V, gl, now) \subseteq W \cup {r}
  BY DEF Pending
<1>2. /\ Cardinality(Pending(V, gl, now)) \in Nat /\ Cardinality(W) \in Nat
      /\ Cardinality(Pending(V, gl, now)) <= Cardinality(W) + 1
  BY <1>1, OneMore
<1>3. Cardinality(Recent(failed, Window, now)) \in Nat
  BY FS_CardinalityType
<1> QED
  BY <1>2, <1>3, LimitsAreNat DEF FailsWithin

LEMMA FailsMove ==
  ASSUME NEW now \in Int, NEW failed, IsFiniteSet(Recent(failed, Window, now)),
         NEW W, NEW fl, IsFiniteSet(W), FailsWithin(failed, W, fl, now),
         NEW r \in W, NEW e, e.at = fl[r].at, NEW gl, \A q \in W \ {r} : gl[q] = fl[q]
  PROVE  FailsWithin(failed \cup {e}, W \ {r}, gl, now)
<1>1. IsFiniteSet(Pending(W, fl, now))
  BY FS_Subset DEF Pending
<1>2. Pending(W \ {r}, gl, now) = Pending(W, fl, now) \ {r}
  BY DEF Pending
<1>3. CASE e.at > now - Window
  <2>1. r \in Pending(W, fl, now)
    BY <1>3 DEF Pending
  <2>2. Recent(failed \cup {e}, Window, now) \subseteq Recent(failed, Window, now) \cup {e}
    BY DEF Recent
  <2>3. /\ Cardinality(Recent(failed \cup {e}, Window, now)) \in Nat
        /\ Cardinality(Recent(failed, Window, now)) \in Nat
        /\ Cardinality(Recent(failed \cup {e}, Window, now)) <= Cardinality(Recent(failed, Window, now)) + 1
    BY <2>2, OneMore
  <2>4. /\ Cardinality(Pending(W \ {r}, gl, now)) \in Nat /\ Cardinality(Pending(W, fl, now)) \in Nat
        /\ Cardinality(Pending(W \ {r}, gl, now)) = Cardinality(Pending(W, fl, now)) - 1
    BY <1>1, <1>2, <2>1, OneLess
  <2> QED
    BY <2>3, <2>4, LimitsAreNat DEF FailsWithin
<1>4. CASE ~ (e.at > now - Window)
  <2>1. Recent(failed \cup {e}, Window, now) \subseteq Recent(failed, Window, now)
    BY <1>4 DEF Recent
  <2>2. Pending(W \ {r}, gl, now) \subseteq Pending(W, fl, now)
    BY <1>2
  <2> QED
    BY <2>1, <2>2, FailsShrink
<1> QED
  BY <1>3, <1>4

-----------------------------------------------------------------------------
(* The same of an address as a whole.                                       *)

LEMMA AddressTrims ==
  ASSUME NEW l, NEW failed, NEW passed, NEW cleared, NEW W, NEW fl, NEW now \in Int,
         AddressOK(l, failed, passed, cleared, W, fl, now)
  PROVE  AddressOK(Recent(l, Hour, now), failed, passed, cleared, W, fl, now)
<1>1. Recent(l, Hour, now) \subseteq l /\ l \subseteq Entry
  BY DEF Recent, AddressOK, ListOK
<1>2. ListOK(Recent(l, Hour, now), now)
  BY <1>1, ListShrinks DEF AddressOK
<1>3. Counted(Recent(l, Hour, now), failed, passed, cleared, now)
  BY <1>1, CountedTrims DEF AddressOK
<1> QED
  BY <1>2, <1>3 DEF AddressOK

LEMMA AddressDropped ==
  ASSUME NEW l, NEW failed, NEW passed, NEW cleared, NEW W, NEW fl, NEW now \in Int,
         AddressOK(l, failed, passed, cleared, W, fl, now)
  PROVE  AddressOK({}, {}, {}, cleared, W, fl, now)
<1>1. cleared \in Int /\ IsFiniteSet(W) /\ IsFiniteSet(Recent(failed, Window, now))
  BY RecentFailures DEF AddressOK, Counted
<1>2. Recent({}, Window, now) \subseteq Recent(failed, Window, now)
  BY DEF Recent
<1>3. FailsWithin({}, W, fl, now)
  BY <1>1, <1>2, FailsShrink DEF AddressOK
<1> QED
  BY <1>1, <1>3, ListStarts, CountedStarts, NothingPassed DEF AddressOK

LEMMA AddressPasses ==
  ASSUME NEW l, NEW failed, NEW passed, NEW cleared, NEW W, NEW fl, NEW now \in Times,
         AddressOK(l, failed, passed, cleared, W, fl, now),
         ~ (Cardinality(Recent(l, Window, now)) >= MinuteLimit), ~ (Cardinality(l) >= HourLimit)
  PROVE  LET e == New(l, now, FALSE)
         IN AddressOK(l \cup {e}, failed, passed \cup {e}, cleared, W, fl, now)
<1> DEFINE e == New(l, now, FALSE)
<1>0. now \in Int /\ now <= now
  BY LimitsAreNat DEF Times
<1>1. e \in Entry /\ ~e.login /\ ListOK(l \cup {e}, now)
  BY <1>0, ListGrows DEF AddressOK
<1> HIDE DEF e
<1>2. Counted(l \cup {e}, failed, passed \cup {e}, cleared, now)
  BY <1>0, <1>1, CountedPasses DEF AddressOK
<1>3. PassesWithin(passed \cup {e}, cleared, now)
  BY <1>0, <1>1, PassKeepsLimits DEF AddressOK
<1>4. AddressOK(l \cup {e}, failed, passed \cup {e}, cleared, W, fl, now)
  BY <1>1, <1>2, <1>3 DEF AddressOK
<1> QED
  BY <1>4 DEF e

(* A login that failed moves from the flights to the list.                  *)
LEMMA AddressFails ==
  ASSUME NEW l, NEW failed, NEW passed, NEW cleared, NEW W, NEW fl, NEW now \in Times,
         AddressOK(l, failed, passed, cleared, W, fl, now),
         NEW r \in W, fl[r].at \in Times, fl[r].at <= now, NEW gl, \A q \in W \ {r} : gl[q] = fl[q],
         NEW e, e = New(l, fl[r].at, TRUE)
  PROVE  AddressOK(l \cup {e}, failed \cup {e}, passed, cleared, W \ {r}, gl, now)
<1>0. now \in Int
  BY LimitsAreNat DEF Times
<1>1. e \in Entry /\ e.login /\ e.at = fl[r].at /\ ListOK(l \cup {e}, now)
  BY <1>0, ListGrows DEF AddressOK
<1>2. Counted(l \cup {e}, failed \cup {e}, passed, cleared, now)
  BY <1>1, CountedFails DEF AddressOK
<1>3. IsFiniteSet(Recent(failed, Window, now))
  BY <1>0, RecentFailures DEF AddressOK
<1>4. FailsWithin(failed \cup {e}, W \ {r}, gl, now)
  BY <1>0, <1>1, <1>3, FailsMove DEF AddressOK
<1>5. IsFiniteSet(W \ {r})
  BY FS_RemoveElement DEF AddressOK
<1> QED
  BY <1>1, <1>2, <1>4, <1>5 DEF AddressOK

(* What a success leaves on the list, and up to when it cleared it.          *)
Forgiven(l, at) == {e \in l : e.at > at - Window /\ ~e.login}
Later(cleared, at) == IF at - Window > cleared THEN at - Window ELSE cleared

LEMMA AddressForgives ==
  ASSUME NEW l, NEW failed, NEW passed, NEW cleared, NEW W, NEW fl, NEW now \in Int,
         AddressOK(l, failed, passed, cleared, W, fl, now), NEW at \in Nat, at <= now,
         NEW V, V \subseteq W, NEW gl, \A q \in V : gl[q] = fl[q]
  PROVE  AddressOK(Forgiven(l, at), {}, passed, Later(cleared, at), V, gl, now)
<1> DEFINE left == Forgiven(l, at)
           upto == Later(cleared, at)
<1>0. l \subseteq Entry /\ cleared \in Int
  BY DEF AddressOK, ListOK, Counted
<1>1. Counted(left, {}, passed, upto, now)
  BY <1>0, CountedForgives DEF AddressOK, Forgiven, Later
<1>2. upto \in Int /\ cleared <= upto
  BY <1>0, LimitsAreNat DEF Later
<1>3. ListOK(left, now)
  <2>1. left \subseteq l
    BY DEF Forgiven
  <2> QED
    BY <2>1, ListShrinks DEF AddressOK
<1> HIDE DEF left, upto
<1>4. PassesWithin(passed, upto, now)
  BY <1>2, PassesShrink DEF AddressOK
<1>5. IsFiniteSet(V) /\ IsFiniteSet(Recent(failed, Window, now))
  BY Fewer, RecentFailures DEF AddressOK
<1>6. Recent({}, Window, now) \subseteq Recent(failed, Window, now) /\ Pending(V, gl, now) \subseteq Pending(W, fl, now)
  BY DEF Recent, Pending
<1>7. FailsWithin({}, V, gl, now)
  BY <1>5, <1>6, FailsShrink DEF AddressOK
<1>8. AddressOK(left, {}, passed, upto, V, gl, now)
  BY <1>1, <1>3, <1>4, <1>5, <1>7 DEF AddressOK
<1> QED
  BY <1>8 DEF left, upto

(* Fewer logins in flight, or later.                                        *)
LEMMA AddressAges ==
  ASSUME NEW l, NEW failed, NEW passed, NEW cleared, NEW W, NEW fl, NEW now \in Int,
         AddressOK(l, failed, passed, cleared, W, fl, now), NEW later \in Int, now <= later,
         NEW V, V \subseteq W, NEW gl, \A q \in W : fl[q].at \in Nat, \A q \in V : gl[q] = fl[q]
  PROVE  AddressOK(l, failed, passed, cleared, V, gl, later)
<1>0. ListOK(l, now) /\ Counted(l, failed, passed, cleared, now) /\ cleared \in Int
  BY DEF AddressOK, Counted
<1>1. ListOK(l, later) /\ Counted(l, failed, passed, cleared, later) /\ cleared \in Int
  BY <1>0, ListAges, CountedAges
<1>2. PassesWithin(passed, cleared, later)
  BY <1>1, PassesShrink DEF AddressOK
<1>3. IsFiniteSet(V) /\ IsFiniteSet(Recent(failed, Window, now))
  BY Fewer, RecentFailures DEF AddressOK
<1>4. Recent(failed, Window, later) \subseteq Recent(failed, Window, now)
  <2>1. \A e \in failed : e.at \in Nat
    BY EntryFields DEF AddressOK, Counted
  <2> QED
    BY <2>1, LimitsAreNat DEF Recent
<1>5. Pending(V, gl, later) \subseteq Pending(W, fl, now)
  BY LimitsAreNat DEF Pending
<1>6. FailsWithin(failed, V, gl, later)
  BY <1>3, <1>4, <1>5, FailsShrink DEF AddressOK
<1> QED
  BY <1>1, <1>2, <1>3, <1>6 DEF AddressOK

(* A login that is admitted: fewer failures and flights than the limit.     *)
LEMMA AddressAdmits ==
  ASSUME NEW l, NEW failed, NEW passed, NEW cleared, NEW W, NEW fl, NEW now \in Int,
         AddressOK(l, failed, passed, cleared, W, fl, now),
         Cardinality({e \in Recent(l, Window, now) : e.login}) + Cardinality(W) < LoginLimit,
         NEW r, NEW gl
  PROVE  AddressOK(l, failed, passed, cleared, W \cup {r}, gl, now)
<1>1. /\ IsFiniteSet(Recent(failed, Window, now))
      /\ Recent(failed, Window, now) = {e \in Recent(l, Window, now) : e.login}
  BY RecentFailures DEF AddressOK
<1>2. IsFiniteSet(W) /\ IsFiniteSet(W \cup {r})
  BY FS_AddElement DEF AddressOK
<1>3. FailsWithin(failed, W \cup {r}, gl, now)
  BY <1>1, <1>2, FailsAdmit
<1> QED
  BY <1>2, <1>3 DEF AddressOK

-----------------------------------------------------------------------------
(* The steps of the HTTP limiter.                                           *)

LEMMA ClockType ==
  ASSUME clock \in Times
  PROVE  clock \in Int /\ clock \in Nat /\ clock <= clock
BY LimitsAreNat DEF Times

(* A sweep leaves an address its list and history, or neither.              *)
LEMMA SweepPairs ==
  ASSUME NEW l, NEW K, NEW b \in Addresses
  PROVE  \/ Keep(l, K)[b] = l[b] /\ \A h : KeepHistory(h, l, K)[b] = h[b]
         \/ Keep(l, K)[b] = {} /\ \A h : KeepHistory(h, l, K)[b] = {}
BY DEF Keep, KeepHistory

LEMMA AddressSwept ==
  ASSUME NEW l, NEW K, NEW failed, NEW passed, NEW cleared, NEW W, NEW fl, NEW now \in Int, NEW b \in Addresses,
         AddressOK(l[b], failed[b], passed[b], cleared, W, fl, now)
  PROVE  AddressOK(Keep(l, K)[b], KeepHistory(failed, l, K)[b], KeepHistory(passed, l, K)[b], cleared, W, fl, now)
<1>1. CASE Keep(l, K)[b] = l[b] /\ \A h : KeepHistory(h, l, K)[b] = h[b]
  BY <1>1
<1>2. CASE Keep(l, K)[b] = {} /\ \A h : KeepHistory(h, l, K)[b] = {}
  BY <1>2, AddressDropped
<1> QED
  BY <1>1, <1>2, SweepPairs

LEMMA RequestKept ==
  ASSUME HttpInv, NEW a \in Addresses, Request(a)
  PROVE  HttpInv'
<1> DEFINE aged == [log EXCEPT ![a] = Since(@, Hour)]
<1>1. PICK K : LET swept == Keep(aged, K)
                   full == \/ Cardinality(Since(swept[a], Window)) >= MinuteLimit
                           \/ Cardinality(swept[a]) >= HourLimit
                   e == IF full THEN {} ELSE {New(swept[a], clock, FALSE)}
               IN /\ log' = [swept EXCEPT ![a] = @ \cup e]
                  /\ admitted' = [KeepHistory(admitted, aged, K) EXCEPT ![a] = @ \cup e]
                  /\ failures' = KeepHistory(failures, aged, K)
                  /\ UNCHANGED <<clock, flight, pardoned>>
  BY DEF Request
<1> DEFINE swept == Keep(aged, K)
           full == \/ Cardinality(Since(swept[a], Window)) >= MinuteLimit
                   \/ Cardinality(swept[a]) >= HourLimit
           e == IF full THEN {} ELSE {New(swept[a], clock, FALSE)}
           A == KeepHistory(admitted, aged, K)
           F == KeepHistory(failures, aged, K)
<1>2. /\ log' = [swept EXCEPT ![a] = @ \cup e] /\ admitted' = [A EXCEPT ![a] = @ \cup e]
      /\ failures' = F /\ clock' = clock /\ flight' = flight /\ pardoned' = pardoned
  BY <1>1
<1>3. clock \in Times /\ clock \in Int
  BY ClockType DEF HttpInv
<1>4. DOMAIN swept = Addresses /\ DOMAIN A = Addresses /\ DOMAIN F = Addresses
  BY DEF Keep, KeepHistory
<1>5. ASSUME NEW b \in Addresses
      PROVE  AddressOK(swept[b], F[b], A[b], pardoned[b], InFlight(b), flight, clock)
  <2>1. AddressOK(aged[b], failures[b], admitted[b], pardoned[b], InFlight(b), flight, clock)
    <3>1. aged[b] = IF b = a THEN Recent(log[b], Hour, clock) ELSE log[b]
      BY DEF HttpInv, Since, Recent
    <3> HIDE DEF aged
    <3> QED
      BY <1>3, <3>1, AddressTrims DEF HttpInv
  <2> HIDE DEF aged
  <2> QED
    BY <1>3, <2>1, AddressSwept
<1>8. FlightsOK' /\ \A b \in Addresses : InFlight(b)' = InFlight(b)
  BY <1>2 DEF HttpInv, FlightsOK, InFlight
<1>6. CASE full
  <2>1. log' = swept /\ admitted' = A
    BY <1>2, <1>4, <1>6 DEF Keep, KeepHistory
  <2> HIDE DEF aged, swept, A, F
  <2>2. ASSUME NEW b \in Addresses
        PROVE  AddressOK(log'[b], failures'[b], admitted'[b], pardoned'[b], InFlight(b)', flight', clock')
    BY <1>2, <1>5, <1>8, <2>1
  <2> QED
    BY <1>2, <1>3, <1>4, <1>8, <2>1, <2>2 DEF HttpInv
<1>7. CASE ~full
  <2> DEFINE x == New(swept[a], clock, FALSE)
  <2>1. /\ log' = [swept EXCEPT ![a] = @ \cup {x}] /\ admitted' = [A EXCEPT ![a] = @ \cup {x}]
    BY <1>2, <1>7
  <2>2. AddressOK(swept[a] \cup {x}, F[a], A[a] \cup {x}, pardoned[a], InFlight(a), flight, clock)
    <3>1. /\ ~ (Cardinality(Recent(swept[a], Window, clock)) >= MinuteLimit)
          /\ ~ (Cardinality(swept[a]) >= HourLimit)
      BY <1>7 DEF Since, Recent
    <3> HIDE DEF aged, swept, A, F
    <3> QED
      BY <1>3, <1>5, <3>1, AddressPasses
  <2> HIDE DEF aged, swept, A, F, x
  <2>3. ASSUME NEW b \in Addresses
        PROVE  AddressOK(log'[b], failures'[b], admitted'[b], pardoned'[b], InFlight(b)', flight', clock')
    <3>1. AddressOK(log'[b], failures'[b], admitted'[b], pardoned[b], InFlight(b), flight, clock)
      BY <1>2, <1>4, <1>5, <2>1, <2>2
    <3> QED
      BY <1>2, <1>8, <3>1
  <2> QED
    BY <1>2, <1>3, <1>4, <1>8, <2>1, <2>3 DEF HttpInv
<1> QED
  BY <1>6, <1>7

LEMMA FlightOf ==
  ASSUME FlightsOK, NEW r \in Logins, flight[r] # Idle
  PROVE  /\ flight[r].addr \in Addresses /\ flight[r].at \in Times /\ flight[r].at \in Nat
         /\ flight[r].at <= clock /\ r \in InFlight(flight[r].addr)
BY LimitsAreNat DEF FlightsOK, InFlight, Times

LEMMA FlightTimes ==
  ASSUME FlightsOK
  PROVE  \A r \in Logins : flight[r].at \in Nat
BY LimitsAreNat DEF FlightsOK, Idle, Times

(* A login that is over leaves the flights of its address only.             *)
LEMMA FlightLands ==
  ASSUME clock \in Times, FlightsOK, NEW r \in Logins, flight[r] # Idle, flight' = [flight EXCEPT ![r] = Idle], clock' = clock
  PROVE  /\ FlightsOK'
         /\ \A b \in Addresses : InFlight(b)' = InFlight(b) \ (IF b = flight[r].addr THEN {r} ELSE {})
         /\ \A b \in Addresses : \A q \in InFlight(b)' : flight'[q] = flight[q]
<1>1. \A q \in Logins : flight'[q] = IF q = r THEN Idle ELSE flight[q]
  BY DEF FlightsOK
<1>2. Idle.addr \notin Addresses /\ Idle.at = 0 /\ 0 <= clock
  BY LimitsAssumption, LimitsAreNat DEF Idle, Times
<1>3. FlightsOK'
  BY <1>1, <1>2 DEF FlightsOK
<1> QED
  BY <1>1, <1>2, <1>3 DEF InFlight

LEMMA LoginEndsKept ==
  ASSUME HttpInv, NEW r \in Logins, LoginEnds(r)
  PROVE  HttpInv'
<1>1. /\ flight[r] # Idle /\ flight' = [flight EXCEPT ![r] = Idle]
      /\ UNCHANGED <<clock, log, failures, admitted, pardoned>>
  BY DEF LoginEnds
<1>2. /\ FlightsOK'
      /\ \A b \in Addresses : InFlight(b)' \subseteq InFlight(b)
      /\ \A b \in Addresses : \A q \in InFlight(b)' : flight'[q] = flight[q]
  BY <1>1, FlightLands DEF HttpInv
<1>3. clock \in Int /\ clock <= clock
  BY ClockType DEF HttpInv
<1>4. ASSUME NEW b \in Addresses
      PROVE  AddressOK(log[b], failures[b], admitted[b], pardoned[b], InFlight(b)', flight', clock)
  <2>1. \A q \in InFlight(b) : flight[q].at \in Nat
    BY FlightTimes DEF HttpInv, InFlight
  <2> DEFINE V == InFlight(b)' gl == flight'
  <2>2. V \subseteq InFlight(b) /\ \A q \in V : gl[q] = flight[q]
    BY <1>2
  <2> HIDE DEF V, gl
  <2>3. AddressOK(log[b], failures[b], admitted[b], pardoned[b], V, gl, clock)
    BY <1>3, <2>1, <2>2, AddressAges DEF HttpInv
  <2> QED
    BY <2>3 DEF V, gl
<1> QED
  BY <1>1, <1>2, <1>4 DEF HttpInv

LEMMA LoginArrivesKept ==
  ASSUME HttpInv, NEW r \in Logins, NEW a \in Addresses, LoginArrives(r, a)
  PROVE  HttpInv'
<1> DEFINE aged == Since(log[a], Hour)
           failed == Cardinality(FailedLogins(aged))
           busy == Cardinality(InFlight(a))
<1>1. /\ flight[r] = Idle /\ UNCHANGED <<clock, failures, admitted, pardoned>>
      /\ \/ log' = log /\ flight' = flight
         \/ /\ log' = [log EXCEPT ![a] = aged]
            /\ flight' = IF ~Locks(failed, busy) /\ Admits(failed, busy)
                         THEN [flight EXCEPT ![r] = [addr |-> a, at |-> clock]]
                         ELSE flight
  BY DEF LoginArrives
<1>2. clock \in Times /\ clock \in Int /\ clock <= clock /\ DOMAIN log = Addresses
  BY ClockType DEF HttpInv
<1>3. ASSUME NEW b \in Addresses
      PROVE  AddressOK(log'[b], failures[b], admitted[b], pardoned[b], InFlight(b), flight, clock)
  <2>1. log'[b] = log[b] \/ log'[b] = Recent(log[b], Hour, clock)
    BY <1>1, <1>2 DEF Since, Recent
  <2> QED
    BY <1>2, <2>1, AddressTrims DEF HttpInv
<1>4. CASE flight' = flight
  <2>1. FlightsOK' /\ \A b \in Addresses : InFlight(b)' = InFlight(b)
    BY <1>1, <1>4 DEF HttpInv, FlightsOK, InFlight
  <2>2. ASSUME NEW b \in Addresses
        PROVE  AddressOK(log'[b], failures'[b], admitted'[b], pardoned'[b], InFlight(b)', flight', clock')
    BY <1>1, <1>3, <1>4, <2>1
  <2> QED
    BY <1>1, <1>2, <2>1, <2>2 DEF HttpInv
<1>5. CASE flight' # flight
  <2>1. /\ log' = [log EXCEPT ![a] = aged] /\ Admits(failed, busy)
        /\ flight' = [flight EXCEPT ![r] = [addr |-> a, at |-> clock]]
    BY <1>1, <1>5
  <2>2. \A q \in Logins : flight'[q] = IF q = r THEN [addr |-> a, at |-> clock] ELSE flight[q]
    BY <2>1 DEF HttpInv, FlightsOK
  <2>3. flight' \in [Logins -> {Idle} \cup [addr : Addresses, at : Times]]
    BY <1>2, <2>1 DEF HttpInv, FlightsOK
  <2>4. FlightsOK'
    BY <1>1, <1>2, <2>2, <2>3 DEF HttpInv, FlightsOK
  <2>5. Idle.addr \notin Addresses
    BY LimitsAssumption DEF Idle
  <2>6. \A b \in Addresses : InFlight(b)' = IF b = a THEN InFlight(a) \cup {r} ELSE InFlight(b)
    BY <1>1, <2>2, <2>5 DEF InFlight
  <2>7. \A b \in Addresses : \A q \in InFlight(b) : flight'[q] = flight[q] /\ flight[q].at \in Nat
    BY <1>1, <2>2, <2>5, FlightTimes DEF HttpInv, InFlight
  <2>8. Cardinality({e \in Recent(log'[a], Window, clock) : e.login}) + Cardinality(InFlight(a)) < LoginLimit
    <3>1. FailedLogins(aged) = {e \in Recent(log'[a], Window, clock) : e.login}
      BY <1>2, <2>1 DEF FailedLogins, Since, Recent
    <3> QED
      BY <2>1, <3>1 DEF Admits
  <2>9. ASSUME NEW b \in Addresses
        PROVE  AddressOK(log'[b], failures'[b], admitted'[b], pardoned'[b], InFlight(b)', flight', clock')
    <3> DEFINE gl == flight' l == log'[b]
    <3>1. AddressOK(l, failures[b], admitted[b], pardoned[b], InFlight(b), flight, clock)
      BY <1>3
    <3>2. CASE b = a
      <4>1. Cardinality({e \in Recent(l, Window, clock) : e.login}) + Cardinality(InFlight(b)) < LoginLimit
        BY <2>8, <3>2
      <4> HIDE DEF gl, l
      <4>2. AddressOK(l, failures[b], admitted[b], pardoned[b], InFlight(b) \cup {r}, gl, clock)
        BY <1>2, <3>1, <4>1, AddressAdmits
      <4> QED
        BY <1>1, <2>6, <3>2, <4>2 DEF gl, l
    <3>3. CASE b # a
      <4>1. \A q \in InFlight(b) : gl[q] = flight[q] /\ flight[q].at \in Nat
        BY <2>7
      <4> HIDE DEF gl, l
      <4>2. AddressOK(l, failures[b], admitted[b], pardoned[b], InFlight(b), gl, clock)
        BY <1>2, <3>1, <4>1, AddressAges
      <4> QED
        BY <1>1, <2>6, <3>3, <4>2 DEF gl, l
    <3> QED
      BY <3>2, <3>3
  <2> QED
    BY <1>1, <1>2, <2>1, <2>4, <2>9 DEF HttpInv
<1> QED
  BY <1>4, <1>5

LEMMA LoginFailsKept ==
  ASSUME HttpInv, NEW r \in Logins, LoginFails(r)
  PROVE  HttpInv'
<1> DEFINE a == flight[r].addr
           e == New(log[a], flight[r].at, TRUE)
           grown == [log EXCEPT ![a] = @ \cup {e}]
           more == [failures EXCEPT ![a] = @ \cup {e}]
<1>1. PICK K : /\ log' = Keep(grown, K)
               /\ failures' = KeepHistory(more, grown, K)
               /\ admitted' = KeepHistory(admitted, grown, K)
  BY DEF LoginFails
<1>2. flight[r] # Idle /\ flight' = [flight EXCEPT ![r] = Idle] /\ UNCHANGED <<clock, pardoned>>
  BY DEF LoginFails
<1>3. clock \in Times /\ clock \in Int /\ clock <= clock
  BY ClockType DEF HttpInv
<1>4. /\ FlightsOK'
      /\ \A b \in Addresses : InFlight(b)' = InFlight(b) \ (IF b = a THEN {r} ELSE {})
      /\ \A b \in Addresses : \A q \in InFlight(b)' : flight'[q] = flight[q]
  BY <1>2, FlightLands DEF HttpInv
<1>5. a \in Addresses /\ flight[r].at \in Times /\ flight[r].at <= clock /\ r \in InFlight(a)
  BY <1>2, FlightOf DEF HttpInv
<1>6. ASSUME NEW b \in Addresses
      PROVE  AddressOK(grown[b], more[b], admitted[b], pardoned[b], InFlight(b)', flight', clock)
  <2> DEFINE V == InFlight(b)' gl == flight'
  <2>1. \A q \in V : gl[q] = flight[q]
    BY <1>4
  <2>2. AddressOK(log[b], failures[b], admitted[b], pardoned[b], InFlight(b), flight, clock)
    BY DEF HttpInv
  <2>3. CASE b = a
    <3>1. V = InFlight(b) \ {r} /\ r \in InFlight(b)
      BY <1>4, <1>5, <2>3
    <3>2. grown[b] = log[b] \cup {e} /\ more[b] = failures[b] \cup {e} /\ e = New(log[b], flight[r].at, TRUE)
      BY <2>3 DEF HttpInv
    <3> HIDE DEF V, gl, grown, more, e
    <3>3. AddressOK(grown[b], more[b], admitted[b], pardoned[b], InFlight(b) \ {r}, gl, clock)
      <4> DEFINE W == InFlight(b)
      <4>1. r \in W /\ \A q \in W \ {r} : gl[q] = flight[q]
        BY <2>1, <3>1
      <4>2. AddressOK(log[b], failures[b], admitted[b], pardoned[b], W, flight, clock)
        BY <2>2
      <4> HIDE DEF W
      <4>3. AddressOK(log[b] \cup {e}, failures[b] \cup {e}, admitted[b], pardoned[b], W \ {r}, gl, clock)
        BY <1>3, <1>5, <3>2, <4>1, <4>2, AddressFails, ZenonT(60)
      <4> QED
        BY <3>2, <4>3 DEF W
    <3> QED
      BY <3>1, <3>3 DEF V, gl
  <2>4. CASE b # a
    <3>1. V = InFlight(b) /\ \A q \in InFlight(b) : flight[q].at \in Nat
      BY <1>4, <2>4, FlightTimes DEF HttpInv, InFlight
    <3>2. grown[b] = log[b] /\ more[b] = failures[b]
      BY <2>4 DEF HttpInv
    <3> HIDE DEF V, gl, grown, more
    <3>3. AddressOK(grown[b], more[b], admitted[b], pardoned[b], V, gl, clock)
      BY <1>3, <2>1, <2>2, <3>1, <3>2, AddressAges
    <3> QED
      BY <3>3 DEF V, gl
  <2> QED
    BY <2>3, <2>4
<1> HIDE DEF grown, more, e
<1>7. ASSUME NEW b \in Addresses
      PROVE  AddressOK(log'[b], failures'[b], admitted'[b], pardoned'[b], InFlight(b)', flight', clock')
  <2> DEFINE V == InFlight(b)' gl == flight'
  <2>1. AddressOK(grown[b], more[b], admitted[b], pardoned[b], V, gl, clock)
    BY <1>6
  <2> HIDE DEF V, gl
  <2>2. AddressOK(Keep(grown, K)[b], KeepHistory(more, grown, K)[b], KeepHistory(admitted, grown, K)[b],
                  pardoned[b], V, gl, clock)
    BY <1>3, <2>1, AddressSwept
  <2> QED
    BY <1>1, <1>2, <2>2 DEF V, gl
<1>8. DOMAIN log' = Addresses /\ DOMAIN failures' = Addresses /\ DOMAIN admitted' = Addresses
  BY <1>1 DEF Keep, KeepHistory
<1> QED
  BY <1>2, <1>3, <1>4, <1>7, <1>8 DEF HttpInv

LEMMA LoginSucceedsKept ==
  ASSUME HttpInv, NEW r \in Logins, LoginSucceeds(r)
  PROVE  HttpInv'
<1> DEFINE a == flight[r].addr
           at == flight[r].at
           left == {e \in log[a] : e.at > at - Window /\ ~e.login}
           upto == IF at - Window > pardoned[a] THEN at - Window ELSE pardoned[a]
<1>1. /\ flight[r] # Idle /\ flight' = [flight EXCEPT ![r] = Idle] /\ clock' = clock /\ admitted' = admitted
      /\ log' = [log EXCEPT ![a] = left]
      /\ failures' = [failures EXCEPT ![a] = {}]
      /\ pardoned' = [pardoned EXCEPT ![a] = IF at - Window > @ THEN at - Window ELSE @]
  BY DEF LoginSucceeds
<1>2. clock \in Times /\ clock \in Int /\ clock <= clock
  BY ClockType DEF HttpInv
<1>3. /\ FlightsOK'
      /\ \A b \in Addresses : InFlight(b)' = InFlight(b) \ (IF b = a THEN {r} ELSE {})
      /\ \A b \in Addresses : \A q \in InFlight(b)' : flight'[q] = flight[q]
  BY <1>1, FlightLands DEF HttpInv
<1>4. a \in Addresses /\ at \in Nat /\ at <= clock
  BY <1>1, FlightOf DEF HttpInv
<1>5. ASSUME NEW b \in Addresses
      PROVE  AddressOK(log'[b], failures'[b], admitted'[b], pardoned'[b], InFlight(b)', flight', clock')
  <2> DEFINE V == InFlight(b)' gl == flight'
  <2>1. V \subseteq InFlight(b) /\ \A q \in V : gl[q] = flight[q]
    BY <1>3
  <2>2. AddressOK(log[b], failures[b], admitted[b], pardoned[b], InFlight(b), flight, clock)
    BY DEF HttpInv
  <2>3. CASE b = a
    <3> DEFINE W == InFlight(b)
    <3>1. log'[b] = Forgiven(log[b], at) /\ failures'[b] = {} /\ pardoned'[b] = Later(pardoned[b], at)
      BY <1>1, <2>3 DEF HttpInv, Forgiven, Later
    <3>2. AddressOK(log[b], failures[b], admitted[b], pardoned[b], W, flight, clock) /\ V \subseteq W
      BY <2>1, <2>2
    <3> HIDE DEF V, gl, W, at
    <3>3. AddressOK(Forgiven(log[b], at), {}, admitted[b], Later(pardoned[b], at), V, gl, clock)
      BY <1>2, <1>4, <2>1, <3>2, AddressForgives, ZenonT(60)
    <3> QED
      BY <1>1, <3>1, <3>3 DEF V, gl
  <2>4. CASE b # a
    <3>1. \A q \in InFlight(b) : flight[q].at \in Nat
      BY FlightTimes DEF HttpInv, InFlight
    <3>2. log'[b] = log[b] /\ failures'[b] = failures[b] /\ pardoned'[b] = pardoned[b]
      BY <1>1, <2>4 DEF HttpInv
    <3> HIDE DEF V, gl
    <3>3. AddressOK(log[b], failures[b], admitted[b], pardoned[b], V, gl, clock)
      BY <1>2, <2>1, <2>2, <3>1, AddressAges
    <3> QED
      BY <1>1, <3>2, <3>3 DEF V, gl
  <2> QED
    BY <2>3, <2>4
<1>6. DOMAIN log' = Addresses /\ DOMAIN failures' = Addresses /\ DOMAIN admitted' = Addresses /\ DOMAIN pardoned' = Addresses
  BY <1>1 DEF HttpInv
<1> QED
  BY <1>1, <1>2, <1>3, <1>5, <1>6 DEF HttpInv

LEMMA HttpTicks ==
  ASSUME HttpInv, LimitTick
  PROVE  HttpInv'
<1>1. /\ clock < MaxClock /\ clock' = clock + 1
      /\ UNCHANGED <<log, flight, failures, admitted, pardoned>>
  BY DEF LimitTick
<1>2. clock \in Times /\ clock \in Int
  BY ClockType DEF HttpInv
<1>3. clock' \in Times /\ clock' \in Int /\ clock <= clock'
  BY <1>1, <1>2, LimitsAreNat DEF Times
<1>4. FlightsOK' /\ \A b \in Addresses : InFlight(b)' = InFlight(b)
  <2>1. \A r \in Logins : flight[r].at <= clock'
    BY <1>1, <1>2, FlightTimes DEF HttpInv, FlightsOK
  <2> QED
    BY <1>1, <2>1 DEF HttpInv, FlightsOK, InFlight
<1>5. ASSUME NEW b \in Addresses
      PROVE  AddressOK(log'[b], failures'[b], admitted'[b], pardoned'[b], InFlight(b)', flight', clock')
  <2> DEFINE later == clock'
  <2>1. \A q \in InFlight(b) : flight[q].at \in Nat
    BY FlightTimes DEF HttpInv, InFlight
  <2>2. later \in Int /\ clock <= later
    BY <1>3
  <2> HIDE DEF later
  <2>3. AddressOK(log[b], failures[b], admitted[b], pardoned[b], InFlight(b), flight, later)
    BY <1>2, <2>1, <2>2, AddressAges DEF HttpInv
  <2> QED
    BY <1>1, <1>4, <2>3 DEF later
<1> QED
  BY <1>1, <1>3, <1>4, <1>5 DEF HttpInv

LEMMA HttpStays ==
  ASSUME HttpInv, UNCHANGED <<clock, log, flight, failures, admitted, pardoned>>
  PROVE  HttpInv'
<1>1. FlightsOK' /\ \A b \in Addresses : InFlight(b)' = InFlight(b)
  BY DEF HttpInv, FlightsOK, InFlight
<1> QED
  BY <1>1 DEF HttpInv

LEMMA HttpKept ==
  ASSUME HttpInv, [HttpNext \/ SocketNext]_limitVars
  PROVE  HttpInv'
<1>1. ASSUME NEW a \in Addresses, Request(a) PROVE HttpInv'
  BY <1>1, RequestKept
<1>2. ASSUME NEW r \in Logins, NEW a \in Users, LoginArrives(r, a) PROVE HttpInv'
  <2>1. a \in Addresses
    BY LimitsAssumption
  <2> QED
    BY <1>2, <2>1, LoginArrivesKept
<1>3. ASSUME NEW r \in Logins, LoginFails(r) \/ LoginSucceeds(r) \/ LoginEnds(r) PROVE HttpInv'
  BY <1>3, LoginFailsKept, LoginSucceedsKept, LoginEndsKept
<1>4. CASE LimitTick
  BY <1>4, HttpTicks
<1>5. ASSUME NEW a \in Addresses, Connect(a) PROVE HttpInv'
  BY <1>5, HttpStays DEF Connect
<1>6. CASE UNCHANGED limitVars
  BY <1>6, HttpStays DEF limitVars
<1> QED
  BY <1>1, <1>2, <1>3, <1>4, <1>5, <1>6 DEF HttpNext, SocketNext

LEMMA HttpStarts ==
  ASSUME LimitInit
  PROVE  HttpInv
<1>1. clock = 0 /\ clock \in Times /\ clock \in Int
  BY LimitsAreNat DEF LimitInit, Times
<1>2. FlightsOK
  BY <1>1 DEF LimitInit, FlightsOK, Idle
<1>3. \A a \in Addresses : InFlight(a) = {}
  BY LimitsAssumption DEF LimitInit, InFlight, Idle
<1>4. ASSUME NEW a \in Addresses
      PROVE  AddressOK(log[a], failures[a], admitted[a], pardoned[a], InFlight(a), flight, clock)
  <2>1. log[a] = {} /\ failures[a] = {} /\ admitted[a] = {} /\ pardoned[a] \in Int
    BY DEF LimitInit
  <2>2. FailsWithin({}, {}, flight, clock)
    <3>1. Recent({}, Window, clock) = {} /\ Pending({}, flight, clock) = {}
      BY DEF Recent, Pending
    <3> QED
      BY <3>1, FS_EmptySet, LimitsAreNat DEF FailsWithin
  <2> QED
    BY <1>1, <1>3, <2>1, <2>2, ListStarts, CountedStarts, NothingPassed, FS_EmptySet DEF AddressOK
<1> QED
  BY <1>1, <1>2, <1>4 DEF HttpInv, LimitInit

-----------------------------------------------------------------------------
(* The steps of the connection limiter.                                     *)

LEMMA PeerDropped ==
  ASSUME NEW now
  PROVE  PeerOK({}, {}, now)
<1>1. Dialled({}, now) = {}
  BY DEF Dialled
<1> QED
  BY <1>1, ListStarts, FS_EmptySet, LimitsAreNat DEF PeerOK

(* popleft drops only what is too old to count.                             *)
Young(c, now) == {e \in c : \E f \in c : f.n <= e.n /\ f.at >= now - Window}

LEMMA PeerTrims ==
  ASSUME NEW c, NEW d, NEW now \in Int, PeerOK(c, d, now)
  PROVE  PeerOK(Young(c, now), d, now)
<1>1. Young(c, now) \subseteq c
  BY DEF Young
<1>2. ListOK(Young(c, now), now)
  BY <1>1, ListShrinks DEF PeerOK
<1>3. \A e \in c : e.n \in Nat
  BY EntryFields DEF PeerOK, ListOK
<1>4. Dialled(d, now) \subseteq Young(c, now)
  BY <1>3 DEF PeerOK, Dialled, Young
<1> QED
  BY <1>1, <1>2, <1>4 DEF PeerOK

LEMMA PeerDials ==
  ASSUME NEW c, NEW d, NEW now \in Times, PeerOK(c, d, now), ~ (Cardinality(c) >= ConnectLimit),
         NEW e, e = New(c, now, FALSE)
  PROVE  PeerOK(c \cup {e}, d \cup {e}, now)
<1>0. now \in Int /\ now <= now
  BY LimitsAreNat DEF Times
<1>1. e \in Entry /\ e.at = now /\ ListOK(c \cup {e}, now) /\ \A f \in c : f.n < e.n
  BY <1>0, ListGrows DEF PeerOK
<1>2. \A f \in c : f.n \in Nat /\ f.at \in Nat /\ f.at <= now
  BY EntryFields DEF PeerOK, ListOK
<1>3. \A f, g \in c \cup {e} : f.n <= g.n => f.at <= g.at
  <2>1. e.n \in Nat
    BY <1>1, EntryFields
  <2>2. SUFFICES ASSUME NEW f \in c \cup {e}, NEW g \in c \cup {e}, f.n <= g.n
                 PROVE  f.at <= g.at
    OBVIOUS
  <2>3. CASE f \in c /\ g \in c
    BY <2>2, <2>3 DEF PeerOK
  <2>4. CASE f \in c /\ g = e
    BY <1>1, <1>2, <2>4
  <2>5. CASE f = e /\ g \in c
    <3>1. g.n < f.n /\ g.n \in Nat /\ f.n \in Nat
      BY <1>1, <1>2, <2>1, <2>5
    <3> QED
      BY <2>2, <3>1
  <2>6. CASE f = e /\ g = e
    BY <1>0, <1>1, <2>6
  <2> QED
    BY <2>3, <2>4, <2>5, <2>6
<1>4. Dialled(d \cup {e}, now) \subseteq c \cup {e}
  BY DEF Dialled, PeerOK
<1>5. /\ Cardinality(Dialled(d \cup {e}, now)) \in Nat /\ Cardinality(c) \in Nat
      /\ Cardinality(Dialled(d \cup {e}, now)) <= Cardinality(c) + 1
  BY <1>4, OneMore DEF PeerOK, ListOK
<1>6. Cardinality(Dialled(d \cup {e}, now)) <= ConnectLimit
  BY <1>5, LimitsAreNat
<1> QED
  BY <1>1, <1>3, <1>4, <1>6 DEF PeerOK

LEMMA PeerAges ==
  ASSUME NEW c, NEW d, NEW now \in Int, PeerOK(c, d, now), NEW later \in Int, now <= later
  PROVE  PeerOK(c, d, later)
<1>1. ListOK(c, later)
  BY ListAges DEF PeerOK
<1>2. Dialled(d, later) \subseteq Dialled(d, now)
  <2>1. \A e \in d : e.at \in Nat
    BY EntryFields DEF PeerOK
  <2> QED
    BY <2>1, LimitsAreNat DEF Dialled
<1>3. IsFiniteSet(Dialled(d, now))
  BY Fewer DEF PeerOK, ListOK
<1>4. /\ Cardinality(Dialled(d, later)) \in Nat /\ Cardinality(Dialled(d, now)) \in Nat
      /\ Cardinality(Dialled(d, later)) <= Cardinality(Dialled(d, now))
  BY <1>2, <1>3, Fewer
<1> QED
  BY <1>1, <1>2, <1>4, LimitsAreNat DEF PeerOK

LEMMA ConnectKept ==
  ASSUME SocketInv, NEW a \in Addresses, Connect(a)
  PROVE  SocketInv'
<1>1. PICK K : LET swept == Keep(connects, K)
                   young == {e \in swept[a] : \E f \in swept[a] : f.n <= e.n /\ f.at >= clock - Window}
                   e == IF Cardinality(young) >= ConnectLimit THEN {} ELSE {New(young, clock, FALSE)}
               IN /\ connects' = [swept EXCEPT ![a] = young \cup e]
                  /\ dialled' = [KeepHistory(dialled, connects, K) EXCEPT ![a] = @ \cup e]
                  /\ clock' = clock
  BY DEF Connect
<1> DEFINE C == Keep(connects, K)
           D == KeepHistory(dialled, connects, K)
           young == Young(C[a], clock)
           e == IF Cardinality(young) >= ConnectLimit THEN {} ELSE {New(young, clock, FALSE)}
<1>2. /\ connects' = [C EXCEPT ![a] = young \cup e] /\ dialled' = [D EXCEPT ![a] = @ \cup e] /\ clock' = clock
  BY <1>1 DEF Young
<1>3. DOMAIN C = Addresses /\ DOMAIN D = Addresses /\ clock \in Times /\ clock \in Int
  BY ClockType DEF Keep, KeepHistory, SocketInv
<1>4. ASSUME NEW b \in Addresses PROVE PeerOK(C[b], D[b], clock)
  <2>1. PeerOK(connects[b], dialled[b], clock)
    BY DEF SocketInv
  <2> QED
    BY <2>1, PeerDropped, SweepPairs
<1> HIDE DEF C, D
<1>5. PeerOK(young, D[a], clock)
  BY <1>3, <1>4, PeerTrims
<1> HIDE DEF young
<1>6. PeerOK(young \cup e, D[a] \cup e, clock)
  <2>1. CASE Cardinality(young) >= ConnectLimit
    <3>1. young \cup e = young /\ D[a] \cup e = D[a]
      BY <2>1
    <3> QED
      BY <1>5, <3>1
  <2>2. CASE ~ (Cardinality(young) >= ConnectLimit)
    <3>1. e = {New(young, clock, FALSE)}
      BY <2>2
    <3> HIDE DEF e
    <3> QED
      BY <1>3, <1>5, <2>2, <3>1, PeerDials
  <2> QED
    BY <2>1, <2>2
<1> HIDE DEF e
<1>7. ASSUME NEW b \in Addresses PROVE PeerOK(connects'[b], dialled'[b], clock')
  BY <1>2, <1>3, <1>4, <1>6
<1> QED
  BY <1>2, <1>3, <1>7 DEF SocketInv

LEMMA SocketTicks ==
  ASSUME SocketInv, LimitTick
  PROVE  SocketInv'
<1>1. clock < MaxClock /\ clock' = clock + 1 /\ UNCHANGED <<connects, dialled>>
  BY DEF LimitTick
<1>2. clock \in Times /\ clock \in Int
  BY ClockType DEF SocketInv
<1>3. clock' \in Times /\ clock' \in Int /\ clock <= clock'
  BY <1>1, <1>2, LimitsAreNat DEF Times
<1> DEFINE later == clock'
<1>4. later \in Int /\ clock <= later
  BY <1>3
<1> HIDE DEF later
<1>5. \A b \in Addresses : PeerOK(connects[b], dialled[b], later)
  BY <1>2, <1>4, PeerAges DEF SocketInv
<1> QED
  BY <1>1, <1>3, <1>5 DEF SocketInv, later

LEMMA SocketKept ==
  ASSUME SocketInv, [HttpNext \/ SocketNext]_limitVars
  PROVE  SocketInv'
<1>1. ASSUME UNCHANGED <<clock, connects, dialled>> PROVE SocketInv'
  BY <1>1 DEF SocketInv
<1>2. CASE HttpNext
  BY <1>1, <1>2, SocketTicks DEF HttpNext, Request, LoginArrives, LoginFails, LoginSucceeds, LoginEnds
<1>3. CASE SocketNext
  BY <1>3, ConnectKept, SocketTicks DEF SocketNext
<1>4. CASE UNCHANGED limitVars
  BY <1>1, <1>4 DEF limitVars
<1> QED
  BY <1>2, <1>3, <1>4

LEMMA SocketStarts ==
  ASSUME LimitInit
  PROVE  SocketInv
BY LimitsAreNat, PeerDropped DEF LimitInit, SocketInv, Times

-----------------------------------------------------------------------------
(* The table of addresses and the locks.                                    *)

LEMMA SweepLeaves ==
  ASSUME NEW l, NEW T, NEW K \in Sweeps(l, T)
  PROVE  K \subseteq T
BY DEF Sweeps

(* A sweep of the locks releases some and changes no other.                 *)
LEMMA SweptLocksOf ==
  ASSUME NEW a, NEW locks \in SweptLocks(a)
  PROVE  DOMAIN locks = Addresses /\ \A b \in Addresses : locks[b] = lock[b] \/ locks[b] = 0
<1>1. PICK L : locks = [b \in Addresses |-> IF b \in L THEN lock[b] ELSE 0]
  BY DEF SweptLocks
<1> QED
  BY <1>1

LEMMA ArrivalLocks ==
  ASSUME NEW r, NEW a, LoginArrives(r, a)
  PROVE  \E locks \in SweptLocks(a) :
           lock' = locks \/ lock' = [locks EXCEPT ![a] = clock + LockSeconds]
BY DEF LoginArrives

LEMMA TableKept ==
  ASSUME HttpInv, TableInv, [HttpNext \/ SocketNext]_limitVars
  PROVE  TableInv'
<1>0. DOMAIN log = Addresses /\ clock \in Times /\ clock \in Int
  BY ClockType DEF HttpInv
<1>1. ASSUME NEW a \in Addresses, Request(a) PROVE TableInv'
  <2> DEFINE aged == [log EXCEPT ![a] = Since(@, Hour)]
             names == IF aged[a] = {} THEN tracked \ {a} ELSE tracked \cup {a}
  <2>1. PICK K \in Sweeps(aged, names) :
               /\ tracked' = K \cup {a} /\ lock' = lock
               /\ \E e : log' = [Keep(aged, K) EXCEPT ![a] = @ \cup e]
    BY <1>1 DEF Request
  <2>2. K \subseteq Addresses
    <3>1. names \subseteq Addresses
      BY DEF TableInv
    <3> HIDE DEF names, aged
    <3> QED
      BY <3>1, SweepLeaves
  <2>3. \A b \in Addresses : b \notin tracked' => log'[b] = {}
    BY <2>1 DEF Keep
  <2> QED
    BY <2>1, <2>2, <2>3 DEF TableInv
<1>2. ASSUME NEW r \in Logins, NEW a \in Users, LoginArrives(r, a) PROVE TableInv'
  <2>1. a \in Addresses
    BY LimitsAssumption
  <2>2. PICK locks \in SweptLocks(a) :
          lock' = locks \/ lock' = [locks EXCEPT ![a] = clock + LockSeconds]
    BY <1>2, ArrivalLocks
  <2>3. lock' \in [Addresses -> 0..(MaxClock + LockSeconds)]
    <3>1. DOMAIN locks = Addresses /\ \A b \in Addresses : locks[b] \in 0..(MaxClock + LockSeconds)
      BY <2>2, SweptLocksOf, LimitsAreNat DEF TableInv
    <3>2. clock + LockSeconds \in 0..(MaxClock + LockSeconds)
      BY <1>0, LimitsAreNat DEF Times
    <3>3. DOMAIN lock' = Addresses /\ lock' = [b \in Addresses |-> lock'[b]]
      <4>1. locks = [b \in Addresses |-> locks[b]]
        <5>1. PICK L : locks = [b \in Addresses |-> IF b \in L THEN lock[b] ELSE 0]
          BY <2>2 DEF SweptLocks
        <5> QED
          BY <5>1
      <4> QED
        BY <2>2, <4>1
    <3>4. \A b \in Addresses : lock'[b] \in 0..(MaxClock + LockSeconds)
      BY <2>1, <2>2, <3>1, <3>2
    <3> QED
      BY <3>3, <3>4
  <2>4. \/ log' = log /\ tracked' = tracked
        \/ tracked' = tracked \cup {a} /\ \E k : log' = [log EXCEPT ![a] = k]
    BY <1>2 DEF LoginArrives
  <2> QED
    BY <1>0, <2>1, <2>3, <2>4 DEF TableInv
<1>3. ASSUME NEW r \in Logins, LoginFails(r) PROVE TableInv'
  <2> DEFINE a == flight[r].addr
  <2>1. PICK grown : \E K \in Sweeps(grown, tracked \cup {a}) :
          log' = Keep(grown, K) /\ tracked' = K /\ lock' = lock /\ flight[r] # Idle
    BY <1>3 DEF LoginFails
  <2>2. a \in Addresses
    BY <2>1, FlightOf DEF HttpInv
  <2>3. PICK K \in Sweeps(grown, tracked \cup {a}) : log' = Keep(grown, K) /\ tracked' = K /\ lock' = lock
    BY <2>1
  <2> HIDE DEF a
  <2>4. K \subseteq tracked \cup {a}
    BY <2>3, SweepLeaves
  <2> QED
    BY <2>2, <2>3, <2>4 DEF TableInv, Keep
<1>4. ASSUME NEW r \in Logins, LoginSucceeds(r) PROVE TableInv'
  <2> DEFINE a == flight[r].addr
             left == {e \in log[a] : e.at > flight[r].at - Window /\ ~e.login}
  <2>1. /\ log' = [log EXCEPT ![a] = left] /\ lock' = lock /\ flight[r] # Idle
        /\ tracked' = IF left = {} THEN tracked \ {a} ELSE tracked \cup {a}
    BY <1>4 DEF LoginSucceeds
  <2>2. a \in Addresses
    BY <2>1, FlightOf DEF HttpInv
  <2> HIDE DEF a, left
  <2>3. \A b \in Addresses : b \notin tracked' => log'[b] = {}
    BY <1>0, <2>1, <2>2 DEF TableInv
  <2> QED
    BY <2>1, <2>2, <2>3 DEF TableInv
<1>5. ASSUME UNCHANGED <<log, tracked, lock>> PROVE TableInv'
  BY <1>5 DEF TableInv
<1> QED
  BY <1>1, <1>2, <1>3, <1>4, <1>5 DEF HttpNext, SocketNext, LoginEnds, LimitTick, Connect, limitVars

LEMMA TableStarts ==
  ASSUME LimitInit
  PROVE  TableInv
BY LimitsAreNat DEF LimitInit, TableInv

(* What holds in every state of the two limiters.                           *)
LimitInv == HttpInv /\ SocketInv /\ TableInv

LEMMA LimitInvHolds == LimitSpec => []LimitInv
<1>1. LimitInit => LimitInv
  BY HttpStarts, SocketStarts, TableStarts DEF LimitInv
<1>2. LimitInv /\ [HttpNext \/ SocketNext]_limitVars => LimitInv'
  BY HttpKept, SocketKept, TableKept DEF LimitInv
<1> QED
  BY <1>1, <1>2, PTL DEF LimitSpec

(* The variables of RateLimits have their types; no two entries of a list   *)
(* have the same number, and a list of connections is in the order of time. *)
THEOREM LimitsTyped == LimitSpec => []LimitTypes
<1>1. LimitInv => LimitTypes
  BY DEF LimitInv, LimitTypes, HttpInv, SocketInv, TableInv, FlightsOK, AddressOK, PeerOK, ListOK
<1> QED
  BY <1>1, LimitInvHolds, PTL

(* However logins are interleaved with their slow verification, failures    *)
(* come in late, lists are cleaned up and addresses are swept from the      *)
(* tables of RateLimitMiddleware and the WebSocket endpoint, no address     *)
(* gets more failed or undecided logins, requests or connections through    *)
(* than the limits of the code.                                             *)
THEOREM BudgetsAreKept == LimitSpec => []Budgets
<1>1. ASSUME LimitInv PROVE LoginBudget
  <2>1. SUFFICES ASSUME NEW a \in Addresses
        PROVE Cardinality(Since(failures[a], Window))
                + Cardinality({r \in InFlight(a) : flight[r].at > clock - Window}) <= LoginLimit
    BY DEF LoginBudget
  <2>2. FailsWithin(failures[a], InFlight(a), flight, clock)
    BY <1>1 DEF LimitInv, HttpInv, AddressOK
  <2> QED
    BY <2>2 DEF FailsWithin, Recent, Since, Pending
<1>2. ASSUME LimitInv PROVE RequestBudget
  <2>1. SUFFICES ASSUME NEW a \in Addresses
        PROVE /\ Cardinality(Since(admitted[a], Window)) <= MinuteLimit
              /\ Cardinality({e \in Since(admitted[a], Hour) : e.at > pardoned[a]}) <= HourLimit
    BY DEF RequestBudget
  <2>2. PassesWithin(admitted[a], pardoned[a], clock)
    <3>1. AddressOK(log[a], failures[a], admitted[a], pardoned[a], InFlight(a), flight, clock)
      BY <1>2 DEF LimitInv, HttpInv
    <3> QED
      BY <3>1 DEF AddressOK
  <2> QED
    BY <2>2 DEF PassesWithin, Recent, Since
<1>3. ASSUME LimitInv PROVE ConnectBudget
  BY <1>3 DEF LimitInv, SocketInv, PeerOK, Dialled, ConnectBudget
<1>4. LimitInv => Budgets
  BY <1>1, <1>2, <1>3 DEF Budgets
<1> QED
  BY <1>4, LimitInvHolds, PTL

(* The step that locks an address out finds LoginLimit failures of the      *)
(* window on its list; every one of them is a failure that was seen.        *)
LEMMA ArrivalEarns ==
  ASSUME LimitInv, NEW r \in Logins, NEW x \in Addresses, LoginArrives(r, x),
         NEW a \in Addresses, lock[a] <= clock, lock'[a] > clock
  PROVE  Cardinality(Since(failures[a], Window)) >= LoginLimit
<1> DEFINE aged == Since(log[x], Hour)
           failed == Cardinality(FailedLogins(aged))
           busy == Cardinality(InFlight(x))
<1>0. clock \in Int /\ clock >= 0
  BY ClockType, LimitsAreNat DEF LimitInv, HttpInv, Times
<1>1. PICK locks \in SweptLocks(x) :
        \/ lock' = locks
        \/ Locks(failed, busy) /\ lock' = [locks EXCEPT ![x] = clock + LockSeconds]
  BY DEF LoginArrives
<1>2. DOMAIN locks = Addresses /\ (locks[a] = lock[a] \/ locks[a] = 0)
  BY <1>1, SweptLocksOf
<1>3. ~ (locks[a] > clock)
  BY <1>0, <1>2 DEF LimitInv, TableInv
<1>4. a = x /\ Locks(failed, busy)
  BY <1>1, <1>2, <1>3
<1>5. Recent(failures[a], Window, clock) = {e \in Recent(Recent(log[a], Hour, clock), Window, clock) : e.login}
  <2>1. AddressOK(log[a], failures[a], admitted[a], pardoned[a], InFlight(a), flight, clock)
    BY DEF LimitInv, HttpInv
  <2>2. AddressOK(Recent(log[a], Hour, clock), failures[a], admitted[a], pardoned[a], InFlight(a), flight, clock)
    BY <1>0, <2>1, AddressTrims
  <2> QED
    BY <1>0, <2>2, RecentFailures DEF AddressOK
<1>6. FailedLogins(aged) = Since(failures[a], Window)
  BY <1>4, <1>5 DEF FailedLogins, Since, Recent
<1> QED
  BY <1>4, <1>6 DEF Locks

(* An address is locked out for failures the server has seen, never for     *)
(* attempts that are still being verified and may all succeed.              *)
THEOREM LocksFollowFailures == LimitSpec => LocksAreEarned
<1>1. ASSUME LimitInv, [HttpNext \/ SocketNext]_limitVars
      PROVE  [\A a \in Addresses : lock[a] <= clock /\ lock'[a] > clock =>
                Cardinality(Since(failures[a], Window)) >= LoginLimit]_limitVars
  <2>1. SUFFICES ASSUME NEW a \in Addresses, lock[a] <= clock, lock'[a] > clock
                 PROVE  Cardinality(Since(failures[a], Window)) >= LoginLimit
    OBVIOUS
  <2>2. lock' # lock
    BY <1>1, <2>1, ClockType DEF LimitInv, HttpInv, TableInv
  <2>3. PICK r \in Logins, x \in Users : LoginArrives(r, x)
    BY <1>1, <2>2 DEF HttpNext, SocketNext, Request, LoginFails, LoginSucceeds, LoginEnds, LimitTick,
                      Connect, limitVars
  <2>4. x \in Addresses
    BY <2>3, LimitsAssumption
  <2> QED
    BY <1>1, <2>1, <2>3, <2>4, ArrivalEarns
<1> QED
  BY <1>1, LimitInvHolds, PTL DEF LimitSpec, LocksAreEarned

-----------------------------------------------------------------------------
(* Types and bounds of every service, and of all of them together.          *)

(* The databases of an upgrade.                                             *)
SchemaBounds == SchemaInv /\ stops \in 0..MaxStops

LEMMA SchemaBoundsStart == SchemaInit => SchemaBounds
BY SchemaStarts, SchemaAssumption DEF SchemaBounds, SchemaInit

LEMMA SchemaBoundsKept == SchemaBounds /\ [SchemaNext]_schemaVars => SchemaBounds'
<1> SUFFICES ASSUME SchemaBounds, [SchemaNext]_schemaVars PROVE SchemaBounds'
  OBVIOUS
<1>1. SchemaInv'
  BY SchemaKept DEF SchemaBounds
<1>2. stops' = stops \/ (stops' = stops + 1 /\ stops < MaxStops)
  <2>1. CASE Stop
    BY <2>1 DEF Stop
  <2>2. CASE Open \/ UNCHANGED schemaVars
    BY <2>2 DEF Open, schemaVars
  <2>3. CASE Inspect \/ Backfill \/ SetVersion \/ EnsureAdmin \/ AlterSpeakers
    BY <2>3 DEF Inspect, Backfill, SetVersion, EnsureAdmin, AlterSpeakers, DDL, DML, Committing, Statement
  <2>4. CASE AlterMeetings \/ AlterSamples
    BY <2>4 DEF AlterMeetings, AlterSamples, DDL, Statement
  <2>5. CASE RepairIndex
    BY <2>5 DEF RepairIndex, DDL, DML, Statement
  <2>6. CASE Script
    BY <2>6 DEF Script, Committing, Statement
  <2> QED
    BY <2>1, <2>2, <2>3, <2>4, <2>5, <2>6 DEF SchemaNext
<1> QED
  BY <1>1, <1>2, SchemaAssumption DEF SchemaBounds

LEMMA SchemaBoundsSuffice == SchemaBounds => SchemaTypes
BY DEF SchemaBounds, SchemaInv, SchemaTypes, Db

(* The engines.                                                             *)
LiveRecord == [pc : {"out", "open", "calling", "drained", "closing", "abandoned", "over"},
               engine : Engine \cup {Nothing}]
EngineBounds ==
  CacheInv /\ ScopeInv /\ live \in [Session -> LiveRecord] /\ loads \in 0..MaxLoads

LEMMA EngineBoundsStart == EngineInit => EngineBounds
<1> SUFFICES ASSUME EngineInit PROVE EngineBounds
  OBVIOUS
<1>1. live \in [Session -> LiveRecord]
  BY DEF EngineInit, NoSession, LiveRecord
<1>2. loads \in 0..MaxLoads
  BY EngineAssumption DEF EngineInit
<1> QED
  BY <1>1, <1>2, CacheStarts, ScopeInit DEF EngineBounds

LEMMA EngineBoundsKept == EngineBounds /\ [EngineNext]_engineVars => EngineBounds'
<1> SUFFICES ASSUME EngineBounds, [EngineNext]_engineVars PROVE EngineBounds'
  OBVIOUS
<1>1. CacheInv' /\ ScopeInv'
  BY CacheKept, ScopeStep DEF EngineBounds
<1>2. loads' \in 0..MaxLoads
  <2>1. loads' = loads \/ (loads' = loads + 1 /\ loads < MaxLoads)
    BY DEF EngineNext, Ask, Lock, Load, LoadFails, SetEngine, SetType, Publish, Publishes, PublishFails, Loads,
           OpenSession, SpeechStarts, Identify, Close, Cleanup, engineVars
  <2> QED
    BY <2>1, EngineAssumption DEF EngineBounds
<1>3. live' \in [Session -> LiveRecord]
  <2>1. \A s \in Session : live[s] \in LiveRecord
    BY DEF EngineBounds
  <2>2. ASSUME NEW s \in Session, NEW w \in LiveRecord, live' = [live EXCEPT ![s] = w]
        PROVE  live' \in [Session -> LiveRecord]
    BY <2>2 DEF EngineBounds
  <2>3. ASSUME NEW s \in Session, NEW p \in {"out", "open", "calling", "drained", "closing", "abandoned", "over"},
               live' = [live EXCEPT ![s].pc = p]
        PROVE  live' \in [Session -> LiveRecord]
    BY <2>1, <2>3 DEF EngineBounds, LiveRecord
  <2>4. ASSUME NEW s \in Session, OpenSession(s) PROVE live' \in [Session -> LiveRecord]
    <3>1. [pc |-> "open", engine |-> served] \in LiveRecord
      BY DEF EngineBounds, ScopeInv, LiveRecord
    <3> QED
      BY <2>2, <2>4, <3>1 DEF OpenSession
  <2>5. ASSUME NEW s \in Session, SpeechStarts(s) \/ Close(s) \/ Cleanup(s) PROVE live' \in [Session -> LiveRecord]
    <3>1. \E p \in {"open", "calling", "drained", "closing", "abandoned", "over"} : live' = [live EXCEPT ![s].pc = p]
      <4>1. CASE SpeechStarts(s)
        BY <4>1 DEF SpeechStarts
      <4>2. CASE Close(s)
        BY <4>2 DEF Close, EngineBounds
      <4>3. CASE Cleanup(s)
        BY <4>3 DEF Cleanup
      <4> QED
        BY <2>5, <4>1, <4>2, <4>3
    <3> QED
      BY <2>3, <3>1
  <2>6. ASSUME NEW s \in Session, Identify(s) PROVE live' \in [Session -> LiveRecord]
    <3>1. \E p \in {"open", "drained", "over"} : live' = [live EXCEPT ![s].pc = p]
      BY <2>6 DEF Identify, EngineBounds
    <3> QED
      BY <2>3, <3>1
  <2>7. CASE UNCHANGED live
    BY <2>7 DEF EngineBounds
  <2> QED
    BY <2>4, <2>5, <2>6, <2>7
       DEF EngineNext, Ask, Lock, Load, LoadFails, SetEngine, SetType, Publish, PublishFails, engineVars
<1> QED
  BY <1>1, <1>2, <1>3 DEF EngineBounds

LEMMA EngineBoundsSuffice == EngineBounds => EngineTypes
<1> SUFFICES ASSUME EngineBounds PROVE EngineTypes
  OBVIOUS
<1>1. IsInjective([i \in DOMAIN cache |-> cache[i].type])
  BY DEF EngineBounds, CacheInv, CacheShape, OnePerType, IsInjective
<1>2. live \in [Session -> [pc : {"out", "open", "calling", "drained", "closing", "abandoned", "over"},
                           engine : Engine \cup {Nothing}]]
  BY DEF EngineBounds, LiveRecord
<1> QED
  BY <1>1, <1>2 DEF EngineBounds, CacheInv, CacheShape, ScopeInv, EngineTypes, SwitchRequest, SwitchSteps

(* The speakers of a session.                                               *)
ClusterBounds ==
  /\ ClusterInv
  /\ flavor \in {"camplus", "shared"}
  /\ Len(pending) <= PendingLimit
  /\ \A i \in 1..Len(pending) : pending[i].count <= PENDING_THRESHOLD - 1
  /\ edges \in Seq(Nat) /\ Len(edges) <= HISTORY_SIZE
  /\ window \in 0..EMB_BUFFER_SIZE /\ Len(said) <= MaxUtterances

LEMMA ClusterBoundsStart == ClusterInit => ClusterBounds
<1> SUFFICES ASSUME ClusterInit PROVE ClusterBounds
  OBVIOUS
<1>1. Len(pending) = 0 /\ Len(edges) = 0 /\ Len(said) = 0 /\ edges \in Seq(Nat)
  BY DEF ClusterInit
<1>2. \A i \in 1..Len(pending) : FALSE
  BY <1>1
<1> QED
  BY <1>1, <1>2, ClusterStarts, ClusterAssumption DEF ClusterInit, ClusterBounds, HISTORY_SIZE

LEMMA HistoryStaysShort ==
  ASSUME edges \in Seq(Nat), Len(edges) <= HISTORY_SIZE, NEW c \in Nat
  PROVE  Remembered(c) \in Seq(Nat) /\ Len(Remembered(c)) <= HISTORY_SIZE
<1>1. Len(edges) \in Nat /\ Len(edges) <= 3
  BY DEF HISTORY_SIZE
<1>2. CASE Len(edges) = 3
  <2>1. edges # <<>>
    BY <1>2
  <2>2. Tail(edges) \in Seq(Nat) /\ Len(Tail(edges)) = 2
    BY <1>2, <2>1
  <2>3. Append(Tail(edges), c) \in Seq(Nat) /\ Len(Append(Tail(edges), c)) = 3
    BY <2>2
  <2>4. Remembered(c) = Append(Tail(edges), c)
    BY <1>2 DEF Remembered, HISTORY_SIZE
  <2>5. 3 <= HISTORY_SIZE
    BY DEF HISTORY_SIZE
  <2> QED
    BY ONLY <2>3, <2>4, <2>5
<1>3. CASE Len(edges) # 3
  <2>1. Append(edges, c) \in Seq(Nat) /\ Len(Append(edges, c)) = Len(edges) + 1
    OBVIOUS
  <2>2. Remembered(c) = Append(edges, c)
    BY <1>3 DEF Remembered, HISTORY_SIZE
  <2>3. Len(edges) + 1 <= HISTORY_SIZE
    <3>1. \A n \in Nat : n <= 3 /\ n # 3 => n + 1 <= 3
      OBVIOUS
    <3> QED
      BY ONLY <1>1, <1>3, <3>1 DEF HISTORY_SIZE
  <2> QED
    BY ONLY <2>1, <2>2, <2>3
<1> QED
  BY <1>2, <1>3

(* A new speaker fills the pending list no further than its limit.          *)
LEMMA WaitingStaysShort ==
  ASSUME ClusterBounds, NEW class, NewSpeaker(class)
  PROVE  /\ Len(pending') <= PendingLimit
         /\ \A i \in 1..Len(pending') : pending'[i].count <= PENDING_THRESHOLD - 1
<1> DEFINE e == [id |-> nextId, count |-> 1]
           all == Append(pending, e)
<1>1. pending \in Seq(Waiting(nextId)) /\ Len(pending) \in Nat /\ PendingLimit \in Nat \ {0}
  BY ClusterAssumption DEF ClusterBounds, ClusterInv, Accounts
<1>2. /\ Len(all) = Len(pending) + 1 /\ all[Len(all)] = e
      /\ \A i \in 1..Len(pending) : all[i] = pending[i]
  BY <1>1
<1>3. \A i \in 1..Len(all) : all[i].count <= PENDING_THRESHOLD - 1
  <2>1. ASSUME NEW i \in 1..Len(all) PROVE all[i].count <= PENDING_THRESHOLD - 1
    <3>1. CASE i \in 1..Len(pending)
      BY <1>2, <3>1 DEF ClusterBounds
    <3>2. CASE i = Len(all)
      <4>1. all[i].count = 1
        BY <1>2, <3>2
      <4> QED
        BY <4>1 DEF PENDING_THRESHOLD
    <3> QED
      BY <1>1, <1>2, <3>1, <3>2
  <2> QED
    BY <2>1
<1>4. CASE pending' = pending
  BY <1>4 DEF ClusterBounds
<1>5. CASE pending' = Tail(all) /\ Len(all) > PendingLimit
  <2>1. all # <<>> /\ all \in Seq(Nat \cup Waiting(nextId) \cup {e})
    BY <1>1
  <2>2. Len(pending') = Len(all) - 1 /\ \A i \in 1..(Len(all) - 1) : pending'[i] = all[i + 1]
    BY <1>5, <2>1
  <2> HIDE DEF all
  <2>3. \A i \in 1..Len(pending') : i + 1 \in 1..Len(all) /\ pending'[i] = all[i + 1]
    BY <1>1, <1>2, <2>2
  <2> QED
    BY <1>1, <1>2, <1>3, <2>2, <2>3 DEF ClusterBounds
<1>6. CASE pending' = all /\ ~ (Len(all) > PendingLimit)
  <2> HIDE DEF all
  <2> QED
    BY <1>1, <1>2, <1>3, <1>6
<1> QED
  BY <1>4, <1>5, <1>6 DEF NewSpeaker, NewPending

LEMMA MatchStaysShort ==
  ASSUME ClusterBounds, NEW class, NEW q \in Results, Match(class, q)
  PROVE  /\ Len(pending') <= PendingLimit
         /\ \A i \in 1..Len(pending') : pending'[i].count <= PENDING_THRESHOLD - 1
         /\ edges' \in Seq(Nat) /\ Len(edges') <= HISTORY_SIZE
<1>1. pending' = pending \/ NewSpeaker(class)
  BY DEF Match, Joins
<1>2. edges' = edges \/ (ClusterIds # {} /\ edges' = Remembered(q.ids[1]))
  BY DEF Match
<1>3. ASSUME ClusterIds # {} PROVE q.ids[1] \in Nat
  <2>1. 1 \in DOMAIN q.ids /\ \A i \in DOMAIN q.ids : q.ids[i] \in ClusterIds
    BY <1>3, QueryFinds DEF ClusterBounds
  <2>2. ClusterIds \subseteq Nat
    BY DEF ClusterBounds, ClusterInv, Accounts, ClusterIds
  <2> QED
    BY <2>1, <2>2
<1>4. edges' \in Seq(Nat) /\ Len(edges') <= HISTORY_SIZE
  BY <1>2, <1>3, HistoryStaysShort DEF ClusterBounds
<1>5. CASE pending' = pending
  BY <1>4, <1>5 DEF ClusterBounds
<1>6. CASE NewSpeaker(class)
  BY <1>4, <1>6, WaitingStaysShort
<1> QED
  BY <1>1, <1>5, <1>6

(* A pending speaker leaves the list before its count reaches the threshold. *)
LEMMA ConfirmedLeaves ==
  ASSUME ClusterBounds, NEW near \in SUBSET DOMAIN pending, near # {}, PendingMatch(near)
  PROVE  /\ Len(pending') <= PendingLimit
         /\ \A i \in 1..Len(pending') : pending'[i].count <= PENDING_THRESHOLD - 1
<1> DEFINE k == CHOOSE i \in near : \A j \in near : i <= j
           p == [pending[k] EXCEPT !.count = @ + 1]
<1>1. /\ pending \in Seq(Waiting(nextId)) /\ Len(pending) \in Nat /\ DOMAIN pending = 1..Len(pending)
      /\ PendingLimit \in Nat
  BY ClusterAssumption DEF ClusterBounds, ClusterInv, Accounts
<1>2. k \in 1..Len(pending)
  <2>1. \E i \in near : \A j \in near : i <= j
    BY <1>1, LeastExists
  <2> QED
    BY <1>1, <2>1
<1>3. \/ pending' = RemoveAt(pending, k)
      \/ pending' = [pending EXCEPT ![k] = p] /\ ~ (p.count >= PENDING_THRESHOLD)
  BY DEF PendingMatch
<1> HIDE DEF k
<1>4. p.count \in Nat
  <2>1. pending[k] \in Waiting(nextId)
    BY <1>1, <1>2
  <2> QED
    BY <2>1 DEF Waiting
<1> HIDE DEF p
<1>5. CASE pending' = RemoveAt(pending, k)
  <2>1. /\ Len(pending') = Len(pending) - 1
        /\ \A j \in 1..(Len(pending) - 1) : pending'[j] = IF j < k THEN pending[j] ELSE pending[j + 1]
    BY <1>1, <1>2, <1>5, Removing
  <2>2. ASSUME NEW j \in 1..Len(pending') PROVE pending'[j].count <= PENDING_THRESHOLD - 1
    <3>1. j \in 1..Len(pending) /\ j + 1 \in 1..Len(pending)
      BY <1>1, <2>1
    <3>2. pending'[j] = pending[j] \/ pending'[j] = pending[j + 1]
      BY <2>1
    <3> QED
      BY <3>1, <3>2 DEF ClusterBounds
  <2> QED
    BY <1>1, <2>1, <2>2 DEF ClusterBounds
<1>6. CASE pending' = [pending EXCEPT ![k] = p] /\ ~ (p.count >= PENDING_THRESHOLD)
  <2>1. Len(pending') = Len(pending) /\ \A j \in 1..Len(pending) : pending'[j] = IF j = k THEN p ELSE pending[j]
    BY <1>1, <1>2, <1>6
  <2> QED
    BY <1>1, <1>4, <1>6, <2>1 DEF ClusterBounds, PENDING_THRESHOLD
<1> QED
  BY <1>3, <1>5, <1>6

LEMMA AnswerCounts ==
  ASSUME ClusterBounds, Len(said) < MaxUtterances, NEW c, Answer(c)
  PROVE  window' \in 0..EMB_BUFFER_SIZE /\ Len(said') <= MaxUtterances
<1>1. said \in Seq(1..(nextId - 1)) /\ Len(said) \in Nat /\ EMB_BUFFER_SIZE \in Nat /\ MaxUtterances \in Nat
  BY ClusterAssumption DEF ClusterBounds, ClusterInv, Accounts
<1>2. Len(said') = Len(said) + 1
  BY <1>1 DEF Answer
<1>3. window' = Min({EMB_BUFFER_SIZE, window + 1})
  BY DEF Answer
<1> DEFINE S == {EMB_BUFFER_SIZE, window + 1}
<1>4. S \subseteq Nat /\ S # {}
  BY <1>1 DEF ClusterBounds
<1>5. Min(S) \in S /\ \A x \in S : Min(S) <= x
  <2>1. \E x \in S : \A y \in S : x <= y
    BY <1>4, LeastExists
  <2> QED
    BY <2>1 DEF Min
<1> QED
  BY <1>1, <1>2, <1>3, <1>4, <1>5

LEMMA ClusterBoundsKept == ClusterBounds /\ [ClusterNext]_clusterVars => ClusterBounds'
<1> SUFFICES ASSUME ClusterBounds, [ClusterNext]_clusterVars PROVE ClusterBounds'
  OBVIOUS
<1>1. ClusterInv'
  BY ClusterKept DEF ClusterBounds
<1>2. ASSUME NEW class \in {"short", "reliable"}, Utterance(class) PROVE ClusterBounds'
  <2>1. flavor' = flavor /\ Len(said) < MaxUtterances
    BY <1>2 DEF Utterance
  <2>2. ASSUME NEW near \in (SUBSET DOMAIN pending) \ {{}}, PendingMatch(near) PROVE ClusterBounds'
    <3>1. \E c : Answer(c)
      BY <2>2 DEF PendingMatch
    <3>2. edges' = edges
      BY <2>2 DEF PendingMatch
    <3> QED
      BY <1>1, <2>1, <2>2, <3>1, <3>2, AnswerCounts, ConfirmedLeaves DEF ClusterBounds
  <2>3. ASSUME NEW q \in Results, Match(class, q) PROVE ClusterBounds'
    <3>1. \E c : Answer(c)
      BY <2>3 DEF Match, NewSpeaker, Joins
    <3> QED
      BY <1>1, <2>1, <2>3, <3>1, AnswerCounts, MatchStaysShort DEF ClusterBounds
  <2> QED
    BY <1>2, <2>2, <2>3 DEF Utterance
<1>3. CASE ResetBuffer
  <2>1. Len(edges') = 0 /\ edges' \in Seq(Nat) /\ window' = 0 /\ UNCHANGED <<flavor, clusters, pending, said, nextId>>
    BY <1>3 DEF ResetBuffer
  <2> QED
    BY <1>1, <2>1, ClusterAssumption DEF ClusterBounds, HISTORY_SIZE
<1>4. CASE UNCHANGED clusterVars
  BY <1>1, <1>4 DEF clusterVars, ClusterBounds
<1> QED
  BY <1>2, <1>3, <1>4 DEF ClusterNext

LEMMA ClusterBoundsSuffice == ClusterBounds => ClusterTypes
<1> SUFFICES ASSUME ClusterBounds PROVE ClusterTypes
  OBVIOUS
<1>1. /\ pending \in Seq(Waiting(nextId)) /\ DOMAIN pending = 1..Len(pending)
      /\ said \in Seq(1..(nextId - 1)) /\ DOMAIN said = 1..Len(said)
      /\ DOMAIN clusters \subseteq 1..(nextId - 1) /\ \A c \in DOMAIN clusters : clusters[c] \in Nat \ {0}
  BY DEF ClusterBounds, ClusterInv, Accounts
<1>2. \A i \in DOMAIN pending : pending[i].id \in 1..(nextId - 1) /\ pending[i].count \in 1..(PENDING_THRESHOLD - 1)
  <2>1. ASSUME NEW i \in DOMAIN pending
        PROVE  pending[i].id \in 1..(nextId - 1) /\ pending[i].count \in 1..(PENDING_THRESHOLD - 1)
    <3>1. pending[i] \in Waiting(nextId)
      BY <1>1
    <3>2. pending[i].id \in 1..(nextId - 1) /\ pending[i].count \in Nat \ {0}
      BY <3>1 DEF Waiting
    <3>3. pending[i].count <= PENDING_THRESHOLD - 1
      BY <1>1 DEF ClusterBounds
    <3> QED
      BY <3>2, <3>3 DEF PENDING_THRESHOLD
  <2> QED
    BY <2>1
<1>3. Shown \subseteq 1..(nextId - 1)
  <2> DEFINE S == 1..(nextId - 1)
  <2>0. said \in Seq(S)
    BY <1>1
  <2> HIDE DEF S
  <2>1. \A u \in DOMAIN said : said[u] \in S
    BY <2>0
  <2> QED
    BY <2>1 DEF Shown, S
<1> QED
  BY <1>1, <1>2, <1>3 DEF ClusterBounds, ClusterTypes, ClusterIds

(* Tokens and connections: no clock, stamp or key is out of its bounds.      *)
ScalarsFit ==
  /\ time <= MaxTime /\ stamps <= MaxChanges
  /\ restarts \in 0..MaxRestarts /\ key <= restarts
TokenFits(token, now, n) ==
  token.pwd <= n /\ token.exp <= now + TokenLife /\ -1 <= token.dead /\ token.dead <= now
TokensFit == \A t \in Tokens : TokenFits(issued[t], time, stamps)
RequestsFit == \A r \in Requests : req[r].pwd <= stamps /\ req[r].stamp <= stamps
PruneFits == prune = NoPrune \/ prune \subseteq revoked
SocketFits(w) == w.token \in {0} \cup Tokens /\ w.checked <= time /\ w.since <= time
SocketsFit == \A s \in Sockets : SocketFits(sock[s])

AuthBounds == AuthInv /\ ScalarsFit /\ TokensFit /\ RequestsFit /\ PruneFits /\ SocketsFit

LEMMA AuthBoundsStart == AuthInit => AuthBounds
<1> SUFFICES ASSUME AuthInit PROVE AuthBounds
  OBVIOUS
<1>1. time = 0 /\ stamps = 0 /\ restarts = 0 /\ key = 0 /\ prune = NoPrune /\ Len(issued) = 0
  BY DEF AuthInit
<1>2. Tokens = {}
  BY <1>1 DEF Tokens
<1>3. RequestsFit /\ SocketsFit
  BY <1>1 DEF AuthInit, RequestsFit, SocketsFit, SocketFits, Free, Closed
<1>4. ScalarsFit
  BY <1>1, AuthAssumption DEF ScalarsFit
<1> QED
  BY <1>1, <1>2, <1>3, <1>4, AuthStarts DEF AuthBounds, TokensFit, PruneFits

LEMMA AuthNumbers ==
  ASSUME AuthBounds
  PROVE  /\ time \in Nat /\ stamps \in Nat /\ key \in Nat /\ restarts \in Nat
         /\ MaxTime \in Nat /\ MaxChanges \in Nat /\ MaxRestarts \in Nat
         /\ user.pwd \in Nat /\ user.changed \in Nat /\ user.pwd <= stamps /\ user.changed <= stamps
BY AuthAssumption DEF AuthBounds, AuthInv, AuthShape, StampsOrdered, ScalarsFit

LEMMA ScalarsStay ==
  ASSUME AuthBounds, [AuthNext]_authVars
  PROVE  ScalarsFit' /\ time <= time' /\ stamps <= stamps' /\ time' \in Nat /\ stamps' \in Nat
<1>1. CASE Restarts
  <2>1. /\ restarts < MaxRestarts /\ restarts' = restarts + 1 /\ (key' = key \/ key' = key + 1)
        /\ time' = time /\ stamps' = stamps
    BY <1>1 DEF Restarts, account
  <2> QED
    BY <2>1, AuthNumbers DEF AuthBounds, ScalarsFit
<1>2. CASE AuthTick
  <2>1. time < MaxTime /\ time' = time + 1 /\ UNCHANGED <<stamps, restarts, key>>
    BY <1>2 DEF AuthTick, account, keys
  <2> QED
    BY <2>1, AuthNumbers DEF AuthBounds, ScalarsFit
<1>3. ASSUME NEW r \in Requests, ChangeStamp(r)
      PROVE  ScalarsFit' /\ time <= time' /\ stamps <= stamps' /\ time' \in Nat /\ stamps' \in Nat
  <2>1. stamps < MaxChanges /\ stamps' = stamps + 1 /\ UNCHANGED <<time, restarts, key>>
    BY <1>3 DEF ChangeStamp, keys
  <2> QED
    BY <2>1, AuthNumbers DEF AuthBounds, ScalarsFit
<1>4. CASE UNCHANGED <<time, stamps, restarts, key>>
  BY <1>4, AuthNumbers DEF AuthBounds, ScalarsFit
<1> QED
  BY <1>1, <1>2, <1>3, <1>4
     DEF AuthNext, ChangeBegin, LoginVerify, LoginIssue, ChangeCommit, ChangeAnswer, Logout, PruneEnds, SocketOpens,
         SocketChecks, SocketCheckFails, SocketMessage, SocketEnds, account, keys, authVars

(* What a step may do to a token's record.                                  *)
LEMMA TokenLives ==
  ASSUME NEW now \in Nat, NEW n \in Nat, NEW later \in Nat, NEW m \in Nat, now <= later, n <= m,
         NEW k \in Token, TokenFits(k, now, n), NEW j, j.pwd = k.pwd, j.exp = k.exp,
         j.dead \in {k.dead, -1, now, later}
  PROVE  TokenFits(j, later, m)
<1>1. k.pwd \in Nat /\ k.exp \in Nat /\ k.dead \in Int /\ TokenLife \in Nat
  BY DelayIsNat DEF Token
<1> QED
  BY <1>1 DEF TokenFits

LEMMA TokensStay ==
  ASSUME AuthBounds, [AuthNext]_authVars
  PROVE  TokensFit' /\ Tokens \subseteq Tokens'
<1>1. AuthShape /\ AuthShape' /\ time <= time' /\ stamps <= stamps'
  BY AuthKept, ScalarsStay DEF AuthBounds, AuthInv
<1>2. time \in Nat /\ stamps \in Nat /\ time' \in Nat /\ stamps' \in Nat /\ TokenLife \in Nat
  BY <1>1, AuthNumbers, DelayIsNat, ScalarsStay
<1>3. \A t \in Tokens : issued[t] \in Token /\ TokenFits(issued[t], time, stamps)
  BY <1>1 DEF AuthShape, Tokens, AuthBounds, TokensFit
<1> DEFINE later == time' m == stamps'
<1>4. ASSUME Rewritten, \A t \in Tokens : issued'[t].dead \in {issued[t].dead, -1, time, time'}
      PROVE  TokensFit' /\ Tokens \subseteq Tokens'
  <2>1. Tokens' = Tokens /\ \A t \in Tokens : issued'[t].pwd = issued[t].pwd /\ issued'[t].exp = issued[t].exp
    BY <1>4 DEF Rewritten
  <2>2. ASSUME NEW t \in Tokens PROVE TokenFits(issued'[t], later, m)
    <3> DEFINE j == issued'[t]
    <3>1. later \in Nat /\ m \in Nat /\ time <= later /\ stamps <= m
      BY <1>1, <1>2
    <3>2. j.pwd = issued[t].pwd /\ j.exp = issued[t].exp /\ j.dead \in {issued[t].dead, -1, time, later}
      BY <1>4, <2>1
    <3> HIDE DEF j, later, m
    <3>3. TokenFits(j, later, m)
      BY <1>2, <1>3, <3>1, <3>2, TokenLives
    <3> QED
      BY <3>3 DEF j
  <2> QED
    BY <2>1, <2>2 DEF TokensFit
<1>5. ASSUME UNCHANGED issued PROVE TokensFit' /\ Tokens \subseteq Tokens'
  <2>1. Tokens' = Tokens
    BY <1>5 DEF Tokens
  <2>2. ASSUME NEW t \in Tokens PROVE TokenFits(issued[t], later, m)
    <3>1. later \in Nat /\ m \in Nat /\ time <= later /\ stamps <= m
      BY <1>1, <1>2
    <3> HIDE DEF later, m
    <3> QED
      BY <1>2, <1>3, <3>1, TokenLives
  <2> QED
    BY <1>5, <2>1, <2>2 DEF TokensFit
<1>6. ASSUME NEW r \in Requests, NEW pwd \in Nat, NEW stamp \in Nat, Sign(r, pwd, stamp), pwd <= stamps,
             UNCHANGED <<time, account>>
      PROVE  TokensFit' /\ Tokens \subseteq Tokens'
  <2>1. PICK sure : issued' = Append(issued, [pwd |-> pwd, stamp |-> stamp, exp |-> time + TokenLife, key |-> key,
                                              sure |-> sure, dead |-> -1])
    BY <1>6 DEF Sign
  <2> DEFINE new == [pwd |-> pwd, stamp |-> stamp, exp |-> time + TokenLife, key |-> key, sure |-> sure, dead |-> -1]
  <2>2. TokenFits(new, time, stamps)
    BY <1>2, <1>6 DEF TokenFits
  <2> HIDE DEF new
  <2>3. /\ Len(issued') = Len(issued) + 1 /\ Len(issued) \in Nat /\ issued'[Len(issued) + 1] = new
        /\ \A t \in 1..Len(issued) : issued'[t] = issued[t]
    <3>1. issued' = Append(issued, new)
      BY <2>1 DEF new
    <3>2. new \in Token \cup {new} /\ issued \in Seq(Token)
      BY <1>1 DEF AuthShape
    <3>3. issued \in Seq(Token \cup {new})
      BY <3>2
    <3> QED
      BY <3>1, <3>2, <3>3
  <2>4. time' = time /\ stamps' = stamps
    BY <1>6 DEF account
  <2> QED
    BY <1>3, <2>2, <2>3, <2>4 DEF Tokens, TokensFit
<1>7. ASSUME NEW r \in Requests, LoginIssue(r) PROVE TokensFit' /\ Tokens \subseteq Tokens'
  <2>1. req[r].pwd \in Nat /\ req[r].pwd <= stamps /\ user.changed \in Nat
    BY <1>1, AuthNumbers DEF AuthShape, AuthBounds, RequestsFit
  <2> QED
    BY <1>6, <1>7, <2>1 DEF LoginIssue
<1>8. ASSUME NEW r \in Requests, ChangeAnswer(r) PROVE TokensFit' /\ Tokens \subseteq Tokens'
  <2>1. req[r].stamp \in Nat /\ req[r].stamp <= stamps /\ user.changed \in Nat
    BY <1>1, AuthNumbers DEF AuthShape, AuthBounds, RequestsFit
  <2> QED
    BY <1>6, <1>8, <2>1 DEF ChangeAnswer
<1>9. ASSUME NEW S, NEW back, Died(S, back) PROVE TokensFit' /\ Tokens \subseteq Tokens'
  <2>1. /\ Rewritten
        /\ \A t \in Tokens :
             issued'[t].dead = IF t \in S /\ issued[t].dead = -1 THEN time
                               ELSE IF t \in back THEN -1 ELSE issued[t].dead
    BY <1>1, <1>9, Dying
  <2> QED
    BY <1>4, <2>1
<1>10. ASSUME NEW r \in Requests, ChangeCommit(r) PROVE TokensFit' /\ Tokens \subseteq Tokens'
  BY <1>9, <1>10 DEF ChangeCommit
<1>11. ASSUME NEW t \in Tokens, Logout(t) PROVE TokensFit' /\ Tokens \subseteq Tokens'
  BY <1>9, <1>11 DEF Logout
<1>12. CASE Restarts
  <2> DEFINE S == {t \in Tokens : t \in signedOut /\ time < issued[t].exp /\ Follows(t)}
  <2>1. issued' = [t \in Tokens |-> IF t \in S THEN [issued[t] EXCEPT !.dead = -1] ELSE issued[t]]
    BY <1>12 DEF Restarts
  <2> HIDE DEF S
  <2>2. -1 \in Int
    OBVIOUS
  <2>3. Rewritten /\ \A t \in Tokens : issued'[t].dead = IF t \in S THEN -1 ELSE issued[t].dead
    BY <1>1, <2>1, <2>2, Resetting
  <2> QED
    BY <1>4, <2>3
<1>13. CASE AuthTick
  <2> DEFINE S == {t \in Tokens : issued[t].exp = time + 1 /\ issued[t].dead = -1}
  <2>1. /\ issued' = [t \in Tokens |-> IF t \in S THEN [issued[t] EXCEPT !.dead = time'] ELSE issued[t]]
        /\ time' \in Int
    BY <1>2, <1>13 DEF AuthTick
  <2>2. \A x \in Int : issued' = [t \in Tokens |-> IF t \in S THEN [issued[t] EXCEPT !.dead = x] ELSE issued[t]]
          => Rewritten /\ \A t \in Tokens : issued'[t].dead = IF t \in S THEN x ELSE issued[t].dead
    <3> HIDE DEF S
    <3> QED
      BY <1>1, Resetting
  <2> HIDE DEF S
  <2>3. Rewritten /\ \A t \in Tokens : issued'[t].dead = IF t \in S THEN time' ELSE issued[t].dead
    BY <2>1, <2>2
  <2> QED
    BY <1>4, <2>3
<1> QED
  BY <1>5, <1>7, <1>8, <1>10, <1>11, <1>12, <1>13
     DEF AuthNext, ChangeBegin, LoginVerify, ChangeStamp, PruneEnds, SocketOpens,
         SocketChecks, SocketCheckFails, SocketMessage, SocketEnds, authVars

LEMMA RequestsStay ==
  ASSUME AuthBounds, [AuthNext]_authVars
  PROVE  RequestsFit'
<1>1. /\ time \in Nat /\ stamps \in Nat /\ stamps' \in Nat /\ stamps <= stamps'
      /\ user.pwd \in Nat /\ user.pwd <= stamps
  BY AuthNumbers, ScalarsStay
<1>2. /\ req \in [Requests -> [pc : RequestSteps, pwd : Nat, stamp : Nat]]
      /\ \A r \in Requests : /\ req[r].pwd \in Nat /\ req[r].stamp \in Nat
                             /\ req[r].pwd <= stamps /\ req[r].stamp <= stamps
  BY DEF AuthBounds, AuthInv, AuthShape, RequestsFit
<1>3. ASSUME NEW r \in Requests, NEW q, req' = [req EXCEPT ![r] = q], q.pwd <= stamps', q.stamp <= stamps'
      PROVE  RequestsFit'
  <2>1. \A o \in Requests : req'[o] = IF o = r THEN q ELSE req[o]
    BY <1>2, <1>3
  <2> QED
    BY <1>1, <1>2, <1>3, <2>1 DEF RequestsFit
<1>4. Free.pwd <= stamps' /\ Free.stamp <= stamps'
  BY <1>1 DEF Free
<1>5. ASSUME NEW r \in Requests, LoginVerify(r) PROVE RequestsFit'
  <2> DEFINE q == [Free EXCEPT !.pc = "verified", !.pwd = user.pwd]
  <2>1. q.pwd = user.pwd /\ q.stamp = 0 /\ req' = [req EXCEPT ![r] = q]
    BY <1>5 DEF LoginVerify, Free
  <2> HIDE DEF q
  <2>2. q.pwd <= stamps' /\ q.stamp <= stamps'
    BY <1>1, <2>1
  <2> QED
    BY <1>3, <2>1, <2>2
<1>6. ASSUME NEW r \in Requests, NEW t \in Tokens, ChangeBegin(r, t) PROVE RequestsFit'
  <2> DEFINE q == [Free EXCEPT !.pc = "checked"]
  <2>1. q.pwd = 0 /\ q.stamp = 0 /\ req' = [req EXCEPT ![r] = q]
    BY <1>6 DEF ChangeBegin, Free
  <2> HIDE DEF q
  <2>2. q.pwd <= stamps' /\ q.stamp <= stamps'
    BY <1>1, <2>1
  <2> QED
    BY <1>3, <2>1, <2>2
<1>7. ASSUME NEW r \in Requests, ChangeStamp(r) PROVE RequestsFit'
  <2> DEFINE q == [req[r] EXCEPT !.pc = "stamped", !.stamp = stamps + 1]
  <2>1. req[r] \in [pc : RequestSteps, pwd : Nat, stamp : Nat]
    BY <1>2
  <2>2. q.pwd = req[r].pwd /\ q.stamp = stamps + 1 /\ req' = [req EXCEPT ![r] = q] /\ stamps' = stamps + 1
    BY <1>7, <2>1 DEF ChangeStamp
  <2> HIDE DEF q
  <2>3. q.pwd <= stamps' /\ q.stamp <= stamps'
    BY <1>1, <1>2, <2>2
  <2> QED
    BY <1>3, <2>2, <2>3
<1>8. ASSUME NEW r \in Requests, ChangeCommit(r) PROVE RequestsFit'
  <2> DEFINE q == [req[r] EXCEPT !.pc = "changed"]
  <2>1. req[r] \in [pc : RequestSteps, pwd : Nat, stamp : Nat]
    BY <1>2
  <2>2. q.pwd = req[r].pwd /\ q.stamp = req[r].stamp /\ req' = [req EXCEPT ![r] = q] /\ stamps' = stamps
    BY <1>8, <2>1 DEF ChangeCommit
  <2> HIDE DEF q
  <2> QED
    BY <1>2, <1>3, <2>2
<1>9. ASSUME NEW r \in Requests, LoginIssue(r) \/ ChangeAnswer(r) PROVE RequestsFit'
  BY <1>3, <1>4, <1>9 DEF LoginIssue, ChangeAnswer
<1>10. CASE Restarts
  BY <1>4, <1>10 DEF Restarts, RequestsFit
<1>11. CASE UNCHANGED req
  BY <1>1, <1>2, <1>11 DEF RequestsFit
<1> QED
  BY <1>5, <1>6, <1>7, <1>8, <1>9, <1>10, <1>11
     DEF AuthNext, Logout, PruneEnds, AuthTick, SocketOpens, SocketChecks, SocketCheckFails, SocketMessage,
         SocketEnds, authVars

LEMMA PruneStays ==
  ASSUME AuthBounds, [AuthNext]_authVars
  PROVE  PruneFits'
<1>1. ASSUME NEW t \in Tokens, Logout(t) PROVE PruneFits'
  <2>1. revoked' = revoked \cup {t} /\ (prune' = prune \/ prune' = Kept(revoked \cup {t}))
    BY <1>1 DEF Logout
  <2> QED
    BY <2>1 DEF AuthBounds, PruneFits, Kept, NoPrune
<1>2. CASE PruneEnds \/ Restarts
  BY <1>2 DEF PruneEnds, Restarts, PruneFits, NoPrune
<1>3. CASE UNCHANGED outs
  BY <1>3 DEF outs, AuthBounds, PruneFits, NoPrune
<1> QED
  BY <1>1, <1>2, <1>3
     DEF AuthNext, ChangeBegin, LoginVerify, LoginIssue, ChangeStamp, ChangeCommit, ChangeAnswer, AuthTick,
         SocketOpens, SocketChecks, SocketCheckFails, SocketMessage, SocketEnds, authVars

LEMMA SocketsStay ==
  ASSUME AuthBounds, [AuthNext]_authVars
  PROVE  SocketsFit'
<1>1. time \in Nat /\ time' \in Nat /\ time <= time' /\ Tokens \subseteq Tokens'
  BY AuthNumbers, ScalarsStay, TokensStay
<1>2. /\ sock \in [Sockets -> [pc : {"closed", "top", "recv"}, token : Nat, checked : Nat, since : Nat]]
      /\ \A s \in Sockets : /\ sock[s].checked \in Nat /\ sock[s].since \in Nat
                            /\ sock[s].token \in {0} \cup Tokens /\ sock[s].checked <= time /\ sock[s].since <= time
  BY DEF AuthBounds, AuthInv, AuthShape, SocketsFit, SocketFits
<1>3. ASSUME NEW s \in Sockets, NEW w, sock' = [sock EXCEPT ![s] = w],
             w.token \in {0} \cup Tokens, w.checked <= time', w.since <= time'
      PROVE  SocketsFit'
  <2>1. \A o \in Sockets : sock'[o] = IF o = s THEN w ELSE sock[o]
    BY <1>2, <1>3
  <2> QED
    BY <1>1, <1>2, <1>3, <2>1 DEF SocketsFit, SocketFits
<1>4. Closed.token = 0 /\ Closed.checked <= time' /\ Closed.since <= time'
  BY <1>1 DEF Closed
<1>5. ASSUME NEW s \in Sockets, NEW t \in Tokens, SocketOpens(s, t) PROVE SocketsFit'
  <2> DEFINE w == [pc |-> "top", token |-> t, checked |-> time, since |-> time]
  <2>1. sock' = [sock EXCEPT ![s] = w] /\ w.token = t /\ w.checked = time /\ w.since = time
    BY <1>5 DEF SocketOpens
  <2> HIDE DEF w
  <2> QED
    BY <1>1, <1>3, <2>1
<1>6. ASSUME NEW s \in Sockets, Receives(s) PROVE SocketsFit'
  <2> DEFINE w == [sock[s] EXCEPT !.pc = "recv", !.checked = CheckedAt(s), !.since = time]
  <2>1. sock[s] \in [pc : {"closed", "top", "recv"}, token : Nat, checked : Nat, since : Nat]
    BY <1>2
  <2>2. sock' = [sock EXCEPT ![s] = w] /\ w.token = sock[s].token /\ w.checked = CheckedAt(s) /\ w.since = time
    BY <1>2, <1>6, <2>1 DEF Receives
  <2>3. CheckedAt(s) = time \/ CheckedAt(s) = sock[s].checked
    BY DEF CheckedAt
  <2> HIDE DEF w
  <2>4. w.token \in {0} \cup Tokens /\ w.checked <= time' /\ w.since <= time'
    BY <1>1, <1>2, <2>2, <2>3
  <2> QED
    BY <1>3, <2>2, <2>4
<1>7. ASSUME NEW s \in Sockets, SocketMessage(s) PROVE SocketsFit'
  <2> DEFINE w == [sock[s] EXCEPT !.pc = "top"]
  <2>1. sock[s] \in [pc : {"closed", "top", "recv"}, token : Nat, checked : Nat, since : Nat]
    BY <1>2
  <2>2. sock' = [sock EXCEPT ![s] = w] /\ w.token = sock[s].token /\ w.checked = sock[s].checked /\ w.since = sock[s].since
    BY <1>7, <2>1 DEF SocketMessage
  <2> HIDE DEF w
  <2>3. w.token \in {0} \cup Tokens /\ w.checked <= time' /\ w.since <= time'
    BY <1>1, <1>2, <2>2
  <2> QED
    BY <1>3, <2>2, <2>3
<1>8. ASSUME NEW s \in Sockets, SocketChecks(s) \/ SocketCheckFails(s) \/ SocketEnds(s) PROVE SocketsFit'
  <2>1. Receives(s) \/ sock' = [sock EXCEPT ![s] = Closed]
    BY <1>8 DEF SocketChecks, SocketCheckFails, SocketEnds
  <2> QED
    BY <1>3, <1>4, <1>6, <2>1
<1>9. CASE Restarts
  BY <1>4, <1>9 DEF Restarts, SocketsFit, SocketFits
<1>10. CASE UNCHANGED sock
  BY <1>1, <1>2, <1>10 DEF SocketsFit, SocketFits
<1> QED
  BY <1>5, <1>7, <1>8, <1>9, <1>10
     DEF AuthNext, ChangeBegin, LoginVerify, LoginIssue, ChangeStamp, ChangeCommit, ChangeAnswer, AuthTick, Logout,
         PruneEnds, authVars

LEMMA AuthBoundsKept == AuthBounds /\ [AuthNext]_authVars => AuthBounds'
BY AuthKept, ScalarsStay, TokensStay, RequestsStay, PruneStays, SocketsStay DEF AuthBounds

LEMMA AuthBoundsSuffice == AuthBounds => AuthTypes
<1> SUFFICES ASSUME AuthBounds PROVE AuthTypes
  OBVIOUS
<1>0. /\ time \in 0..MaxTime /\ stamps \in Nat /\ stamps <= MaxChanges /\ key \in Nat /\ key <= MaxRestarts
      /\ TokenLife \in Nat /\ MaxTime \in Nat /\ MaxChanges \in Nat /\ MaxRestarts \in Nat
      /\ \A n \in Nat : n <= stamps => n \in Stamps
  BY AuthNumbers, DelayIsNat DEF AuthBounds, ScalarsFit, Stamps
<1>1. AuthShape
  BY DEF AuthBounds, AuthInv
<1>2. user \in [pwd : Stamps, changed : Stamps, must : BOOLEAN]
  BY <1>0, <1>1, AuthNumbers DEF AuthShape
<1>3. ASSUME NEW t \in Tokens
      PROVE  issued[t] \in [pwd : Stamps, stamp : Stamps, exp : 0..(MaxTime + TokenLife),
                            key : 0..MaxRestarts, sure : BOOLEAN, dead : -1..MaxTime]
  <2>1. issued[t] \in Token
    BY <1>1 DEF AuthShape, Tokens
  <2>2. /\ issued[t].pwd <= stamps /\ issued[t].exp <= time + TokenLife /\ -1 <= issued[t].dead /\ issued[t].dead <= time
        /\ issued[t].stamp <= stamps /\ issued[t].key <= key
    BY DEF AuthBounds, TokensFit, TokenFits, AuthInv, StampsOrdered
  <2>3. /\ issued[t].pwd \in Stamps /\ issued[t].stamp \in Stamps /\ issued[t].exp \in 0..(MaxTime + TokenLife)
        /\ issued[t].key \in 0..MaxRestarts /\ issued[t].dead \in -1..MaxTime /\ issued[t].sure \in BOOLEAN
    BY <1>0, <2>1, <2>2 DEF Token
  <2> QED
    BY <2>1, <2>3 DEF Token
<1>4. req \in [Requests -> [pc : {"idle", "verified", "checked", "stamped", "changed"}, pwd : Stamps, stamp : Stamps]]
  <2>1. \A r \in Requests : req[r] \in [pc : RequestSteps, pwd : Nat, stamp : Nat]
    BY <1>1 DEF AuthShape
  <2>2. \A r \in Requests : req[r] \in [pc : RequestSteps, pwd : Stamps, stamp : Stamps]
    BY <1>0, <2>1 DEF AuthBounds, RequestsFit
  <2> QED
    BY <1>1, <2>2 DEF AuthShape, RequestSteps
<1>5. sock \in [Sockets -> [pc : {"closed", "top", "recv"}, token : {0} \cup Tokens,
                            checked : 0..MaxTime, since : 0..MaxTime]]
  <2>1. \A s \in Sockets : sock[s] \in [pc : {"closed", "top", "recv"}, token : Nat, checked : Nat, since : Nat]
    BY <1>1 DEF AuthShape
  <2>2. ASSUME NEW s \in Sockets
        PROVE  sock[s] \in [pc : {"closed", "top", "recv"}, token : {0} \cup Tokens, checked : 0..MaxTime, since : 0..MaxTime]
    <3>1. sock[s].token \in {0} \cup Tokens /\ sock[s].checked <= time /\ sock[s].since <= time
      BY DEF AuthBounds, SocketsFit, SocketFits
    <3>2. sock[s].checked \in 0..MaxTime /\ sock[s].since \in 0..MaxTime
      BY <1>0, <2>1, <3>1
    <3> QED
      BY <2>1, <3>1, <3>2
  <2> QED
    BY <1>1, <2>2 DEF AuthShape
<1> QED
  BY <1>0, <1>1, <1>2, <1>3, <1>4, <1>5 DEF AuthTypes, AuthShape, AuthBounds, PruneFits

(* No change of a setting, a password or an engine, no speaker and no start  *)
(* takes a variable of a service out of its type or a list out of its bound. *)
ServicesInv ==
  /\ part \in Parts
  /\ LimitInv /\ AuthBounds /\ LlmInv /\ SchemaBounds /\ EngineBounds /\ ClusterBounds

LEMMA ServicesStart == MCInit => ServicesInv
BY HttpStarts, SocketStarts, TableStarts, AuthBoundsStart, LlmStarts, SchemaBoundsStart, EngineBoundsStart,
   ClusterBoundsStart
   DEF MCInit, ServicesInv, LimitInv

LEMMA ServicesKept ==
  ServicesInv /\ [MCNext]_<<part, limitVars, authVars, llmVars, schemaVars, engineVars, clusterVars>> => ServicesInv'
<1> SUFFICES ASSUME ServicesInv,
                    [MCNext]_<<part, limitVars, authVars, llmVars, schemaVars, engineVars, clusterVars>>
             PROVE  ServicesInv'
  OBVIOUS
<1>1. /\ part' = part /\ [HttpNext \/ SocketNext]_limitVars /\ [AuthNext]_authVars /\ [LlmNext]_llmVars
      /\ [SchemaNext]_schemaVars /\ [EngineNext]_engineVars /\ [ClusterNext]_clusterVars
  BY DEF MCNext
<1>2. LimitInv'
  BY <1>1, HttpKept, SocketKept, TableKept DEF ServicesInv, LimitInv
<1> QED
  BY <1>1, <1>2, AuthBoundsKept, LlmKept, SchemaBoundsKept, EngineBoundsKept, ClusterBoundsKept DEF ServicesInv

LEMMA ServicesInvSuffices == ServicesInv => TypesOK
<1> SUFFICES ASSUME ServicesInv PROVE TypesOK
  OBVIOUS
<1>1. LimitTypes
  BY DEF ServicesInv, LimitInv, LimitTypes, HttpInv, SocketInv, TableInv, FlightsOK, AddressOK, PeerOK, ListOK
<1>2. LlmTypes
  BY DEF ServicesInv, LlmInv
<1>3. AuthTypes /\ SchemaTypes /\ EngineTypes /\ ClusterTypes
  BY AuthBoundsSuffice, SchemaBoundsSuffice, EngineBoundsSuffice, ClusterBoundsSuffice DEF ServicesInv
<1> QED
  BY <1>1, <1>2, <1>3 DEF ServicesInv, TypesOK, Parts

(* The variables of every service keep their types and bounds, whichever    *)
(* service is at work: the caches, the lists of pending speakers and edge    *)
(* matches, the tables of addresses and the clocks.                         *)
THEOREM ServicesTyped == MCSpec => []TypesOK
<1> QED
  BY ServicesStart, ServicesKept, ServicesInvSuffices, PTL DEF MCSpec
=============================================================================
