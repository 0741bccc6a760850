----------------------------- MODULE MCServices -----------------------------
(***************************************************************************)
(* The services around the recordings, each of them on its own: a behaviour  *)
(* is about one part, and the others stay as they start.                    *)
(***************************************************************************)
EXTENDS RateLimits, AuthSessions, LlmGateway, SchemaUpgrade, EngineSwitch, SpeakerClusters, TLC

CONSTANTS a1, a2, l1, l2, r1, r2, c1, c2, w1, w2, ty1, ty2, ty3, s1

VARIABLE part

(* THRESHOLD_PROFILE of ERes2Net.                                           *)
MCProfile == [reliable |-> [low |-> 380, high |-> 480], short |-> [low |-> 480, high |-> 580]]

Parts == {"requests", "connections", "sessions", "gateway", "schema", "engines", "clusters"}

(* The one initial state a part keeps while another is at work.             *)
Asleep(p) == part # p
MCInit ==
  /\ part \in Parts
  /\ LimitInit
  /\ AuthInit /\ (Asleep("sessions") => keyIsSet)
  /\ LlmInit
  /\ SchemaInit /\ (Asleep("schema") => disk = Empty)
  /\ EngineInit /\ curType = ty1 /\ (Asleep("engines") => kind = "asr" /\ loads = 0)
  /\ ClusterInit /\ (Asleep("clusters") => flavor = "shared")

MCNext ==
  /\ part' = part
  /\ \/ /\ part = "requests" /\ HttpNext
        /\ UNCHANGED <<authVars, llmVars, schemaVars, engineVars, clusterVars>>
     \/ /\ part = "connections" /\ SocketNext
        /\ UNCHANGED <<authVars, llmVars, schemaVars, engineVars, clusterVars>>
     \/ /\ part = "sessions" /\ AuthNext
        /\ UNCHANGED <<limitVars, llmVars, schemaVars, engineVars, clusterVars>>
     \/ /\ part = "gateway" /\ LlmNext
        /\ UNCHANGED <<limitVars, authVars, schemaVars, engineVars, clusterVars>>
     \/ /\ part = "schema" /\ SchemaNext
        /\ UNCHANGED <<limitVars, authVars, llmVars, engineVars, clusterVars>>
     \/ /\ part = "engines" /\ EngineNext
        /\ UNCHANGED <<limitVars, authVars, llmVars, schemaVars, clusterVars>>
     \/ /\ part = "clusters" /\ ClusterNext
        /\ UNCHANGED <<limitVars, authVars, llmVars, schemaVars, engineVars>>

MCSpec ==
  MCInit /\ [][MCNext]_<<part, limitVars, authVars, llmVars, schemaVars, engineVars, clusterVars>>

(* Bounds that are none of the modules.                                     *)
FewEvents ==
  /\ \A a \in Addresses \ Users : Cardinality(log[a]) <= 1 \* one that only fills the tables
  /\ restarts > 0 => dbErrors + stamps = 0                \* a restart is all the trouble
  /\ Cardinality({c \in Callers : caller[c].test}) <= 1   \* one test of the settings,
  /\ dns = Nowhere => saver = NoSave                      \* no save while DNS fails,
  /\ saver.public => saver.host = "named"                 \* public only where it matters

Symmetry == Permutations(Logins) \cup Permutations(Callers)

(* Every part keeps the types of its variables.                             *)
TypesOK ==
  /\ part \in Parts
  /\ CASE part \in {"requests", "connections"} -> LimitTypes
       [] part = "sessions" -> AuthTypes
       [] part = "gateway" -> LlmTypes
       [] part = "schema" -> SchemaTypes
       [] part = "engines" -> EngineTypes
       [] part = "clusters" -> ClusterTypes
=============================================================================
