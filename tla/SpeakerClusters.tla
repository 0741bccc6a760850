-------------------------- MODULE SpeakerClusters --------------------------
(***************************************************************************)
(* The anonymous speakers of one live session inside a speaker engine:      *)
(* compare_and_identify of CamPlus (engine/speaker/campplus_engine.py), with *)
(* its list of pending speakers, and the one ERes2Net and Wespeaker share   *)
(* (engine/speaker/base_engine.py), with its history of edge matches.       *)
(*                                                                         *)
(* Embeddings are left out: how far an utterance is from each cluster, and  *)
(* which pending speakers it is close to, is chosen anew every time.        *)
(* Distances are in thousandths.                                            *)
(***************************************************************************)
EXTENDS Integers, Sequences, SequencesExt, FiniteSetsExt, Functions

CONSTANTS
  Distance,        \* the distances an utterance may have from a cluster
  Profile,         \* THRESHOLD_PROFILE of the shared implementation
  PendingLimit,    \* 5: the longest list of pending speakers
  EMB_BUFFER_SIZE, \* 5
  MaxUtterances    \* bound

ASSUME ClusterAssumption ==
  /\ Distance \subseteq 0..2000 /\ Distance # {} /\ MaxUtterances \in Nat
  /\ {PendingLimit, EMB_BUFFER_SIZE} \subseteq Nat \ {0}
  /\ DOMAIN Profile = {"reliable", "short"}
  /\ \A c \in DOMAIN Profile : Profile[c].low \in Nat /\ Profile[c].high \in Nat

VARIABLES
  flavor,      \* "camplus" or "shared"
  clusters,    \* the collection: identifier -> count
  pending,     \* pending_speakers: sequence of [id, count]
  edges,       \* match_history: the best identifiers of the last edge matches
  window,      \* how many embeddings the smoothing buffer holds
  said,        \* history: the identifier that went out with each utterance
  nextId

clusterVars == <<flavor, clusters, pending, edges, window, said, nextId>>

PENDING_THRESHOLD == 3
HISTORY_SIZE == 3
MIN_SAMPLES_FOR_EDGE == 2

ClusterIds == DOMAIN clusters
PendingIds == {pending[i].id : i \in DOMAIN pending}
Shown == {said[u] : u \in DOMAIN said}

ClusterTypes ==
  /\ flavor \in {"camplus", "shared"}
  /\ ClusterIds \subseteq 1..(nextId - 1) /\ \A c \in ClusterIds : clusters[c] \in Nat \ {0}
  /\ Len(pending) <= PendingLimit
  /\ \A i \in DOMAIN pending :
       pending[i].id \in 1..(nextId - 1) /\ pending[i].count \in 1..(PENDING_THRESHOLD - 1)
  /\ Len(edges) <= HISTORY_SIZE /\ window \in 0..EMB_BUFFER_SIZE
  /\ Shown \subseteq 1..(nextId - 1) /\ Len(said) <= MaxUtterances

ClusterInit ==
  /\ flavor \in {"camplus", "shared"}
  /\ clusters = <<>> /\ pending = <<>> /\ edges = <<>> /\ window = 0
  /\ said = <<>> /\ nextId = 1

(* The thresholds below which a cluster matches for sure, and maybe.  class *)
(* is _classify_segment_duration's, or is_reliable of the shared code.      *)
CamPlusLimits(class, count) ==
  LET base == IF class = "short" THEN [low |-> 750, high |-> 850] ELSE [low |-> 500, high |-> 600]
  IN [base EXCEPT !.high = @ + IF count < 3 THEN 80 ELSE 0]
SharedLimits(class, count) ==
  LET looser == Min({50, 5 * count})
  IN [low |-> Profile[class].low + looser, high |-> Profile[class].high + looser]
Limits(class, count) ==
  IF flavor = "camplus" THEN CamPlusLimits(class, count) ELSE SharedLimits(class, count)

(* query_session_candidates: the three nearest clusters, nearest first.    *)
Results ==
  LET n == Min({3, Cardinality(ClusterIds)})
      ids == {q \in [1..n -> ClusterIds] : IsInjective(q)}
      distances == {d \in [1..n -> Distance] : \A i \in 1..(n - 1) : d[i] <= d[i + 1]}
  IN [ids : ids, dist : distances]

Bump(c) == [clusters EXCEPT ![c] = @ + 1]
Register(c, n) == [x \in ClusterIds \cup {c} |-> IF x = c THEN n ELSE clusters[x]]

(* What every utterance that is identified as c does.                      *)
Answer(c) ==
  /\ said' = Append(said, c)
  /\ window' = Min({EMB_BUFFER_SIZE, window + 1})

-----------------------------------------------------------------------------
(* _check_pending_speakers: the first pending speaker that is close.        *)
PendingMatch(near) ==
  LET i == CHOOSE i \in near : \A j \in near : i <= j
      p == [pending[i] EXCEPT !.count = @ + 1]
  IN /\ Answer(p.id)
     /\ IF p.count >= PENDING_THRESHOLD
          THEN clusters' = Register(p.id, p.count) /\ pending' = RemoveAt(pending, i)
          ELSE pending' = [pending EXCEPT ![i] = p] /\ UNCHANGED clusters
     /\ UNCHANGED <<edges, nextId>>

(* The results that may take the utterance although the best is no sure     *)
(* match.  The limit is the one for the best cluster's count.               *)
CamPlusEdge(q, high) ==
  {i \in DOMAIN q.ids : q.dist[i] < high /\ clusters[q.ids[i]] >= MIN_SAMPLES_FOR_EDGE}

\* Mutant: the history of edge matches is never shortened.
RememberedForEver(c) == Append(edges, c)
Remembered(c) ==
  IF Len(edges) = HISTORY_SIZE THEN Append(Tail(edges), c) ELSE Append(edges, c)
SharedEdge(c) ==
  \/ Cardinality({i \in DOMAIN Remembered(c) : Remembered(c)[i] = c}) >= 2
  \/ clusters[c] >= MIN_SAMPLES_FOR_EDGE

\* Mutant: the speaker that overflows the pending list is dropped.
NewPendingDropping ==
  LET all == Append(pending, [id |-> nextId, count |-> 1])
  IN pending' = (IF Len(all) > PendingLimit THEN Tail(all) ELSE all) /\ UNCHANGED clusters
(* An unreliable sample waits; the list's oldest is registered when it is   *)
(* too long.                                                                *)
NewPending ==
  LET all == Append(pending, [id |-> nextId, count |-> 1])
  IN IF Len(all) > PendingLimit
       THEN /\ clusters' = Register(all[1].id, all[1].count)
            /\ pending' = Tail(all)
       ELSE pending' = all /\ UNCHANGED clusters

NewSpeaker(class) ==
  /\ Answer(nextId) /\ nextId' = nextId + 1
  /\ IF flavor = "camplus" /\ class = "short" THEN NewPending
     ELSE clusters' = Register(nextId, 1) /\ UNCHANGED pending

Joins(c) == Answer(c) /\ clusters' = Bump(c) /\ UNCHANGED <<pending, nextId>>

(* compare_and_identify for an utterance that is long enough, with no       *)
(* pending speaker close to it and the query results q.                     *)
Match(class, q) ==
  LET best == q.ids[1]
      limits == Limits(class, clusters[best])
      takers == CamPlusEdge(q, limits.high)
  IN IF ClusterIds = {} THEN NewSpeaker(class) /\ UNCHANGED edges
     ELSE IF q.dist[1] < limits.low THEN Joins(best) /\ UNCHANGED edges
     ELSE IF flavor = "camplus"
       THEN /\ UNCHANGED edges
            /\ IF takers # {} THEN Joins(q.ids[Min(takers)]) ELSE NewSpeaker(class)
     ELSE IF q.dist[1] >= limits.high THEN NewSpeaker(class) /\ UNCHANGED edges
     ELSE /\ edges' = Remembered(best)
          /\ IF SharedEdge(best) THEN Joins(best) ELSE NewSpeaker(class)

Utterance(class) ==
  /\ Len(said) < MaxUtterances
  /\ \/ \E near \in (SUBSET DOMAIN pending) \ {{}} : PendingMatch(near)
     \/ \E q \in Results : Match(class, q)
  /\ UNCHANGED flavor

(* reset_buffer at the end of a stretch of speech.  Utterances that are too  *)
(* short, or without an embedding, change nothing at all.                   *)
ResetBuffer ==
  /\ window' = 0 /\ edges' = <<>>
  /\ UNCHANGED <<flavor, clusters, pending, said, nextId>>

ClusterNext ==
  \/ \E class \in {"short", "reliable"} : Utterance(class)
  \/ ResetBuffer

ClusterSpec == ClusterInit /\ [][ClusterNext]_clusterVars

-----------------------------------------------------------------------------
(* A label that once went out keeps naming one speaker of the engine, which  *)
(* is either pending or in the collection, never both or none: also when    *)
(* the list of pending speakers overflows and when a speaker is confirmed.  *)
LabelsStay ==
  /\ Shown = ClusterIds \cup PendingIds
  /\ ClusterIds \cap PendingIds = {}
  /\ IsInjective([i \in DOMAIN pending |-> pending[i].id])

(* A speaker's count is the number of utterances that went out with its     *)
(* label, in whichever ways they were matched: the counts decide what may   *)
(* match at the edge, when a pending speaker is confirmed and when a        *)
(* cluster is locked.                                                       *)
SaidBySpeaker(c) == Cardinality({u \in DOMAIN said : said[u] = c})
UtterancesCounted ==
  /\ \A c \in ClusterIds : clusters[c] = SaidBySpeaker(c)
  /\ \A i \in DOMAIN pending : pending[i].count = SaidBySpeaker(pending[i].id)

(* No label is lost or given twice, and no utterance.                       *)
SpeakersCounted == LabelsStay /\ UtterancesCounted
=============================================================================
