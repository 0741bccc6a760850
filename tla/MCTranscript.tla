--------------------------- MODULE MCTranscript ---------------------------
(***************************************************************************)
(* The texts and the people of the product: a behaviour is about one part   *)
(* of them, and the others stay as they start.  The enrolments and the      *)
(* edits share the people.                                                 *)
(*                                                                         *)
(* One meeting that is transcribed again and one that is not, two people.   *)
(***************************************************************************)
EXTENDS Transcript, ChunkText, LiveText, SpeakerAlignment

CONSTANTS m1, m2, p1, p2, A, B, u1, u2, e1

VARIABLE part

Parts == {"enrol", "edit", "chunks", "live", "align"}

MCSlots == [m \in Meeting |-> IF m = m1 THEN {1, 2, 3} ELSE {1}]
MCVoice == [m \in Meeting |-> [t \in MCSlots[m] |-> IF t = 3 THEN p2 ELSE p1]]
OneVoiceEach(m, d) == \A t, u \in DOMAIN d : d[t] = d[u] /\ d[t] # NoLabel => MCVoice[m][t] = MCVoice[m][u]
AnyDiarization == [m \in Meeting |-> [MCSlots[m] -> {A, B, NoLabel}]]
Unmixed ==
  [m \in Meeting |-> IF m = m1 THEN {<<A, A, B>>, <<B, B, A>>, <<A, B, NoLabel>>} ELSE {<<A>>}]
ASSUME UnmixedAssumption ==
  \A m \in Meeting : Unmixed[m] \subseteq {d \in AnyDiarization[m] : OneVoiceEach(m, d)}

(* Three words of a character, and one of two that begins like another.     *)
MCToken == {<<"a">>, <<"b">>, <<"c">>, <<"a", "b">>}
ASSUME ShortOverlaps == OverlapsAreShort

Enrolled == {[file |-> u1, person |-> p1, print |-> 1], [file |-> u2, person |-> p1, print |-> 2]}

(* Edits of the first meeting, at most two, and as many new transcripts, but *)
(* three in all.                                                             *)
FewSteps == /\ edits + run[m1] <= 4
            /\ \A e \in Edit : edit[e] # NoEdit => edit[e].meeting = m1

PeopleInit ==
  \/ part # "edit" /\ VoiceInit
  \/ /\ part = "edit"
     /\ people = [p \in Person |-> "known"]
     /\ samples = Enrolled /\ files = {u1, u2} /\ enrol = [u \in Upload |-> Over]
     /\ deleting = Nobody /\ unlinking = {}

(* Each meeting has had its first transcript.                               *)
TranscribedInit ==
  /\ \E d1 \in Diarizations[m1], d2 \in Diarizations[m2] :
       LET S1 == WithLabels({}, m1, Used(d1), 1)
           S2 == WithLabels({}, m2, Used(d2), 1 + Cardinality(S1))
       IN /\ speakers = S1 \cup S2
          /\ rows = Transcribed(m1, d1, S1, 1) \cup Transcribed(m2, d2, S2, 1 + Cardinality(Slots[m1]))
  /\ nextRow = 1 + Cardinality(rows) /\ nextSpeaker = 1 + Cardinality(speakers)
  /\ status = [m \in Meeting |-> "open"] /\ run = [m \in Meeting |-> 1]
  /\ matching = [m \in Meeting |-> {}] /\ match = [m \in Meeting |-> NoMatch]
  /\ edit = [e \in Edit |-> NoEdit] /\ misled = {} /\ edits = 0

(* The one initial state a part keeps while another is at work.             *)
MCInit ==
  /\ part \in Parts
  /\ PeopleInit
  /\ TranscribedInit /\ (part # "edit" => \E s \in SpeakersOf(m1) : s.label = Base(A) /\ SaidBy(s) = {1, 2})
  /\ IF part = "chunks" THEN ChunkInit
     ELSE said = <<>> /\ offset = 0 /\ results = "text" /\ done = 0 /\ segments = <<>>
  /\ LiveTextInit
  /\ IF part = "align" THEN AlignInit
     ELSE stage = "transcribed" /\ turns = <<>> /\ asrSegments = <<>> /\ aligned = <<>>

EditNext ==
  \/ ReadPaths(p1) /\ UNCHANGED textVars
  \/ (\/ \E m \in Meeting : JobStep(m)
      \/ \E e \in Edit : EditStep(e)) /\ UNCHANGED voiceVars
  \/ Restart
  \/ \E p \in Person : DeleteNamedPerson(p)

EnrolNext ==
  \/ VoiceStep /\ UNCHANGED textVars
  \/ Restart
  \/ \E p \in Person : DeleteNamedPerson(p)

MCNext ==
  /\ part' = part
  /\ \/ part = "enrol" /\ EnrolNext /\ UNCHANGED <<chunkVars, liveTextVars, alignVars>>
     \/ part = "edit" /\ EditNext /\ UNCHANGED <<chunkVars, liveTextVars, alignVars>>
     \/ part = "chunks" /\ Transcribe /\ UNCHANGED <<voiceVars, textVars, liveTextVars, alignVars>>
     \/ part = "live" /\ LiveTextNext /\ UNCHANGED <<voiceVars, textVars, chunkVars, alignVars>>
     \/ part = "align" /\ AlignNext /\ UNCHANGED <<voiceVars, textVars, chunkVars, liveTextVars>>
MCSpec ==
  MCInit /\ [][MCNext]_<<voiceVars, textVars, chunkVars, liveTextVars, alignVars, part>>
============================================================================
