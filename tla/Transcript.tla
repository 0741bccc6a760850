----------------------------- MODULE Transcript -----------------------------
(***************************************************************************)
(* What is said by whom: the segments and speakers of the meetings         *)
(* (app/repositories/meetings.py), the edits users make to them            *)
(* (app/api/meetings.py), the job that replaces them with a new            *)
(* transcript, and the names it carries over or suggests.                  *)
(*                                                                         *)
(* An edit names rows and speakers by the identifiers of a page the user   *)
(* loaded; the status is checked when it arrives and the rows change in a  *)
(* later transaction, and a job may replace the transcript in between.     *)
(*                                                                         *)
(* Time is a few slots, each with one segment in every transcript; who     *)
(* really speaks in each (Voice) is fixed, and what the diarization says   *)
(* of a run is a member of Diarizations.                                   *)
(***************************************************************************)
EXTENDS VoiceSamples, Integers, FiniteSetsExt, SequencesExt

CONSTANTS
  Meeting,
  Slots,          \* meeting -> the slots of its recording, integers
  Voice,          \* meeting -> slot -> the person who speaks
  Label,          \* the labels a diarization gives
  Diarizations,   \* meeting -> the maps slots -> label or NoLabel a run may give
  NoLabel, NoOne,
  WithAudio,      \* meetings whose recording is still there
  Edit,           \* edits that may be under way together
  MaxNamed,       \* bound: segments an edit names
  MaxRuns,        \* bound: jobs per meeting
  MaxEdits        \* bound: edits

ASSUME TranscriptAssumption ==
  /\ {MaxRuns, MaxEdits, MaxNamed} \subseteq Nat /\ WithAudio \subseteq Meeting
  /\ NoLabel \notin Label /\ NoOne \notin Person
  /\ \A m \in Meeting :
       /\ IsFiniteSet(Slots[m]) /\ Slots[m] \subseteq Int /\ Voice[m] \in [Slots[m] -> Person]
       /\ Diarizations[m] \subseteq [Slots[m] -> Label \cup {NoLabel}]

VARIABLES
  rows,        \* transcript_segments
  speakers,    \* meeting_speakers
  nextRow,     \* the next AUTOINCREMENT id
  nextSpeaker, \* the next identifier of a speaker (a UUID)
  status,      \* meeting -> "open" (draft, ready or failed), "deleted", and for
               \* status processing: "processing", "matching" once rows are replaced
  matching,    \* meeting -> labels the running job has still to match
  match,       \* meeting -> the decision it is about to write
  edit,        \* edit -> what its request names, once it is admitted
  run,         \* history: meeting -> how many transcripts it has had
  misled,      \* history: meetings where a late edit addressed a speaker
  edits        \* how many edits there have been

textVars == <<rows, speakers, nextRow, nextSpeaker, status, matching, match,
              edit, run, misled, edits>>

NoEdit == [op |-> "none"]
NoMatch == [label |-> {}, person |-> NoOne, status |-> "anonymous"]

RowsOf(m) == {r \in rows : r.meeting = m}
SpeakersOf(m) == {s \in speakers : s.meeting = m}
SaidBy(s) == {r.slot : r \in {q \in rows : q.speaker = s.id}}

(* speakers.label is unique in a meeting; a split adds a suffix of its own. *)
Base(l) == <<l, 0>>
Anonymous(i, m, l) == [id |-> i, meeting |-> m, label |-> l, person |-> NoOne,
                       manual |-> FALSE, status |-> "anonymous"]
Named(s, p, manual, st) == [s EXCEPT !.person = p, !.manual = manual, !.status = st]

Missing(S, labels) == {l \in labels : \A s \in S : s.label # l}

(* The speakers S, and new ones for the labels that none of them has.      *)
WithLabels(S, m, labels, next) ==
  LET new == SetToSeq(Missing(S, labels))
  IN S \cup {Anonymous(next + i - 1, m, new[i]) : i \in DOMAIN new}

SpeakerFor(S, l) == IF l = Base(NoLabel) THEN 0 ELSE (CHOOSE s \in S : s.label = l).id

(* The rows of a transcript with diarization d, numbered from next on.     *)
Transcribed(m, d, S, next) ==
  {[id |-> next + Cardinality({u \in Slots[m] : u < t}), meeting |-> m, slot |-> t,
    speaker |-> SpeakerFor(S, Base(d[t])), aimed |-> 0] : t \in Slots[m]}

Used(d) == {Base(l) : l \in {d[t] : t \in DOMAIN d} \ {NoLabel}}

-----------------------------------------------------------------------------
(* _confirmed_identity_mapping: the person each label of d is carried over *)
(* from, by the share of the shorter of the two that overlaps.             *)

ConfirmedSlots(m, p) ==
  UNION {SaidBy(s) : s \in {s \in SpeakersOf(m) : s.manual /\ s.person = p}}
NewSlots(d, l) == {t \in DOMAIN d : Base(d[t]) = l}
Shorter(A, B) == Min({Cardinality(A), Cardinality(B)})
Overlap(A, B) == Cardinality(A \cap B)

(* x / y - u / v >= n / 100, and coverage at least 60 percent.             *)
Covers(A, B) == B # {} /\ 100 * Overlap(A, B) >= 60 * Shorter(A, B)
LeadsBy(A, B, C) ==
  C = {} \/ 100 * (Overlap(A, B) * Shorter(A, C) - Overlap(A, C) * Shorter(A, B))
                 >= 15 * Shorter(A, B) * Shorter(A, C)

\* Mutant: names stay with the labels of the previous run.
InheritsByLabel(m, d, l) ==
  {p \in Person : \E s \in SpeakersOf(m) : s.manual /\ s.person = p /\ s.label = l}
Inherits(m, d, l) ==
  {p \in Person : /\ Covers(NewSlots(d, l), ConfirmedSlots(m, p))
                  /\ \A q \in Person \ {p} :
                       LeadsBy(NewSlots(d, l), ConfirmedSlots(m, p), ConfirmedSlots(m, q))}

(* The speakers a replacement leaves: every name cleared, the inherited    *)
(* ones restored, labels out of use gone.                                  *)
Replaced(m, d) ==
  {LET heirs == Inherits(m, d, s.label) IN
     IF heirs = {} THEN Anonymous(s.id, m, s.label)
     ELSE Named(s, CHOOSE p \in heirs : TRUE, TRUE, "confirmed") :
     s \in {s \in WithLabels(SpeakersOf(m), m, Used(d), nextSpeaker) : s.label \in Used(d)}}

-----------------------------------------------------------------------------
(* The job.                                                                *)

Enqueue(m) ==
  /\ status[m] = "open" /\ m \in WithAudio /\ run[m] <= MaxRuns
  /\ status' = [status EXCEPT ![m] = "processing"]
  /\ UNCHANGED <<rows, speakers, nextRow, nextSpeaker, matching, match, edit, run, misled,
                 edits>>

(* AUTOINCREMENT never gives an id twice.                                  *)
\* Mutant: INTEGER PRIMARY KEY alone, which gives the largest id plus one.
LargestRow(m) == 1 + Max({0} \cup {r.id : r \in rows \ RowsOf(m)})
FreshRow(m) == nextRow

(* replace_generated_transcript: one transaction.  The job comes here again *)
(* when the process stopped before its end.                                 *)
Replace(m, d) ==
  /\ status[m] = "processing" /\ run[m] <= MaxRuns
  /\ LET S == WithLabels(SpeakersOf(m), m, Used(d), nextSpeaker)
     IN rows' = (rows \ RowsOf(m)) \cup Transcribed(m, d, S, FreshRow(m))
  /\ nextRow' = nextRow + Cardinality(Slots[m])
  /\ speakers' = (speakers \ SpeakersOf(m)) \cup Replaced(m, d)
  /\ nextSpeaker' = nextSpeaker + Cardinality(Missing(SpeakersOf(m), Used(d)))
  /\ matching' = [matching EXCEPT ![m] = Used(d)]
  /\ status' = [status EXCEPT ![m] = "matching"]
  /\ run' = [run EXCEPT ![m] = @ + 1]
  /\ UNCHANGED <<match, edit, misled, edits>>

(* _match_known_people, one label: what classify_person_match decides from *)
(* the samples it reads; two of one person are needed to show a name.      *)
Decisions ==
  {NoMatch} \cup
  {[label |-> {}, person |-> s.person, status |-> st] : s \in samples, st \in {"suggested"}}
  \cup {[label |-> {}, person |-> s.person, status |-> "auto_matched"] :
          s \in {s \in samples : Cardinality(OfPerson(s.person)) >= 2}}

Decide(m, l) ==
  /\ status[m] = "matching" /\ match[m] = NoMatch /\ l \in matching[m]
  /\ \E dec \in Decisions :
       match' = [match EXCEPT ![m] = IF dec = NoMatch THEN NoMatch
                                     ELSE [dec EXCEPT !.label = {l}]]
  /\ matching' = [matching EXCEPT ![m] = @ \ {l}]
  /\ UNCHANGED <<rows, speakers, nextRow, nextSpeaker, status, edit, run, misled, edits>>

(* The speakers suggest_speaker's WHERE clause finds.                      *)
Suggestible(m) == {s \in SpeakersOf(m) : {s.label} = match[m].label /\ ~s.manual}

(* suggest_speaker; the foreign key refuses a person deleted meanwhile, and *)
(* the exception ends the matching of all labels.                           *)
Suggest(m) ==
  /\ match[m] # NoMatch
  /\ match' = [match EXCEPT ![m] = NoMatch]
  /\ IF Suggestible(m) # {} /\ match[m].person \notin Known
       THEN /\ matching' = [matching EXCEPT ![m] = {}]
            /\ UNCHANGED speakers
       ELSE /\ speakers' = (speakers \ Suggestible(m)) \cup
                 {Named(s, match[m].person, FALSE, match[m].status) : s \in Suggestible(m)}
            /\ UNCHANGED matching
  /\ UNCHANGED <<rows, nextRow, nextSpeaker, status, edit, run, misled, edits>>

(* mark_completed, once every label is matched; or the job fails earlier.  *)
Finish(m) ==
  /\ \/ status[m] = "matching" /\ matching[m] = {} /\ match[m] = NoMatch
     \/ status[m] = "processing"
  /\ status' = [status EXCEPT ![m] = "open"]
  /\ UNCHANGED <<rows, speakers, nextRow, nextSpeaker, matching, match, edit, run, misled,
                 edits>>

DeleteMeeting(m) ==
  /\ status[m] = "open"
  /\ status' = [status EXCEPT ![m] = "deleted"]
  /\ rows' = rows \ RowsOf(m)
  /\ speakers' = speakers \ SpeakersOf(m)
  /\ UNCHANGED <<nextRow, nextSpeaker, matching, match, edit, run, misled, edits>>

-----------------------------------------------------------------------------
(* What users ask for.  They know the voices and say the truth about them; *)
(* a request may also name what belongs to another meeting.                *)

Voices(m, slots) == {Voice[m][t] : t \in slots}
Plausible(s, voices) ==
  Cardinality(voices) <= 1 /\ (s.manual => voices \subseteq {s.person})

Ids(R) == {ids \in SUBSET {r.id : r \in R} : Cardinality(ids) \in 1..MaxNamed}

Requests(m) ==
  [op : {"text"}, row : {r.id : r \in rows}]
  \cup {[op |-> "assign", ids |-> ids, speaker |-> s] :
          ids \in Ids(rows), s \in {0} \cup {s.id : s \in speakers}}
  \cup [op : {"confirm"}, speaker : {s.id : s \in speakers}, person : Known \cup {NoOne}]
  \cup {[op |-> "merge", target |-> s.id, sources |-> {t.id}] : s, t \in speakers}
  \cup {[op |-> "split", source |-> s.id, ids |-> ids] :
          s \in speakers, ids \in Ids(RowsOf(m))}

Truthful(m, q) ==
  \A s \in SpeakersOf(m) :
    CASE q.op = "confirm" /\ q.speaker = s.id ->
           q.person = NoOne \/ Voices(m, SaidBy(s)) = {q.person}
      [] q.op = "assign" /\ q.speaker = s.id ->
           Plausible(s, Voices(m, SaidBy(s) \cup {r.slot : r \in {r \in RowsOf(m) : r.id \in q.ids}}))
      [] q.op = "merge" /\ q.target = s.id ->
           Plausible(s, Voices(m, SaidBy(s) \cup
             UNION {SaidBy(t) : t \in {t \in SpeakersOf(m) : t.id \in q.sources}}))
      [] OTHER -> TRUE

(* _require_mutable_meeting.                                               *)
Ask(e, m, q) ==
  /\ edit[e] = NoEdit /\ edits < MaxEdits
  /\ status[m] = "open" /\ Truthful(m, q)
  /\ edit' = [edit EXCEPT ![e] = [op |-> q.op, meeting |-> m, seen |-> run[m], names |-> q]]
  /\ edits' = edits + 1
  /\ UNCHANGED <<rows, speakers, nextRow, nextSpeaker, status, matching, match, run, misled>>

(* The end of a request that changes rows and speakers so.                 *)
Write(e, newRows, newSpeakers) ==
  /\ rows' = newRows /\ speakers' = newSpeakers
  /\ edit' = [edit EXCEPT ![e] = NoEdit]
  /\ UNCHANGED <<nextRow, status, matching, match, run, edits>>

Late(e) == edit[e].seen # run[edit[e].meeting]
MisledIfLate(e) == misled' = IF Late(e) THEN misled \cup {edit[e].meeting} ELSE misled

SpeakerOf(m, i) == {s \in SpeakersOf(m) : s.id = i}
Addressed(e, m, ids) == {r \in RowsOf(m) : r.id \in ids}

(* update_segment_text.                                                    *)
EditText(e) ==
  /\ edit[e].op = "text"
  /\ LET hit == Addressed(e, edit[e].meeting, {edit[e].names.row})
     IN Write(e, (rows \ hit) \cup {[r EXCEPT !.aimed = edit[e].seen] : r \in hit}, speakers)
  /\ UNCHANGED <<nextSpeaker, misled>>

(* assign_segments' speaker is none, or one of the meeting.                *)
Assignable(m, i) == i = 0 \/ SpeakerOf(m, i) # {}

Assign(e) ==
  /\ edit[e].op = "assign"
  /\ LET m == edit[e].meeting
         hit == IF Assignable(m, edit[e].names.speaker)
                  THEN Addressed(e, m, edit[e].names.ids) ELSE {}
     IN Write(e, (rows \ hit) \cup {[r EXCEPT !.speaker = edit[e].names.speaker,
                                             !.aimed = edit[e].seen] : r \in hit}, speakers)
  /\ UNCHANGED <<nextSpeaker, misled>>

(* confirm_speaker; NoOne makes the speaker anonymous again.               *)
Confirm(e) ==
  /\ edit[e].op = "confirm"
  /\ LET p == edit[e].names.person
         hit == IF p \in Known \cup {NoOne} THEN SpeakerOf(edit[e].meeting, edit[e].names.speaker)
                ELSE {}
     IN Write(e, rows, (speakers \ hit) \cup
          {Named(s, p, p # NoOne, IF p = NoOne THEN "anonymous" ELSE "confirmed") : s \in hit})
  /\ MisledIfLate(e)
  /\ UNCHANGED nextSpeaker

(* merge_speakers; a request that merges a speaker into itself is refused. *)
Merge(e) ==
  /\ edit[e].op = "merge"
  /\ LET m == edit[e].meeting
         target == edit[e].names.target
         gone == IF SpeakerOf(m, target) = {} \/ target \in edit[e].names.sources THEN {}
                 ELSE {s \in SpeakersOf(m) : s.id \in edit[e].names.sources}
         hit == {r \in RowsOf(m) : r.speaker \in {s.id : s \in gone}}
     IN Write(e, (rows \ hit) \cup {[r EXCEPT !.speaker = target] : r \in hit},
              speakers \ gone)
  /\ MisledIfLate(e)
  /\ UNCHANGED nextSpeaker

(* split_speaker: an anonymous speaker, even when no segment is left to it. *)
Split(e) ==
  /\ edit[e].op = "split"
  /\ LET m == edit[e].meeting
         source == SpeakerOf(m, edit[e].names.source)
         hit == {r \in Addressed(e, m, edit[e].names.ids) : {r.speaker} = {s.id : s \in source}}
     IN /\ Write(e, (rows \ hit) \cup {[r EXCEPT !.speaker = nextSpeaker,
                                               !.aimed = edit[e].seen] : r \in hit},
                 speakers \cup {Anonymous(nextSpeaker, m, <<s.label[1], nextSpeaker>>) : s \in source})
        /\ nextSpeaker' = nextSpeaker + Cardinality(source)
  /\ UNCHANGED misled

-----------------------------------------------------------------------------
\* Mutant: the foreign key alone, ON DELETE SET NULL.
ForgottenByKey(s) == [s EXCEPT !.person = NoOne]
(* What the deletion of a person leaves of a speaker that had the name.    *)
Forgotten(s) == Named(s, NoOne, FALSE, "anonymous")

DeleteNamedPerson(p) ==
  /\ DeletePerson(p)
  /\ speakers' = {IF s.person = p THEN Forgotten(s) ELSE s : s \in speakers}
  /\ UNCHANGED <<rows, nextRow, nextSpeaker, status, matching, match, edit, run, misled, edits>>

(* The process stops: requests are lost, the recovered job starts again.   *)
Restart ==
  /\ StopServer
  /\ edit' = [e \in Edit |-> NoEdit]
  /\ match' = [m \in Meeting |-> NoMatch] /\ matching' = [m \in Meeting |-> {}]
  /\ status' = [m \in Meeting |-> IF status[m] = "matching" THEN "processing" ELSE status[m]]
  /\ UNCHANGED <<rows, speakers, nextRow, nextSpeaker, run, misled, edits>>

JobStep(m) ==
  \/ Enqueue(m) \/ Suggest(m) \/ Finish(m) \/ DeleteMeeting(m)
  \/ \E d \in Diarizations[m] : Replace(m, d)
  \/ \E l \in matching[m] : Decide(m, l)

EditStep(e) ==
  \/ \E m \in Meeting : \E q \in Requests(m) : Ask(e, m, q)
  \/ EditText(e) \/ Assign(e) \/ Confirm(e) \/ Merge(e) \/ Split(e)

(* Recordings are uploaded, and their first jobs are queued.                *)
TextInit ==
  /\ rows = {} /\ speakers = {} /\ nextRow = 1 /\ nextSpeaker = 1
  /\ status = [m \in Meeting |-> "processing"] /\ run = [m \in Meeting |-> 0]
  /\ matching = [m \in Meeting |-> {}] /\ match = [m \in Meeting |-> NoMatch]
  /\ edit = [e \in Edit |-> NoEdit] /\ misled = {} /\ edits = 0

(* A step of the job or of an edit, or one that is about people only; and   *)
(* those that are about both.                                              *)
TextNext ==
  \/ (\/ \E m \in Meeting : JobStep(m)
      \/ \E e \in Edit : EditStep(e)) /\ UNCHANGED voiceVars
  \/ VoiceStep /\ UNCHANGED textVars
  \/ \E p \in Person : DeleteNamedPerson(p)
  \/ Restart
TextSpec == VoiceInit /\ TextInit /\ [][TextNext]_<<voiceVars, textVars>>

-----------------------------------------------------------------------------
TextTypes ==
  /\ \A r \in rows : r.id < nextRow /\ r.slot \in Slots[r.meeting]
  /\ \A s \in speakers : s.id < nextSpeaker /\ s.person \in Person \cup {NoOne}
  /\ \A r, q \in rows : r.id = q.id => r = q
  /\ \A s, t \in speakers :
       s.id = t.id \/ (s.meeting = t.meeting /\ s.label = t.label) => s = t

(* A segment changed by its identifier is the segment the user saw: an edit *)
(* that is late, because a job replaced the transcript after the status was *)
(* checked, finds no row (or the rows of its own page, when it is not).     *)
EditsLandWhereAimed == \A r \in rows : r.aimed \in {0, run[r.meeting]}

(* A segment has a speaker of its own meeting, or none, although requests  *)
(* name speakers of other meetings, and speakers that a merge or a new     *)
(* transcript removed after the page was loaded.                           *)
SpeakersOfTheirMeeting ==
  \A r \in rows : r.speaker # 0 => \E s \in SpeakersOf(r.meeting) : s.id = r.speaker

(* A name, its status and its confirmation agree (people.py 78-80): no      *)
(* confirmed or suggested speaker is without a person, and the person is    *)
(* one that exists, although people are deleted while a job or an edit is   *)
(* about to write their name.                                               *)
StatusMatchesPerson ==
  \A s \in speakers :
    /\ (s.person = NoOne) = (s.status = "anonymous")
    /\ s.manual = (s.status = "confirmed")
    /\ s.person # NoOne => s.person \in Known

(* With users who name voices truly and diarizations that never mix two     *)
(* voices, a confirmed name stays with its voice through any number of new   *)
(* transcripts and exchanged labels: except in a meeting where an edit that  *)
(* was late addressed a speaker, whose identifier the new transcript reuses. *)
NamesFollowVoices ==
  \A s \in speakers : s.manual /\ s.meeting \notin misled =>
    Voices(s.meeting, SaidBy(s)) \subseteq {s.person}

(* "A previous person is inherited only when one previously confirmed       *)
(* person clearly owns most of the new label's speech"                      *)
(* (_confirmed_identity_mapping, repositories/meetings.py 54-55).           *)
HeirsOwnMost ==
  [][\A m \in Meeting : run'[m] # run[m] =>
       \A s \in speakers' : s.meeting = m /\ s.manual =>
         LET said == {r.slot : r \in {r \in rows' : r.speaker = s.id}}
         IN 2 * Overlap(said, ConfirmedSlots(m, s.person)) > Cardinality(said)]_textVars

(* The tables of a transcript agree with each other and with the people.    *)
SpeakersAgree == TextTypes /\ SpeakersOfTheirMeeting /\ StatusMatchesPerson
=============================================================================
