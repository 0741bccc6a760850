-------------------------- MODULE TranscriptProofs --------------------------
(***************************************************************************)
(* Proofs about VoiceSamples and Transcript, for any people, recordings,     *)
(* transcripts and edits.                                                  *)
(***************************************************************************)
EXTENDS Transcript, FiniteSetTheorems, SequenceTheorems, WellFoundedInduction, TLAPS

-----------------------------------------------------------------------------
(* Voice samples.                                                          *)
(* A file belongs to one row at most, and to none that is being enrolled.   *)
FilesHaveOneOwner ==
  /\ \A s, t \in samples : s.file = t.file => s = t
  /\ \A s \in samples : enrol[s.file] = Over

(* An enrolment under way has its file.                                     *)
EnrolmentsHaveFiles ==
  \A u \in Upload : enrol[u].pc \in {"received", "hashed"} => u \in files

(* What a deletion will unlink belongs to no row but those it deletes, and   *)
(* to no enrolment that may still insert one.                               *)
DeletionsOwnPaths ==
  /\ \A u \in unlinking : enrol[u] = Over /\ \A s \in samples : s.file # u
  /\ \A u \in deleting.paths :
       enrol[u] = Over /\ \A s \in samples : s.file = u => {s.person} = deleting.person

VoiceInv ==
  /\ SamplesSound /\ DOMAIN enrol = Upload
  /\ FilesHaveOneOwner /\ EnrolmentsHaveFiles /\ DeletionsOwnPaths

LEMMA VoiceStarts == VoiceInit => VoiceInv
BY DEF VoiceInit, VoiceInv, SamplesSound, VoiceTypes, SamplesHaveFiles, SamplesAreOwned,
       FilesHaveOneOwner, EnrolmentsHaveFiles, DeletionsOwnPaths, Sample, Idle, Nobody

(* Every action keeps VoiceInv.                                             *)
LEMMA VoiceKept == VoiceInv /\ [VoiceNext]_voiceVars => VoiceInv'
<1> SUFFICES ASSUME VoiceInv, [VoiceNext]_voiceVars PROVE VoiceInv'
  OBVIOUS
<1> USE DEF VoiceInv, SamplesSound, VoiceTypes, SamplesHaveFiles, SamplesAreOwned, FilesHaveOneOwner,
            EnrolmentsHaveFiles, DeletionsOwnPaths, Sample, Known, OfPerson, Idle, Over, Nobody
<1>1. ASSUME NEW p \in Person, CreatePerson(p) PROVE VoiceInv'
  BY <1>1 DEF CreatePerson
<1>2. ASSUME NEW p \in Person, ReadPaths(p) PROVE VoiceInv'
  BY <1>2 DEF ReadPaths
<1>3. ASSUME NEW p \in Person, DeletePerson(p) PROVE VoiceInv'
  BY <1>3 DEF DeletePerson
<1>4. ASSUME NEW u \in Upload, NEW p \in Person, NEW h \in Voiceprint, Receive(u, p, h) PROVE VoiceInv'
  BY <1>4 DEF Receive
<1>5. ASSUME NEW u \in Upload, Assess(u) PROVE VoiceInv'
  BY <1>5 DEF Assess
<1>6. ASSUME NEW u \in Upload, Refuse(u) PROVE VoiceInv'
  BY <1>6 DEF Refuse
<1>7. ASSUME NEW u \in Upload, Disconnect(u) PROVE VoiceInv'
  BY <1>7 DEF Disconnect
<1>8. ASSUME NEW u \in Upload, Enroll(u) PROVE VoiceInv'
  BY <1>8 DEF Enroll, Insertable, Registered
<1>9. ASSUME NEW u \in Upload, Unlink(u) PROVE VoiceInv'
  BY <1>9 DEF Unlink
<1>10. ASSUME NEW u \in Upload, UnlinkFails(u) PROVE VoiceInv'
  BY <1>10 DEF UnlinkFails
<1>11. ASSUME NEW s \in samples, DeleteSample(s) PROVE VoiceInv'
  BY <1>11 DEF DeleteSample
<1>12. ASSUME StopServer PROVE VoiceInv'
  BY <1>12 DEF StopServer
<1>13. CASE UNCHANGED voiceVars
  BY <1>13 DEF voiceVars
<1> QED
  BY <1>1, <1>2, <1>3, <1>4, <1>5, <1>6, <1>7, <1>8, <1>9, <1>10, <1>11, <1>12, <1>13
     DEF VoiceNext, VoiceStep

(* Rows, files and people agree whatever fails, is cancelled or is deleted   *)
(* between two steps of an enrolment or a deletion.                         *)
THEOREM SamplesStaySound == VoiceSpec => []SamplesSound
<1>1. VoiceInv => SamplesSound
  BY DEF VoiceInv
<1> QED
  BY VoiceStarts, VoiceKept, <1>1, PTL DEF VoiceSpec

-----------------------------------------------------------------------------
(* What the operators of a new transcript give.                            *)

\* The places of the slots count up from 0.
Place(m, t) == Cardinality({u \in Slots[m] : u < t})

LEMMA PlacesDiffer ==
  ASSUME NEW m \in Meeting
  PROVE  /\ Cardinality(Slots[m]) \in Nat
         /\ \A t \in Slots[m] : Place(m, t) \in Nat /\ Place(m, t) < Cardinality(Slots[m])
         /\ \A t, u \in Slots[m] : t # u => Place(m, t) # Place(m, u)
<1> DEFINE Before(t) == {u \in Slots[m] : u < t}
<1>1. IsFiniteSet(Slots[m]) /\ Slots[m] \subseteq Int /\ Cardinality(Slots[m]) \in Nat
  BY TranscriptAssumption, FS_CardinalityType
<1>2. ASSUME NEW t \in Slots[m]
      PROVE  IsFiniteSet(Before(t)) /\ Cardinality(Before(t)) \in Nat
  BY <1>1, FS_Subset, FS_CardinalityType
<1>3. ASSUME NEW t \in Slots[m] PROVE Cardinality(Before(t)) < Cardinality(Slots[m])
  <2>1. t \notin Before(t)
    BY <1>1
  <2>2. Before(t) # Slots[m]
    BY <2>1
  <2>3. Before(t) \in SUBSET Slots[m]
    OBVIOUS
  <2> HIDE DEF Before
  <2>4. QED BY <1>1, <1>2, <2>2, <2>3, FS_Subset
<1>4. ASSUME NEW t \in Slots[m], NEW u \in Slots[m], t < u
      PROVE  Cardinality(Before(t)) < Cardinality(Before(u))
  <2>1. Before(t) \in SUBSET Before(u)
    BY <1>1, <1>4
  <2>2. t \in Before(u) /\ t \notin Before(t)
    BY <1>1, <1>4
  <2>3. IsFiniteSet(Before(u)) /\ Cardinality(Before(u)) \in Nat /\ Cardinality(Before(t)) \in Nat
    BY <1>2
  <2> HIDE DEF Before
  <2>4. QED BY <2>1, <2>2, <2>3, FS_Subset
<1>5. ASSUME NEW t \in Slots[m], NEW u \in Slots[m], t # u
      PROVE  Cardinality(Before(t)) # Cardinality(Before(u))
  <2>1. t < u \/ u < t
    BY <1>1, <1>5
  <2>2. Cardinality(Before(t)) < Cardinality(Before(u)) \/ Cardinality(Before(u)) < Cardinality(Before(t))
    BY <1>4, <2>1
  <2>3. Cardinality(Before(t)) \in Nat /\ Cardinality(Before(u)) \in Nat
    BY <1>2
  <2> HIDE DEF Before
  <2>4. QED BY <2>2, <2>3
<1>6. \A t \in Slots[m] : Place(m, t) = Cardinality(Before(t))
  BY DEF Place
<1> HIDE DEF Before
<1>7. QED BY <1>1, <1>2, <1>3, <1>5, <1>6

\* SetToSeq of a finite set has each of its elements once.
LEMMA SetListed ==
  ASSUME NEW S, IsFiniteSet(S)
  PROVE  /\ Cardinality(S) \in Nat
         /\ SetToSeq(S) \in [1..Cardinality(S) -> S]
         /\ \A i, j \in 1..Cardinality(S) : SetToSeq(S)[i] = SetToSeq(S)[j] => i = j
         /\ \A x \in S : \E i \in 1..Cardinality(S) : SetToSeq(S)[i] = x
<1> DEFINE n == Cardinality(S)
           f == SetToSeq(S)
<1>1. n \in Nat /\ ExistsBijection(1..n, S)
  BY FS_CardinalityType
<1>2. \E g \in [1..n -> S] : IsInjective(g)
  BY <1>1 DEF ExistsBijection, Bijection, Injection
<1>3. f \in [1..n -> S] /\ IsInjective(f)
  BY <1>2 DEF SetToSeq
<1>4. f \in Injection(1..n, S)
  BY <1>3 DEF Injection
<1>5. Cardinality(1..n) = n
  BY <1>1, FS_Interval
<1> HIDE DEF n, f
<1>6. f \in Surjection(1..n, S)
  <2>1. Cardinality(1..n) = Cardinality(S)
    BY <1>5 DEF n
  <2>2. QED BY <1>4, <2>1, FS_Injection
<1>7. /\ \A i, j \in 1..n : f[i] = f[j] => i = j
      /\ \A x \in S : \E i \in 1..n : f[i] = x
  BY <1>3, <1>6 DEF IsInjective, Surjection
<1>8. QED BY <1>1, <1>3, <1>7 DEF n, f

\* The speakers a new transcript adds.
LEMMA LabelsGetSpeakers ==
  ASSUME NEW S, NEW m, NEW labels, IsFiniteSet(labels), NEW next \in Nat
  PROVE  LET W == WithLabels(S, m, labels, next)
             k == Cardinality(Missing(S, labels))
         IN /\ k \in Nat /\ S \subseteq W
            /\ \A s \in W \ S : \E i \in Nat : \E l \in Missing(S, labels) :
                  i >= next /\ i < next + k /\ s = Anonymous(i, m, l)
            /\ \A s, t \in W \ S : s.id = t.id \/ s.label = t.label => s = t
            /\ \A l \in labels : \E s \in W : s.label = l
<1> DEFINE M == Missing(S, labels)
           k == Cardinality(M)
           new == SetToSeq(M)
           W == WithLabels(S, m, labels, next)
<1>1. IsFiniteSet(M)
  <2>1. M \in SUBSET labels
    BY DEF Missing
  <2> HIDE DEF M
  <2>2. QED BY <2>1, FS_Subset
<1>2. /\ k \in Nat /\ new \in [1..k -> M]
      /\ \A i, j \in 1..k : new[i] = new[j] => i = j
      /\ \A l \in M : \E i \in 1..k : new[i] = l
  <2> HIDE DEF M
  <2>1. QED BY <1>1, SetListed
<1>3. W = S \cup {Anonymous(next + i - 1, m, new[i]) : i \in 1..k}
  BY <1>2 DEF WithLabels
<1>4. \A l \in labels \ M : \E s \in S : s.label = l
  BY DEF Missing
<1> HIDE DEF M, k, new, W
<1>5. S \subseteq W
  BY <1>3
<1>6. ASSUME NEW s \in W \ S
      PROVE  \E i \in 1..k : s = Anonymous(next + i - 1, m, new[i])
  BY <1>3
<1>7. ASSUME NEW s \in W \ S
      PROVE  \E i \in Nat : \E l \in M : i >= next /\ i < next + k /\ s = Anonymous(i, m, l)
  <2>1. PICK i \in 1..k : s = Anonymous(next + i - 1, m, new[i])
    BY <1>6
  <2>2. next + i - 1 \in Nat /\ next + i - 1 >= next /\ next + i - 1 < next + k
    BY <1>2
  <2>3. new[i] \in M
    BY <1>2
  <2>4. QED BY <2>1, <2>2, <2>3
<1>8. ASSUME NEW s \in W \ S, NEW t \in W \ S, s.id = t.id \/ s.label = t.label
      PROVE  s = t
  <2>1. PICK i \in 1..k : s = Anonymous(next + i - 1, m, new[i])
    BY <1>6
  <2>2. PICK j \in 1..k : t = Anonymous(next + j - 1, m, new[j])
    BY <1>6
  <2>3. s.id = next + i - 1 /\ t.id = next + j - 1 /\ s.label = new[i] /\ t.label = new[j]
    BY <2>1, <2>2 DEF Anonymous
  <2>4. i = j
    <3>1. CASE s.id = t.id
      <4>1. i \in Nat /\ j \in Nat
        BY <1>2
      <4>2. next + i - 1 = next + j - 1
        BY <3>1, <2>3
      <4>3. QED BY <4>1, <4>2
    <3>2. CASE s.label = t.label
      BY <3>2, <2>3, <1>2
    <3>3. QED BY <1>8, <3>1, <3>2
  <2>5. QED BY <2>1, <2>2, <2>4
<1>9. ASSUME NEW l \in labels PROVE \E s \in W : s.label = l
  <2>1. CASE l \in M
    <3>1. PICK i \in 1..k : new[i] = l
      BY <1>2, <2>1
    <3>2. Anonymous(next + i - 1, m, new[i]).label = l
      BY <3>1 DEF Anonymous
    <3>3. QED BY <1>3, <3>2
  <2>2. CASE l \notin M
    BY <2>2, <1>4, <1>5
  <2>3. QED BY <2>1, <2>2
<1>10. QED BY <1>2, <1>5, <1>7, <1>8, <1>9 DEF M, k, W

\* The labels a diarization uses are finitely many, and none of them NoLabel.
LEMMA UsedLabels ==
  ASSUME NEW m \in Meeting, NEW d \in Diarizations[m]
  PROVE  /\ IsFiniteSet(Used(d)) /\ Used(d) \subseteq Label \X {0}
         /\ DOMAIN d = Slots[m]
         /\ \A t \in Slots[m] : d[t] # NoLabel => Base(d[t]) \in Used(d)
         /\ Base(NoLabel) \notin Used(d)
<1> DEFINE X == {Base(d[t]) : t \in Slots[m]}
           f == [t \in Slots[m] |-> Base(d[t])]
<1>1. d \in [Slots[m] -> Label \cup {NoLabel}] /\ NoLabel \notin Label /\ IsFiniteSet(Slots[m])
  BY TranscriptAssumption
<1>2. f \in Surjection(Slots[m], X)
  BY DEF Surjection
<1>3. IsFiniteSet(X)
  <2> HIDE DEF X, f
  <2>1. QED BY <1>1, <1>2, FS_Surjection
<1>4. Used(d) \in SUBSET X
  BY <1>1 DEF Used
<1>5. IsFiniteSet(Used(d))
  <2> HIDE DEF X
  <2>1. QED BY <1>3, <1>4, FS_Subset
<1>6. Used(d) \subseteq Label \X {0}
  BY <1>1 DEF Used, Base
<1>7. DOMAIN d = Slots[m] /\ \A t \in Slots[m] : d[t] # NoLabel => Base(d[t]) \in Used(d)
  BY <1>1 DEF Used
<1>8. QED BY <1>1, <1>5, <1>6, <1>7 DEF Base, Used

-----------------------------------------------------------------------------
(* The invariant of the tables.                                            *)

Row == [id : Nat, meeting : Meeting, slot : Int, speaker : Nat, aimed : Nat]
SpeakerRow ==
  [id : Nat \ {0}, meeting : Meeting, label : Label \X Nat, person : Person \cup {NoOne},
   manual : BOOLEAN, status : {"anonymous", "suggested", "auto_matched", "confirmed"}]

TextTyped ==
  /\ rows \subseteq Row /\ speakers \subseteq SpeakerRow
  /\ nextRow \in Nat /\ nextSpeaker \in Nat \ {0}
  /\ run \in [Meeting -> Nat]
  /\ DOMAIN status = Meeting /\ DOMAIN match = Meeting /\ DOMAIN edit = Edit
  /\ matching \in [Meeting -> SUBSET (Label \X {0})]

\* The suffix of a label is that of its own split.
LabelsNumbered == \A s \in speakers : s.label[2] \in {0, s.id}

\* A decision about to be written names someone.
MatchesTyped ==
  \A m \in Meeting :
    match[m] = NoMatch \/ (/\ match[m].person \in Person
                           /\ match[m].status \in {"suggested", "auto_matched"})

\* The rows an edit names were there when it was admitted: none of them belongs
\* to a transcript of its meeting that came later.
NamedRows(e) ==
  IF edit[e].op = "text" THEN {edit[e].names.row}
  ELSE IF edit[e].op \in {"assign", "split"} THEN edit[e].names.ids ELSE {}

EditsKnowTheirPage ==
  \A e \in Edit : edit[e] # NoEdit =>
    /\ edit[e].meeting \in Meeting /\ edit[e].seen \in Nat /\ edit[e].seen <= run[edit[e].meeting]
    /\ \A i \in NamedRows(e) : i \in Nat /\ i < nextRow
    /\ Late(e) => \A r \in RowsOf(edit[e].meeting) : r.id \notin NamedRows(e)

TablesInv ==
  /\ TextTyped /\ SpeakersAgree /\ LabelsNumbered /\ MatchesTyped
  /\ EditsKnowTheirPage /\ EditsLandWhereAimed

LEMMA TablesStart == TextInit => TablesInv
<1> SUFFICES ASSUME TextInit PROVE TablesInv
  OBVIOUS
<1>1. rows = {} /\ speakers = {} /\ \A e \in Edit : edit[e] = NoEdit
  BY DEF TextInit
<1>2. TextTyped
  BY DEF TextInit, TextTyped
<1>3. MatchesTyped
  BY DEF TextInit, MatchesTyped
<1>4. QED
  BY <1>1, <1>2, <1>3
     DEF TablesInv, SpeakersAgree, TextTypes, SpeakersOfTheirMeeting, StatusMatchesPerson,
         LabelsNumbered, EditsKnowTheirPage, EditsLandWhereAimed

-----------------------------------------------------------------------------
(* Steps that leave rows and speakers alone.                               *)

LEMMA SameTables ==
  ASSUME TablesInv, UNCHANGED <<rows, speakers, nextRow, nextSpeaker, run>>, Known \subseteq Known',
         DOMAIN status' = Meeting, DOMAIN match' = Meeting, DOMAIN edit' = Edit,
         matching' \in [Meeting -> SUBSET (Label \X {0})], MatchesTyped', EditsKnowTheirPage'
  PROVE  TablesInv'
<1>1. \A m \in Meeting : RowsOf(m)' = RowsOf(m) /\ SpeakersOf(m)' = SpeakersOf(m)
  BY DEF RowsOf, SpeakersOf
<1>2. TextTyped' /\ TextTypes' /\ LabelsNumbered' /\ EditsLandWhereAimed'
  BY DEF TablesInv, TextTyped, SpeakersAgree, TextTypes, LabelsNumbered, EditsLandWhereAimed
<1>3. SpeakersOfTheirMeeting'
  BY DEF TablesInv, SpeakersAgree, SpeakersOfTheirMeeting, SpeakersOf
<1>4. StatusMatchesPerson'
  BY DEF TablesInv, SpeakersAgree, StatusMatchesPerson
<1>5. QED BY <1>2, <1>3, <1>4 DEF TablesInv, SpeakersAgree

LEMMA SamePages ==
  ASSUME EditsKnowTheirPage, UNCHANGED <<rows, nextRow, edit, run>>
  PROVE  EditsKnowTheirPage'
BY DEF EditsKnowTheirPage, NamedRows, RowsOf, Late

LEMMA QueueKept ==
  ASSUME TablesInv, NEW m \in Meeting, Enqueue(m) \/ Finish(m), UNCHANGED voiceVars
  PROVE  TablesInv'
<1>1. /\ UNCHANGED <<rows, speakers, nextRow, nextSpeaker, matching, match, edit, run>>
      /\ DOMAIN status' = DOMAIN status
  BY DEF Enqueue, Finish
<1>2. Known' = Known
  BY DEF Known, voiceVars
<1>3. MatchesTyped'
  BY <1>1 DEF TablesInv, MatchesTyped
<1>4. EditsKnowTheirPage'
  BY <1>1, SamePages DEF TablesInv
<1>5. QED BY <1>1, <1>2, <1>3, <1>4, SameTables DEF TablesInv, TextTyped

LEMMA DecideKept ==
  ASSUME TablesInv, VoiceInv, NEW m \in Meeting, NEW l \in matching[m], Decide(m, l), UNCHANGED voiceVars
  PROVE  TablesInv'
<1>1. UNCHANGED <<rows, speakers, nextRow, nextSpeaker, status, edit, run>>
  BY DEF Decide
<1>2. Known' = Known
  BY DEF Known, voiceVars
<1>3. PICK dec \in Decisions :
        match' = [match EXCEPT ![m] = IF dec = NoMatch THEN NoMatch ELSE [dec EXCEPT !.label = {l}]]
  BY DEF Decide
<1>4. dec = NoMatch \/ (/\ dec.person \in Person /\ dec.status \in {"suggested", "auto_matched"}
                        /\ [dec EXCEPT !.label = {l}].person = dec.person
                        /\ [dec EXCEPT !.label = {l}].status = dec.status)
  <2>1. \A s \in samples : s.person \in Person
    BY DEF VoiceInv, SamplesSound, VoiceTypes, Sample
  <2>2. QED BY <1>3, <2>1 DEF Decisions
<1>5. MatchesTyped' /\ DOMAIN match' = Meeting
  BY <1>3, <1>4 DEF TablesInv, TextTyped, MatchesTyped
<1>6. matching' \in [Meeting -> SUBSET (Label \X {0})]
  <2>1. matching' = [matching EXCEPT ![m] = matching[m] \ {l}]
    BY DEF Decide
  <2>2. matching \in [Meeting -> SUBSET (Label \X {0})]
    BY DEF TablesInv, TextTyped
  <2> DEFINE X == SUBSET (Label \X {0})
  <2>3. matching[m] \ {l} \in X
    BY <2>2
  <2> HIDE DEF X
  <2>4. QED BY <2>1, <2>2, <2>3 DEF X
<1>7. EditsKnowTheirPage'
  BY <1>1, SamePages DEF TablesInv
<1>8. QED BY <1>1, <1>2, <1>5, <1>6, <1>7, SameTables DEF TablesInv, TextTyped

LEMMA AskKept ==
  ASSUME TablesInv, NEW e \in Edit, NEW m \in Meeting, NEW q \in Requests(m), Ask(e, m, q),
         UNCHANGED voiceVars
  PROVE  TablesInv'
<1>1. UNCHANGED <<rows, speakers, nextRow, nextSpeaker, status, matching, match, run>>
  BY DEF Ask
<1>2. Known' = Known
  BY DEF Known, voiceVars
<1>3. edit' = [edit EXCEPT ![e] = [op |-> q.op, meeting |-> m, seen |-> run[m], names |-> q]]
  BY DEF Ask
<1>4. DOMAIN edit = Edit /\ run \in [Meeting -> Nat]
  BY DEF TablesInv, TextTyped
<1>5. \A r \in rows : r.id \in Nat /\ r.id < nextRow
  BY DEF TablesInv, TextTyped, Row, SpeakersAgree, TextTypes
<1>6. \A i \in NamedRows(e)' : \E r \in rows : i = r.id
  <2>1. edit'[e].op = q.op /\ edit'[e].names = q
    BY <1>3, <1>4
  <2>2. q.op = "text" => \E r \in rows : q.row = r.id
    BY DEF Requests
  <2>3. q.op \in {"assign", "split"} => \A i \in q.ids : \E r \in rows : i = r.id
    BY DEF Requests, Ids, RowsOf
  <2>4. QED BY <2>1, <2>2, <2>3 DEF NamedRows
<1>7. edit'[e].meeting = m /\ edit'[e].seen = run[m] /\ ~ Late(e)'
  BY <1>1, <1>3, <1>4 DEF Late
<1>8. ASSUME NEW f \in Edit, f # e
      PROVE  edit'[f] = edit[f] /\ NamedRows(f)' = NamedRows(f) /\ Late(f)' = Late(f)
  BY <1>1, <1>3, <1>4, <1>8 DEF NamedRows, Late
<1>9. EditsKnowTheirPage'
  <2>1. SUFFICES ASSUME NEW f \in Edit, edit'[f] # NoEdit
                 PROVE  /\ edit'[f].meeting \in Meeting /\ edit'[f].seen \in Nat
                        /\ edit'[f].seen <= run'[edit'[f].meeting]
                        /\ \A i \in NamedRows(f)' : i \in Nat /\ i < nextRow'
                        /\ Late(f)' => \A r \in RowsOf(edit[f].meeting)' : r.id \notin NamedRows(f)'
    BY DEF EditsKnowTheirPage
  <2>2. CASE f = e
    BY <2>2, <1>1, <1>4, <1>5, <1>6, <1>7
  <2>3. CASE f # e
    BY <2>1, <2>3, <1>1, <1>8 DEF TablesInv, EditsKnowTheirPage, RowsOf
  <2>4. QED BY <2>2, <2>3
<1>10. MatchesTyped'
  BY <1>1 DEF TablesInv, MatchesTyped
<1>11. DOMAIN edit' = Edit
  BY <1>3, <1>4
<1>12. QED BY <1>1, <1>2, <1>9, <1>10, <1>11, SameTables DEF TablesInv, TextTyped

-----------------------------------------------------------------------------
(* Steps about people.                                                     *)

LEMMA PeopleKept ==
  ASSUME TablesInv, VoiceInv, VoiceStep, UNCHANGED textVars
  PROVE  TablesInv'
<1>1. UNCHANGED <<rows, speakers, nextRow, nextSpeaker, status, matching, match, edit, run>>
  BY DEF textVars
<1>2. Known \subseteq Known'
  <2>1. people \in [Person -> {"unborn", "known", "deleted"}]
    BY DEF VoiceInv, SamplesSound, VoiceTypes
  <2>2. ASSUME NEW p \in Person, CreatePerson(p) PROVE Known \subseteq Known'
    BY <2>1, <2>2 DEF CreatePerson, Known
  <2>3. CASE UNCHANGED people
    BY <2>3 DEF Known
  <2>4. QED
    BY <2>2, <2>3 DEF VoiceStep, ReadPaths, Receive, Assess, Refuse, Disconnect, Enroll, Unlink,
                      UnlinkFails, DeleteSample
<1>3. MatchesTyped' /\ EditsKnowTheirPage'
  BY <1>1, SamePages DEF TablesInv, MatchesTyped
<1>4. QED BY <1>1, <1>2, <1>3, SameTables DEF TablesInv, TextTyped

LEMMA RestartKept ==
  ASSUME TablesInv, Restart
  PROVE  TablesInv'
<1>1. UNCHANGED <<rows, speakers, nextRow, nextSpeaker, run>>
  BY DEF Restart
<1>2. Known' = Known
  BY DEF Restart, StopServer, Known
<1>3. /\ DOMAIN status' = Meeting /\ DOMAIN match' = Meeting /\ DOMAIN edit' = Edit
      /\ matching' \in [Meeting -> SUBSET (Label \X {0})]
      /\ MatchesTyped' /\ EditsKnowTheirPage'
  BY DEF Restart, MatchesTyped, EditsKnowTheirPage
<1>4. QED BY <1>1, <1>2, <1>3, SameTables

\* Rows keep their speakers when the speakers change in person only.
LEMMA NamesOnly ==
  ASSUME TablesInv, NEW f \in [speakers -> SpeakerRow], speakers' = {f[s] : s \in speakers},
         \A s \in speakers : f[s].id = s.id /\ f[s].meeting = s.meeting /\ f[s].label = s.label,
         UNCHANGED <<rows, nextRow, nextSpeaker>>
  PROVE  TextTypes' /\ SpeakersOfTheirMeeting' /\ LabelsNumbered' /\ speakers' \subseteq SpeakerRow
<1>1. ASSUME NEW s \in speakers'
      PROVE  \E o \in speakers : s = f[o] /\ s.id = o.id /\ s.meeting = o.meeting /\ s.label = o.label
                                 /\ s \in SpeakerRow
  OBVIOUS
<1>2. TextTypes'
  <2>1. /\ \A r \in rows : r.id < nextRow /\ r.slot \in Slots[r.meeting]
        /\ \A s \in speakers : s.id < nextSpeaker
        /\ \A r, q \in rows : r.id = q.id => r = q
        /\ \A s, t \in speakers : s.id = t.id \/ (s.meeting = t.meeting /\ s.label = t.label) => s = t
    BY DEF TablesInv, SpeakersAgree, TextTypes
  <2>2. \A s \in speakers' : s.id < nextSpeaker /\ s.person \in Person \cup {NoOne}
    BY <1>1, <2>1 DEF SpeakerRow
  <2>3. ASSUME NEW s \in speakers', NEW t \in speakers',
               s.id = t.id \/ (s.meeting = t.meeting /\ s.label = t.label)
        PROVE  s = t
    <3>1. PICK o \in speakers : s = f[o] /\ s.id = o.id /\ s.meeting = o.meeting /\ s.label = o.label
      BY <1>1
    <3>2. PICK u \in speakers : t = f[u] /\ t.id = u.id /\ t.meeting = u.meeting /\ t.label = u.label
      BY <1>1
    <3>3. QED BY <2>1, <2>3, <3>1, <3>2
  <2>4. QED BY <2>1, <2>2, <2>3 DEF TextTypes
<1>3. LabelsNumbered'
  BY <1>1 DEF TablesInv, LabelsNumbered
<1>4. SpeakersOfTheirMeeting'
  <2>1. SUFFICES ASSUME NEW r \in rows, r.speaker # 0
                 PROVE  \E s \in SpeakersOf(r.meeting)' : s.id = r.speaker
    BY DEF SpeakersOfTheirMeeting
  <2>2. PICK s \in speakers : s.meeting = r.meeting /\ s.id = r.speaker
    BY <2>1 DEF TablesInv, SpeakersAgree, SpeakersOfTheirMeeting, SpeakersOf
  <2>3. f[s] \in speakers' /\ f[s].meeting = r.meeting /\ f[s].id = r.speaker
    BY <2>2
  <2>4. QED BY <2>3 DEF SpeakersOf
<1>5. QED BY <1>1, <1>2, <1>3, <1>4

LEMMA DeletePersonKept ==
  ASSUME TablesInv, VoiceInv, NEW p \in Person, DeleteNamedPerson(p)
  PROVE  TablesInv'
<1> DEFINE f == [s \in speakers |-> IF s.person = p THEN Forgotten(s) ELSE s]
<1>1. UNCHANGED <<rows, nextRow, nextSpeaker, status, matching, match, edit, run>>
  BY DEF DeleteNamedPerson
<1>2. speakers' = {f[s] : s \in speakers}
  BY DEF DeleteNamedPerson
<1>3. speakers \subseteq SpeakerRow
  BY DEF TablesInv, TextTyped
<1>4. f \in [speakers -> SpeakerRow]
      /\ \A s \in speakers : f[s].id = s.id /\ f[s].meeting = s.meeting /\ f[s].label = s.label
  <2>1. ASSUME NEW s \in speakers
        PROVE  /\ Forgotten(s) \in SpeakerRow
               /\ Forgotten(s).id = s.id /\ Forgotten(s).meeting = s.meeting
               /\ Forgotten(s).label = s.label
    BY <1>3 DEF SpeakerRow, Forgotten, Named
  <2>2. QED BY <1>3, <2>1
<1>5. TextTypes' /\ SpeakersOfTheirMeeting' /\ LabelsNumbered' /\ speakers' \subseteq SpeakerRow
  <2> HIDE DEF f
  <2>1. QED BY <1>1, <1>2, <1>4, NamesOnly
<1>6. Known' = Known \ {p}
  BY DEF DeleteNamedPerson, DeletePerson, Known, VoiceInv, SamplesSound, VoiceTypes
<1>7. StatusMatchesPerson'
  <2>1. SUFFICES ASSUME NEW o \in speakers
                 PROVE  /\ (f[o].person = NoOne) = (f[o].status = "anonymous")
                        /\ f[o].manual = (f[o].status = "confirmed")
                        /\ f[o].person # NoOne => f[o].person \in Known \ {p}
    BY <1>2, <1>6 DEF StatusMatchesPerson
  <2>2. /\ (o.person = NoOne) = (o.status = "anonymous")
        /\ o.manual = (o.status = "confirmed")
        /\ o.person # NoOne => o.person \in Known
    BY DEF TablesInv, SpeakersAgree, StatusMatchesPerson
  <2>3. CASE o.person = p
    <3>1. f[o].person = NoOne /\ f[o].status = "anonymous" /\ f[o].manual = FALSE
      BY <2>3, <1>3 DEF SpeakerRow, Forgotten, Named
    <3>2. QED BY <3>1
  <2>4. CASE o.person # p
    BY <2>2, <2>4
  <2>5. QED BY <2>3, <2>4
<1>8. TextTyped' /\ MatchesTyped' /\ EditsKnowTheirPage' /\ EditsLandWhereAimed'
  BY <1>1, <1>5, SamePages DEF TablesInv, TextTyped, MatchesTyped, EditsLandWhereAimed
<1>9. QED BY <1>5, <1>7, <1>8 DEF TablesInv, SpeakersAgree

-----------------------------------------------------------------------------
(* Edits.                                                                  *)

RowsSound ==
  /\ rows \subseteq Row
  /\ \A r \in rows : r.id < nextRow /\ r.slot \in Slots[r.meeting]
  /\ \A r, q \in rows : r.id = q.id => r = q

SpeakersSound ==
  /\ speakers \subseteq SpeakerRow
  /\ \A s \in speakers : s.id < nextSpeaker
  /\ \A s, t \in speakers :
       s.id = t.id \/ (s.meeting = t.meeting /\ s.label = t.label) => s = t

LEMMA TablesSound == TablesInv => RowsSound /\ SpeakersSound
BY DEF TablesInv, TextTyped, SpeakersAgree, TextTypes, RowsSound, SpeakersSound

LEMMA TablesFromParts ==
  ASSUME RowsSound', SpeakersSound', SpeakersOfTheirMeeting', StatusMatchesPerson', LabelsNumbered',
         MatchesTyped', EditsKnowTheirPage', EditsLandWhereAimed',
         nextRow' \in Nat, nextSpeaker' \in Nat \ {0}, run' \in [Meeting -> Nat],
         DOMAIN status' = Meeting, DOMAIN match' = Meeting, DOMAIN edit' = Edit,
         matching' \in [Meeting -> SUBSET (Label \X {0})]
  PROVE  TablesInv'
<1>1. \A s \in speakers' : s.person \in Person \cup {NoOne}
  BY DEF SpeakersSound, SpeakerRow
<1>2. TextTyped' /\ TextTypes'
  BY <1>1 DEF TextTyped, TextTypes, RowsSound, SpeakersSound
<1>3. QED BY <1>2 DEF TablesInv, SpeakersAgree

\* Rows changed in their speaker and their mark stay sound.
LEMMA RowsChanged ==
  ASSUME TablesInv, NEW g \in [rows -> Row], rows' = {g[r] : r \in rows},
         \A r \in rows : /\ g[r].id = r.id /\ g[r].meeting = r.meeting /\ g[r].slot = r.slot
                         /\ g[r].aimed \in {r.aimed, run[r.meeting]}
                         /\ g[r].speaker # 0 => \E s \in speakers' : s.meeting = r.meeting /\ s.id = g[r].speaker,
         UNCHANGED <<nextRow, run>>
  PROVE  /\ RowsSound' /\ EditsLandWhereAimed' /\ SpeakersOfTheirMeeting'
         /\ \A r \in rows' : \E q \in rows : q.id = r.id /\ q.meeting = r.meeting
<1>1. RowsSound
  BY TablesSound
<1>2. ASSUME NEW r \in rows'
      PROVE  \E q \in rows : r = g[q] /\ r \in Row /\ q.id = r.id /\ q.meeting = r.meeting /\ q.slot = r.slot
  OBVIOUS
<1>3. RowsSound'
  <2>1. rows' \subseteq Row /\ \A r \in rows' : r.id < nextRow /\ r.slot \in Slots[r.meeting]
    BY <1>1, <1>2 DEF RowsSound
  <2>2. ASSUME NEW r \in rows', NEW q \in rows', r.id = q.id PROVE r = q
    <3>1. PICK u \in rows : r = g[u] /\ u.id = r.id
      BY <1>2
    <3>2. PICK v \in rows : q = g[v] /\ v.id = q.id
      BY <1>2
    <3>3. QED BY <1>1, <2>2, <3>1, <3>2 DEF RowsSound
  <2>3. QED BY <2>1, <2>2 DEF RowsSound
<1>4. EditsLandWhereAimed'
  <2>1. SUFFICES ASSUME NEW q \in rows PROVE g[q].aimed \in {0, run[g[q].meeting]}
    BY DEF EditsLandWhereAimed
  <2>2. q.aimed \in {0, run[q.meeting]}
    BY DEF TablesInv, EditsLandWhereAimed
  <2>3. QED BY <2>2
<1>5. SpeakersOfTheirMeeting'
  <2>1. SUFFICES ASSUME NEW q \in rows, g[q].speaker # 0
                 PROVE  \E s \in SpeakersOf(g[q].meeting)' : s.id = g[q].speaker
    BY DEF SpeakersOfTheirMeeting
  <2>2. PICK s \in speakers' : s.meeting = q.meeting /\ s.id = g[q].speaker
    BY <2>1
  <2>3. g[q].meeting = q.meeting
    OBVIOUS
  <2>4. s \in SpeakersOf(g[q].meeting)'
    BY <2>2, <2>3 DEF SpeakersOf
  <2>5. QED BY <2>2, <2>4
<1>6. QED BY <1>2, <1>3, <1>4, <1>5

LEMMA PagesKept ==
  ASSUME TablesInv, NEW e \in Edit, edit' = [edit EXCEPT ![e] = NoEdit], UNCHANGED <<nextRow, run>>,
         \A r \in rows' : \E q \in rows : q.id = r.id /\ q.meeting = r.meeting
  PROVE  EditsKnowTheirPage' /\ DOMAIN edit' = Edit
<1>1. DOMAIN edit = Edit /\ DOMAIN edit' = Edit
  BY DEF TablesInv, TextTyped
<1>2. SUFFICES ASSUME NEW f \in Edit, edit'[f] # NoEdit
               PROVE  /\ edit'[f].meeting \in Meeting /\ edit'[f].seen \in Nat
                      /\ edit'[f].seen <= run'[edit'[f].meeting]
                      /\ \A i \in NamedRows(f)' : i \in Nat /\ i < nextRow'
                      /\ Late(f)' => \A r \in RowsOf(edit[f].meeting)' : r.id \notin NamedRows(f)'
  BY <1>1 DEF EditsKnowTheirPage
<1>3. edit'[f] = edit[f]
  BY <1>1, <1>2
<1>4. NamedRows(f)' = NamedRows(f) /\ Late(f)' = Late(f)
  BY <1>3 DEF NamedRows, Late
<1>5. /\ edit[f].meeting \in Meeting /\ edit[f].seen \in Nat /\ edit[f].seen <= run[edit[f].meeting]
      /\ \A i \in NamedRows(f) : i \in Nat /\ i < nextRow
      /\ Late(f) => \A r \in RowsOf(edit[f].meeting) : r.id \notin NamedRows(f)
  BY <1>2, <1>3 DEF TablesInv, EditsKnowTheirPage
<1>6. Late(f) => \A r \in RowsOf(edit[f].meeting)' : r.id \notin NamedRows(f)
  <2>1. SUFFICES ASSUME Late(f), NEW r \in rows', r.meeting = edit[f].meeting, r.id \in NamedRows(f)
                 PROVE  FALSE
    BY <1>3 DEF RowsOf
  <2>2. PICK q \in rows : q.id = r.id /\ q.meeting = r.meeting
    OBVIOUS
  <2>3. q \in RowsOf(edit[f].meeting)
    BY <2>1, <2>2 DEF RowsOf
  <2>4. QED BY <1>5, <2>1, <2>2, <2>3
<1>7. QED BY <1>3, <1>4, <1>5, <1>6

\* An edit of rows it named.
LEMMA AimIsCurrent ==
  ASSUME TablesInv, NEW e \in Edit, edit[e] # NoEdit, NEW r \in RowsOf(edit[e].meeting), r.id \in NamedRows(e)
  PROVE  edit[e].seen = run[r.meeting] /\ r \in rows /\ r.meeting = edit[e].meeting
BY DEF TablesInv, EditsKnowTheirPage, Late, RowsOf

LEMMA EditTextKept ==
  ASSUME TablesInv, NEW e \in Edit, EditText(e), UNCHANGED voiceVars
  PROVE  TablesInv'
<1> DEFINE hit == Addressed(e, edit[e].meeting, {edit[e].names.row})
           g == [r \in rows |-> IF r \in hit THEN [r EXCEPT !.aimed = edit[e].seen] ELSE r]
<1>1. /\ edit[e] # NoEdit /\ edit[e].op = "text"
      /\ rows' = (rows \ hit) \cup {[r EXCEPT !.aimed = edit[e].seen] : r \in hit}
      /\ edit' = [edit EXCEPT ![e] = NoEdit]
      /\ UNCHANGED <<speakers, nextSpeaker, nextRow, status, matching, match, run>>
  BY DEF EditText, Write, NoEdit
<1>2. hit \subseteq rows /\ rows \subseteq Row
  BY DEF Addressed, RowsOf, TablesInv, TextTyped
<1>3. ASSUME NEW r \in hit
      PROVE  edit[e].seen = run[r.meeting] /\ edit[e].seen \in Nat
  <2>1. r \in RowsOf(edit[e].meeting) /\ r.id \in NamedRows(e)
    BY <1>1 DEF Addressed, NamedRows
  <2>2. edit[e].seen \in Nat
    BY <1>1 DEF TablesInv, EditsKnowTheirPage
  <2>3. QED BY <2>1, <2>2, <1>1, AimIsCurrent
<1> HIDE DEF hit
<1>4. g \in [rows -> Row] /\ rows' = {g[r] : r \in rows}
  BY <1>1, <1>2, <1>3 DEF Row
<1>5. \A r \in rows : /\ g[r].id = r.id /\ g[r].meeting = r.meeting /\ g[r].slot = r.slot
                      /\ g[r].speaker = r.speaker
                      /\ g[r].aimed \in {r.aimed, run[r.meeting]}
  BY <1>2, <1>3 DEF Row
<1>6. \A r \in rows : r.speaker # 0 => \E s \in speakers' : s.meeting = r.meeting /\ s.id = r.speaker
  BY <1>1 DEF TablesInv, SpeakersAgree, SpeakersOfTheirMeeting, SpeakersOf
<1> HIDE DEF g
<1>7. /\ RowsSound' /\ EditsLandWhereAimed' /\ SpeakersOfTheirMeeting'
      /\ \A r \in rows' : \E q \in rows : q.id = r.id /\ q.meeting = r.meeting
  <2>1. \A r \in rows : g[r].speaker # 0 =>
          \E s \in speakers' : s.meeting = r.meeting /\ s.id = g[r].speaker
    BY <1>5, <1>6
  <2>2. QED BY <1>1, <1>4, <1>5, <2>1, RowsChanged
<1>8. EditsKnowTheirPage' /\ DOMAIN edit' = Edit
  BY <1>1, <1>7, PagesKept
<1>9. SpeakersSound' /\ StatusMatchesPerson' /\ LabelsNumbered' /\ MatchesTyped'
  BY <1>1, TablesSound
     DEF SpeakersSound, TablesInv, SpeakersAgree, StatusMatchesPerson, LabelsNumbered, MatchesTyped,
         Known, voiceVars
<1>10. QED BY <1>1, <1>7, <1>8, <1>9, TablesFromParts DEF TablesInv, TextTyped

\* The speakers, and what refers to them, when none of them changes.
LEMMA SameSpeakers ==
  ASSUME TablesInv, UNCHANGED <<speakers, nextSpeaker, match>>, UNCHANGED voiceVars
  PROVE  SpeakersSound' /\ StatusMatchesPerson' /\ LabelsNumbered' /\ MatchesTyped'
BY TablesSound
   DEF SpeakersSound, TablesInv, SpeakersAgree, StatusMatchesPerson, LabelsNumbered, MatchesTyped,
       Known, voiceVars

LEMMA AssignKept ==
  ASSUME TablesInv, NEW e \in Edit, Assign(e), UNCHANGED voiceVars
  PROVE  TablesInv'
<1> DEFINE m == edit[e].meeting
           i == edit[e].names.speaker
           hit == IF Assignable(m, i) THEN Addressed(e, m, edit[e].names.ids) ELSE {}
           g == [r \in rows |-> IF r \in hit THEN [r EXCEPT !.speaker = i, !.aimed = edit[e].seen] ELSE r]
<1>1. /\ edit[e] # NoEdit /\ edit[e].op = "assign"
      /\ rows' = (rows \ hit) \cup {[r EXCEPT !.speaker = i, !.aimed = edit[e].seen] : r \in hit}
      /\ edit' = [edit EXCEPT ![e] = NoEdit]
      /\ UNCHANGED <<speakers, nextSpeaker, nextRow, status, matching, match, run>>
  <2>1. edit[e].op = "assign"
    BY DEF Assign
  <2>2. edit[e] # NoEdit
    BY <2>1 DEF NoEdit
  <2>3. /\ Write(e, (rows \ hit) \cup {[r EXCEPT !.speaker = i, !.aimed = edit[e].seen] : r \in hit}, speakers)
        /\ UNCHANGED nextSpeaker
    BY DEF Assign
  <2> HIDE DEF hit, i
  <2>4. QED BY <2>1, <2>2, <2>3 DEF Write
<1>2. hit \subseteq rows /\ rows \subseteq Row
  BY DEF Addressed, RowsOf, TablesInv, TextTyped
<1>3. ASSUME NEW r \in hit
      PROVE  /\ edit[e].seen = run[r.meeting] /\ edit[e].seen \in Nat
             /\ i \in Nat /\ (i # 0 => \E s \in speakers : s.meeting = r.meeting /\ s.id = i)
  <2>1. r \in RowsOf(m) /\ r.id \in NamedRows(e) /\ Assignable(m, i)
    BY <1>1 DEF Addressed, NamedRows
  <2>2. edit[e].seen \in Nat
    BY <1>1 DEF TablesInv, EditsKnowTheirPage
  <2>3. edit[e].seen = run[r.meeting] /\ r.meeting = m
    BY <2>1, <1>1, AimIsCurrent
  <2>4. i # 0 => \E s \in speakers : s.meeting = m /\ s.id = i
    BY <2>1 DEF Assignable, SpeakerOf, SpeakersOf
  <2>5. \A s \in speakers : s.id \in Nat
    BY DEF TablesInv, TextTyped, SpeakerRow
  <2>6. QED BY <2>2, <2>3, <2>4, <2>5
<1> HIDE DEF hit, i
<1>4. g \in [rows -> Row] /\ rows' = {g[r] : r \in rows}
  BY <1>1, <1>2, <1>3 DEF Row
<1>5. \A r \in rows : /\ g[r].id = r.id /\ g[r].meeting = r.meeting /\ g[r].slot = r.slot
                      /\ g[r].aimed \in {r.aimed, run[r.meeting]}
  BY <1>2, <1>3 DEF Row
<1>6. \A r \in rows : g[r].speaker # 0 =>
        \E s \in speakers' : s.meeting = r.meeting /\ s.id = g[r].speaker
  <2>1. SUFFICES ASSUME NEW r \in rows, g[r].speaker # 0
                 PROVE  \E s \in speakers : s.meeting = r.meeting /\ s.id = g[r].speaker
    BY <1>1
  <2>2. CASE r \in hit
    <3>1. g[r].speaker = i
      BY <2>2, <1>2 DEF Row
    <3>2. QED BY <2>1, <2>2, <3>1, <1>3
  <2>3. CASE r \notin hit
    BY <2>1, <2>3 DEF TablesInv, SpeakersAgree, SpeakersOfTheirMeeting, SpeakersOf
  <2>4. QED BY <2>2, <2>3
<1> HIDE DEF g
<1>7. /\ RowsSound' /\ EditsLandWhereAimed' /\ SpeakersOfTheirMeeting'
      /\ \A r \in rows' : \E q \in rows : q.id = r.id /\ q.meeting = r.meeting
  BY <1>1, <1>4, <1>5, <1>6, RowsChanged
<1>8. EditsKnowTheirPage' /\ DOMAIN edit' = Edit
  BY <1>1, <1>7, PagesKept
<1>9. SpeakersSound' /\ StatusMatchesPerson' /\ LabelsNumbered' /\ MatchesTyped'
  BY <1>1, SameSpeakers
<1>10. QED BY <1>1, <1>7, <1>8, <1>9, TablesFromParts DEF TablesInv, TextTyped

\* A name, its status and its confirmation agree.
Agrees(s) ==
  /\ (s.person = NoOne) = (s.status = "anonymous")
  /\ s.manual = (s.status = "confirmed")
  /\ s.person # NoOne => s.person \in Known

\* Speakers that get a name, or lose it, and rows that stay.
LEMMA NamedKept ==
  ASSUME TablesInv, NEW f \in [speakers -> SpeakerRow], speakers' = {f[s] : s \in speakers},
         \A s \in speakers : f[s].id = s.id /\ f[s].meeting = s.meeting /\ f[s].label = s.label,
         \A s \in speakers : f[s] = s \/ Agrees(f[s]),
         UNCHANGED <<rows, nextRow, nextSpeaker, run>>, UNCHANGED voiceVars
  PROVE  /\ RowsSound' /\ SpeakersSound' /\ SpeakersOfTheirMeeting' /\ StatusMatchesPerson'
         /\ LabelsNumbered' /\ EditsLandWhereAimed'
<1>1. TextTypes' /\ SpeakersOfTheirMeeting' /\ LabelsNumbered' /\ speakers' \subseteq SpeakerRow
  BY NamesOnly
<1>2. Known' = Known
  BY DEF Known, voiceVars
<1>3. \A s \in speakers : Agrees(s)
  BY DEF TablesInv, SpeakersAgree, StatusMatchesPerson, Agrees
<1>4. \A s \in speakers' : Agrees(s)
  BY <1>3
<1>5. StatusMatchesPerson'
  BY <1>2, <1>4 DEF StatusMatchesPerson, Agrees
<1>6. RowsSound' /\ EditsLandWhereAimed'
  BY TablesSound DEF RowsSound, TablesInv, EditsLandWhereAimed
<1>7. SpeakersSound'
  BY <1>1 DEF SpeakersSound, TextTypes
<1>8. QED BY <1>1, <1>5, <1>6, <1>7

LEMMA ConfirmKept ==
  ASSUME TablesInv, NEW e \in Edit, Confirm(e), UNCHANGED voiceVars
  PROVE  TablesInv'
<1> DEFINE p == edit[e].names.person
           st == IF p = NoOne THEN "anonymous" ELSE "confirmed"
           hit == IF p \in Known \cup {NoOne} THEN SpeakerOf(edit[e].meeting, edit[e].names.speaker) ELSE {}
           f == [s \in speakers |-> IF s \in hit THEN Named(s, p, p # NoOne, st) ELSE s]
<1>1. /\ edit' = [edit EXCEPT ![e] = NoEdit]
      /\ speakers' = (speakers \ hit) \cup {Named(s, p, p # NoOne, st) : s \in hit}
      /\ UNCHANGED <<rows, nextSpeaker, nextRow, status, matching, match, run>>
  BY DEF Confirm, Write
<1>2. hit \subseteq speakers /\ speakers \subseteq SpeakerRow
  BY DEF SpeakerOf, SpeakersOf, TablesInv, TextTyped
<1>3. ASSUME NEW s \in hit
      PROVE  /\ Named(s, p, p # NoOne, st) \in SpeakerRow
             /\ Named(s, p, p # NoOne, st).id = s.id /\ Named(s, p, p # NoOne, st).meeting = s.meeting
             /\ Named(s, p, p # NoOne, st).label = s.label
             /\ Agrees(Named(s, p, p # NoOne, st))
  <2>1. p \in Known \cup {NoOne} /\ p \in Person \cup {NoOne} /\ s \in speakers
    BY <1>2 DEF Known
  <2>2. /\ Named(s, p, p # NoOne, st) \in SpeakerRow
        /\ Named(s, p, p # NoOne, st).id = s.id /\ Named(s, p, p # NoOne, st).meeting = s.meeting
        /\ Named(s, p, p # NoOne, st).label = s.label
        /\ Named(s, p, p # NoOne, st).person = p
        /\ Named(s, p, p # NoOne, st).status = st
    BY <2>1, <1>2 DEF Named, SpeakerRow
  <2>3. Named(s, p, p # NoOne, st).manual = (st = "confirmed")
    BY <2>1, <1>2 DEF Named, SpeakerRow
  <2>4. (p = NoOne) = (st = "anonymous") /\ (p # NoOne => p \in Known)
    BY <2>1
  <2> HIDE DEF p, st
  <2>5. QED BY <2>2, <2>3, <2>4 DEF Agrees
<1>4. /\ f \in [speakers -> SpeakerRow] /\ speakers' = {f[s] : s \in speakers}
      /\ \A s \in speakers : f[s].id = s.id /\ f[s].meeting = s.meeting /\ f[s].label = s.label
      /\ \A s \in speakers : f[s] = s \/ Agrees(f[s])
  <2> HIDE DEF hit, p, st
  <2>1. QED BY <1>1, <1>2, <1>3
<1>5. /\ RowsSound' /\ SpeakersSound' /\ SpeakersOfTheirMeeting' /\ StatusMatchesPerson'
      /\ LabelsNumbered' /\ EditsLandWhereAimed'
  <2> HIDE DEF f
  <2>1. QED BY <1>1, <1>4, NamedKept
<1>6. EditsKnowTheirPage' /\ DOMAIN edit' = Edit
  BY <1>1, PagesKept
<1>7. MatchesTyped'
  BY <1>1 DEF TablesInv, MatchesTyped
<1>8. QED BY <1>1, <1>5, <1>6, <1>7, TablesFromParts DEF TablesInv, TextTyped

LEMMA SuggestKept ==
  ASSUME TablesInv, NEW m \in Meeting, Suggest(m), UNCHANGED voiceVars
  PROVE  TablesInv'
<1>1. /\ match[m] # NoMatch /\ match' = [match EXCEPT ![m] = NoMatch]
      /\ UNCHANGED <<rows, nextRow, nextSpeaker, status, edit, run>>
  BY DEF Suggest
<1>2. EditsKnowTheirPage' /\ MatchesTyped' /\ DOMAIN match' = Meeting
  BY <1>1, SamePages DEF TablesInv, MatchesTyped, TextTyped
<1>3. CASE Suggestible(m) # {} /\ match[m].person \notin Known
  <2>1. matching' = [matching EXCEPT ![m] = {}] /\ UNCHANGED speakers
    BY <1>3 DEF Suggest
  <2>2. matching' \in [Meeting -> SUBSET (Label \X {0})]
    BY <2>1 DEF TablesInv, TextTyped
  <2>3. Known' = Known
    BY DEF Known, voiceVars
  <2>4. QED BY <1>1, <1>2, <2>1, <2>2, <2>3, SameTables DEF TablesInv, TextTyped
<1>4. CASE ~ (Suggestible(m) # {} /\ match[m].person \notin Known)
  <2> DEFINE hit == Suggestible(m)
             p == match[m].person
             st == match[m].status
  <2>1. /\ speakers' = (speakers \ hit) \cup {Named(s, p, FALSE, st) : s \in hit}
        /\ UNCHANGED matching
    BY <1>4 DEF Suggest
  <2>2. p \in Person /\ st \in {"suggested", "auto_matched"} /\ (hit # {} => p \in Known)
    BY <1>1, <1>4 DEF TablesInv, MatchesTyped
  <2>3. p # NoOne /\ hit \subseteq speakers /\ st # "anonymous" /\ st # "confirmed"
    BY <2>2, TranscriptAssumption DEF Suggestible, SpeakersOf
  <2> DEFINE f == [s \in speakers |-> IF s \in hit THEN Named(s, p, FALSE, st) ELSE s]
  <2> HIDE DEF hit, p, st
  <2>4. ASSUME NEW s \in hit
        PROVE  /\ Named(s, p, FALSE, st) \in SpeakerRow
               /\ Named(s, p, FALSE, st).id = s.id /\ Named(s, p, FALSE, st).meeting = s.meeting
               /\ Named(s, p, FALSE, st).label = s.label
               /\ Agrees(Named(s, p, FALSE, st))
    <3>1. s \in SpeakerRow
      BY <2>3 DEF TablesInv, TextTyped
    <3>2. QED BY <2>2, <2>3, <3>1 DEF Agrees, Named, SpeakerRow
  <2>5. /\ f \in [speakers -> SpeakerRow] /\ speakers' = {f[s] : s \in speakers}
        /\ \A s \in speakers : f[s].id = s.id /\ f[s].meeting = s.meeting /\ f[s].label = s.label
        /\ \A s \in speakers : f[s] = s \/ Agrees(f[s])
    <3>1. speakers \subseteq SpeakerRow
      BY DEF TablesInv, TextTyped
    <3>2. QED BY <2>1, <2>3, <2>4, <3>1
  <2>6. /\ RowsSound' /\ SpeakersSound' /\ SpeakersOfTheirMeeting' /\ StatusMatchesPerson'
        /\ LabelsNumbered' /\ EditsLandWhereAimed'
    <3> HIDE DEF f
    <3>1. QED BY <1>1, <2>5, NamedKept
  <2>7. QED BY <1>1, <1>2, <2>1, <2>6, TablesFromParts DEF TablesInv, TextTyped
<1>5. QED BY <1>3, <1>4

LEMMA MergeKept ==
  ASSUME TablesInv, NEW e \in Edit, Merge(e), UNCHANGED voiceVars
  PROVE  TablesInv'
<1> DEFINE m == edit[e].meeting
           target == edit[e].names.target
           gone == IF SpeakerOf(m, target) = {} \/ target \in edit[e].names.sources THEN {}
                   ELSE {s \in SpeakersOf(m) : s.id \in edit[e].names.sources}
           hit == {r \in RowsOf(m) : r.speaker \in {s.id : s \in gone}}
           g == [r \in rows |-> IF r \in hit THEN [r EXCEPT !.speaker = target] ELSE r]
<1>1. /\ rows' = (rows \ hit) \cup {[r EXCEPT !.speaker = target] : r \in hit}
      /\ speakers' = speakers \ gone
      /\ edit' = [edit EXCEPT ![e] = NoEdit]
      /\ UNCHANGED <<nextSpeaker, nextRow, status, matching, match, run>>
  <2>1. /\ Write(e, (rows \ hit) \cup {[r EXCEPT !.speaker = target] : r \in hit}, speakers \ gone)
        /\ UNCHANGED nextSpeaker
    BY DEF Merge
  <2> HIDE DEF hit, target, gone
  <2>2. QED BY <2>1 DEF Write
<1>2. /\ hit \subseteq rows /\ rows \subseteq Row /\ speakers \subseteq SpeakerRow /\ gone \subseteq speakers
      /\ \A r \in hit : r.meeting = m /\ \E s \in gone : s.id = r.speaker
      /\ \A s \in gone : s.meeting = m
  BY DEF RowsOf, SpeakersOf, TablesInv, TextTyped
<1>3. gone # {} => \E s \in speakers' : s.meeting = m /\ s.id = target
  <2>1. SUFFICES ASSUME gone # {} PROVE \E s \in speakers' : s.meeting = m /\ s.id = target
    OBVIOUS
  <2>2. SpeakerOf(m, target) # {} /\ target \notin edit[e].names.sources
    BY <2>1
  <2>3. PICK s \in speakers : s.meeting = m /\ s.id = target
    BY <2>2 DEF SpeakerOf, SpeakersOf
  <2>4. s \notin gone
    BY <2>2, <2>3
  <2>5. QED BY <1>1, <2>3, <2>4
<1> HIDE DEF hit, gone, target
<1>4. hit # {} => target \in Nat
  <2>1. \A s \in speakers : s.id \in Nat
    BY <1>2 DEF SpeakerRow
  <2>2. QED BY <1>1, <1>2, <1>3, <2>1
<1>5. g \in [rows -> Row] /\ rows' = {g[r] : r \in rows}
  BY <1>1, <1>2, <1>4 DEF Row
<1>6. \A r \in rows : /\ g[r].id = r.id /\ g[r].meeting = r.meeting /\ g[r].slot = r.slot
                      /\ g[r].aimed = r.aimed
  BY <1>2 DEF Row
<1>7. \A r \in rows : g[r].speaker # 0 =>
        \E s \in speakers' : s.meeting = r.meeting /\ s.id = g[r].speaker
  <2>1. SUFFICES ASSUME NEW r \in rows, g[r].speaker # 0
                 PROVE  \E s \in speakers' : s.meeting = r.meeting /\ s.id = g[r].speaker
    OBVIOUS
  <2>2. CASE r \in hit
    <3>1. g[r].speaker = target
      BY <2>2, <1>2 DEF Row
    <3>2. QED BY <2>2, <3>1, <1>2, <1>3
  <2>3. CASE r \notin hit
    <3>1. PICK s \in speakers : s.meeting = r.meeting /\ s.id = r.speaker
      BY <2>1, <2>3 DEF TablesInv, SpeakersAgree, SpeakersOfTheirMeeting, SpeakersOf
    <3>2. s \notin gone
      <4>1. SUFFICES ASSUME s \in gone PROVE FALSE
        OBVIOUS
      <4>2. r \in RowsOf(m) /\ r.speaker \in {o.id : o \in gone}
        BY <4>1, <3>1, <1>2 DEF RowsOf
      <4>3. QED BY <4>2, <2>3 DEF hit
    <3>3. QED BY <2>3, <3>1, <3>2, <1>1
  <2>4. QED BY <2>2, <2>3
<1> HIDE DEF g
<1>8. /\ RowsSound' /\ EditsLandWhereAimed' /\ SpeakersOfTheirMeeting'
      /\ \A r \in rows' : \E q \in rows : q.id = r.id /\ q.meeting = r.meeting
  BY <1>1, <1>5, <1>6, <1>7, RowsChanged
<1>9. EditsKnowTheirPage' /\ DOMAIN edit' = Edit
  BY <1>1, <1>8, PagesKept
<1>10. SpeakersSound' /\ StatusMatchesPerson' /\ LabelsNumbered' /\ MatchesTyped'
  BY <1>1, TablesSound
     DEF SpeakersSound, TablesInv, SpeakersAgree, StatusMatchesPerson, LabelsNumbered, MatchesTyped,
         Known, voiceVars
<1>11. QED BY <1>1, <1>8, <1>9, <1>10, TablesFromParts DEF TablesInv, TextTyped

\* The identifier of a speaker is its own.
LEMMA OneSpeaker ==
  ASSUME TablesInv, NEW m, NEW i
  PROVE  SpeakerOf(m, i) = {} \/ \E s \in speakers : SpeakerOf(m, i) = {s} /\ s.meeting = m /\ s.id = i
<1>1. \A s, t \in SpeakerOf(m, i) : s = t /\ s \in speakers /\ s.meeting = m /\ s.id = i
  BY DEF SpeakerOf, SpeakersOf, TablesInv, SpeakersAgree, TextTypes
<1>2. QED BY <1>1

LEMMA SplitKept ==
  ASSUME TablesInv, NEW e \in Edit, Split(e), UNCHANGED voiceVars
  PROVE  TablesInv'
<1> DEFINE m == edit[e].meeting
           source == SpeakerOf(m, edit[e].names.source)
           hit == {r \in Addressed(e, m, edit[e].names.ids) : {r.speaker} = {s.id : s \in source}}
           split == {Anonymous(nextSpeaker, m, <<s.label[1], nextSpeaker>>) : s \in source}
           g == [r \in rows |-> IF r \in hit THEN [r EXCEPT !.speaker = nextSpeaker, !.aimed = edit[e].seen]
                                ELSE r]
<1>1. /\ rows' = (rows \ hit) \cup {[r EXCEPT !.speaker = nextSpeaker, !.aimed = edit[e].seen] : r \in hit}
      /\ speakers' = speakers \cup split
      /\ nextSpeaker' = nextSpeaker + Cardinality(source)
      /\ edit' = [edit EXCEPT ![e] = NoEdit]
      /\ UNCHANGED <<nextRow, status, matching, match, run>>
  <2>1. /\ Write(e, (rows \ hit) \cup {[r EXCEPT !.speaker = nextSpeaker, !.aimed = edit[e].seen] : r \in hit},
                  speakers \cup split)
        /\ nextSpeaker' = nextSpeaker + Cardinality(source)
    BY DEF Split
  <2> HIDE DEF hit, source, split
  <2>2. QED BY <2>1 DEF Write
<1>2. edit[e].op = "split"
  BY DEF Split
<1>3. edit[e] # NoEdit
  BY <1>2 DEF NoEdit
<1>4. hit \subseteq rows /\ rows \subseteq Row /\ speakers \subseteq SpeakerRow
      /\ nextSpeaker \in Nat /\ nextSpeaker # 0
  BY DEF Addressed, RowsOf, TablesInv, TextTyped
<1>5. m \in Meeting /\ edit[e].seen \in Nat
  BY <1>3 DEF TablesInv, EditsKnowTheirPage
<1>6. ASSUME NEW r \in hit
      PROVE  edit[e].seen = run[r.meeting] /\ r.meeting = m /\ source # {}
  <2>1. r \in RowsOf(m) /\ r.id \in NamedRows(e) /\ source # {}
    BY <1>2 DEF Addressed, NamedRows
  <2>2. QED BY <2>1, <1>3, AimIsCurrent
<1>7. CASE source = {}
  <2>1. split = {} /\ hit = {}
    BY <1>6, <1>7
  <2>2. rows' = rows /\ speakers' = speakers
    BY <1>1, <2>1
  <2>3. nextSpeaker' = nextSpeaker
    <3>1. Cardinality(source) = Cardinality({})
      BY <1>7
    <3>2. Cardinality({}) = 0
      BY FS_EmptySet
    <3>3. nextSpeaker' = nextSpeaker + Cardinality(source)
      BY <1>1
    <3> HIDE DEF source
    <3>4. QED BY <1>4, <3>1, <3>2, <3>3
  <2>4. EditsKnowTheirPage' /\ DOMAIN edit' = Edit
    BY <1>1, <2>2, PagesKept
  <2>5. MatchesTyped' /\ Known' = Known
    BY <1>1 DEF TablesInv, MatchesTyped, Known, voiceVars
  <2>6. QED BY <1>1, <2>2, <2>3, <2>4, <2>5, SameTables DEF TablesInv, TextTyped
<1>8. CASE source # {}
  <2>1. PICK s \in speakers : source = {s} /\ s.meeting = m
    BY <1>8, OneSpeaker
  <2>2. nextSpeaker' = nextSpeaker + 1
    BY <1>1, <2>1, FS_Singleton
  <2> DEFINE n == Anonymous(nextSpeaker, m, <<s.label[1], nextSpeaker>>)
  <2>3. split = {n}
    BY <2>1
  <2>4. s \in SpeakerRow /\ s.label[1] \in Label
    BY <1>4 DEF SpeakerRow
  <2>5. /\ n \in SpeakerRow /\ n.id = nextSpeaker /\ n.meeting = m /\ n.person = NoOne /\ n.manual = FALSE
        /\ n.status = "anonymous" /\ n.label[2] = nextSpeaker
    BY <1>4, <1>5, <2>4 DEF SpeakerRow, Anonymous
  <2> HIDE DEF hit, split, n, source
  <2>6. speakers' = speakers \cup {n}
    BY <1>1, <2>3
  <2>7. g \in [rows -> Row] /\ rows' = {g[r] : r \in rows}
    BY <1>1, <1>4, <1>5 DEF Row
  <2>8. \A r \in rows : /\ g[r].id = r.id /\ g[r].meeting = r.meeting /\ g[r].slot = r.slot
                        /\ g[r].aimed \in {r.aimed, run[r.meeting]}
    BY <1>4, <1>6 DEF Row
  <2>9. \A r \in rows : g[r].speaker # 0 =>
          \E o \in speakers' : o.meeting = r.meeting /\ o.id = g[r].speaker
    <3>1. SUFFICES ASSUME NEW r \in rows, g[r].speaker # 0
                   PROVE  \E o \in speakers' : o.meeting = r.meeting /\ o.id = g[r].speaker
      OBVIOUS
    <3>2. CASE r \in hit
      <4>1. g[r].speaker = nextSpeaker
        BY <3>2, <1>4 DEF Row
      <4>2. QED BY <3>2, <4>1, <1>6, <2>5, <2>6
    <3>3. CASE r \notin hit
      BY <3>1, <3>3, <2>6 DEF TablesInv, SpeakersAgree, SpeakersOfTheirMeeting, SpeakersOf
    <3>4. QED BY <3>2, <3>3
  <2> HIDE DEF g
  <2>10. /\ RowsSound' /\ EditsLandWhereAimed' /\ SpeakersOfTheirMeeting'
         /\ \A r \in rows' : \E q \in rows : q.id = r.id /\ q.meeting = r.meeting
    BY <1>1, <2>7, <2>8, <2>9, RowsChanged
  <2>11. EditsKnowTheirPage' /\ DOMAIN edit' = Edit
    BY <1>1, <2>10, PagesKept
  <2>12. \A t \in speakers : t.id \in Nat /\ t.id < nextSpeaker /\ t.label[2] \in {0, t.id}
    BY <1>4 DEF TablesInv, SpeakersAgree, TextTypes, LabelsNumbered, SpeakerRow
  <2>13. \A t \in speakers : t.id # n.id /\ t.label # n.label
    BY <1>4, <2>5, <2>12
  <2>14. SpeakersSound'
    <3>1. SpeakersSound
      BY TablesSound
    <3>2. speakers' \subseteq SpeakerRow
      BY <1>4, <2>5, <2>6
    <3>3. \A t \in speakers' : t.id < nextSpeaker'
      BY <1>4, <2>2, <2>5, <2>6, <2>12
    <3>4. QED BY <2>6, <2>13, <3>1, <3>2, <3>3 DEF SpeakersSound
  <2>15. StatusMatchesPerson' /\ LabelsNumbered' /\ MatchesTyped'
    BY <1>1, <2>5, <2>6
       DEF TablesInv, SpeakersAgree, StatusMatchesPerson, LabelsNumbered, MatchesTyped, Known, voiceVars
  <2>16. nextSpeaker' \in Nat \ {0}
    BY <1>4, <2>2
  <2>17. QED BY <1>1, <2>10, <2>11, <2>14, <2>15, <2>16, TablesFromParts DEF TablesInv, TextTyped
<1>9. QED BY <1>7, <1>8

-----------------------------------------------------------------------------
(* The job.                                                                *)

LEMMA DeleteMeetingKept ==
  ASSUME TablesInv, NEW m \in Meeting, DeleteMeeting(m), UNCHANGED voiceVars
  PROVE  TablesInv'
<1>1. /\ rows' = rows \ RowsOf(m) /\ speakers' = speakers \ SpeakersOf(m)
      /\ UNCHANGED <<nextRow, nextSpeaker, matching, match, edit, run>>
      /\ DOMAIN status' = DOMAIN status
  BY DEF DeleteMeeting
<1>2. RowsSound' /\ SpeakersSound'
  BY <1>1, TablesSound DEF RowsSound, SpeakersSound
<1>3. EditsLandWhereAimed' /\ LabelsNumbered' /\ MatchesTyped'
  BY <1>1 DEF TablesInv, EditsLandWhereAimed, LabelsNumbered, MatchesTyped
<1>4. SpeakersOfTheirMeeting'
  <2>1. SUFFICES ASSUME NEW r \in rows, r.meeting # m, r.speaker # 0
                 PROVE  \E s \in SpeakersOf(r.meeting)' : s.id = r.speaker
    BY <1>1 DEF SpeakersOfTheirMeeting, RowsOf
  <2>2. PICK s \in speakers : s.meeting = r.meeting /\ s.id = r.speaker
    BY <2>1 DEF TablesInv, SpeakersAgree, SpeakersOfTheirMeeting, SpeakersOf
  <2>3. s \in SpeakersOf(r.meeting)'
    BY <1>1, <2>1, <2>2 DEF SpeakersOf
  <2>4. QED BY <2>2, <2>3
<1>5. StatusMatchesPerson'
  BY <1>1 DEF TablesInv, SpeakersAgree, StatusMatchesPerson, Known, voiceVars
<1>6. EditsKnowTheirPage'
  BY <1>1 DEF TablesInv, EditsKnowTheirPage, NamedRows, RowsOf, Late
<1>7. QED BY <1>1, <1>2, <1>3, <1>4, <1>5, <1>6, TablesFromParts DEF TablesInv, TextTyped

\* What a label inherits is a person its meeting had confirmed.
LEMMA HeirsKnown ==
  ASSUME TablesInv, NEW m, NEW d, NEW l
  PROVE  Inherits(m, d, l) \subseteq Known
<1>1. SUFFICES ASSUME NEW p \in Inherits(m, d, l) PROVE p \in Known
  OBVIOUS
<1>2. ConfirmedSlots(m, p) # {}
  BY DEF Inherits, Covers
<1>3. PICK s \in SpeakersOf(m) : s.manual /\ s.person = p
  BY <1>2 DEF ConfirmedSlots
<1>4. s.manual = (s.status = "confirmed") /\ (s.person = NoOne) = (s.status = "anonymous")
      /\ (s.person # NoOne => s.person \in Known)
  BY DEF SpeakersOf, TablesInv, SpeakersAgree, StatusMatchesPerson
<1>5. QED BY <1>3, <1>4

\* The rows of a new transcript.
LEMMA TranscribedRows ==
  ASSUME TablesInv, NEW m \in Meeting, NEW d \in Diarizations[m]
  PROVE  LET S == WithLabels(SpeakersOf(m), m, Used(d), nextSpeaker)
             new == Transcribed(m, d, S, nextRow)
         IN /\ new \subseteq Row
            /\ \A r \in new : /\ r.id >= nextRow /\ r.id < nextRow + Cardinality(Slots[m])
                             /\ r.meeting = m /\ r.slot \in Slots[m] /\ r.aimed = 0
                             /\ r.speaker = SpeakerFor(S, Base(d[r.slot]))
            /\ \A r, q \in new : r.id = q.id => r = q
<1> DEFINE S == WithLabels(SpeakersOf(m), m, Used(d), nextSpeaker)
           new == Transcribed(m, d, S, nextRow)
<1>1. /\ Used(d) \subseteq Label \X {0} /\ Base(NoLabel) \notin Used(d)
      /\ \A t \in Slots[m] : d[t] # NoLabel => Base(d[t]) \in Used(d)
  BY UsedLabels
<1>2. \A l \in Used(d) : \E s \in S : s.label = l
  <2>1. IsFiniteSet(Used(d)) /\ nextSpeaker \in Nat
    BY UsedLabels DEF TablesInv, TextTyped
  <2>2. QED BY <2>1, LabelsGetSpeakers
<1>3. \A s \in S : s.id \in Nat
  <2>1. IsFiniteSet(Used(d)) /\ nextSpeaker \in Nat
    BY UsedLabels DEF TablesInv, TextTyped
  <2>2. ASSUME NEW s \in S \ SpeakersOf(m) PROVE s.id \in Nat
    <3>1. \E i \in Nat : \E l \in Missing(SpeakersOf(m), Used(d)) : s = Anonymous(i, m, l)
      BY <2>1, LabelsGetSpeakers
    <3>2. QED BY <3>1 DEF Anonymous
  <2>3. \A s \in SpeakersOf(m) : s.id \in Nat
    BY DEF SpeakersOf, TablesInv, TextTyped, SpeakerRow
  <2>4. QED BY <2>2, <2>3
<1> HIDE DEF S
<1>4. ASSUME NEW t \in Slots[m] PROVE SpeakerFor(S, Base(d[t])) \in Nat
  <2>1. CASE d[t] = NoLabel
    BY <2>1 DEF SpeakerFor
  <2>2. CASE d[t] # NoLabel
    <3>1. PICK s \in S : s.label = Base(d[t])
      BY <2>2, <1>1, <1>2
    <3>2. Base(d[t]) # Base(NoLabel)
      BY <2>2, <1>1
    <3>3. QED BY <3>1, <3>2, <1>3 DEF SpeakerFor
  <2>3. QED BY <2>1, <2>2
<1>5. nextRow \in Nat /\ Slots[m] \subseteq Int
  BY TranscriptAssumption DEF TablesInv, TextTyped
<1> DEFINE sp(t) == SpeakerFor(S, Base(d[t]))
<1>6. new = {[id |-> nextRow + Place(m, t), meeting |-> m, slot |-> t, speaker |-> sp(t), aimed |-> 0] : t \in Slots[m]}
  BY DEF Transcribed, Place
<1> HIDE DEF sp, new
<1>7. ASSUME NEW r \in new
      PROVE  \E t \in Slots[m] : /\ r.id = nextRow + Place(m, t) /\ r.meeting = m /\ r.slot = t
                                /\ r.speaker = sp(t) /\ r.aimed = 0
                                /\ r = [id |-> nextRow + Place(m, t), meeting |-> m, slot |-> t,
                                        speaker |-> sp(t), aimed |-> 0]
  BY <1>6
<1>8. ASSUME NEW r \in new
      PROVE  /\ r \in Row /\ r.id >= nextRow /\ r.id < nextRow + Cardinality(Slots[m])
             /\ r.meeting = m /\ r.slot \in Slots[m] /\ r.aimed = 0
             /\ r.speaker = SpeakerFor(S, Base(d[r.slot]))
  <2>1. PICK t \in Slots[m] : /\ r.id = nextRow + Place(m, t) /\ r.meeting = m /\ r.slot = t
                             /\ r.speaker = sp(t) /\ r.aimed = 0
                             /\ r = [id |-> nextRow + Place(m, t), meeting |-> m, slot |-> t,
                                     speaker |-> sp(t), aimed |-> 0]
    BY <1>7
  <2>2. /\ Place(m, t) \in Nat /\ Cardinality(Slots[m]) \in Nat /\ Place(m, t) < Cardinality(Slots[m])
    BY PlacesDiffer
  <2>3. /\ nextRow + Place(m, t) \in Nat /\ nextRow + Place(m, t) >= nextRow
        /\ nextRow + Place(m, t) < nextRow + Cardinality(Slots[m])
    BY <1>5, <2>2
  <2>4. sp(t) \in Nat /\ t \in Int
    BY <1>4, <1>5 DEF sp
  <2>5. r \in Row
    BY <2>1, <2>3, <2>4 DEF Row
  <2>6. QED BY <2>1, <2>3, <2>5 DEF sp
<1>9. ASSUME NEW r \in new, NEW q \in new, r.id = q.id PROVE r = q
  <2>1. PICK t \in Slots[m] : r.id = nextRow + Place(m, t)
                             /\ r = [id |-> nextRow + Place(m, t), meeting |-> m, slot |-> t,
                                     speaker |-> sp(t), aimed |-> 0]
    BY <1>7
  <2>2. PICK u \in Slots[m] : q.id = nextRow + Place(m, u)
                             /\ q = [id |-> nextRow + Place(m, u), meeting |-> m, slot |-> u,
                                     speaker |-> sp(u), aimed |-> 0]
    BY <1>7
  <2>3. Place(m, t) \in Nat /\ Place(m, u) \in Nat
    BY PlacesDiffer
  <2>4. Place(m, t) = Place(m, u)
    <3>1. nextRow + Place(m, t) = nextRow + Place(m, u)
      BY <1>9, <2>1, <2>2
    <3>2. QED BY <3>1, <2>3, <1>5
  <2>5. t = u
    BY <2>4, PlacesDiffer
  <2>6. QED BY <2>1, <2>2, <2>5
<1>10. QED BY <1>8, <1>9 DEF S, new

\* The speakers of a new transcript, before and after names are carried over.
LEMMA ReplacedSpeakers ==
  ASSUME TablesInv, NEW m \in Meeting, NEW d \in Diarizations[m]
  PROVE  LET S == WithLabels(SpeakersOf(m), m, Used(d), nextSpeaker)
             k == Cardinality(Missing(SpeakersOf(m), Used(d)))
         IN /\ k \in Nat
            /\ \A s \in S : s.id \in Nat \ {0} /\ s.id < nextSpeaker + k /\ s.meeting = m
            /\ \A s, t \in S : s.id = t.id \/ s.label = t.label => s = t
            /\ \A s \in S : s \in SpeakersOf(m) \/ s.id >= nextSpeaker
            /\ \A r \in Replaced(m, d) : \E s \in S :
                 r.id = s.id /\ r.meeting = m /\ r.label = s.label /\ s.label \in Used(d)
            /\ \A l \in Used(d) : \E s \in S : s.label = l /\ \E r \in Replaced(m, d) : r.id = s.id /\ r.label = l
            /\ \A r, q \in Replaced(m, d) : r.id = q.id \/ r.label = q.label => r = q
            /\ \A r \in Replaced(m, d) : r \in SpeakerRow /\ Agrees(r) /\ r.label[2] \in {0, r.id}
<1> DEFINE O == SpeakersOf(m)
           S == WithLabels(O, m, Used(d), nextSpeaker)
           M == Missing(O, Used(d))
           k == Cardinality(M)
           R == Replaced(m, d)
<1>1. IsFiniteSet(Used(d)) /\ Used(d) \subseteq Label \X {0}
  BY UsedLabels
<1>2. nextSpeaker \in Nat \ {0}
  BY DEF TablesInv, TextTyped
<1>3. /\ \A s \in O : s \in SpeakerRow /\ s.id < nextSpeaker /\ s.meeting = m
      /\ \A s, t \in O : s.id = t.id \/ s.label = t.label => s = t
  BY DEF SpeakersOf, TablesInv, TextTyped, SpeakersAgree, TextTypes
<1>4. /\ k \in Nat /\ O \subseteq S
      /\ \A s \in S \ O : \E i \in Nat : \E l \in M : i >= nextSpeaker /\ i < nextSpeaker + k /\ s = Anonymous(i, m, l)
      /\ \A s, t \in S \ O : s.id = t.id \/ s.label = t.label => s = t
      /\ \A l \in Used(d) : \E s \in S : s.label = l
  BY <1>1, <1>2, LabelsGetSpeakers
<1>5. \A l \in M : l \in Used(d) /\ \A s \in O : s.label # l
  BY DEF Missing
<1> HIDE DEF O, S, M, k
<1>6. ASSUME NEW s \in S \ O
      PROVE  /\ s.id \in Nat \ {0} /\ s.id >= nextSpeaker /\ s.id < nextSpeaker + k /\ s.meeting = m
             /\ s.label \in M
  <2>1. PICK i \in Nat : \E l \in M : i >= nextSpeaker /\ i < nextSpeaker + k /\ s = Anonymous(i, m, l)
    BY <1>4
  <2>2. PICK l \in M : i >= nextSpeaker /\ i < nextSpeaker + k /\ s = Anonymous(i, m, l)
    BY <2>1
  <2>3. s.id = i /\ s.meeting = m /\ s.label = l
    BY <2>2 DEF Anonymous
  <2>4. QED BY <1>2, <2>2, <2>3
<1>7. ASSUME NEW s \in S
      PROVE  s.id \in Nat \ {0} /\ s.id < nextSpeaker + k /\ s.meeting = m
  <2>1. CASE s \in O
    <3>1. s.id \in Nat \ {0} /\ s.id < nextSpeaker /\ s.meeting = m
      BY <1>3, <2>1 DEF SpeakerRow
    <3>2. QED BY <3>1, <1>2, <1>4
  <2>2. QED BY <1>6, <2>1
<1>8. ASSUME NEW s \in S, NEW t \in S, s.id = t.id \/ s.label = t.label
      PROVE  s = t
  <2>1. ASSUME NEW o \in O, NEW n \in S \ O PROVE o.id # n.id /\ o.label # n.label
    <3>1. o.id \in Nat /\ o.id < nextSpeaker
      BY <1>3 DEF SpeakerRow
    <3>2. n.id \in Nat /\ n.id >= nextSpeaker /\ n.label \in M
      BY <1>6
    <3>3. QED BY <3>1, <3>2, <1>2, <1>5
  <2>2. CASE s \in O /\ t \in O
    BY <1>3, <1>8, <2>2
  <2>3. CASE s \notin O /\ t \notin O
    BY <1>4, <1>8, <2>3
  <2>4. QED BY <1>8, <2>1, <2>2, <2>3
<1> DEFINE U == {s \in S : s.label \in Used(d)}
           h(s) == IF Inherits(m, d, s.label) = {} THEN Anonymous(s.id, m, s.label)
                   ELSE Named(s, CHOOSE p \in Inherits(m, d, s.label) : TRUE, TRUE, "confirmed")
<1>9. R = {h(s) : s \in U}
  BY DEF Replaced, S, O
<1>10. ASSUME NEW s \in U
       PROVE  /\ h(s) \in SpeakerRow /\ h(s).id = s.id /\ h(s).meeting = m /\ h(s).label = s.label
              /\ Agrees(h(s)) /\ s.label[2] \in {0, s.id}
  <2>1. s.label \in Label \X {0} /\ s.id \in Nat \ {0}
    BY <1>1, <1>7
  <2>2. s.label \in Label \X Nat /\ s.label[2] = 0
    BY <2>1
  <2>3. CASE Inherits(m, d, s.label) = {}
    <3>1. h(s) = Anonymous(s.id, m, s.label)
      BY <2>3
    <3>2. Anonymous(s.id, m, s.label) \in SpeakerRow
      BY <2>1, <2>2 DEF Anonymous, SpeakerRow
    <3>3. /\ Anonymous(s.id, m, s.label).id = s.id /\ Anonymous(s.id, m, s.label).meeting = m
          /\ Anonymous(s.id, m, s.label).label = s.label /\ Agrees(Anonymous(s.id, m, s.label))
      BY DEF Anonymous, Agrees
    <3> HIDE DEF h
    <3>4. QED BY <3>1, <3>2, <3>3, <2>2
  <2>4. CASE Inherits(m, d, s.label) # {}
    <3> DEFINE p == CHOOSE p \in Inherits(m, d, s.label) : TRUE
    <3>1. p \in Known /\ p \in Person
      BY <2>4, HeirsKnown DEF Known
    <3>2. p # NoOne
      BY <3>1, TranscriptAssumption
    <3>3. h(s) = Named(s, p, TRUE, "confirmed")
      BY <2>4
    <3> HIDE DEF p
    <3>4. s \in SpeakerRow
      <4>1. CASE s \in O
        BY <1>3, <4>1
      <4>2. CASE s \notin O
        <5>1. PICK i \in Nat : \E l \in M : i >= nextSpeaker /\ i < nextSpeaker + k /\ s = Anonymous(i, m, l)
          BY <1>4, <4>2
        <5>2. PICK l \in M : i >= nextSpeaker /\ s = Anonymous(i, m, l)
          BY <5>1
        <5>3. l = s.label /\ i = s.id
          BY <5>2 DEF Anonymous
        <5>4. QED BY <5>2, <5>3, <2>1, <2>2 DEF Anonymous, SpeakerRow
      <4>3. QED BY <4>1, <4>2
    <3>5. /\ Named(s, p, TRUE, "confirmed") \in SpeakerRow
          /\ Named(s, p, TRUE, "confirmed").id = s.id /\ Named(s, p, TRUE, "confirmed").meeting = s.meeting
          /\ Named(s, p, TRUE, "confirmed").label = s.label
          /\ Agrees(Named(s, p, TRUE, "confirmed"))
      BY <3>1, <3>2, <3>4 DEF Named, SpeakerRow, Agrees
    <3>6. s.meeting = m
      BY <1>7
    <3> HIDE DEF h
    <3>7. QED BY <3>3, <3>5, <3>6, <2>2
  <2>5. QED BY <2>3, <2>4
<1> HIDE DEF h
<1>11. ASSUME NEW r \in R
       PROVE  /\ \E s \in S : r = h(s) /\ s \in U /\ r.id = s.id /\ r.meeting = m /\ r.label = s.label
                              /\ s.label \in Used(d)
              /\ r \in SpeakerRow /\ Agrees(r) /\ r.label[2] \in {0, r.id}
  <2>1. PICK s \in U : r = h(s)
    BY <1>9
  <2>2. QED BY <2>1, <1>10
<1>12. ASSUME NEW r \in R, NEW q \in R, r.id = q.id \/ r.label = q.label PROVE r = q
  <2>1. PICK s \in S : r = h(s) /\ r.id = s.id /\ r.label = s.label
    BY <1>11
  <2>2. PICK t \in S : q = h(t) /\ q.id = t.id /\ q.label = t.label
    BY <1>11
  <2>3. s = t
    BY <1>8, <1>12, <2>1, <2>2
  <2>4. QED BY <2>1, <2>2, <2>3
<1>13. ASSUME NEW l \in Used(d)
       PROVE  \E s \in S : s.label = l /\ \E r \in R : r.id = s.id /\ r.label = l
  <2>1. PICK s \in S : s.label = l
    BY <1>4
  <2>2. s \in U
    BY <2>1
  <2>3. h(s) \in R /\ h(s).id = s.id /\ h(s).label = l
    BY <2>1, <2>2, <1>9, <1>10
  <2>4. QED BY <2>1, <2>3
<1>14. \A s \in S : s \in O \/ s.id >= nextSpeaker
  BY <1>6
<1> HIDE DEF R, U
<1>15. QED BY <1>4, <1>7, <1>8, <1>11, <1>12, <1>13, <1>14 DEF O, S, M, k, R

LEMMA ReplaceKept ==
  ASSUME TablesInv, NEW m \in Meeting, NEW d \in Diarizations[m], Replace(m, d), UNCHANGED voiceVars
  PROVE  TablesInv'
<1> DEFINE O == SpeakersOf(m)
           S == WithLabels(O, m, Used(d), nextSpeaker)
           k == Cardinality(Missing(O, Used(d)))
           c == Cardinality(Slots[m])
           R == Replaced(m, d)
           new == Transcribed(m, d, S, nextRow)
<1>1. /\ rows' = (rows \ RowsOf(m)) \cup new /\ nextRow' = nextRow + c
      /\ speakers' = (speakers \ O) \cup R /\ nextSpeaker' = nextSpeaker + k
      /\ matching' = [matching EXCEPT ![m] = Used(d)]
      /\ status' = [status EXCEPT ![m] = "matching"]
      /\ run' = [run EXCEPT ![m] = run[m] + 1]
      /\ UNCHANGED <<match, edit>>
  BY DEF Replace, FreshRow
<1>2. /\ new \subseteq Row
      /\ \A r \in new : /\ r.id >= nextRow /\ r.id < nextRow + c
                       /\ r.meeting = m /\ r.slot \in Slots[m] /\ r.aimed = 0
                       /\ r.speaker = SpeakerFor(S, Base(d[r.slot]))
      /\ \A r, q \in new : r.id = q.id => r = q
  BY TranscribedRows
<1>3. /\ k \in Nat
      /\ \A s \in S : s.id \in Nat \ {0} /\ s.id < nextSpeaker + k /\ s.meeting = m
      /\ \A s, t \in S : s.id = t.id \/ s.label = t.label => s = t
      /\ \A s \in S : s \in O \/ s.id >= nextSpeaker
      /\ \A r \in R : \E s \in S : r.id = s.id /\ r.meeting = m /\ r.label = s.label /\ s.label \in Used(d)
      /\ \A l \in Used(d) : \E s \in S : s.label = l /\ \E r \in R : r.id = s.id /\ r.label = l
      /\ \A r, q \in R : r.id = q.id \/ r.label = q.label => r = q
      /\ \A r \in R : r \in SpeakerRow /\ Agrees(r) /\ r.label[2] \in {0, r.id}
  BY ReplacedSpeakers
<1>4. /\ nextRow \in Nat /\ nextSpeaker \in Nat \ {0} /\ c \in Nat
      /\ run \in [Meeting -> Nat] /\ run' \in [Meeting -> Nat]
      /\ DOMAIN status = Meeting /\ DOMAIN match = Meeting /\ DOMAIN edit = Edit
  BY <1>1, PlacesDiffer DEF TablesInv, TextTyped
<1>5. /\ RowsSound /\ SpeakersSound
      /\ \A s \in O : s \in speakers /\ s.meeting = m
      /\ \A s \in speakers \ O : s.meeting # m
  BY TablesSound DEF SpeakersOf
<1>6. \A t \in Slots[m] : d[t] # NoLabel => Base(d[t]) \in Used(d) /\ Base(d[t]) # Base(NoLabel)
  BY UsedLabels
<1>7. Known' = Known
  BY DEF Known, voiceVars
<1>8. matching' \in [Meeting -> SUBSET (Label \X {0})]
  <2>1. Used(d) \in SUBSET (Label \X {0})
    BY UsedLabels
  <2>2. matching \in [Meeting -> SUBSET (Label \X {0})]
    BY DEF TablesInv, TextTyped
  <2> DEFINE X == SUBSET (Label \X {0})
  <2> HIDE DEF X
  <2>3. QED BY <1>1, <2>1, <2>2 DEF X
<1> HIDE DEF O, S, k, c, R, new
<1>9. RowsSound'
  <2>1. \A r \in rows : r \in Row /\ r.id < nextRow /\ r.slot \in Slots[r.meeting]
    BY <1>5 DEF RowsSound
  <2>2. \A r \in rows : r.id \in Nat
    BY <2>1 DEF Row
  <2>3. \A r \in new : r.id \in Nat
    BY <1>2 DEF Row
  <2>4. \A r \in rows' : r \in Row /\ r.id < nextRow' /\ r.slot \in Slots[r.meeting]
    BY <1>1, <1>2, <1>4, <2>1, <2>2
  <2>5. ASSUME NEW r \in rows, NEW q \in new PROVE r.id # q.id
    BY <1>2, <1>4, <2>1, <2>2, <2>3
  <2>6. \A r, q \in rows' : r.id = q.id => r = q
    BY <1>1, <1>2, <1>5, <2>5 DEF RowsSound
  <2>7. QED BY <2>4, <2>6 DEF RowsSound
<1>10. ASSUME NEW s \in speakers \ O, NEW r \in R PROVE s.id # r.id /\ s.meeting # r.meeting
  <2>1. PICK o \in S : r.id = o.id /\ r.meeting = m
    BY <1>3
  <2>2. s.meeting # m /\ s.id \in Nat /\ s.id < nextSpeaker
    BY <1>5 DEF SpeakersSound, SpeakerRow
  <2>3. CASE o \in O
    BY <2>1, <2>2, <2>3, <1>5 DEF SpeakersSound
  <2>4. CASE o \notin O
    <3>1. o.id >= nextSpeaker /\ o.id \in Nat
      BY <2>4, <1>3
    <3>2. QED BY <3>1, <2>1, <2>2, <1>4
  <2>5. QED BY <2>3, <2>4
<1>11. SpeakersSound'
  <2>1. \A s \in speakers : s \in SpeakerRow /\ s.id < nextSpeaker /\ s.id \in Nat
    BY <1>5 DEF SpeakersSound, SpeakerRow
  <2>2. \A r \in R : r \in SpeakerRow /\ r.id \in Nat /\ r.id < nextSpeaker + k
    BY <1>3
  <2>3. \A s \in speakers' : s \in SpeakerRow /\ s.id < nextSpeaker'
    BY <1>1, <1>3, <1>4, <2>1, <2>2
  <2>4. ASSUME NEW s \in speakers', NEW t \in speakers',
               s.id = t.id \/ (s.meeting = t.meeting /\ s.label = t.label)
        PROVE  s = t
    <3>1. CASE s \in R /\ t \in R
      BY <3>1, <2>4, <1>3
    <3>2. CASE s \notin R /\ t \notin R
      BY <3>2, <2>4, <1>1, <1>5 DEF SpeakersSound
    <3>3. QED BY <3>1, <3>2, <2>4, <1>1, <1>10
  <2>5. QED BY <2>3, <2>4 DEF SpeakersSound
<1>12. StatusMatchesPerson' /\ LabelsNumbered'
  BY <1>1, <1>3, <1>7 DEF TablesInv, SpeakersAgree, StatusMatchesPerson, LabelsNumbered, Agrees
<1>13. SpeakersOfTheirMeeting'
  <2>1. SUFFICES ASSUME NEW r \in rows', r.speaker # 0
                 PROVE  \E s \in speakers' : s.meeting = r.meeting /\ s.id = r.speaker
    BY DEF SpeakersOfTheirMeeting, SpeakersOf
  <2>2. CASE r \in new
    <3>1. r.meeting = m /\ r.slot \in Slots[m] /\ r.speaker = SpeakerFor(S, Base(d[r.slot]))
      BY <1>2, <2>2
    <3>2. d[r.slot] # NoLabel
      BY <2>1, <3>1 DEF SpeakerFor
    <3>3. Base(d[r.slot]) \in Used(d) /\ Base(d[r.slot]) # Base(NoLabel)
      BY <1>6, <3>1, <3>2
    <3>4. PICK s \in S : s.label = Base(d[r.slot]) /\ \E q \in R : q.id = s.id
      BY <1>3, <3>3
    <3>5. r.speaker = s.id
      BY <1>3, <3>1, <3>3, <3>4 DEF SpeakerFor
    <3>6. PICK q \in R : q.id = s.id
      BY <3>4
    <3>7. QED BY <1>1, <1>3, <3>1, <3>5, <3>6
  <2>3. CASE r \notin new
    <3>1. r \in rows /\ r.meeting # m
      BY <1>1, <2>3 DEF RowsOf
    <3>2. PICK s \in speakers : s.meeting = r.meeting /\ s.id = r.speaker
      BY <2>1, <3>1 DEF TablesInv, SpeakersAgree, SpeakersOfTheirMeeting, SpeakersOf
    <3>3. s \in speakers'
      BY <1>1, <1>5, <3>1, <3>2
    <3>4. QED BY <3>2, <3>3
  <2>4. QED BY <2>2, <2>3
<1>14. EditsLandWhereAimed'
  <2>1. SUFFICES ASSUME NEW r \in rows' PROVE r.aimed \in {0, run'[r.meeting]}
    BY DEF EditsLandWhereAimed
  <2>2. CASE r \in new
    BY <2>2, <1>2
  <2>3. CASE r \notin new
    <3>1. r \in rows /\ r.meeting # m
      BY <1>1, <2>3 DEF RowsOf
    <3>2. run'[r.meeting] = run[r.meeting]
      <4>1. r.meeting \in Meeting
        BY <3>1, <1>5 DEF RowsSound, Row
      <4>2. QED BY <4>1, <3>1, <1>1, <1>4
    <3>3. QED BY <3>1, <3>2 DEF TablesInv, EditsLandWhereAimed
  <2>4. QED BY <2>2, <2>3
<1>15. EditsKnowTheirPage'
  <2>1. SUFFICES ASSUME NEW e \in Edit, edit[e] # NoEdit
                 PROVE  /\ edit[e].meeting \in Meeting /\ edit[e].seen \in Nat
                        /\ edit[e].seen <= run'[edit[e].meeting]
                        /\ \A i \in NamedRows(e) : i \in Nat /\ i < nextRow'
                        /\ edit[e].seen # run'[edit[e].meeting] =>
                             \A r \in rows' : r.meeting = edit[e].meeting => r.id \notin NamedRows(e)
    BY <1>1 DEF EditsKnowTheirPage, NamedRows, Late, RowsOf
  <2>2. /\ edit[e].meeting \in Meeting /\ edit[e].seen \in Nat /\ edit[e].seen <= run[edit[e].meeting]
        /\ \A i \in NamedRows(e) : i \in Nat /\ i < nextRow
        /\ edit[e].seen # run[edit[e].meeting] =>
             \A r \in rows : r.meeting = edit[e].meeting => r.id \notin NamedRows(e)
    BY <2>1 DEF TablesInv, EditsKnowTheirPage, Late, RowsOf
  <2>3. \A i \in NamedRows(e) : i < nextRow'
    BY <1>1, <1>4, <2>2
  <2>4. edit[e].seen <= run'[edit[e].meeting]
    <3>1. CASE edit[e].meeting = m
      <4>1. run'[m] = run[m] + 1 /\ run[m] \in Nat
        BY <1>1, <1>4
      <4>2. QED BY <3>1, <4>1, <2>2
    <3>2. CASE edit[e].meeting # m
      BY <3>2, <1>1, <1>4, <2>2
    <3>3. QED BY <3>1, <3>2
  <2>5. ASSUME edit[e].seen # run'[edit[e].meeting], NEW r \in rows', r.meeting = edit[e].meeting
        PROVE  r.id \notin NamedRows(e)
    <3>1. CASE r \in new
      <4>1. r.id \in Nat /\ r.id >= nextRow
        BY <3>1, <1>2 DEF Row
      <4>2. QED BY <4>1, <2>2, <1>4
    <3>2. CASE r \notin new
      <4>1. r \in rows /\ r.meeting # m
        BY <1>1, <3>2 DEF RowsOf
      <4>2. run'[edit[e].meeting] = run[edit[e].meeting]
        BY <4>1, <2>2, <2>5, <1>1, <1>4
      <4>3. QED BY <4>1, <4>2, <2>2, <2>5
    <3>3. QED BY <3>1, <3>2
  <2>6. QED BY <2>2, <2>3, <2>4, <2>5
<1>16. MatchesTyped'
  BY <1>1 DEF TablesInv, MatchesTyped
<1>17. nextRow' \in Nat /\ nextSpeaker' \in Nat \ {0}
  BY <1>1, <1>3, <1>4
<1>18. DOMAIN status' = Meeting /\ DOMAIN match' = Meeting /\ DOMAIN edit' = Edit
  BY <1>1, <1>4
<1>19. QED
  BY <1>4, <1>8, <1>9, <1>11, <1>12, <1>13, <1>14, <1>15, <1>16, <1>17, <1>18, TablesFromParts

-----------------------------------------------------------------------------
(* The tables agree.                                                       *)

\* The people and their samples take the steps of their own specification.
LEMMA PeopleAsSpecified ==
  [TextNext]_<<voiceVars, textVars>> => [VoiceNext]_voiceVars
BY DEF TextNext, VoiceNext, Restart, DeleteNamedPerson

LEMMA TablesKept ==
  ASSUME TablesInv, VoiceInv, [TextNext]_<<voiceVars, textVars>>
  PROVE  TablesInv'
<1>1. ASSUME NEW m \in Meeting, JobStep(m), UNCHANGED voiceVars PROVE TablesInv'
  <2>1. ASSUME NEW d \in Diarizations[m], Replace(m, d) PROVE TablesInv'
    BY <1>1, <2>1, ReplaceKept
  <2>2. ASSUME NEW l \in matching[m], Decide(m, l) PROVE TablesInv'
    BY <1>1, <2>2, DecideKept
  <2>3. CASE Suggest(m)
    BY <1>1, <2>3, SuggestKept
  <2>4. CASE DeleteMeeting(m)
    BY <1>1, <2>4, DeleteMeetingKept
  <2>5. CASE Enqueue(m) \/ Finish(m)
    BY <1>1, <2>5, QueueKept
  <2>6. QED BY <1>1, <2>1, <2>2, <2>3, <2>4, <2>5 DEF JobStep
<1>2. ASSUME NEW e \in Edit, EditStep(e), UNCHANGED voiceVars PROVE TablesInv'
  <2>1. ASSUME NEW m \in Meeting, NEW q \in Requests(m), Ask(e, m, q) PROVE TablesInv'
    BY <1>2, <2>1, AskKept
  <2>2. CASE EditText(e)
    BY <1>2, <2>2, EditTextKept
  <2>3. CASE Assign(e)
    BY <1>2, <2>3, AssignKept
  <2>4. CASE Confirm(e)
    BY <1>2, <2>4, ConfirmKept
  <2>5. CASE Merge(e)
    BY <1>2, <2>5, MergeKept
  <2>6. CASE Split(e)
    BY <1>2, <2>6, SplitKept
  <2>7. QED BY <1>2, <2>1, <2>2, <2>3, <2>4, <2>5, <2>6 DEF EditStep
<1>3. CASE VoiceStep /\ UNCHANGED textVars
  BY <1>3, PeopleKept
<1>4. CASE Restart
  BY <1>4, RestartKept
<1>5. ASSUME NEW p \in Person, DeleteNamedPerson(p) PROVE TablesInv'
  BY <1>5, DeletePersonKept
<1>6. CASE UNCHANGED <<voiceVars, textVars>>
  <2>1. /\ UNCHANGED <<rows, speakers, nextRow, nextSpeaker, status, matching, match, edit, run>>
        /\ Known' = Known
    BY <1>6 DEF voiceVars, textVars, Known
  <2>2. MatchesTyped' /\ EditsKnowTheirPage'
    BY <2>1, SamePages DEF TablesInv, MatchesTyped
  <2>3. QED BY <2>1, <2>2, SameTables DEF TablesInv, TextTyped
<1>7. QED BY <1>1, <1>2, <1>3, <1>4, <1>5, <1>6 DEF TextNext

LEMMA TablesAlways == TextSpec => [](TablesInv /\ VoiceInv)
<1>1. VoiceInit /\ TextInit => TablesInv /\ VoiceInv
  BY VoiceStarts, TablesStart
<1>2. TablesInv /\ VoiceInv /\ [TextNext]_<<voiceVars, textVars>> => (TablesInv /\ VoiceInv)'
  BY TablesKept, VoiceKept, PeopleAsSpecified
<1>3. QED BY <1>1, <1>2, PTL DEF TextSpec

(* Rows, speakers and people agree: identifiers and labels are unique, a     *)
(* segment's speaker is of its meeting, and a speaker's name is one that     *)
(* exists and has the status that goes with it.                             *)
THEOREM TablesAgree == TextSpec => []SpeakersAgree
<1>1. TablesInv /\ VoiceInv => SpeakersAgree
  BY DEF TablesInv
<1>2. QED BY <1>1, TablesAlways, PTL

(* However late an edit is, it changes no segment but one of the transcript  *)
(* its user saw: a new transcript never reuses the identifier of a segment.  *)
THEOREM EditsAreNotMisplaced == TextSpec => []EditsLandWhereAimed
<1>1. TablesInv /\ VoiceInv => EditsLandWhereAimed
  BY DEF TablesInv
<1>2. QED BY <1>1, TablesAlways, PTL

-----------------------------------------------------------------------------
(* Names follow voices, when one edit is under way at a time and no          *)
(* diarization gives two voices one label.                                   *)

OneEditor == \A e, f \in Edit : e = f
UnmixedVoices ==
  \A m \in Meeting : \A d \in Diarizations[m] : \A t, u \in Slots[m] :
    d[t] = d[u] /\ d[t] # NoLabel => Voice[m][t] = Voice[m][u]

\* What a truthful request says of each row it is about.
Told(m, q) ==
  \A s \in SpeakersOf(m) : \A r \in rows :
    /\ q.op = "confirm" /\ q.speaker = s.id /\ q.person # NoOne /\ r.speaker = s.id =>
         Voice[m][r.slot] = q.person
    /\ q.op = "assign" /\ q.speaker = s.id /\ s.manual
         /\ (r.speaker = s.id \/ (r.meeting = m /\ r.id \in q.ids)) => Voice[m][r.slot] = s.person
    /\ q.op = "merge" /\ q.target = s.id /\ s.manual
         /\ (r.speaker = s.id \/ \E t \in SpeakersOf(m) : t.id \in q.sources /\ r.speaker = t.id) =>
         Voice[m][r.slot] = s.person

\* An edit that is not late is as true as when it was asked for.
ToldTruth ==
  \A e \in Edit : edit[e] # NoEdit /\ ~ Late(e) =>
    edit[e].names.op = edit[e].op /\ Told(edit[e].meeting, edit[e].names)

RightlyNamed ==
  \A s \in speakers : \A r \in rows :
    s.manual /\ s.meeting \notin misled /\ r.speaker = s.id => Voice[s.meeting][r.slot] = s.person

NamesInv == RightlyNamed /\ ToldTruth

LEMMA RightNames == RightlyNamed => NamesFollowVoices
BY DEF RightlyNamed, NamesFollowVoices, Voices, SaidBy

LEMMA TruthIsTold ==
  ASSUME NEW m, NEW q, Truthful(m, q)
  PROVE  Told(m, q)
<1>1. SUFFICES ASSUME NEW s \in SpeakersOf(m), NEW r \in rows
      PROVE  /\ q.op = "confirm" /\ q.speaker = s.id /\ q.person # NoOne /\ r.speaker = s.id =>
                  Voice[m][r.slot] = q.person
             /\ q.op = "assign" /\ q.speaker = s.id /\ s.manual
                  /\ (r.speaker = s.id \/ (r.meeting = m /\ r.id \in q.ids)) => Voice[m][r.slot] = s.person
             /\ q.op = "merge" /\ q.target = s.id /\ s.manual
                  /\ (r.speaker = s.id \/ \E t \in SpeakersOf(m) : t.id \in q.sources /\ r.speaker = t.id) =>
                  Voice[m][r.slot] = s.person
  BY DEF Told
<1>2. ASSUME q.op = "confirm", q.speaker = s.id, q.person # NoOne, r.speaker = s.id
      PROVE  Voice[m][r.slot] = q.person
  <2>1. Voices(m, SaidBy(s)) = {q.person}
    BY <1>2 DEF Truthful
  <2>2. Voice[m][r.slot] \in Voices(m, SaidBy(s))
    BY <1>2 DEF Voices, SaidBy
  <2>3. QED BY <2>1, <2>2
<1>3. ASSUME q.op = "assign", q.speaker = s.id, s.manual,
             r.speaker = s.id \/ (r.meeting = m /\ r.id \in q.ids)
      PROVE  Voice[m][r.slot] = s.person
  <2> DEFINE slots == SaidBy(s) \cup {p.slot : p \in {o \in RowsOf(m) : o.id \in q.ids}}
  <2>1. Plausible(s, Voices(m, slots))
    BY <1>3 DEF Truthful
  <2>2. r.slot \in slots
    BY <1>3 DEF SaidBy, RowsOf
  <2>3. Voice[m][r.slot] \in Voices(m, slots)
    BY <2>2 DEF Voices
  <2> HIDE DEF slots
  <2>4. QED BY <1>3, <2>1, <2>3 DEF Plausible
<1>4. ASSUME q.op = "merge", q.target = s.id, s.manual,
             r.speaker = s.id \/ \E t \in SpeakersOf(m) : t.id \in q.sources /\ r.speaker = t.id
      PROVE  Voice[m][r.slot] = s.person
  <2> DEFINE slots == SaidBy(s) \cup UNION {SaidBy(t) : t \in {o \in SpeakersOf(m) : o.id \in q.sources}}
  <2>1. Plausible(s, Voices(m, slots))
    BY <1>4 DEF Truthful
  <2>2. r.slot \in slots
    BY <1>4 DEF SaidBy
  <2>3. Voice[m][r.slot] \in Voices(m, slots)
    BY <2>2 DEF Voices
  <2> HIDE DEF slots
  <2>4. QED BY <1>4, <2>1, <2>3 DEF Plausible
<1>5. QED BY <1>2, <1>3, <1>4

\* Whoever a row is said by is of its meeting.
LEMMA SaidInMeeting ==
  ASSUME TablesInv, NEW s \in speakers, NEW r \in rows, r.speaker = s.id
  PROVE  r.meeting = s.meeting
BY DEF TablesInv, TextTyped, SpeakerRow, SpeakersAgree, SpeakersOfTheirMeeting, SpeakersOf, TextTypes

\* Speakers that keep their names or lose their confirmation.
LEMMA NamesLost ==
  ASSUME NamesInv, NEW f \in [speakers -> SpeakerRow], speakers' = {f[s] : s \in speakers},
         \A s \in speakers : f[s].id = s.id /\ f[s].meeting = s.meeting /\ (f[s].manual => f[s] = s),
         UNCHANGED <<rows, edit, run, misled>>
  PROVE  NamesInv'
<1>1. \A s \in speakers' : \E o \in speakers : s.id = o.id /\ s.meeting = o.meeting /\ (s.manual => s = o)
  OBVIOUS
<1>2. RightlyNamed'
  BY <1>1 DEF NamesInv, RightlyNamed
<1>3. ASSUME NEW m, NEW q, Told(m, q) PROVE Told(m, q)'
  <2>1. SUFFICES ASSUME NEW s \in speakers', s.meeting = m, NEW r \in rows
        PROVE  /\ q.op = "confirm" /\ q.speaker = s.id /\ q.person # NoOne /\ r.speaker = s.id =>
                    Voice[m][r.slot] = q.person
               /\ q.op = "assign" /\ q.speaker = s.id /\ s.manual
                    /\ (r.speaker = s.id \/ (r.meeting = m /\ r.id \in q.ids)) => Voice[m][r.slot] = s.person
               /\ q.op = "merge" /\ q.target = s.id /\ s.manual
                    /\ (r.speaker = s.id \/ \E t \in SpeakersOf(m)' : t.id \in q.sources /\ r.speaker = t.id) =>
                    Voice[m][r.slot] = s.person
    BY DEF Told, SpeakersOf
  <2>2. PICK o \in speakers : s.id = o.id /\ s.meeting = o.meeting /\ (s.manual => s = o)
    BY <1>1
  <2>3. o \in SpeakersOf(m)
    BY <2>1, <2>2 DEF SpeakersOf
  <2>4. \A t \in SpeakersOf(m)' : \E u \in SpeakersOf(m) : t.id = u.id
    BY <1>1 DEF SpeakersOf
  <2>5. QED BY <1>3, <2>2, <2>3, <2>4 DEF Told
<1>4. ToldTruth'
  BY <1>3 DEF NamesInv, ToldTruth, Late
<1>5. QED BY <1>2, <1>4 DEF NamesInv

LEMMA NamesSame ==
  ASSUME NamesInv, UNCHANGED <<rows, speakers, edit, run, misled>>
  PROVE  NamesInv'
BY DEF NamesInv, RightlyNamed, ToldTruth, Told, Late, SpeakersOf

LEMMA SuggestNames ==
  ASSUME TablesInv, NamesInv, NEW m \in Meeting, Suggest(m)
  PROVE  NamesInv'
<1>1. UNCHANGED <<rows, edit, run, misled>>
  BY DEF Suggest
<1>2. CASE UNCHANGED speakers
  BY <1>1, <1>2, NamesSame
<1>3. CASE speakers' = (speakers \ Suggestible(m)) \cup
              {Named(s, match[m].person, FALSE, match[m].status) : s \in Suggestible(m)} /\ match[m] # NoMatch
  <2> DEFINE p == match[m].person
             st == match[m].status
             f == [s \in speakers |-> IF s \in Suggestible(m) THEN Named(s, p, FALSE, st) ELSE s]
  <2>1. Suggestible(m) \subseteq speakers /\ speakers \subseteq SpeakerRow
    BY DEF Suggestible, SpeakersOf, TablesInv, TextTyped
  <2>2. p \in Person /\ st \in {"suggested", "auto_matched"}
    BY <1>3 DEF TablesInv, MatchesTyped
  <2> HIDE DEF p, st
  <2>3. ASSUME NEW s \in speakers
        PROVE  /\ Named(s, p, FALSE, st) \in SpeakerRow /\ Named(s, p, FALSE, st).id = s.id
               /\ Named(s, p, FALSE, st).meeting = s.meeting /\ Named(s, p, FALSE, st).manual = FALSE
    BY <2>1, <2>2 DEF SpeakerRow, Named
  <2>4. /\ f \in [speakers -> SpeakerRow] /\ speakers' = {f[s] : s \in speakers}
        /\ \A s \in speakers : f[s].id = s.id /\ f[s].meeting = s.meeting /\ (f[s].manual => f[s] = s)
    BY <1>3, <2>1, <2>3 DEF p, st
  <2> HIDE DEF f
  <2>5. QED BY <1>1, <2>4, NamesLost
<1>4. QED BY <1>2, <1>3 DEF Suggest

LEMMA DeletePersonNames ==
  ASSUME TablesInv, NamesInv, NEW p \in Person, DeleteNamedPerson(p)
  PROVE  NamesInv'
<1> DEFINE f == [s \in speakers |-> IF s.person = p THEN Forgotten(s) ELSE s]
<1>1. UNCHANGED <<rows, edit, run, misled>> /\ speakers' = {f[s] : s \in speakers}
  BY DEF DeleteNamedPerson
<1>2. ASSUME NEW s \in speakers
      PROVE  /\ Forgotten(s) \in SpeakerRow /\ Forgotten(s).id = s.id /\ Forgotten(s).meeting = s.meeting
             /\ Forgotten(s).manual = FALSE /\ s \in SpeakerRow
  <2>1. s \in SpeakerRow
    BY DEF TablesInv, TextTyped
  <2>2. QED BY <2>1 DEF SpeakerRow, Forgotten, Named
<1>3. /\ f \in [speakers -> SpeakerRow]
      /\ \A s \in speakers : f[s].id = s.id /\ f[s].meeting = s.meeting /\ (f[s].manual => f[s] = s)
  BY <1>2
<1> HIDE DEF f
<1>4. QED BY <1>1, <1>3, NamesLost

LEMMA DeleteMeetingNames ==
  ASSUME TablesInv, NamesInv, NEW m \in Meeting, DeleteMeeting(m)
  PROVE  NamesInv'
<1>1. rows' \subseteq rows /\ speakers' \subseteq speakers /\ UNCHANGED <<edit, run, misled>>
  BY DEF DeleteMeeting
<1>2. QED BY <1>1 DEF NamesInv, RightlyNamed, ToldTruth, Told, Late, SpeakersOf

LEMMA AskNames ==
  ASSUME TablesInv, NamesInv, OneEditor, NEW e \in Edit, NEW m \in Meeting, NEW q \in Requests(m),
         Ask(e, m, q)
  PROVE  NamesInv'
<1>1. /\ UNCHANGED <<rows, speakers, run, misled>> /\ Truthful(m, q)
      /\ edit' = [edit EXCEPT ![e] = [op |-> q.op, meeting |-> m, seen |-> run[m], names |-> q]]
  BY DEF Ask
<1>2. DOMAIN edit = Edit
  BY DEF TablesInv, TextTyped
<1>3. edit'[e].meeting = m /\ edit'[e].op = q.op /\ edit'[e].names = q
  BY <1>1, <1>2
<1>4. Told(m, q)'
  <2>1. Told(m, q)
    BY <1>1, TruthIsTold
  <2>2. QED BY <1>1, <2>1 DEF Told, SpeakersOf
<1>5. ToldTruth'
  BY <1>3, <1>4 DEF ToldTruth, OneEditor
<1>6. RightlyNamed'
  BY <1>1 DEF NamesInv, RightlyNamed
<1>7. QED BY <1>5, <1>6 DEF NamesInv

\* When an edit ends, none is under way.
LEMMA EditsOver ==
  ASSUME TablesInv, OneEditor, NEW e \in Edit, edit' = [edit EXCEPT ![e] = NoEdit]
  PROVE  ToldTruth'
<1>1. \A f \in Edit : edit'[f] = NoEdit
  BY DEF OneEditor, TablesInv, TextTyped
<1>2. QED BY <1>1 DEF ToldTruth

LEMMA EditTextNames ==
  ASSUME TablesInv, NamesInv, OneEditor, NEW e \in Edit, EditText(e)
  PROVE  NamesInv'
<1> DEFINE hit == Addressed(e, edit[e].meeting, {edit[e].names.row})
<1>1. /\ rows' = (rows \ hit) \cup {[r EXCEPT !.aimed = edit[e].seen] : r \in hit}
      /\ edit' = [edit EXCEPT ![e] = NoEdit]
      /\ UNCHANGED <<speakers, misled>>
  BY DEF EditText, Write
<1>2. hit \subseteq rows /\ rows \subseteq Row
  BY DEF Addressed, RowsOf, TablesInv, TextTyped
<1> HIDE DEF hit
<1>3. \A r \in rows' : \E q \in rows : r.speaker = q.speaker /\ r.slot = q.slot
  BY <1>1, <1>2 DEF Row
<1>4. RightlyNamed'
  BY <1>1, <1>3 DEF NamesInv, RightlyNamed
<1>5. QED BY <1>1, <1>4, EditsOver DEF NamesInv

LEMMA AssignNames ==
  ASSUME TablesInv, NamesInv, OneEditor, NEW e \in Edit, Assign(e)
  PROVE  NamesInv'
<1> DEFINE m == edit[e].meeting
           i == edit[e].names.speaker
           hit == IF Assignable(m, i) THEN Addressed(e, m, edit[e].names.ids) ELSE {}
<1>1. edit[e].op = "assign"
  BY DEF Assign
<1>2. edit[e] # NoEdit
  BY <1>1 DEF NoEdit
<1>3. /\ rows' = (rows \ hit) \cup {[r EXCEPT !.speaker = i, !.aimed = edit[e].seen] : r \in hit}
      /\ edit' = [edit EXCEPT ![e] = NoEdit]
      /\ UNCHANGED <<speakers, misled>>
  <2>1. /\ Write(e, (rows \ hit) \cup {[r EXCEPT !.speaker = i, !.aimed = edit[e].seen] : r \in hit}, speakers)
        /\ UNCHANGED misled
    BY DEF Assign
  <2> HIDE DEF hit, i
  <2>2. QED BY <2>1 DEF Write
<1>4. hit \subseteq rows /\ rows \subseteq Row
  BY DEF Addressed, RowsOf, TablesInv, TextTyped
<1>5. ASSUME NEW r \in hit
      PROVE  /\ r.meeting = m /\ r.id \in edit[e].names.ids /\ ~ Late(e)
             /\ \A s \in speakers : s.id = i => s.meeting = m
  <2>1. r \in RowsOf(m) /\ r.id \in edit[e].names.ids /\ Assignable(m, i)
    BY DEF Addressed
  <2>2. r.id \in NamedRows(e)
    BY <1>1, <2>1 DEF NamedRows
  <2>3. edit[e].seen = run[r.meeting] /\ r.meeting = m
    BY <2>1, <2>2, <1>2, AimIsCurrent
  <2>4. ASSUME NEW s \in speakers, s.id = i PROVE s.meeting = m
    <3>1. s.id # 0
      BY DEF TablesInv, TextTyped, SpeakerRow
    <3>2. PICK t \in speakers : t.meeting = m /\ t.id = i
      BY <2>1, <2>4, <3>1 DEF Assignable, SpeakerOf, SpeakersOf
    <3>3. s = t
      BY <2>4, <3>2 DEF TablesInv, SpeakersAgree, TextTypes
    <3>4. QED BY <3>2, <3>3
  <2>5. QED BY <2>1, <2>3, <2>4 DEF Late
<1> HIDE DEF hit
<1>6. ASSUME NEW s \in speakers, NEW r \in hit, s.manual, s.id = i
      PROVE  Voice[s.meeting][r.slot] = s.person
  <2>1. s \in SpeakersOf(m) /\ s.meeting = m /\ r \in rows /\ r.meeting = m /\ r.id \in edit[e].names.ids
    BY <1>4, <1>5, <1>6 DEF SpeakersOf
  <2>2. edit[e].names.op = "assign" /\ Told(m, edit[e].names)
    BY <1>1, <1>2, <1>5 DEF NamesInv, ToldTruth
  <2>3. QED BY <1>6, <2>1, <2>2 DEF Told
<1> HIDE DEF i
<1>7. ASSUME NEW r \in rows'
      PROVE  r \in rows \/ \E q \in hit : r.speaker = i /\ r.slot = q.slot
  BY <1>3, <1>4 DEF Row
<1>8. RightlyNamed'
  <2>1. SUFFICES ASSUME NEW s \in speakers, NEW r \in rows', s.manual, s.meeting \notin misled, r.speaker = s.id
                 PROVE  Voice[s.meeting][r.slot] = s.person
    BY <1>3 DEF RightlyNamed
  <2>2. CASE r \in rows
    BY <2>1, <2>2 DEF NamesInv, RightlyNamed
  <2>3. CASE \E q \in hit : r.speaker = i /\ r.slot = q.slot
    BY <2>1, <2>3, <1>6
  <2>4. QED BY <2>2, <2>3, <1>7
<1>9. QED BY <1>3, <1>8, EditsOver DEF NamesInv

LEMMA ConfirmNames ==
  ASSUME TablesInv, NamesInv, OneEditor, NEW e \in Edit, Confirm(e)
  PROVE  NamesInv'
<1> DEFINE m == edit[e].meeting
           p == edit[e].names.person
           st == IF p = NoOne THEN "anonymous" ELSE "confirmed"
           hit == IF p \in Known \cup {NoOne} THEN SpeakerOf(m, edit[e].names.speaker) ELSE {}
<1>1. /\ edit' = [edit EXCEPT ![e] = NoEdit]
      /\ speakers' = (speakers \ hit) \cup {Named(s, p, p # NoOne, st) : s \in hit}
      /\ misled' = IF Late(e) THEN misled \cup {m} ELSE misled
      /\ UNCHANGED rows
  BY DEF Confirm, Write, MisledIfLate
<1>2. edit[e].op = "confirm"
  BY DEF Confirm
<1>3. edit[e] # NoEdit
  BY <1>2 DEF NoEdit
<1>4. /\ hit \subseteq speakers /\ speakers \subseteq SpeakerRow
      /\ \A s \in hit : s \in SpeakersOf(m) /\ s.meeting = m /\ s.id = edit[e].names.speaker
  BY DEF SpeakerOf, SpeakersOf, TablesInv, TextTyped
<1>5. ~ Late(e) => edit[e].names.op = "confirm" /\ Told(m, edit[e].names)
  BY <1>2, <1>3 DEF NamesInv, ToldTruth
<1> HIDE DEF hit, st
<1>6. ASSUME NEW s \in hit, NEW r \in rows, p # NoOne, r.speaker = s.id, ~ Late(e)
      PROVE  Voice[m][r.slot] = p
  BY <1>4, <1>5, <1>6 DEF Told
<1> HIDE DEF p
<1>7. ASSUME NEW s \in hit
      PROVE  /\ Named(s, p, p # NoOne, st).id = s.id /\ Named(s, p, p # NoOne, st).meeting = m
             /\ Named(s, p, p # NoOne, st).person = p
             /\ Named(s, p, p # NoOne, st).manual => p # NoOne
  <2>1. s \in SpeakerRow /\ s.meeting = m
    BY <1>4
  <2>2. QED BY <2>1 DEF Named, SpeakerRow
<1>8. ASSUME NEW s \in speakers'
      PROVE  s \in speakers \/ \E o \in hit : s.id = o.id /\ s.meeting = m /\ s.person = p /\ (s.manual => p # NoOne)
  BY <1>1, <1>7
<1>9. RightlyNamed'
  <2>1. SUFFICES ASSUME NEW s \in speakers', NEW r \in rows, s.manual, s.meeting \notin misled', r.speaker = s.id
                 PROVE  Voice[s.meeting][r.slot] = s.person
    BY <1>1 DEF RightlyNamed
  <2>2. CASE s \in speakers
    BY <2>1, <2>2, <1>1 DEF NamesInv, RightlyNamed
  <2>3. CASE \E o \in hit : s.id = o.id /\ s.meeting = m /\ s.person = p /\ (s.manual => p # NoOne)
    BY <2>1, <2>3, <1>1, <1>6
  <2>4. QED BY <2>2, <2>3, <1>8
<1>10. QED BY <1>1, <1>9, EditsOver DEF NamesInv

LEMMA MergeNames ==
  ASSUME TablesInv, NamesInv, OneEditor, NEW e \in Edit, Merge(e)
  PROVE  NamesInv'
<1> DEFINE m == edit[e].meeting
           target == edit[e].names.target
           gone == IF SpeakerOf(m, target) = {} \/ target \in edit[e].names.sources THEN {}
                   ELSE {s \in SpeakersOf(m) : s.id \in edit[e].names.sources}
           hit == {r \in RowsOf(m) : r.speaker \in {s.id : s \in gone}}
<1>1. edit[e].op = "merge"
  BY DEF Merge
<1>2. edit[e] # NoEdit
  BY <1>1 DEF NoEdit
<1>3. /\ rows' = (rows \ hit) \cup {[r EXCEPT !.speaker = target] : r \in hit}
      /\ speakers' = speakers \ gone
      /\ edit' = [edit EXCEPT ![e] = NoEdit]
      /\ misled' = IF Late(e) THEN misled \cup {m} ELSE misled
  <2>1. /\ Write(e, (rows \ hit) \cup {[r EXCEPT !.speaker = target] : r \in hit}, speakers \ gone)
        /\ MisledIfLate(e)
    BY DEF Merge
  <2> HIDE DEF hit, gone, target
  <2>2. QED BY <2>1 DEF Write, MisledIfLate
<1>4. hit \subseteq rows /\ rows \subseteq Row
  BY DEF RowsOf, TablesInv, TextTyped
<1>5. ASSUME NEW r \in hit
      PROVE  /\ \E t \in SpeakersOf(m) : t.id \in edit[e].names.sources /\ r.speaker = t.id
             /\ \E t \in speakers : t.meeting = m /\ t.id = target
  BY DEF SpeakerOf, SpeakersOf
<1>6. ~ Late(e) => edit[e].names.op = "merge" /\ Told(m, edit[e].names)
  BY <1>1, <1>2 DEF NamesInv, ToldTruth
<1> HIDE DEF hit, gone
<1>7. ASSUME NEW s \in speakers, NEW r \in hit, s.id = target, s.manual, s.meeting \notin misled'
      PROVE  Voice[s.meeting][r.slot] = s.person
  <2>1. PICK t \in speakers : t.meeting = m /\ t.id = target
    BY <1>5
  <2>2. s = t
    BY <1>7, <2>1 DEF TablesInv, SpeakersAgree, TextTypes
  <2>3. s \in SpeakersOf(m) /\ s.meeting = m /\ r \in rows
    BY <2>1, <2>2, <1>4 DEF SpeakersOf
  <2>4. ~ Late(e)
    BY <1>3, <1>7, <2>3
  <2>5. QED BY <1>5, <1>6, <1>7, <2>3, <2>4 DEF Told
<1> HIDE DEF target
<1>8. ASSUME NEW r \in rows'
      PROVE  r \in rows \/ \E q \in hit : r.speaker = target /\ r.slot = q.slot
  BY <1>3, <1>4 DEF Row
<1>9. RightlyNamed'
  <2>1. SUFFICES ASSUME NEW s \in speakers', NEW r \in rows', s.manual, s.meeting \notin misled', r.speaker = s.id
                 PROVE  Voice[s.meeting][r.slot] = s.person
    BY DEF RightlyNamed
  <2>2. s \in speakers /\ s.meeting \notin misled
    BY <2>1, <1>3
  <2>3. CASE r \in rows
    BY <2>1, <2>2, <2>3 DEF NamesInv, RightlyNamed
  <2>4. CASE \E q \in hit : r.speaker = target /\ r.slot = q.slot
    BY <2>1, <2>2, <2>4, <1>7
  <2>5. QED BY <2>3, <2>4, <1>8
<1>10. QED BY <1>3, <1>9, EditsOver DEF NamesInv

LEMMA SplitNames ==
  ASSUME TablesInv, NamesInv, OneEditor, NEW e \in Edit, Split(e)
  PROVE  NamesInv'
<1> DEFINE m == edit[e].meeting
           source == SpeakerOf(m, edit[e].names.source)
           hit == {r \in Addressed(e, m, edit[e].names.ids) : {r.speaker} = {s.id : s \in source}}
           split == {Anonymous(nextSpeaker, m, <<s.label[1], nextSpeaker>>) : s \in source}
<1>1. /\ rows' = (rows \ hit) \cup {[r EXCEPT !.speaker = nextSpeaker, !.aimed = edit[e].seen] : r \in hit}
      /\ speakers' = speakers \cup split
      /\ edit' = [edit EXCEPT ![e] = NoEdit] /\ UNCHANGED misled
  <2>1. /\ Write(e, (rows \ hit) \cup {[r EXCEPT !.speaker = nextSpeaker, !.aimed = edit[e].seen] : r \in hit},
                  speakers \cup split)
        /\ UNCHANGED misled
    BY DEF Split
  <2> HIDE DEF hit, source, split
  <2>2. QED BY <2>1 DEF Write
<1>2. hit \subseteq rows /\ rows \subseteq Row
  BY DEF Addressed, RowsOf, TablesInv, TextTyped
<1>3. \A s \in split : s.manual = FALSE
  BY DEF Anonymous
<1>4. \A s \in speakers : s.id # nextSpeaker
  BY DEF TablesInv, TextTyped, SpeakersAgree, TextTypes, SpeakerRow
<1> HIDE DEF hit, source, split
<1>5. ASSUME NEW r \in rows' PROVE r \in rows \/ r.speaker = nextSpeaker
  BY <1>1, <1>2 DEF Row
<1>6. RightlyNamed'
  BY <1>1, <1>3, <1>4, <1>5 DEF NamesInv, RightlyNamed
<1>7. QED BY <1>1, <1>6, EditsOver DEF NamesInv

\* What covers a share of the shorter meets it.
LEMMA CoversMeets ==
  ASSUME NEW X, NEW Y, IsFiniteSet(X), IsFiniteSet(Y), X # {}, Covers(X, Y)
  PROVE  X \cap Y # {}
<1>1. Cardinality(X) \in Nat /\ Cardinality(X) # 0 /\ Cardinality(Y) \in Nat /\ Cardinality(Y) # 0
  BY FS_CardinalityType, FS_EmptySet DEF Covers
<1>2. Shorter(X, Y) \in {Cardinality(X), Cardinality(Y)}
  <2> DEFINE P == {Cardinality(X), Cardinality(Y)}
  <2>1. \E x \in P : \A y \in P : x <= y
    BY <1>1
  <2>2. QED BY <2>1 DEF Shorter, Min
<1>3. 100 * Cardinality(X \cap Y) >= 60 * Shorter(X, Y)
  BY DEF Covers, Overlap
<1>4. SUFFICES ASSUME X \cap Y = {} PROVE FALSE
  OBVIOUS
<1>5. Cardinality(X \cap Y) = 0
  BY <1>4, FS_EmptySet
<1>6. Shorter(X, Y) \in Nat /\ Shorter(X, Y) # 0
  BY <1>1, <1>2
<1>7. 0 >= 60 * Shorter(X, Y)
  BY <1>3, <1>5
<1>8. QED BY <1>6, <1>7

\* A name that a new transcript carries over was confirmed for a speaker heard
\* in a slot of its label.
LEMMA HeirsWereHeard ==
  ASSUME TablesInv, NEW m \in Meeting, NEW d \in Diarizations[m], NEW s \in Replaced(m, d), s.manual
  PROVE  \E t \in Slots[m] : \E o \in SpeakersOf(m) : \E r \in rows :
           /\ Base(d[t]) = s.label /\ o.manual /\ o.person = s.person
           /\ r.speaker = o.id /\ r.slot = t
<1> DEFINE S == WithLabels(SpeakersOf(m), m, Used(d), nextSpeaker)
           h(o) == LET heirs == Inherits(m, d, o.label) IN
                     IF heirs = {} THEN Anonymous(o.id, m, o.label)
                     ELSE Named(o, CHOOSE p \in heirs : TRUE, TRUE, "confirmed")
<1>1. PICK o \in S : o.label \in Used(d) /\ s = h(o)
  BY DEF Replaced
<1> HIDE DEF S
<1>2. Inherits(m, d, o.label) # {}
  <2>1. SUFFICES ASSUME Inherits(m, d, o.label) = {} PROVE FALSE
    OBVIOUS
  <2>2. s = Anonymous(o.id, m, o.label)
    BY <1>1, <2>1
  <2>3. QED BY <2>2 DEF Anonymous
<1> DEFINE p == CHOOSE p \in Inherits(m, d, o.label) : TRUE
<1>3. p \in Inherits(m, d, o.label) /\ s = Named(o, p, TRUE, "confirmed")
  BY <1>1, <1>2
<1> HIDE DEF p, h
<1>4. s \in SpeakerRow /\ s.label = o.label /\ s.person = p
  <2>1. s \in SpeakerRow
    BY ReplacedSpeakers
  <2>2. DOMAIN s = DOMAIN o
    BY <1>3 DEF Named
  <2>3. DOMAIN s = {"id", "meeting", "label", "person", "manual", "status"}
    BY <2>1 DEF SpeakerRow
  <2>4. s.label = o.label /\ s.person = p
    BY <1>3, <2>2, <2>3 DEF Named
  <2>5. QED BY <2>1, <2>4
<1>5. Covers(NewSlots(d, o.label), ConfirmedSlots(m, p))
  BY <1>3 DEF Inherits
<1>6. DOMAIN d = Slots[m] /\ IsFiniteSet(Slots[m])
  BY UsedLabels, TranscriptAssumption
<1>7. NewSlots(d, o.label) \in SUBSET Slots[m] /\ NewSlots(d, o.label) # {}
  BY <1>1, <1>6 DEF NewSlots, Used, Base
<1>8. ConfirmedSlots(m, p) \in SUBSET Slots[m]
  <2>1. SUFFICES ASSUME NEW u \in SpeakersOf(m), NEW r \in rows, r.speaker = u.id PROVE r.slot \in Slots[m]
    BY DEF ConfirmedSlots, SaidBy
  <2>2. r.meeting = m
    BY <2>1, SaidInMeeting DEF SpeakersOf
  <2>3. QED BY <2>2 DEF TablesInv, SpeakersAgree, TextTypes
<1>9. NewSlots(d, o.label) \cap ConfirmedSlots(m, p) # {}
  BY <1>5, <1>6, <1>7, <1>8, FS_Subset, CoversMeets
<1>10. PICK t \in NewSlots(d, o.label) : t \in ConfirmedSlots(m, p)
  BY <1>9
<1>11. PICK u \in SpeakersOf(m) : u.manual /\ u.person = p /\ t \in SaidBy(u)
  BY <1>10 DEF ConfirmedSlots
<1>12. PICK r \in rows : r.speaker = u.id /\ r.slot = t
  BY <1>11 DEF SaidBy
<1>13. t \in Slots[m] /\ Base(d[t]) = s.label
  BY <1>4, <1>6, <1>10 DEF NewSlots
<1>14. QED BY <1>4, <1>11, <1>12, <1>13

\* A new row is said by the speaker of its label.
LEMMA RowsSaidByLabel ==
  ASSUME TablesInv, NEW m \in Meeting, NEW d \in Diarizations[m], NEW s \in Replaced(m, d),
         NEW r \in Transcribed(m, d, WithLabels(SpeakersOf(m), m, Used(d), nextSpeaker), nextRow),
         r.speaker = s.id
  PROVE  r.slot \in Slots[m] /\ d[r.slot] # NoLabel /\ Base(d[r.slot]) = s.label
<1> DEFINE S == WithLabels(SpeakersOf(m), m, Used(d), nextSpeaker)
<1>1. r.slot \in Slots[m] /\ r.speaker = SpeakerFor(S, Base(d[r.slot]))
  BY TranscribedRows
<1>2. /\ \A o \in S : o.id \in Nat \ {0}
      /\ \A o, t \in S : o.id = t.id => o = t
      /\ \E o \in S : s.id = o.id /\ s.label = o.label
      /\ \A l \in Used(d) : \E o \in S : o.label = l
  BY ReplacedSpeakers
<1> HIDE DEF S
<1>3. PICK o \in S : s.id = o.id /\ s.label = o.label
  BY <1>2
<1>4. d[r.slot] # NoLabel /\ Base(d[r.slot]) # Base(NoLabel)
  BY <1>1, <1>2, <1>3 DEF SpeakerFor
<1>5. Base(d[r.slot]) \in Used(d)
  BY <1>1, <1>4, UsedLabels
<1>6. \E u \in S : u.label = Base(d[r.slot])
  BY <1>2, <1>5
<1> DEFINE u == CHOOSE u \in S : u.label = Base(d[r.slot])
<1>7. u \in S /\ u.label = Base(d[r.slot])
  BY <1>6
<1>8. r.speaker = u.id
  BY <1>1, <1>4 DEF SpeakerFor
<1> HIDE DEF u
<1>9. u = o
  BY <1>2, <1>3, <1>7, <1>8
<1>10. QED BY <1>1, <1>3, <1>4, <1>7, <1>9

LEMMA ReplaceNames ==
  ASSUME TablesInv, NamesInv, UnmixedVoices, NEW m \in Meeting, NEW d \in Diarizations[m], Replace(m, d),
         UNCHANGED voiceVars
  PROVE  NamesInv'
<1> DEFINE S == WithLabels(SpeakersOf(m), m, Used(d), nextSpeaker)
           R == Replaced(m, d)
           new == Transcribed(m, d, S, nextRow)
<1>1. /\ rows' = (rows \ RowsOf(m)) \cup new
      /\ speakers' = (speakers \ SpeakersOf(m)) \cup R
      /\ run' = [run EXCEPT ![m] = run[m] + 1]
      /\ UNCHANGED <<edit, misled>>
  BY DEF Replace, FreshRow
<1>2. TablesInv'
  BY ReplaceKept
<1>3. \A s \in speakers', r \in rows' : r.speaker = s.id => r.meeting = s.meeting
  BY <1>2 DEF TablesInv, TextTyped, SpeakerRow, SpeakersAgree, SpeakersOfTheirMeeting, SpeakersOf, TextTypes
<1>4. \A s \in R : s.meeting = m
  BY ReplacedSpeakers
<1>5. \A r \in new : r.meeting = m
  BY TranscribedRows
<1>6. /\ \A r \in rows' : r.meeting = m => r \in new
      /\ \A r \in rows' : r.meeting # m => r \in rows
      /\ \A s \in speakers' : s.meeting = m => s \in R
      /\ \A s \in speakers' : s.meeting # m => s \in speakers
  <2> HIDE DEF R, new
  <2>1. QED BY <1>1, <1>4, <1>5 DEF RowsOf, SpeakersOf
<1>7. ASSUME NEW s \in R, NEW r \in new, s.manual, m \notin misled, r.speaker = s.id
      PROVE  Voice[m][r.slot] = s.person
  <2>1. r.slot \in Slots[m] /\ d[r.slot] # NoLabel /\ Base(d[r.slot]) = s.label
    BY <1>7, RowsSaidByLabel
  <2>2. PICK t \in Slots[m] : \E o \in SpeakersOf(m) : \E q \in rows :
          /\ Base(d[t]) = s.label /\ o.manual /\ o.person = s.person
          /\ q.speaker = o.id /\ q.slot = t
    BY <1>7, HeirsWereHeard
  <2>3. Voice[m][t] = s.person
    BY <2>2, <1>7 DEF NamesInv, RightlyNamed, SpeakersOf
  <2>4. d[t] = d[r.slot]
    BY <2>1, <2>2 DEF Base
  <2>5. QED BY <2>1, <2>3, <2>4 DEF UnmixedVoices
<1> HIDE DEF S, R, new
<1>8. RightlyNamed'
  <2>1. SUFFICES ASSUME NEW s \in speakers', NEW r \in rows', s.manual, s.meeting \notin misled, r.speaker = s.id
                 PROVE  Voice[s.meeting][r.slot] = s.person
    BY <1>1 DEF RightlyNamed
  <2>2. r.meeting = s.meeting
    BY <1>3, <2>1
  <2>3. CASE s.meeting = m
    BY <2>1, <2>2, <2>3, <1>6, <1>7
  <2>4. CASE s.meeting # m
    BY <2>1, <2>2, <2>4, <1>6 DEF NamesInv, RightlyNamed
  <2>5. QED BY <2>3, <2>4
<1>9. ToldTruth'
  <2>1. SUFFICES ASSUME NEW e \in Edit, edit[e] # NoEdit, edit[e].seen = run'[edit[e].meeting]
                 PROVE  edit[e].names.op = edit[e].op /\ Told(edit[e].meeting, edit[e].names)'
    BY <1>1 DEF ToldTruth, Told, Late
  <2>2. edit[e].meeting \in Meeting /\ edit[e].seen \in Nat /\ edit[e].seen <= run[edit[e].meeting]
    BY <2>1 DEF TablesInv, EditsKnowTheirPage
  <2>3. run \in [Meeting -> Nat]
    BY DEF TablesInv, TextTyped
  <2>4. edit[e].meeting # m
    <3>1. run'[m] = run[m] + 1 /\ run[m] \in Nat
      BY <1>1, <2>3
    <3>2. QED BY <3>1, <2>1, <2>2
  <2>5. run'[edit[e].meeting] = run[edit[e].meeting]
    BY <1>1, <2>2, <2>3, <2>4
  <2>6. edit[e].names.op = edit[e].op /\ Told(edit[e].meeting, edit[e].names)
    BY <2>1, <2>5 DEF NamesInv, ToldTruth, Late
  <2> DEFINE n == edit[e].meeting
             q == edit[e].names
  <2>7. SUFFICES ASSUME NEW s \in speakers', s.meeting = n, NEW r \in rows'
        PROVE  /\ q.op = "confirm" /\ q.speaker = s.id /\ q.person # NoOne /\ r.speaker = s.id =>
                    Voice[n][r.slot] = q.person
               /\ q.op = "assign" /\ q.speaker = s.id /\ s.manual
                    /\ (r.speaker = s.id \/ (r.meeting = n /\ r.id \in q.ids)) => Voice[n][r.slot] = s.person
               /\ q.op = "merge" /\ q.target = s.id /\ s.manual
                    /\ (r.speaker = s.id \/ \E t \in SpeakersOf(n)' : t.id \in q.sources /\ r.speaker = t.id) =>
                    Voice[n][r.slot] = s.person
    BY <1>1, <2>6 DEF Told, SpeakersOf
  <2>8. s \in SpeakersOf(n) /\ \A t \in SpeakersOf(n)' : t \in SpeakersOf(n)
    BY <1>1, <1>6, <2>4, <2>7 DEF SpeakersOf
  <2>9. r.speaker = s.id \/ r.meeting = n \/ (\E t \in SpeakersOf(n)' : r.speaker = t.id) => r \in rows
    BY <1>1, <1>3, <1>6, <2>4, <2>7 DEF SpeakersOf
  <2>10. Told(n, q)
    BY <2>6
  <2> HIDE DEF n, q
  <2>11. CASE r \in rows
    BY <2>8, <2>10, <2>11 DEF Told
  <2>12. CASE r \notin rows
    BY <2>9, <2>12
  <2>13. QED BY <2>11, <2>12
<1>10. QED BY <1>8, <1>9 DEF NamesInv

LEMMA NamesKept ==
  ASSUME TablesInv, NamesInv, OneEditor, UnmixedVoices, [TextNext]_<<voiceVars, textVars>>
  PROVE  NamesInv'
<1>1. ASSUME NEW m \in Meeting, JobStep(m), UNCHANGED voiceVars PROVE NamesInv'
  <2>1. ASSUME NEW d \in Diarizations[m], Replace(m, d) PROVE NamesInv'
    BY <1>1, <2>1, ReplaceNames
  <2>2. ASSUME NEW l \in matching[m], Decide(m, l) PROVE NamesInv'
    BY <2>2, NamesSame DEF Decide
  <2>3. CASE Suggest(m)
    BY <2>3, SuggestNames
  <2>4. CASE DeleteMeeting(m)
    BY <2>4, DeleteMeetingNames
  <2>5. CASE Enqueue(m) \/ Finish(m)
    BY <2>5, NamesSame DEF Enqueue, Finish
  <2>6. QED BY <1>1, <2>1, <2>2, <2>3, <2>4, <2>5 DEF JobStep
<1>2. ASSUME NEW e \in Edit, EditStep(e) PROVE NamesInv'
  <2>1. ASSUME NEW m \in Meeting, NEW q \in Requests(m), Ask(e, m, q) PROVE NamesInv'
    BY <2>1, AskNames
  <2>2. CASE EditText(e)
    BY <2>2, EditTextNames
  <2>3. CASE Assign(e)
    BY <2>3, AssignNames
  <2>4. CASE Confirm(e)
    BY <2>4, ConfirmNames
  <2>5. CASE Merge(e)
    BY <2>5, MergeNames
  <2>6. CASE Split(e)
    BY <2>6, SplitNames
  <2>7. QED BY <1>2, <2>1, <2>2, <2>3, <2>4, <2>5, <2>6 DEF EditStep
<1>3. CASE VoiceStep /\ UNCHANGED textVars
  BY <1>3, NamesSame DEF textVars
<1>4. CASE Restart
  BY <1>4 DEF Restart, NamesInv, RightlyNamed, ToldTruth
<1>5. ASSUME NEW p \in Person, DeleteNamedPerson(p) PROVE NamesInv'
  BY <1>5, DeletePersonNames
<1>6. CASE UNCHANGED <<voiceVars, textVars>>
  BY <1>6, NamesSame DEF textVars
<1>7. QED BY <1>1, <1>2, <1>3, <1>4, <1>5, <1>6 DEF TextNext

(* While users edit one at a time and say the truth, and no diarization      *)
(* mixes two voices, a confirmed name stays with its voice through any       *)
(* number of new transcripts, of any meetings and by any job, except where   *)
(* a late edit addressed a speaker.                                         *)
THEOREM NamesStayWithVoices ==
  ASSUME OneEditor, UnmixedVoices
  PROVE  TextSpec => []NamesFollowVoices
<1>1. TextInit => NamesInv
  BY DEF TextInit, NamesInv, RightlyNamed, ToldTruth
<1>2. (TablesInv /\ VoiceInv) /\ NamesInv /\ [TextNext]_<<voiceVars, textVars>> => NamesInv'
  BY NamesKept
<1>3. NamesInv => NamesFollowVoices
  BY RightNames DEF NamesInv
<1>4. QED BY <1>1, <1>2, <1>3, TablesAlways, PTL DEF TextSpec
=============================================================================
