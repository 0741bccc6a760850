--------------------------- MODULE SpeakerAlignment ---------------------------
(***************************************************************************)
(* Who said what in an uploaded recording: align_speakers_to_segments       *)
(* (app/services/speaker_alignment.py) gives the segments of the transcript    *)
(* to the turns pyannote finds.  A word is its number in the recording; a   *)
(* speaker is a positive number, compared as the labels are.                *)
(***************************************************************************)
EXTENDS Integers, Sequences, SequencesExt, FiniteSetsExt

CONSTANTS
  Speakers,      \* 1..Speakers are the labels of the turns
  MaxTurns,
  WordCount,     \* words of the recording
  Duration,      \* of the recording
  MaxMargin,     \* bound: how far a segment reaches beyond its words
  GapTolerance

ASSUME AlignmentAssumption ==
  /\ {Speakers, MaxTurns, WordCount, Duration, MaxMargin, GapTolerance} \subseteq Nat
  /\ WordCount \in 1..Duration

VARIABLES
  stage,      \* "transcribed", "diarized" or "aligned"
  turns, asrSegments, aligned

alignVars == <<stage, turns, asrSegments, aligned>>

NoSpeaker == 0

Turn == {t \in [from : 0..Duration, to : 0..Duration, speaker : 1..Speakers] : t.from < t.to}

(* The turns in the order of _valid_turns.                                  *)
InTurnOrder(t, u) ==
  \/ t.from < u.from
  \/ t.from = u.from /\ (t.to < u.to \/ (t.to = u.to /\ t.speaker <= u.speaker))

(* _speaker_for_interval: who overlaps it most, the greatest of equals; else *)
(* who is nearest, the least of equals, if near enough.                      *)
SharedTime(i, t) == Max({0, Min({i.to, t.to}) - Max({i.from, t.from})})
OverlapOf(i, s) ==
  LET sum[n \in 0..Len(turns)] ==
        IF n = 0 THEN 0
        ELSE sum[n - 1] + (IF turns[n].speaker = s THEN SharedTime(i, turns[n]) ELSE 0)
  IN sum[Len(turns)]
DistanceTo(i, t) == Max({t.from - i.to, i.from - t.to, 0})

Surpasses(i, s, r) ==
  OverlapOf(i, s) > OverlapOf(i, r) \/ (OverlapOf(i, s) = OverlapOf(i, r) /\ s >= r)

SpeakerOfInterval(i) ==
  LET near == Min({DistanceTo(i, turns[n]) : n \in DOMAIN turns})
  IN IF \E s \in 1..Speakers : OverlapOf(i, s) > 0
     THEN CHOOSE s \in 1..Speakers : \A r \in 1..Speakers : Surpasses(i, s, r)
     ELSE IF near <= GapTolerance
          THEN Min({turns[n].speaker : n \in {m \in DOMAIN turns : DistanceTo(i, turns[m]) = near}})
          ELSE NoSpeaker

(* _absolute_words: times that all fit into the duration of a segment that   *)
(* begins later than 0 are taken to be relative to it.                       *)
SeemsRelative(seg) ==
  seg.words # <<>> /\ seg.from > 0 /\ \A i \in DOMAIN seg.words : seg.words[i].to <= seg.to - seg.from
Absolute(seg) ==
  LET moved == IF SeemsRelative(seg) THEN seg.from ELSE 0
  IN [i \in DOMAIN seg.words |->
        [id |-> seg.words[i].id, from |-> seg.words[i].from + moved, to |-> seg.words[i].to + moved]]

SpeakerOfWord(seg, w) == IF SpeakerOfInterval(w) # NoSpeaker THEN SpeakerOfInterval(w) ELSE SpeakerOfInterval(seg)

(* A word joins the last group if it has its speaker, else begins one.      *)
Longer(group, w) ==
  [from |-> group.from, to |-> w.to, speaker |-> group.speaker,
   text |-> Append(group.text, w.id), words |-> Append(group.words, w)]
WithWord(groups, w, s) ==
  IF groups # <<>> /\ Last(groups).speaker = s
  THEN [groups EXCEPT ![Len(groups)] = Longer(@, w)]
  ELSE Append(groups, [from |-> w.from, to |-> w.to, speaker |-> s, text |-> <<w.id>>, words |-> <<w>>])

(* A segment by its words, or without any as it is.                         *)
ByWords(seg) ==
  LET words == Absolute(seg)
      groups[n \in 0..Len(words)] ==
        IF n = 0 THEN <<>> ELSE WithWord(groups[n - 1], words[n], SpeakerOfWord(seg, words[n]))
  IN IF words = <<>>
     THEN <<[from |-> seg.from, to |-> seg.to, speaker |-> SpeakerOfInterval(seg),
             text |-> seg.text, words |-> <<>>]>>
     ELSE groups[Len(words)]

Output ==
  LET output[n \in 0..Len(asrSegments)] ==
        IF n = 0 THEN <<>> ELSE output[n - 1] \o ByWords(asrSegments[n])
  IN output[Len(asrSegments)]

(* _merge_adjacent: words only if both have them.                           *)
\* Mutant: the words of the left one are kept.
JoinedKeepingWords(a, b) ==
  [from |-> a.from, to |-> Max({a.to, b.to}), speaker |-> a.speaker, text |-> a.text \o b.text,
   words |-> a.words \o b.words]
Joined(a, b) ==
  [from |-> a.from, to |-> Max({a.to, b.to}), speaker |-> a.speaker, text |-> a.text \o b.text,
   words |-> IF a.words # <<>> /\ b.words # <<>> THEN a.words \o b.words ELSE <<>>]
MergeOne(merged, seg) ==
  IF merged # <<>> /\ Last(merged).speaker = seg.speaker /\ seg.from <= Last(merged).to + GapTolerance
  THEN [merged EXCEPT ![Len(merged)] = Joined(@, seg)]
  ELSE Append(merged, seg)
Merged(items) ==
  LET merged[n \in 0..Len(items)] == IF n = 0 THEN <<>> ELSE MergeOne(merged[n - 1], items[n])
  IN merged[Len(items)]

(* What pyannote finds; the turns of two speakers may overlap.             *)
Diarize ==
  /\ stage = "transcribed" /\ stage' = "diarized"
  /\ \E n \in 0..MaxTurns : \E found \in [1..n -> Turn] :
       /\ \A k \in 1..(n - 1) : InTurnOrder(found[k], found[k + 1])
       /\ turns' = found
  /\ UNCHANGED <<asrSegments, aligned>>

Align ==
  /\ stage = "diarized" /\ stage' = "aligned"
  /\ aligned' =
       IF turns = <<>>
       THEN [i \in DOMAIN asrSegments |->
               [from |-> asrSegments[i].from, to |-> asrSegments[i].to, speaker |-> NoSpeaker,
                text |-> asrSegments[i].text, words |-> asrSegments[i].words]]
       ELSE Merged(Output)
  /\ UNCHANGED <<turns, asrSegments>>

(* What the transcription gives: words of one time unit each, in the order   *)
(* of time, in segments that may be wider than their words, each with or     *)
(* without times.                                                            *)
Rising(f) == \A i, j \in DOMAIN f : i < j => f[i] < f[j]
WordsFrom(start, first, last) ==
  [k \in 1..(last - first + 1) |->
     [id |-> first + k - 1, from |-> start[first + k - 1], to |-> start[first + k - 1] + 1]]
Piece(start, first, last, before, after, timed) ==
  [from |-> Max({0, start[first] - before}), to |-> Min({Duration, start[last] + 1 + after}),
   text |-> [k \in 1..(last - first + 1) |-> first + k - 1],
   words |-> IF timed THEN WordsFrom(start, first, last) ELSE <<>>]

AlignInit ==
  /\ \E start \in {f \in [1..WordCount -> 0..(Duration - 1)] : Rising(f)}, n \in 1..WordCount :
       \E end \in {f \in [0..n -> 0..WordCount] : f[0] = 0 /\ f[n] = WordCount /\ Rising(f)},
          timed \in [1..n -> BOOLEAN], before, after \in 0..MaxMargin :
         asrSegments =
           [i \in 1..n |-> Piece(start, end[i - 1] + 1, end[i], before, after, timed[i])]
  /\ stage = "transcribed" /\ turns = <<>> /\ aligned = <<>>

AlignNext == Diarize \/ Align
AlignSpec == AlignInit /\ [][AlignNext]_alignVars

-----------------------------------------------------------------------------
AlignTypes ==
  \A i \in DOMAIN aligned : aligned[i].speaker \in 0..Speakers /\ aligned[i].from <= aligned[i].to

(* Nothing of the text is lost, invented or moved: from item to item the     *)
(* words are counted from the first to the last; and where an item has words *)
(* they spell its text.                                                      *)
TextSurvives ==
  stage = "aligned" =>
    /\ aligned # <<>> /\ Head(aligned[1].text) = 1 /\ Last(Last(aligned).text) = WordCount
    /\ \A i \in 2..Len(aligned) : Head(aligned[i].text) = Last(aligned[i - 1].text) + 1
    /\ \A i \in DOMAIN aligned :
         LET a == aligned[i]
         IN /\ a.text # <<>> /\ \A k \in 2..Len(a.text) : a.text[k] = a.text[k - 1] + 1
            /\ a.words # <<>> => a.text = [k \in DOMAIN a.words |-> a.words[k].id]

OverlappedBy(w, s) == \A r \in 1..Speakers : OverlapOf(w, r) > 0 <=> r = s

(* A word with times that one speaker's turns alone overlap is that          *)
(* speaker's, except in a segment whose times look relative: the job has     *)
(* made them absolute already (segments_from_asr_result), and they are moved *)
(* once more.                                                                *)
SaidByWhoSpoke ==
  stage = "aligned" =>
    \A i \in DOMAIN asrSegments : ~SeemsRelative(asrSegments[i]) =>
      \A k \in DOMAIN asrSegments[i].words : \A s \in 1..Speakers :
        OverlappedBy(asrSegments[i].words[k], s) =>
          \A j \in DOMAIN aligned :
            asrSegments[i].words[k].id \in Range(aligned[j].text) => aligned[j].speaker = s

(* The aligned transcript has the text it was made of, by who said it.      *)
AlignmentSound == AlignTypes /\ TextSurvives /\ SaidByWhoSpoke
=============================================================================
