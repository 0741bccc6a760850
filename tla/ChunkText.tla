----------------------------- MODULE ChunkText -----------------------------
(***************************************************************************)
(* How a job makes one text of a recording that it transcribes in           *)
(* overlapping chunks: split_audio_into_chunks                              *)
(* (app/services/audio_files.py), and in app/services/meeting_processor.py  *)
(* segments_from_asr_result, reconcile_chunk_boundary and the loop of        *)
(* __call__.                                                                *)
(*                                                                         *)
(* Time is in quarters of a second.  Every word takes WordLength; a chunk   *)
(* hears the words that are in it, and may hear what it holds of the words  *)
(* it cuts.  A token is a sequence of characters, as overlaps are removed   *)
(* character by character.                                                  *)
(***************************************************************************)
EXTENDS Integers, Sequences, SequencesExt, FiniteSetsExt

CONSTANTS
  Token,       \* what a word may be: sequences of characters
  Words,       \* how many words a recording has
  WordLength, ChunkLength, OverlapLength,
  MaxChars     \* max_chars of merge_overlapping_text

ASSUME ChunkAssumption ==
  /\ {Words, WordLength, MaxChars} \subseteq Nat \ {0}
  /\ Token # {} /\ \A t \in Token : t # <<>> /\ t \in Seq(Range(t))
  /\ ChunkLength \in Nat /\ OverlapLength \in 0..(ChunkLength - 1)
  /\ WordLength <= OverlapLength   \* else a word may be in no chunk as a whole

VARIABLES
  said,        \* the words of the recording
  offset,      \* when the first one begins
  results,     \* what the ASR engine gives: "words" with times, one "text",
               \* or several "segments" without words
  done,        \* chunks that are transcribed
  segments     \* asr_segments

chunkVars == <<said, offset, results, done, segments>>

HalfSecond == 2
Length == offset + Words * WordLength

(* split_audio_into_chunks: none starts with less than half a second left.  *)
StartOf(k) == (k - 1) * (ChunkLength - OverlapLength)
EndOf(k) == Min({StartOf(k) + ChunkLength, Length})
Chunks == {k \in 1..Length : Length - StartOf(k) >= HalfSecond}

Flat(q) == FlattenSeq([i \in DOMAIN q |-> q[i].token])

(* The words chunk k may hear, with start and end clamped to it; the middle *)
(* is doubled.                                                              *)
Begin(t) == offset + (t - 1) * WordLength
Whole(k, t) == Begin(t) >= StartOf(k) /\ Begin(t) + WordLength <= EndOf(k)
Cut(k, t) == ~Whole(k, t) /\ Begin(t) < EndOf(k) /\ Begin(t) + WordLength > StartOf(k)
Word(k, t) == [token |-> said[t],
               middle |-> Max({Begin(t), StartOf(k)}) + Min({Begin(t) + WordLength, EndOf(k)})]

(* They are words in a row, from the first to the last (none if last < first). *)
Hearings(k) ==
  LET heard == {r \in (1..(Words + 1)) \X (0..Words) :
                  \A t \in 1..Words :
                    /\ Whole(k, t) => t \in r[1]..r[2]
                    /\ t \in r[1]..r[2] => Whole(k, t) \/ (results # "text" /\ Cut(k, t))}
  IN {[i \in 1..(r[2] - r[1] + 1) |-> Word(k, r[1] + i - 1)] : r \in heard}

(* segments_from_asr_result.                                               *)
Segment(q) == [text |-> Flat(q), words |-> IF results = "words" THEN q ELSE <<>>]
FromResult(q) ==
  IF q = <<>> THEN {<<>>}
  ELSE {<<Segment(q)>>} \cup
       (IF results = "text" THEN {}
        ELSE {<<Segment(SubSeq(q, 1, i)), Segment(SubSeq(q, i + 1, Len(q)))>> : i \in 1..(Len(q) - 1)})

-----------------------------------------------------------------------------
(* How many characters merge_overlapping_text removes: the longest overlap. *)
\* Mutant: an overlap of one character counts as none.
OverlapsFromTwo(left, right) ==
  {n \in 2..Min({Len(left), Len(right), MaxChars}) :
     SubSeq(left, Len(left) - n + 1, Len(left)) = SubSeq(right, 1, n)}
Overlaps(left, right) ==
  {n \in 1..Min({Len(left), Len(right), MaxChars}) :
     SubSeq(left, Len(left) - n + 1, Len(left)) = SubSeq(right, 1, n)}
Removed(left, right) == Max({0} \cup Overlaps(left, right))

(* What is kept of a sequence: its elements at the positions in good.      *)
Kept(q, good) ==
  LET kept[n \in 0..Len(q)] ==
        IF n = 0 THEN <<>> ELSE IF n \in good THEN Append(kept[n - 1], q[n]) ELSE kept[n - 1]
  IN kept[Len(q)]

(* _trim_words_by_boundary: without words a segment stays as it is.        *)
Trim(seg, boundary, before) ==
  LET kept == Kept(seg.words, {i \in DOMAIN seg.words : (seg.words[i].middle <= boundary) = before})
  IN IF seg.words = <<>> THEN seg ELSE [text |-> Flat(kept), words |-> kept]

(* _remove_right_text_overlap: with words, only up to the end of a word.   *)
RemoveOverlap(left, seg) ==
  LET n == Removed(left, seg.text)
      cuts == {i \in DOMAIN seg.words : Flat(SubSeq(seg.words, 1, i)) = SubSeq(seg.text, 1, n)}
  IN IF n = 0 THEN seg
     ELSE IF seg.words = <<>> THEN [seg EXCEPT !.text = SubSeq(@, n + 1, Len(@))]
     ELSE IF cuts = {} THEN seg
     ELSE LET rest == SubSeq(seg.words, Min(cuts) + 1, Len(seg.words))
          IN [text |-> Flat(rest), words |-> rest]

NonEmpty(segs) == Kept(segs, {i \in DOMAIN segs : segs[i].text # <<>>})

(* reconcile_chunk_boundary, and extend.                                   *)
Reconcile(previous, current, boundary) ==
  LET left == NonEmpty([i \in DOMAIN previous |-> Trim(previous[i], boundary, TRUE)])
      right == NonEmpty([i \in DOMAIN current |-> Trim(current[i], boundary, FALSE)])
  IN IF left = <<>> \/ right = <<>> THEN left \o right
     ELSE left \o NonEmpty(<<RemoveOverlap(Last(left).text, right[1])>> \o Tail(right))

Transcribe ==
  /\ done + 1 \in Chunks
  /\ \E q \in Hearings(done + 1) : \E current \in FromResult(q) :
       segments' = IF segments = <<>> \/ current = <<>> THEN segments \o current
                   ELSE Reconcile(segments, current, EndOf(done) + StartOf(done + 1))
  /\ done' = done + 1
  /\ UNCHANGED <<said, offset, results>>

ChunkInit ==
  /\ said \in [1..Words -> Token] /\ offset \in 0..(WordLength - 1)
  /\ results \in {"words", "text", "segments"}
  /\ done = 0 /\ segments = <<>>

ChunkSpec == ChunkInit /\ [][Transcribe]_chunkVars

-----------------------------------------------------------------------------
(* How it is configured and used: an overlap is at most half of a chunk, its  *)
(* words fit in max_chars, and a recording has half a second at least.      *)
OverlapsAreShort ==
  /\ 2 * OverlapLength <= ChunkLength /\ Words * WordLength >= HalfSecond
  /\ \A n \in 1..OverlapLength : n * WordLength <= OverlapLength =>
       \A q \in [1..n -> Token] : Len(FlattenSeq(q)) <= MaxChars

ChunkTypes ==
  /\ done \in 0..Length
  /\ \A i \in DOMAIN segments : segments[i].words # <<>> => segments[i].text = Flat(segments[i].words)

Spoken == FlattenSeq(said)
Written == FlattenSeq([i \in DOMAIN segments |-> segments[i].text])

(* Something is said twice in a row.                                       *)
Repeats(text) ==
  \E i \in DOMAIN text, n \in 1..Len(text) :
    i + 2 * n - 1 <= Len(text) /\ SubSeq(text, i, i + n - 1) = SubSeq(text, i + n, i + 2 * n - 1)

(* How much of a is found in b, in its order.                              *)
Found(a, b) ==
  LET found[n \in 0..Len(b)] ==
        IF n = 0 THEN 0
        ELSE IF found[n - 1] < Len(a) /\ a[found[n - 1] + 1] = b[n] THEN found[n - 1] + 1
        ELSE found[n - 1]
  IN found[Len(b)]
IsSubsequence(a, b) == Found(a, b) = Len(a)

(* A recording in which nothing is said twice in a row comes out word for    *)
(* word from any chunks, when the engine times the words, whatever it hears  *)
(* of words at the edges of a chunk, and when it gives one text per chunk.   *)
(* From segments without words it comes out with nothing missing.  (What is  *)
(* said twice in a row may lose one of the two, meeting_processor.py 37-41.) *)
TextComesOut ==
  done + 1 \notin Chunks /\ ~Repeats(Spoken) =>
    IF results = "segments" THEN IsSubsequence(Spoken, Written) ELSE Written = Spoken
=============================================================================
