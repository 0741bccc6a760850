------------------------------ MODULE LiveText ------------------------------
(***************************************************************************)
(* What text a live session makes of the speech it buffers: the speech      *)
(* state machine of audio_processor and _process_speech_segment             *)
(* (app/api/websocket.py) with SessionContext.get_incremental_text          *)
(* (app/services/session.py), which removes from what the ASR engine hears  *)
(* the part that was written before.                                        *)
(*                                                                         *)
(* A frame holds one word or silence.  A word is one character.  The engine *)
(* hears what the buffer holds, and may set a point in it.  LiveSession     *)
(* has the queue, the tasks and the failures; here nothing fails.           *)
(***************************************************************************)
EXTENDS Integers, Sequences, SequencesExt, FiniteSetsExt

CONSTANTS
  Letter,        \* words
  LongSegment,   \* frames of audio.max_segment_seconds
  Carried,       \* frames of the 0.5 s that are kept as context
  PauseLength,   \* frames of SILENCE_THRESHOLD_SECONDS
  MaxSaid        \* bound: words spoken

ASSUME LiveTextAssumption ==
  /\ "." \notin Letter /\ {PauseLength, MaxSaid, Carried} \subseteq Nat \ {0}
  /\ LongSegment \in Nat /\ Carried < LongSegment

VARIABLES
  spoken,    \* the words the processor took from the queue (history)
  hearing,   \* STATE_SPEECH
  buffer,    \* speech_buffer
  again,     \* how many of its words were in the buffer before (history)
  pause,     \* silence_sample_count
  full,      \* last_full_text
  lines,     \* the transcript rows
  stretch,   \* the words since the context was last forgotten (history)
  repeats    \* a word was said twice in one stretch (history)

liveTextVars == <<spoken, hearing, buffer, again, pause, full, lines, stretch, repeats>>

(* Without the marks.                                                      *)
Normal(text) ==
  LET kept[n \in 0..Len(text)] ==
        IF n = 0 THEN <<>> ELSE IF text[n] = "." THEN kept[n - 1] ELSE Append(kept[n - 1], text[n])
  IN kept[Len(text)]

StartsWith(text, prefix) == IsPrefix(prefix, text)
Holds(text, part) == \E i \in 0..(Len(text) - Len(part)) : SubSeq(text, i + 1, i + Len(part)) = part

(* How much of the end of old new begins with.                             *)
CommonEdge(old, new) ==
  Max({n \in 1..Min({Len(old), Len(new)}) : SubSeq(old, Len(old) - n + 1, Len(old)) = SubSeq(new, 1, n)}
      \cup {0})

(* _extract_after_position: what follows the n-th character that is no mark. *)
\* Mutant: the position counts the marks.
AfterRaw(text, n) == IF n >= Len(Normal(text)) THEN <<>> ELSE SubSeq(text, n + 1, Len(text))
After(text, n) ==
  IF n >= Len(Normal(text)) THEN <<>>
  ELSE LET at == CHOOSE i \in DOMAIN text : text[i] # "." /\ Len(Normal(SubSeq(text, 1, i))) = n
       IN SubSeq(text, at + 1, Len(text))

(* get_incremental_text.  Its last test, against last_output_text, never     *)
(* holds: that is always a suffix of last_full_text.                         *)
Increment(old, new) ==
  LET o == Normal(old) n == Normal(new)
  IN IF o = <<>> THEN new
     ELSE IF StartsWith(n, o) THEN After(new, Len(o))
     ELSE IF Holds(o, n) THEN <<>>
     ELSE IF CommonEdge(o, n) > 0 THEN After(new, CommonEdge(o, n)) ELSE new

(* _words_for_incremental_text: words only if they spell the increment.     *)
WordsFor(words, whole, part) ==
  IF part = whole THEN words
  ELSE LET from == Len(whole) - Len(part)
       IN IF from <= Len(words) /\ SubSeq(words, 1, from) = SubSeq(whole, 1, from)
             /\ SubSeq(words, from + 1, Len(words)) = part
          THEN part ELSE <<>>

(* The engine sets at most one point.                                      *)
Texts(heard) == {heard} \cup {InsertAt(heard, i, ".") : i \in 2..(Len(heard) + 1)}

(* _process_speech_segment.                                                *)
Recognize(heard) ==
  \E text \in Texts(heard) :
    LET part == Increment(full, text)
    IN IF Normal(part) = <<>> THEN UNCHANGED <<full, lines>>
       ELSE /\ full' = text
            /\ lines' = Append(lines, [text |-> part, words |-> WordsFor(heard, text, part)])

(* The same, when the context is forgotten after it.                       *)
RecognizeLast(heard) ==
  \E text \in Texts(heard) :
    LET part == Increment(full, text)
    IN /\ full' = <<>>
       /\ lines' = IF Normal(part) = <<>> THEN lines
                   ELSE Append(lines, [text |-> part, words |-> WordsFor(heard, text, part)])

-----------------------------------------------------------------------------
Listen(w) ==
  /\ spoken' = Append(spoken, w) /\ pause' = 0
  /\ stretch' = stretch \cup {w} /\ repeats' = (repeats \/ w \in stretch)

(* A frame of speech: the first after a silence, or one more.              *)
StartsSpeaking ==
  /\ ~hearing /\ Len(spoken) < MaxSaid
  /\ \E w \in Letter : Listen(w) /\ buffer' = <<w>>
  /\ hearing' = TRUE /\ again' = 0
  /\ UNCHANGED <<full, lines>>

GoesOn ==
  /\ hearing /\ Len(spoken) < MaxSaid /\ Len(buffer) + 1 < LongSegment
  /\ \E w \in Letter : Listen(w) /\ buffer' = Append(buffer, w)
  /\ UNCHANGED <<hearing, again, full, lines>>

(* The buffer is full: it is recognized, and its end kept as context.      *)
ReachesLimit ==
  /\ hearing /\ Len(spoken) < MaxSaid /\ Len(buffer) + 1 >= LongSegment
  /\ \E w \in Letter :
       /\ Listen(w) /\ Recognize(Append(buffer, w))
       /\ buffer' = LET b == Append(buffer, w) IN SubSeq(b, Len(b) - Carried + 1, Len(b))
  /\ again' = Carried
  /\ UNCHANGED hearing

(* A frame of silence while speaking; enough of them end the segment.      *)
ShortPause ==
  /\ hearing /\ pause + 1 < PauseLength /\ pause' = pause + 1
  /\ UNCHANGED <<spoken, hearing, buffer, again, full, lines, stretch, repeats>>

LongPause ==
  /\ hearing /\ pause + 1 >= PauseLength
  /\ RecognizeLast(buffer)
  /\ hearing' = FALSE /\ buffer' = <<>> /\ again' = 0 /\ pause' = 0 /\ stretch' = {}
  /\ UNCHANGED <<spoken, repeats>>

(* Frames were dropped from the queue.                                     *)
Gap ==
  /\ IF hearing THEN RecognizeLast(buffer) ELSE full' = <<>> /\ UNCHANGED lines
  /\ hearing' = FALSE /\ buffer' = <<>> /\ again' = 0 /\ pause' = 0 /\ stretch' = {}
  /\ UNCHANGED <<spoken, repeats>>

(* No frame for a second: the text before stays the context.               *)
QueueTimeout ==
  /\ buffer # <<>>
  /\ Recognize(buffer)
  /\ hearing' = FALSE /\ buffer' = <<>> /\ again' = 0 /\ pause' = 0
  /\ UNCHANGED <<spoken, stretch, repeats>>

LiveTextInit ==
  /\ spoken = <<>> /\ hearing = FALSE /\ buffer = <<>> /\ again = 0 /\ pause = 0
  /\ full = <<>> /\ lines = <<>> /\ stretch = {} /\ repeats = FALSE

LiveTextNext ==
  \/ StartsSpeaking \/ GoesOn \/ ReachesLimit \/ ShortPause \/ LongPause \/ Gap \/ QueueTimeout
LiveTextSpec == LiveTextInit /\ [][LiveTextNext]_liveTextVars

-----------------------------------------------------------------------------
LiveTextTypes ==
  /\ Range(spoken) \subseteq Letter /\ hearing \in BOOLEAN /\ again \in 0..Carried
  /\ Len(buffer) <= LongSegment /\ pause \in 0..PauseLength
  /\ ~hearing => buffer = <<>>

(* The elements of a are, in their order, among those of b.                *)
IsPartOf(a, b) ==
  \E f \in [DOMAIN a -> DOMAIN b] :
    /\ \A i, j \in DOMAIN a : i < j => f[i] < f[j]
    /\ \A i \in DOMAIN a : a[i] = b[f[i]]

Shown(rows) ==
  LET shown[n \in 0..Len(rows)] == IF n = 0 THEN <<>> ELSE shown[n - 1] \o Normal(rows[n].text)
  IN shown[Len(rows)]

(* The transcript shows nothing twice that was said once, whatever is kept   *)
(* as context, and the words a row keeps spell its text.                     *)
NothingDoubled ==
  /\ IsPartOf(Shown(lines), spoken)
  /\ \A i \in DOMAIN lines :
       lines[i].words # <<>> => lines[i].words = Normal(lines[i].text)

(* It misses nothing: as long as no word is said twice between two pauses,  *)
(* the rows and the part of the buffer they do not hold are what was said.  *)
NothingMissed ==
  ~repeats => Shown(lines) \o SubSeq(buffer, again + 1, Len(buffer)) = spoken

(* What was said is shown once.                                             *)
ShownOnce == LiveTextTypes /\ NothingDoubled /\ NothingMissed
=============================================================================
