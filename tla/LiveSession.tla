----------------------------- MODULE LiveSession -----------------------------
(***************************************************************************)
(* One WebSocket session: the receiver (websocket_endpoint), the processor *)
(* (audio_processor) and the bounded queue between them, from the first    *)
(* frame to the finalization.  Both are coroutines of one event loop: what *)
(* either does from one await to the next is one step.                     *)
(*                                                                         *)
(* Audio is counted in frames of equal length, the unit of every offset:   *)
(* frame n is what the client sent n-th, from 0.  Whether it holds speech  *)
(* is decided when the processor looks at it.  What the finalization does  *)
(* to the tables is in MeetingPipeline.                                    *)
(***************************************************************************)
EXTENDS Integers, Sequences, SequencesExt

CONSTANTS
    QueueSize,      \* audio.queue_size
    SkipThreshold,  \* audio.skip_frame_threshold
    KeepRecent,     \* keep_recent of compute_skip_count
    SilenceLimit,   \* SILENCE_THRESHOLD_SECONDS
    MaxSegment,     \* audio.max_segment_seconds
    Carry,          \* the 0.5 s kept as context
    MinSegment,     \* the 0.1 s below which nothing is recognized
    CapFrames,      \* audio.upload_max_duration
    MaxFrames,      \* bound: frames the client sends
    MaxFaults       \* bound: database calls and messages that fail

ASSUME SessionAssumption ==
    /\ QueueSize \in Nat \ {0} /\ SilenceLimit \in Nat \ {0}
    /\ SkipThreshold \in Nat /\ KeepRecent \in Nat
    /\ MinSegment \in Nat /\ Carry \in Nat \ {0} /\ MaxSegment \in Nat
    /\ Carry < MaxSegment
    /\ CapFrames \in Nat /\ MaxFrames \in Nat \ {0} /\ MaxFaults \in Nat

VARIABLES
    receiver,     \* what the endpoint awaits
    stop,         \* stop_event
    received,     \* _received_audio_samples
    queue,        \* the asyncio.Queue, of frames
    dropped,      \* frames that were queued and never looked at (history)
    meetings,     \* rows created for this session (history)
    meetingId,    \* _meeting_id, 0 if not set
    recording,    \* the WAV file and its writer
    proc,         \* the processor's program counter, and the call it makes
    voice,        \* its speech state machine
    counter,      \* _seq_counter
    rows,         \* the transcript rows, in the order they were appended
    outcome,      \* what the finalization did
    faults

receiverVars == <<receiver, received, meetings, meetingId, recording, outcome>>
procVars == <<proc, voice, counter, rows>>
vars == <<receiver, stop, received, queue, dropped, meetings, meetingId, recording,
          proc, voice, counter, rows, outcome, faults>>

Frames == 0..(MaxFrames - 1)

\* Awaiting a message; in _append_live_audio, creating the meeting or saving
\* the path; creating the meeting for a rename; in the finally clause, waiting
\* for the processor for up to 30 s, then for up to 120 s; finished.
ReceiverPcs == {"recv", "create", "path", "rename", "draining", "deferred", "over"}

\* Between two frames; awaiting one; awaiting the slot and the models, the
\* meeting's creation, the row's insertion; ended after the queue was drained,
\* because the session was idle, or by an exception.
ProcPcs == {"loop", "get", "model", "create", "append", "done", "idle", "dead"}

\* Why _process_speech_segment was called.
Reasons == {"none", "timeout", "gap", "full", "silence", "flush"}

Proc == [pc      : ProcPcs,
         why     : Reasons,
         frame   : Frames,              \* the frame at hand during a "gap" call
         meeting : Nat]                 \* what _ensure_live_meeting returned

Voice == [speaking : BOOLEAN,           \* STATE_SPEECH
          buffer   : Seq(Frames),       \* speech_buffer
          start    : 0..MaxFrames,      \* speech_start_sample
          silence  : 0..SilenceLimit,   \* silence_sample_count while speaking
          last     : 0..MaxFrames]      \* last_processed_end_sample, 0 for None

\* Not in a call of _process_speech_segment, and not speaking.
Idling(pc) == [pc |-> pc, why |-> "none", frame |-> 0, meeting |-> 0]

Quiet(last) == [speaking |-> FALSE, buffer |-> <<>>, start |-> 0, silence |-> 0, last |-> last]

Recording == [open : BOOLEAN,           \* _audio_writer
              owner : Nat,              \* the meeting in the file's name
              saved : BOOLEAN,          \* audio_path is in the table
              frames : Seq(Frames),
              capped : BOOLEAN]         \* _live_audio_capped

\* start_time and end_time, the audio they came from, the number sent with the
\* result and the one announced last.
Row == [from : 0..MaxFrames, to : Nat, frames : Seq(Frames),
        seq : Nat, announced : Nat, meeting : Nat]

\* Nothing yet; the session was finalized with a refinement job, or without;
\* and whether the processor still owned work then.
Outcomes == [state : {"none", "queued", "kept"}, early : BOOLEAN]

TypeOK ==
    /\ receiver \in ReceiverPcs
    /\ stop \in BOOLEAN
    /\ received \in 0..MaxFrames
    /\ queue \in Seq(Frames) /\ Len(queue) <= QueueSize
    /\ dropped \subseteq Frames
    /\ meetings \in Nat /\ meetingId \in 0..meetings
    /\ recording \in Recording
    /\ proc \in Proc
    /\ voice \in Voice
    /\ counter \in [last : Nat, pending : Nat]
    /\ rows \in Seq(Row)
    /\ outcome \in Outcomes
    /\ faults \in 0..MaxFaults

Init ==
    /\ receiver = "recv" /\ stop = FALSE
    /\ received = 0 /\ queue = <<>> /\ dropped = {}
    /\ meetings = 0 /\ meetingId = 0
    /\ recording = [open |-> FALSE, owner |-> 0, saved |-> FALSE,
                    frames |-> <<>>, capped |-> FALSE]
    /\ proc = Idling("loop") /\ voice = Quiet(0)
    /\ counter = [last |-> 0, pending |-> 0]
    /\ rows = <<>>
    /\ outcome = [state |-> "none", early |-> FALSE]
    /\ faults = 0

Fault == faults < MaxFaults /\ faults' = faults + 1

-----------------------------------------------------------------------------
(* The receiver.                                                           *)

\* Mutant: a full queue grows.
EnqueueGrowing ==
    /\ received' = received + 1
    /\ queue' = Append(queue, received)
    /\ receiver' = IF stop THEN "draining" ELSE "recv"
    /\ UNCHANGED dropped

\* _make_audio_queue_item, put_nowait with the oldest frame making room, and
\* the test of stop_event that follows.
Enqueue ==
    /\ received' = received + 1
    /\ IF Len(queue) < QueueSize
       THEN queue' = Append(queue, received) /\ UNCHANGED dropped
       ELSE queue' = Append(Tail(queue), received) /\ dropped' = dropped \cup {Head(queue)}
    /\ receiver' = IF stop THEN "draining" ELSE "recv"

Hears == receiver = "recv" /\ received < MaxFrames

\* Mutant: the cap stops the writer and leaves no mark.
AudioCappedQuietly ==
    /\ Hears /\ received > CapFrames
    /\ Enqueue
    /\ UNCHANGED <<stop, meetings, meetingId, recording, procVars, outcome, faults>>

AudioCapped ==
    /\ Hears /\ received > CapFrames
    /\ recording' = [recording EXCEPT !.capped = TRUE]
    /\ Enqueue
    /\ UNCHANGED <<stop, meetings, meetingId, procVars, outcome, faults>>

AudioWritten ==
    /\ Hears /\ received <= CapFrames
    /\ meetingId # 0 /\ recording.open
    /\ recording' = [recording EXCEPT !.frames = Append(@, received)]
    /\ Enqueue
    /\ UNCHANGED <<stop, meetings, meetingId, procVars, outcome, faults>>

OpenFile(id) ==
    /\ recording' = [recording EXCEPT !.open = TRUE, !.owner = id]
    /\ receiver' = "path"

AudioOpensFile ==
    /\ Hears /\ received <= CapFrames
    /\ meetingId # 0 /\ ~recording.open
    /\ OpenFile(meetingId)
    /\ UNCHANGED <<stop, received, queue, dropped, meetings, meetingId, procVars, outcome, faults>>

\* Mutant: the meeting is created while the frame is already queued.
AudioQueuedFirst ==
    /\ Hears /\ received <= CapFrames
    /\ meetingId = 0
    /\ receiver' = "create"
    /\ received' = received + 1
    /\ queue' = IF Len(queue) < QueueSize THEN Append(queue, received) ELSE queue
    /\ UNCHANGED <<stop, dropped, meetings, meetingId, recording, procVars, outcome, faults>>

AudioNeedsMeeting ==
    /\ Hears /\ received <= CapFrames
    /\ meetingId = 0
    /\ receiver' = "create"
    /\ UNCHANGED <<stop, received, queue, dropped, meetings, meetingId, recording, procVars,
                   outcome, faults>>

NewMeeting == meetings' = meetings + 1 /\ meetingId' = meetings + 1

CreateForAudio ==
    /\ receiver = "create"
    /\ NewMeeting
    /\ OpenFile(meetings + 1)
    /\ UNCHANGED <<stop, received, queue, dropped, procVars, outcome, faults>>

SavePath ==
    /\ receiver = "path"
    /\ recording' = [recording EXCEPT !.saved = TRUE, !.frames = Append(@, received)]
    /\ Enqueue
    /\ UNCHANGED <<stop, meetings, meetingId, procVars, outcome, faults>>

\* The creation fails, or the message that reports it, or the saving of the
\* path: the frame is not written, and is queued all the same.
AudioFault ==
    /\ receiver \in {"create", "path"}
    /\ Fault
    /\ Enqueue
    /\ (receiver = "create" /\ NewMeeting) \/ UNCHANGED <<meetings, meetingId>>
    /\ UNCHANGED <<stop, recording, procVars, outcome>>

\* A rename before the first frame; later ones only change the title.
Rename ==
    /\ receiver = "recv" /\ meetingId = 0
    /\ receiver' = "rename"
    /\ UNCHANGED <<stop, received, queue, dropped, meetings, meetingId, recording, procVars,
                   outcome, faults>>

CreateForRename ==
    /\ receiver = "rename"
    /\ NewMeeting
    /\ receiver' = IF stop THEN "draining" ELSE "recv"
    /\ UNCHANGED <<stop, received, queue, dropped, recording, procVars, outcome, faults>>

StopReceiving ==
    /\ stop' = TRUE
    /\ receiver' = "draining"
    /\ UNCHANGED <<received, queue, dropped, meetings, meetingId, recording, procVars, outcome>>

\* The client leaves, falls silent or loses its credentials.
Leave == receiver = "recv" /\ StopReceiving /\ UNCHANGED faults

RenameFault == receiver = "rename" /\ Fault /\ StopReceiving

-----------------------------------------------------------------------------
(* The processor.                                                          *)

Ended == proc.pc \in {"done", "idle", "dead"}

Kept(n) == IF KeepRecent = 0 THEN 1 ELSE IF KeepRecent < n THEN KeepRecent ELSE n

SkipCount == IF Len(queue) <= SkipThreshold THEN 0 ELSE Len(queue) - Kept(Len(queue))

LongEnough(buffer) == Len(buffer) > MinSegment

Speaking(buffer, start, silence, last) ==
    [speaking |-> TRUE, buffer |-> buffer, start |-> start, silence |-> silence, last |-> last]

LoopsWith(v) == voice' = v /\ proc' = Idling("loop")

\* Into _process_speech_segment; f is the frame to go on with afterwards.
Calls(why, f) == proc' = [pc |-> "model", why |-> why, frame |-> f, meeting |-> 0]

\* The loop's body from the classification of frame f on; v is the speech state
\* before it and c the sequence counter.

\* Silence after speech: it is counted, and not buffered.
HearPause(v, f) ==
    LET silence == v.silence + 1
        q == Speaking(v.buffer, v.start, silence, f + 1)
    IN \/ silence < SilenceLimit /\ LoopsWith(q)
       \/ silence >= SilenceLimit /\ LongEnough(v.buffer) /\ voice' = q /\ Calls("silence", 0)
       \/ silence >= SilenceLimit /\ ~LongEnough(v.buffer) /\ LoopsWith(Quiet(f + 1))

HearMore(v, f) ==
    LET buffer == Append(v.buffer, f)
        q == Speaking(buffer, v.start, 0, f + 1)
    IN \/ Len(buffer) < MaxSegment /\ LoopsWith(q)
       \/ Len(buffer) >= MaxSegment /\ voice' = q /\ Calls("full", 0)

\* Speech begins: its placeholder is announced.
HearFirst(f, c) ==
    /\ LoopsWith(Speaking(<<f>>, f, 0, f + 1))
    /\ counter' = [last |-> c.last + 1, pending |-> c.last + 1]
    /\ UNCHANGED stop

\* Nothing is said, and perhaps has not been for timeout_seconds.
HearNothing(f) ==
    /\ voice' = Quiet(f + 1)
    /\ \/ proc' = Idling("loop") /\ UNCHANGED stop
       \/ proc' = Idling("idle") /\ stop' = TRUE

Hear(v, f, c) ==
    \/ v.speaking /\ (HearPause(v, f) \/ HearMore(v, f)) /\ counter' = c /\ UNCHANGED stop
    \/ ~v.speaking /\ HearFirst(f, c)
    \/ ~v.speaking /\ HearNothing(f) /\ counter' = c

\* Mutant: the start of the segment stays where the first one began.
CarryOverStale(v) ==
    Speaking(IF Len(v.buffer) > Carry
             THEN SubSeq(v.buffer, Len(v.buffer) - Carry + 1, Len(v.buffer)) ELSE <<>>,
             v.start, 0, v.last)

\* After a segment that reached the limit its end is kept as context.
CarryOver(v) ==
    LET n == IF Len(v.buffer) > Carry THEN Carry ELSE 0
    IN Speaking(SubSeq(v.buffer, Len(v.buffer) - n + 1, Len(v.buffer)),
                IF v.last > n THEN v.last - n ELSE 0, 0, v.last)

\* What follows a call of _process_speech_segment.
Resume(c) ==
    \/ proc.why = "gap" /\ Hear(Quiet(voice.last), proc.frame, c)
    \/ /\ \/ proc.why = "full" /\ LoopsWith(CarryOver(voice))
          \/ proc.why \in {"timeout", "silence"} /\ LoopsWith(Quiet(voice.last))
          \/ proc.why = "flush" /\ voice' = Quiet(voice.last) /\ proc' = Idling("done")
       /\ counter' = c /\ UNCHANGED stop

\* The end of the loop, with what is left in the buffer.
Finish ==
    IF voice.speaking /\ LongEnough(voice.buffer)
    THEN Calls("flush", 0) /\ UNCHANGED voice
    ELSE proc' = Idling("done") /\ voice' = Quiet(voice.last)

\* Its condition held: older frames are skipped, and the next is awaited.
Await ==
    /\ queue' = SubSeq(queue, SkipCount + 1, Len(queue))
    /\ dropped' = dropped \cup {queue[i] : i \in 1..SkipCount}
    /\ proc' = Idling("get")
    /\ UNCHANGED voice

\* Mutant: the loop ends as soon as the receiver stops.
LoopUndrained ==
    /\ proc.pc = "loop"
    /\ \/ stop /\ Finish /\ UNCHANGED <<queue, dropped>>
       \/ ~stop /\ Await
    /\ UNCHANGED <<receiverVars, stop, counter, rows, faults>>

\* The head of the loop: it ends once nothing is left to drain.
Loop ==
    /\ proc.pc = "loop"
    /\ \/ stop /\ queue = <<>> /\ Finish /\ UNCHANGED <<queue, dropped>>
       \/ ~(stop /\ queue = <<>>) /\ Await
    /\ UNCHANGED <<receiverVars, stop, counter, rows, faults>>

\* Nothing arrived for a second: what has been said is recognized.
GetTimeout ==
    /\ proc.pc = "get" /\ queue = <<>>
    /\ \/ voice.buffer = <<>> /\ LoopsWith(voice)
       \/ voice.buffer # <<>> /\ Len(voice.buffer) < MinSegment /\ LoopsWith(Quiet(voice.last))
       \/ /\ voice.buffer # <<>> /\ Len(voice.buffer) >= MinSegment
          /\ Calls("timeout", 0) /\ UNCHANGED voice
    /\ UNCHANGED <<receiverVars, stop, queue, dropped, counter, rows, faults>>

\* Mutant: frames on both sides of a gap are joined.
GetJoined ==
    /\ proc.pc = "get" /\ queue # <<>>
    /\ queue' = Tail(queue)
    /\ Hear(voice, Head(queue), counter)
    /\ UNCHANGED <<receiverVars, dropped, rows, faults>>

\* The next frame.  If others were dropped before it, what was said before the
\* gap is recognized first.
Get ==
    /\ proc.pc = "get" /\ queue # <<>>
    /\ queue' = Tail(queue)
    /\ LET f == Head(queue)
           gap == voice.last # 0 /\ f > voice.last
           said == voice.speaking /\ LongEnough(voice.buffer)
       IN \/ gap /\ said /\ Calls("gap", f) /\ UNCHANGED <<voice, counter, stop>>
          \/ gap /\ ~said /\ Hear(Quiet(voice.last), f, counter)
          \/ ~gap /\ Hear(voice, f, counter)
    /\ UNCHANGED <<receiverVars, dropped, rows, faults>>

\* The models are done: there is text, and somewhere to put it or not yet.
Recognized ==
    /\ proc.pc = "model"
    /\ proc' = [pc |-> IF meetingId = 0 THEN "create" ELSE "append", why |-> proc.why,
                frame |-> proc.frame, meeting |-> meetingId]
    /\ UNCHANGED <<receiverVars, stop, queue, dropped, voice, counter, rows, faults>>

\* An error, a result that is not final, no text, or (once the meeting is
\* there) nothing that was not said before.
NothingNew ==
    /\ proc.pc \in {"model", "append"}
    /\ Resume(counter)
    /\ UNCHANGED <<receiverVars, queue, dropped, rows, faults>>

CreateForText ==
    /\ proc.pc = "create"
    /\ NewMeeting
    /\ proc' = [pc |-> "append", why |-> proc.why, frame |-> proc.frame,
                meeting |-> meetings + 1]
    /\ UNCHANGED <<receiver, stop, received, queue, dropped, recording, voice, counter, rows,
                   outcome, faults>>

\* Nobody catches the exception but the flush: the session goes on unheard.
CreateFault ==
    /\ proc.pc = "create"
    /\ Fault
    /\ proc' = IF proc.why = "flush" THEN Idling("done") ELSE Idling("dead")
    /\ voice' = Quiet(voice.last)
    /\ NewMeeting \/ UNCHANGED <<meetings, meetingId>>
    /\ UNCHANGED <<receiver, stop, received, queue, dropped, recording, counter, rows, outcome>>

\* The row of the segment in the buffer, with the number it is sent with.
NewRow(c) ==
    [from |-> voice.start, to |-> voice.start + Len(voice.buffer), frames |-> voice.buffer,
     seq |-> c.pending, announced |-> c.last, meeting |-> proc.meeting]

\* Mutant: the number of the placeholder is read and not cleared.
AppendRowUncleared ==
    /\ proc.pc = "append"
    /\ rows' = Append(rows, NewRow(counter))
    /\ Resume(counter)
    /\ UNCHANGED <<receiverVars, queue, dropped, faults>>

\* The row is stored, then sent with the number of its placeholder.
AppendRow ==
    /\ proc.pc = "append"
    /\ rows' = Append(rows, NewRow(counter))
    /\ Resume([last |-> counter.last, pending |-> 0])
    /\ UNCHANGED <<receiverVars, queue, dropped, faults>>

AppendFault ==
    /\ proc.pc = "append"
    /\ Fault
    /\ Resume(counter)
    /\ UNCHANGED <<receiverVars, queue, dropped, rows>>

-----------------------------------------------------------------------------
(* The end.                                                                *)

\* A refinement is queued over a recording that is complete.
Finalize(early) ==
    /\ receiver' = "over"
    /\ recording' = [recording EXCEPT !.open = FALSE]
    /\ outcome' = [state |-> IF recording.saved /\ ~recording.capped THEN "queued" ELSE "kept",
                   early |-> early]
    /\ UNCHANGED <<stop, received, queue, dropped, meetings, meetingId, procVars, faults>>

ProcessorGone == receiver \in {"draining", "deferred"} /\ Ended /\ Finalize(FALSE)

\* PROCESSOR_DRAIN_TIMEOUT_SECONDS
DrainTimeout ==
    /\ receiver = "draining" /\ ~Ended
    /\ receiver' = "deferred"
    /\ recording' = [recording EXCEPT !.open = FALSE]
    /\ UNCHANGED <<stop, received, queue, dropped, meetings, meetingId, procVars, outcome, faults>>

\* Mutant: a deferred session waits for its processor without limit.
NeverGiveUp == FALSE

\* DEFERRED_PROCESSOR_TIMEOUT_SECONDS
GiveUp == receiver = "deferred" /\ ~Ended /\ Finalize(TRUE)

\* The server shuts down during the drain.
ShutDown == receiver = "draining" /\ ~Ended /\ Finalize(TRUE)

-----------------------------------------------------------------------------

Receives ==
    \/ AudioCapped \/ AudioWritten \/ AudioOpensFile \/ AudioNeedsMeeting
    \/ Rename \/ Leave

\* What the receiver's awaits of threads and time-outs lead to.
ReceiverGoesOn ==
    \/ CreateForAudio \/ SavePath \/ CreateForRename
    \/ ProcessorGone \/ DrainTimeout \/ GiveUp

ProcessorGoesOn == Loop \/ Get \/ GetTimeout \/ CreateForText \/ AppendRow

Next ==
    \/ Receives \/ ReceiverGoesOn \/ ShutDown
    \/ ProcessorGoesOn \/ Recognized \/ NothingNew
    \/ AudioFault \/ RenameFault \/ CreateFault \/ AppendFault

(***************************************************************************)
(* Fairness: threads return, time-outs fire, and the event loop runs what  *)
(* is ready; a receiver whose session was stopped gets a message or its    *)
(* time-out.  A model may keep its caller waiting for ever.                *)
(***************************************************************************)
Spec == Init /\ [][Next]_vars

FairSpec ==
    /\ Spec
    /\ WF_vars(ReceiverGoesOn)
    /\ WF_vars(ProcessorGoesOn)
    /\ WF_vars(stop /\ Leave)

-----------------------------------------------------------------------------
(* Properties.                                                             *)

\* A row claims no time outside the speech it was heard in, whatever pauses,
\* gaps and carried context lie in its buffer, and rows are in order of time:
\* the transcript read by start time is the one that was spoken.
RowsOnTimeline ==
    /\ \A i \in DOMAIN rows :
         /\ Head(rows[i].frames) <= rows[i].from
         /\ rows[i].to <= Last(rows[i].frames) + 1
    /\ \A i, k \in DOMAIN rows : i < k => rows[i].from <= rows[k].from

\* Audio on both sides of a dropped frame is never recognized as one piece.
NoJoinAcrossGap ==
    \A i \in DOMAIN rows : \A d \in dropped :
        ~(Head(rows[i].frames) < d /\ d < Last(rows[i].frames))

\* A result carries the number of the placeholder of its own utterance, and no
\* two results carry the same: text without one to replace carries 0.
PairedOnce ==
    /\ \A i \in DOMAIN rows : rows[i].seq \in {0, rows[i].announced}
    /\ \A i, k \in DOMAIN rows : i # k /\ rows[i].seq = rows[k].seq => rows[i].seq = 0

\* Frame n is at position n of the file, so that the times of the rows hold in
\* the recording; and a refinement, which replaces all rows, is queued only over
\* a recording of everything they were heard in.
RefinementHearsAll ==
    faults = 0 =>
        /\ \A n \in DOMAIN recording.frames : recording.frames[n] = n - 1
        /\ outcome.state = "queued" =>
               \A i \in DOMAIN rows : ToSet(rows[i].frames) \subseteq ToSet(recording.frames)

\* Receiver and processor both create the session's meeting when it is missing,
\* and suspend in between: still there is one, which owns the file and the rows.
OneMeeting ==
    faults = 0 =>
        /\ meetings <= 1
        /\ recording.open => recording.owner = meetingId
        /\ \A i \in DOMAIN rows : rows[i].meeting = meetingId

\* A session finalized in order has no work left: every accepted frame was
\* looked at or gave way to a later one, and no row comes after.
NothingLeftBehind ==
    outcome.state # "none" /\ ~outcome.early =>
        Ended /\ (proc.pc = "done" => queue = <<>>)

\* Every session that stops is finalized, even if a model never answers.
SessionIsFinalized == stop ~> receiver = "over"
=============================================================================
