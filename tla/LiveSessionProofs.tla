-------------------------- MODULE LiveSessionProofs --------------------------
(***************************************************************************)
(* A live session: its types, its one meeting, the pairing of results with *)
(* placeholders, where rows lie in time, what the recording has of them,   *)
(* and the end.                                                            *)
(***************************************************************************)
EXTENDS LiveSession, TLAPS

USE SessionAssumption

-----------------------------------------------------------------------------
(* The processor's locals.                                                 *)

\* Silence is counted up to its limit only on the way into the call that ends
\* the utterance, and no call is under way between two frames.
Good(p, v) ==
    /\ p \in Proc /\ v \in Voice
    /\ v.silence = SilenceLimit => p.why = "silence"
    /\ p.pc \in {"loop", "get"} => p.why = "none"

Counters == [last : Nat, pending : Nat]

LEMMA IdlingType ==
    ASSUME NEW pc \in ProcPcs
    PROVE  Idling(pc) \in Proc /\ Idling(pc).pc = pc /\ Idling(pc).why = "none"
  BY DEF Idling, Proc, Reasons, Frames

LEMMA QuietType ==
    ASSUME NEW n \in 0..MaxFrames
    PROVE  Quiet(n) \in Voice /\ Quiet(n).silence = 0
  BY DEF Quiet, Voice

LEMMA SpeakingType ==
    ASSUME NEW buffer \in Seq(Frames), NEW start \in 0..MaxFrames,
           NEW silence \in 0..SilenceLimit, NEW n \in 0..MaxFrames
    PROVE  /\ Speaking(buffer, start, silence, n) \in Voice
           /\ Speaking(buffer, start, silence, n).silence = silence
  BY DEF Speaking, Voice

LEMMA LoopsGood ==
    ASSUME NEW v \in Voice, v.silence < SilenceLimit, LoopsWith(v)
    PROVE  Good(proc', voice') /\ proc'.pc = "loop"
  BY IdlingType, "loop" \in ProcPcs DEF LoopsWith, Good, Voice, ProcPcs

LEMMA CallsGood ==
    ASSUME NEW why \in Reasons, NEW f \in Frames, Calls(why, f), voice' \in Voice,
           voice'.silence < SilenceLimit \/ why = "silence"
    PROVE  Good(proc', voice') /\ proc'.pc = "model"
  BY DEF Calls, Good, Voice, Proc, ProcPcs

LEMMA CarryOverType ==
    ASSUME NEW v \in Voice
    PROVE  CarryOver(v) \in Voice /\ CarryOver(v).silence = 0
<1> DEFINE n == IF Len(v.buffer) > Carry THEN Carry ELSE 0
           kept == SubSeq(v.buffer, Len(v.buffer) - n + 1, Len(v.buffer))
           start == IF v.last > n THEN v.last - n ELSE 0
<1>1. v.buffer \in Seq(Frames) /\ v.last \in 0..MaxFrames
  BY DEF Voice
<1>2. n \in Nat /\ n <= Len(v.buffer)
  BY <1>1
<1>3. kept \in Seq(Frames)
  BY <1>1, <1>2
<1>4. start \in 0..MaxFrames
  BY <1>1, <1>2
<1>5. CarryOver(v) = Speaking(kept, start, 0, v.last)
  BY DEF CarryOver
<1> HIDE DEF kept, start
<1> QED
  BY <1>1, <1>3, <1>4, <1>5, SpeakingType

-----------------------------------------------------------------------------
(* A frame is looked at, and what follows a call.                          *)

LEMMA PauseGood ==
    ASSUME NEW v \in Voice, v.silence < SilenceLimit, NEW f \in Frames, HearPause(v, f)
    PROVE  Good(proc', voice') /\ proc'.pc \in {"loop", "model"}
<1> DEFINE silence == v.silence + 1
           q == Speaking(v.buffer, v.start, silence, f + 1)
<1>1. silence \in 0..SilenceLimit /\ f + 1 \in 0..MaxFrames /\ 0 \in Frames
  BY DEF Voice, Frames
<1>2. q \in Voice /\ q.silence = silence
  BY <1>1, SpeakingType DEF Voice
<1>3. Quiet(f + 1) \in Voice /\ Quiet(f + 1).silence = 0
  BY <1>1, QuietType
<1>4. \/ silence < SilenceLimit /\ LoopsWith(q)
      \/ silence >= SilenceLimit /\ voice' = q /\ Calls("silence", 0)
      \/ LoopsWith(Quiet(f + 1))
  BY DEF HearPause
<1> HIDE DEF q, silence
<1> QED
  BY <1>1, <1>2, <1>3, <1>4, LoopsGood, CallsGood, "silence" \in Reasons DEF Reasons

LEMMA MoreGood ==
    ASSUME NEW v \in Voice, NEW f \in Frames, HearMore(v, f)
    PROVE  Good(proc', voice') /\ proc'.pc \in {"loop", "model"}
<1> DEFINE buffer == Append(v.buffer, f)
           q == Speaking(buffer, v.start, 0, f + 1)
<1>1. buffer \in Seq(Frames) /\ f + 1 \in 0..MaxFrames /\ 0 \in Frames /\ 0 \in 0..SilenceLimit
  BY DEF Voice, Frames
<1>0. v.start \in 0..MaxFrames
  BY DEF Voice
<1> HIDE DEF buffer
<1>2. q \in Voice /\ q.silence = 0
  BY <1>0, <1>1, SpeakingType
<1>3. LoopsWith(q) \/ (voice' = q /\ Calls("full", 0))
  BY DEF HearMore, buffer
<1> HIDE DEF q
<1> QED
  BY <1>1, <1>2, <1>3, LoopsGood, CallsGood DEF Reasons

LEMMA HearGood ==
    ASSUME NEW v \in Voice, v.silence < SilenceLimit, NEW f \in Frames,
           NEW c \in Counters, Hear(v, f, c)
    PROVE  /\ Good(proc', voice')
           /\ proc'.pc \in {"loop", "model", "idle"}
           /\ counter' \in Counters
           /\ stop' = stop \/ stop' = TRUE
<1>1. CASE v.speaking /\ (HearPause(v, f) \/ HearMore(v, f)) /\ counter' = c /\ UNCHANGED stop
  BY <1>1, PauseGood, MoreGood
<1>2. CASE HearFirst(f, c)
  <2>1. /\ <<f>> \in Seq(Frames) /\ f \in 0..MaxFrames
        /\ f + 1 \in 0..MaxFrames /\ 0 \in 0..SilenceLimit
    BY DEF Frames
  <2>2. Speaking(<<f>>, f, 0, f + 1) \in Voice /\ Speaking(<<f>>, f, 0, f + 1).silence = 0
    BY <2>1, SpeakingType
  <2>3. counter' \in Counters
    BY <1>2 DEF HearFirst, Counters
  <2> QED
    BY <1>2, <2>2, <2>3, LoopsGood DEF HearFirst
<1>3. CASE HearNothing(f) /\ counter' = c
  <2>1. Quiet(f + 1) \in Voice /\ Quiet(f + 1).silence = 0
    BY QuietType DEF Frames
  <2>2. Good(proc', voice') /\ proc'.pc \in {"loop", "idle"}
    BY <1>3, <2>1, IdlingType DEF HearNothing, Good, ProcPcs
  <2> QED
    BY <1>3, <2>2 DEF HearNothing
<1> QED
  BY <1>1, <1>2, <1>3 DEF Hear

LEMMA ResumeGood ==
    ASSUME Good(proc, voice), NEW c \in Counters, Resume(c)
    PROVE  /\ Good(proc', voice')
           /\ proc'.pc \in {"loop", "model", "idle", "done"}
           /\ counter' \in Counters
           /\ stop' = stop \/ stop' = TRUE
<1>1. proc.frame \in Frames /\ voice \in Voice /\ voice.last \in 0..MaxFrames
  BY DEF Good, Proc, Voice
<1>2. Quiet(voice.last) \in Voice /\ Quiet(voice.last).silence = 0
  BY <1>1, QuietType
<1>3. CASE Hear(Quiet(voice.last), proc.frame, c)
  <2> DEFINE v == Quiet(voice.last)
  <2>1. v \in Voice /\ v.silence < SilenceLimit /\ Hear(v, proc.frame, c)
    BY <1>2, <1>3
  <2> HIDE DEF v
  <2> QED
    BY <1>1, <2>1, HearGood
<1>4. CASE LoopsWith(CarryOver(voice)) /\ counter' = c /\ UNCHANGED stop
  BY <1>1, <1>4, CarryOverType, LoopsGood
<1>5. CASE LoopsWith(Quiet(voice.last)) /\ counter' = c /\ UNCHANGED stop
  BY <1>2, <1>5, LoopsGood
<1>6. CASE voice' = Quiet(voice.last) /\ proc' = Idling("done") /\ counter' = c /\ UNCHANGED stop
  BY <1>2, <1>6, IdlingType DEF Good, ProcPcs
<1> QED
  BY <1>3, <1>4, <1>5, <1>6 DEF Resume

-----------------------------------------------------------------------------
(* Types.                                                                  *)

\* A frame is at hand while the receiver saves it.
Types ==
    /\ TypeOK
    /\ Good(proc, voice)
    /\ receiver \in {"create", "path"} => received < MaxFrames

LEMMA Locals ==
    ASSUME Types
    PROVE  /\ queue \in Seq(Frames) /\ Len(queue) \in Nat /\ received \in Nat
           /\ dropped \subseteq Frames /\ \A d \in dropped : d \in Nat
           /\ rows \in Seq(Row) /\ counter \in Counters /\ voice \in Voice
           /\ voice.last \in 0..MaxFrames /\ voice.start \in 0..MaxFrames
           /\ voice.last \in Nat /\ voice.start \in Nat
           /\ voice.buffer \in Seq(Frames) /\ proc.frame \in Frames /\ proc.frame \in Nat
<1>1. /\ queue \in Seq(Frames) /\ dropped \subseteq Frames /\ received \in Nat
      /\ rows \in Seq(Row) /\ counter \in Counters
  BY DEF Types, TypeOK, Counters
<1>2. proc \in Proc /\ voice \in Voice
  BY DEF Types, Good
<1>3. /\ voice.last \in 0..MaxFrames /\ voice.start \in 0..MaxFrames
      /\ voice.buffer \in Seq(Frames)
  BY <1>2 DEF Voice
<1>4. proc.frame \in Frames
  BY <1>2 DEF Proc
<1>5. Len(queue) \in Nat /\ \A d \in dropped : d \in Nat
  BY <1>1 DEF Frames
<1>6. proc.frame \in Nat /\ voice.last \in Nat /\ voice.start \in Nat
  BY <1>3, <1>4 DEF Frames
<1> QED
  BY <1>1, <1>2, <1>3, <1>4, <1>5, <1>6

LEMMA EnqueueTypes ==
    ASSUME Types, received < MaxFrames, Enqueue
    PROVE  /\ received' \in 0..MaxFrames
           /\ queue' \in Seq(Frames) /\ Len(queue') <= QueueSize
           /\ dropped' \subseteq Frames
           /\ receiver' \in {"recv", "draining"}
<1>1. received \in Frames /\ received + 1 \in 0..MaxFrames
  BY DEF Types, TypeOK, Frames
<1>2. queue \in Seq(Frames) /\ Len(queue) <= QueueSize /\ dropped \subseteq Frames
  BY DEF Types, TypeOK
<1>3. CASE Len(queue) < QueueSize
  BY <1>1, <1>2, <1>3 DEF Enqueue
<1>4. CASE ~(Len(queue) < QueueSize)
  <2>1. queue # <<>>
    BY <1>2, <1>4
  <2>2. Tail(queue) \in Seq(Frames) /\ Len(Tail(queue)) = Len(queue) - 1 /\ Head(queue) \in Frames
    BY <1>2, <2>1
  <2> QED
    BY <1>1, <1>2, <1>4, <2>2 DEF Enqueue
<1> QED
  BY <1>3, <1>4

LEMMA OpenFileTypes ==
    ASSUME Types, NEW id \in Nat, OpenFile(id)
    PROVE  recording' \in Recording /\ receiver' = "path"
  BY DEF OpenFile, Types, TypeOK, Recording

LEMMA AppendedFrameTypes ==
    ASSUME Types, received < MaxFrames
    PROVE  Append(recording.frames, received) \in Seq(Frames)
<1>1. received \in Frames
  BY DEF Types, TypeOK, Frames
<1> QED
  BY <1>1 DEF Types, TypeOK, Recording

LEMMA NewMeetingTypes ==
    ASSUME Types, NewMeeting
    PROVE  meetings' \in Nat /\ meetingId' \in 0..meetings'
  BY DEF NewMeeting, Types, TypeOK

LEMMA FaultTypes ==
    ASSUME Types, Fault
    PROVE  faults' \in 0..MaxFaults
  BY DEF Fault, Types, TypeOK

LEMMA NewRowType ==
    ASSUME Types, NEW c \in Counters
    PROVE  NewRow(c) \in Row
<1>1. /\ voice.start \in 0..MaxFrames /\ voice.buffer \in Seq(Frames)
      /\ proc.meeting \in Nat /\ c.pending \in Nat /\ c.last \in Nat
  BY DEF Types, Good, Voice, Proc, Counters
<1>2. voice.start + Len(voice.buffer) \in Nat
  BY <1>1
<1> QED
  BY <1>1, <1>2 DEF NewRow, Row

\* Moving receiver, processor and queue apart, everything keeps its type.
LEMMA InitTypes == Init => Types
<1> SUFFICES ASSUME Init PROVE Types
  OBVIOUS
<1>1. Good(proc, voice)
  BY IdlingType, QuietType DEF Init, Good, ProcPcs
<1>2. recording \in Recording /\ outcome \in Outcomes
  BY DEF Init, Recording, Outcomes
<1>3. proc \in Proc /\ voice \in Voice
  BY <1>1 DEF Good
<1>4. counter \in [last : Nat, pending : Nat] /\ rows \in Seq(Row) /\ queue \in Seq(Frames)
  BY DEF Init
<1>5. Len(queue) <= QueueSize /\ received \in 0..MaxFrames /\ faults \in 0..MaxFaults
  BY DEF Init
<1>6. /\ receiver \in ReceiverPcs /\ stop \in BOOLEAN /\ dropped \subseteq Frames
      /\ receiver \notin {"create", "path"}
  BY DEF Init, ReceiverPcs
<1>7. meetings \in Nat /\ meetingId \in 0..meetings
  BY DEF Init
<1> QED
  BY <1>1, <1>2, <1>3, <1>4, <1>5, <1>6, <1>7 DEF Types, TypeOK

LEMMA TypesReceiver ==
    ASSUME Types, Receives \/ ReceiverGoesOn \/ ShutDown \/ AudioFault \/ RenameFault
    PROVE  Types'
<1> USE DEF receiverVars, procVars
<1>1. CASE AudioCapped
  <2>1. recording' \in Recording
    BY <1>1 DEF AudioCapped, Types, TypeOK, Recording
  <2> QED
    BY <1>1, <2>1, EnqueueTypes DEF AudioCapped, Hears, Types, TypeOK, ReceiverPcs, Good
<1>2. CASE AudioWritten
  <2>1. recording' \in Recording
    BY <1>2, AppendedFrameTypes DEF AudioWritten, Hears, Types, TypeOK, Recording
  <2> QED
    BY <1>2, <2>1, EnqueueTypes DEF AudioWritten, Hears, Types, TypeOK, ReceiverPcs, Good
<1>3. CASE AudioOpensFile
  <2>1. meetingId \in Nat
    BY DEF Types, TypeOK
  <2> QED
    BY <1>3, <2>1, OpenFileTypes DEF AudioOpensFile, Hears, Types, TypeOK, ReceiverPcs, Good
<1>4. CASE AudioNeedsMeeting
  BY <1>4 DEF AudioNeedsMeeting, Hears, Types, TypeOK, ReceiverPcs, Good
<1>5. CASE Rename \/ Leave
  BY <1>5 DEF Rename, Leave, StopReceiving, Types, TypeOK, ReceiverPcs, Good
<1>6. CASE CreateForAudio
  <2>1. meetings + 1 \in Nat
    BY DEF Types, TypeOK
  <2> QED
    BY <1>6, <2>1, OpenFileTypes, NewMeetingTypes
       DEF CreateForAudio, Types, TypeOK, ReceiverPcs, Good
<1>7. CASE SavePath
  <2>1. recording' \in Recording
    BY <1>7, AppendedFrameTypes DEF SavePath, Types, TypeOK, Recording
  <2> QED
    BY <1>7, <2>1, EnqueueTypes DEF SavePath, Types, TypeOK, ReceiverPcs, Good
<1>8. CASE CreateForRename
  BY <1>8, NewMeetingTypes DEF CreateForRename, Types, TypeOK, ReceiverPcs, Good
<1>9. CASE ProcessorGone \/ GiveUp \/ ShutDown
  <2>1. PICK early \in BOOLEAN : Finalize(early)
    BY <1>9 DEF ProcessorGone, GiveUp, ShutDown
  <2>2. recording' \in Recording /\ outcome' \in Outcomes
    BY <2>1 DEF Finalize, Types, TypeOK, Recording, Outcomes
  <2> QED
    BY <2>1, <2>2 DEF Finalize, Types, TypeOK, ReceiverPcs, Good
<1>10. CASE DrainTimeout
  <2>1. recording' \in Recording
    BY <1>10 DEF DrainTimeout, Types, TypeOK, Recording
  <2> QED
    BY <1>10, <2>1 DEF DrainTimeout, Types, TypeOK, ReceiverPcs, Good
<1>11. CASE AudioFault
  <2>1. meetings' \in Nat /\ meetingId' \in 0..meetings'
    BY <1>11, NewMeetingTypes DEF AudioFault, Types, TypeOK
  <2> QED
    BY <1>11, <2>1, EnqueueTypes, FaultTypes DEF AudioFault, Types, TypeOK, ReceiverPcs, Good
<1>12. CASE RenameFault
  BY <1>12, FaultTypes DEF RenameFault, StopReceiving, Types, TypeOK, ReceiverPcs, Good
<1> QED
  BY <1>1, <1>2, <1>3, <1>4, <1>5, <1>6, <1>7, <1>8, <1>9, <1>10, <1>11, <1>12
     DEF Receives, ReceiverGoesOn

LEMMA TypesProcessor ==
    ASSUME Types, ProcessorGoesOn \/ Recognized \/ NothingNew \/ CreateFault \/ AppendFault
    PROVE  Types'
<1> USE DEF receiverVars, procVars
<1>0. /\ queue \in Seq(Frames) /\ dropped \subseteq Frames /\ voice \in Voice
      /\ voice.last \in 0..MaxFrames /\ counter \in Counters /\ rows \in Seq(Row)
      /\ 0 \in Frames
  BY Locals DEF Frames
<1>1. CASE Loop
  <2>1. CASE Finish /\ UNCHANGED <<queue, dropped>>
    <3>1. CASE Calls("flush", 0) /\ UNCHANGED voice
      <4>1. voice'.silence < SilenceLimit /\ voice' \in Voice
        BY <1>0, <1>1, <3>1 DEF Loop, Types, Good, Voice
      <4> QED
        BY <1>0, <1>1, <2>1, <3>1, <4>1, CallsGood DEF Loop, Types, TypeOK, Reasons, Good
    <3>2. CASE proc' = Idling("done") /\ voice' = Quiet(voice.last)
      <4>1. Good(proc', voice')
        BY <1>0, <3>2, IdlingType, QuietType DEF Good, ProcPcs
      <4> QED
        BY <1>1, <2>1, <3>2, <4>1 DEF Loop, Types, TypeOK, Good
    <3> QED
      BY <2>1, <3>1, <3>2 DEF Finish
  <2>2. CASE Await
    <3>1. SkipCount \in 0..Len(queue)
      BY <1>0 DEF SkipCount, Kept
    <3>2. queue' \in Seq(Frames) /\ Len(queue') <= Len(queue)
      BY <1>0, <2>2, <3>1 DEF Await
    <3>3. dropped' \subseteq Frames
      BY <1>0, <2>2, <3>1 DEF Await
    <3>4. Good(proc', voice')
      BY <1>0, <1>1, <2>2, IdlingType DEF Await, Loop, Types, Good, ProcPcs
    <3> QED
      BY <1>1, <2>2, <3>2, <3>3, <3>4 DEF Loop, Await, Types, TypeOK, Good
  <2> QED
    BY <1>1, <2>1, <2>2 DEF Loop
<1>2. CASE GetTimeout
  <2>1. voice.silence < SilenceLimit
    BY <1>2 DEF GetTimeout, Types, Good, Voice
  <2>2. Good(proc', voice')
    BY <1>0, <1>2, <2>1, QuietType, LoopsGood, CallsGood DEF GetTimeout, Reasons
  <2> QED
    BY <1>2, <2>2 DEF GetTimeout, Types, TypeOK, Good
<1>3. CASE Get
  <2>1. Head(queue) \in Frames /\ Tail(queue) \in Seq(Frames) /\ Len(Tail(queue)) <= Len(queue)
    BY <1>0, <1>3 DEF Get
  <2>2. voice.silence < SilenceLimit
    BY <1>3 DEF Get, Types, Good, Voice
  <2>3. Good(proc', voice') /\ counter' \in Counters /\ (stop' = stop \/ stop' = TRUE)
    <3>1. CASE Calls("gap", Head(queue)) /\ UNCHANGED <<voice, counter, stop>>
      BY <1>0, <2>1, <2>2, <3>1, CallsGood DEF Reasons
    <3>2. CASE Hear(Quiet(voice.last), Head(queue), counter)
      <4> DEFINE v == Quiet(voice.last)
      <4>1. v \in Voice /\ v.silence < SilenceLimit /\ Hear(v, Head(queue), counter)
        BY <1>0, <3>2, QuietType
      <4> HIDE DEF v
      <4> QED
        BY <1>0, <2>1, <4>1, HearGood
    <3>3. CASE Hear(voice, Head(queue), counter)
      BY <1>0, <2>1, <2>2, <3>3, HearGood
    <3> QED
      BY <1>3, <3>1, <3>2, <3>3 DEF Get
  <2>4. queue' \in Seq(Frames) /\ Len(queue') <= QueueSize
    BY <1>3, <2>1 DEF Get, Types, TypeOK
  <2>5. counter' \in [last : Nat, pending : Nat] /\ stop' \in BOOLEAN
    BY <2>3 DEF Counters, Types, TypeOK
  <2> QED
    BY <1>3, <2>3, <2>4, <2>5 DEF Get, Types, TypeOK, Good
<1>4. CASE Recognized
  <2>1. Good(proc', voice')
    BY <1>4 DEF Recognized, Types, TypeOK, Good, Proc, ProcPcs
  <2> QED
    BY <1>4, <2>1 DEF Recognized, Types, TypeOK, Good
<1>5. CASE NothingNew \/ AppendFault
  <2>1. Good(proc', voice') /\ counter' \in Counters /\ (stop' = stop \/ stop' = TRUE)
    BY <1>0, <1>5, ResumeGood DEF NothingNew, AppendFault, Types
  <2>2. faults' \in 0..MaxFaults
    BY <1>5, FaultTypes DEF NothingNew, AppendFault, Types, TypeOK
  <2> QED
    BY <1>5, <2>1, <2>2 DEF NothingNew, AppendFault, Types, TypeOK, Good, Counters
<1>6. CASE CreateForText
  <2>1. meetings' \in Nat /\ meetingId' \in 0..meetings' /\ meetings + 1 \in Nat
    BY <1>6, NewMeetingTypes DEF CreateForText, Types, TypeOK
  <2>2. Good(proc', voice')
    BY <1>6, <2>1 DEF CreateForText, Types, Good, Proc, ProcPcs
  <2> QED
    BY <1>6, <2>1, <2>2 DEF CreateForText, Types, TypeOK, Good
<1>7. CASE CreateFault
  <2>1. meetings' \in Nat /\ meetingId' \in 0..meetings' /\ faults' \in 0..MaxFaults
    BY <1>7, NewMeetingTypes, FaultTypes DEF CreateFault, Types, TypeOK
  <2>2. Good(proc', voice')
    BY <1>0, <1>7, IdlingType, QuietType DEF CreateFault, Good, ProcPcs
  <2> QED
    BY <1>7, <2>1, <2>2 DEF CreateFault, Types, TypeOK, Good
<1>8. CASE AppendRow
  <2> DEFINE c == [last |-> counter.last, pending |-> 0]
  <2>1. c \in Counters /\ Resume(c)
    BY <1>0, <1>8 DEF AppendRow, Counters
  <2>2. rows' \in Seq(Row)
    BY <1>0, <1>8, NewRowType DEF AppendRow
  <2> HIDE DEF c
  <2>3. Good(proc', voice') /\ counter' \in Counters /\ (stop' = stop \/ stop' = TRUE)
    BY <2>1, ResumeGood DEF Types
  <2> QED
    BY <1>8, <2>2, <2>3 DEF AppendRow, Types, TypeOK, Good, Counters
<1> QED
  BY <1>1, <1>2, <1>3, <1>4, <1>5, <1>6, <1>7, <1>8 DEF ProcessorGoesOn

LEMMA TypesNext == Types /\ [Next]_vars => Types'
<1> SUFFICES ASSUME Types, [Next]_vars PROVE Types'
  OBVIOUS
<1>1. CASE UNCHANGED vars
  BY <1>1 DEF vars, receiverVars, procVars, Types, TypeOK, Good
<1>2. CASE Next
  BY <1>2, TypesReceiver, TypesProcessor DEF Next
<1> QED
  BY <1>1, <1>2

\* Every variable of a session keeps its type, whatever its bounds: the queue
\* never outgrows audio.queue_size, and silence is never counted past the limit.
THEOREM SessionTypes == Spec => []TypeOK
<1>1. Types => TypeOK
  BY DEF Types
<1> QED
  BY <1>1, InitTypes, TypesNext, PTL DEF Spec

-----------------------------------------------------------------------------
(* One meeting.                                                            *)

\* Before the meeting exists nothing has reached the processor: it can neither
\* hold audio nor be in a call that would create a second one.
Untouched ==
    /\ received = 0 /\ queue = <<>> /\ rows = <<>> /\ ~recording.open
    /\ proc.pc \in {"loop", "get", "done"}
    /\ voice.buffer = <<>> /\ ~voice.speaking

Owned ==
    /\ meetings <= 1 /\ (meetings = 0 <=> meetingId = 0)
    /\ meetingId = 0 => Untouched
    /\ receiver \in {"create", "rename"} => meetingId = 0
    /\ receiver = "path" => meetingId # 0
    /\ recording.open => recording.owner = meetingId
    /\ proc.pc # "create"
    /\ proc.pc = "append" => proc.meeting = meetingId
    /\ \A i \in DOMAIN rows : rows[i].meeting = meetingId

OwnedIfNoFault == faults = 0 => Owned

LEMMA InitOwned == Init => OwnedIfNoFault
  BY DEF Init, OwnedIfNoFault, Owned, Untouched, Idling, Quiet

\* A step without a fault came from a state without one.
LEMMA NoFaultBefore ==
    ASSUME Types, Next, faults' = 0
    PROVE  faults = 0 /\ ~Fault
<1>1. faults \in Nat
  BY DEF Types, TypeOK
<1>2. ~Fault
  BY <1>1 DEF Fault
<1>3. UNCHANGED faults
  BY <1>2 DEF Next, Receives, ReceiverGoesOn, ProcessorGoesOn, AudioCapped, AudioWritten,
     AudioOpensFile, AudioNeedsMeeting, Rename, Leave, CreateForAudio, SavePath,
     CreateForRename, ProcessorGone, DrainTimeout, GiveUp, ShutDown, Finalize, Loop, Get,
     GetTimeout, CreateForText, AppendRow, Recognized, NothingNew, AudioFault, RenameFault,
     CreateFault, AppendFault
<1> QED
  BY <1>2, <1>3

LEMMA OwnedReceiver ==
    ASSUME Types, Owned, Receives \/ ReceiverGoesOn \/ ShutDown
    PROVE  Owned'
<1> USE DEF procVars
<1>0. /\ recording \in Recording /\ meetings \in Nat /\ meetingId \in 0..meetings
      /\ received \in Nat
  BY DEF Types, TypeOK
<1>1. CASE AudioCapped
  <2>1. meetingId # 0
    BY <1>0, <1>1 DEF AudioCapped, Hears, Owned, Untouched
  <2>2. recording'.open = recording.open /\ recording'.owner = recording.owner
    BY <1>0, <1>1 DEF AudioCapped, Recording
  <2> QED
    BY <1>1, <2>1, <2>2 DEF AudioCapped, Enqueue, Owned
<1>2. CASE AudioWritten
  <2>1. recording'.open = recording.open /\ recording'.owner = recording.owner
    BY <1>0, <1>2 DEF AudioWritten, Recording
  <2> QED
    BY <1>2, <2>1 DEF AudioWritten, Enqueue, Owned
<1>3. CASE AudioOpensFile
  <2>1. recording'.owner = meetingId
    BY <1>0, <1>3 DEF AudioOpensFile, OpenFile, Recording
  <2> QED
    BY <1>3, <2>1 DEF AudioOpensFile, OpenFile, Owned
<1>4. CASE AudioNeedsMeeting
  BY <1>4 DEF AudioNeedsMeeting, Owned, Untouched
<1>5. CASE Rename \/ Leave
  BY <1>5 DEF Rename, Leave, StopReceiving, Owned, Untouched
<1>6. CASE CreateForAudio
  <2>1. meetings = 0 /\ Untouched
    BY <1>6 DEF CreateForAudio, Owned
  <2>2. meetings' = 1 /\ meetingId' = 1 /\ receiver' = "path" /\ recording'.owner = 1
    BY <1>0, <1>6, <2>1 DEF CreateForAudio, NewMeeting, OpenFile, Recording
  <2> QED
    BY <1>6, <2>1, <2>2 DEF CreateForAudio, Owned, Untouched
<1>7. CASE SavePath
  <2>1. recording'.open = recording.open /\ recording'.owner = recording.owner
    BY <1>0, <1>7 DEF SavePath, Recording
  <2> QED
    BY <1>7, <2>1 DEF SavePath, Enqueue, Owned
<1>8. CASE CreateForRename
  <2>1. meetings = 0 /\ Untouched
    BY <1>8 DEF CreateForRename, Owned
  <2>2. meetings' = 1 /\ meetingId' = 1 /\ receiver' \in {"recv", "draining"}
    BY <1>8, <2>1 DEF CreateForRename, NewMeeting
  <2> QED
    BY <1>8, <2>1, <2>2 DEF CreateForRename, Owned, Untouched
<1>9. CASE ProcessorGone \/ GiveUp \/ ShutDown
  <2>1. PICK early \in BOOLEAN : Finalize(early)
    BY <1>9 DEF ProcessorGone, GiveUp, ShutDown
  <2>2. ~recording'.open
    BY <1>0, <2>1 DEF Finalize, Recording
  <2> QED
    BY <2>1, <2>2 DEF Finalize, Owned, Untouched
<1>10. CASE DrainTimeout
  <2>1. ~recording'.open
    BY <1>0, <1>10 DEF DrainTimeout, Recording
  <2> QED
    BY <1>10, <2>1 DEF DrainTimeout, Owned, Untouched
<1> QED
  BY <1>1, <1>2, <1>3, <1>4, <1>5, <1>6, <1>7, <1>8, <1>9, <1>10
     DEF Receives, ReceiverGoesOn

LEMMA OwnedProcessor ==
    ASSUME Types, Owned, ProcessorGoesOn \/ Recognized \/ NothingNew
    PROVE  Owned'
<1> USE DEF receiverVars
<1>0. /\ queue \in Seq(Frames) /\ voice \in Voice /\ counter \in Counters
      /\ rows \in Seq(Row) /\ Good(proc, voice) /\ voice.last \in 0..MaxFrames
  BY Locals DEF Types
<1>1. CASE Loop
  <2>1. CASE meetingId = 0
    <3>1. SkipCount = 0 /\ queue' = <<>>
      BY <2>1, <1>1 DEF Owned, Untouched, Loop, Await, Finish, SkipCount
    <3>2. \/ proc' = Idling("done") /\ voice' = Quiet(voice.last)
          \/ proc' = Idling("get") /\ UNCHANGED voice
      BY <1>1, <2>1 DEF Owned, Untouched, Loop, Await, Finish
    <3> QED
      BY <1>1, <2>1, <3>1, <3>2 DEF Owned, Untouched, Loop, Idling, Quiet
  <2>2. CASE meetingId # 0
    <3>1. proc'.pc \in {"model", "done", "get"}
      BY <1>1 DEF Loop, Finish, Await, Calls, Idling
    <3> QED
      BY <1>1, <2>2, <3>1 DEF Loop, Owned
  <2> QED
    BY <2>1, <2>2
<1>2. CASE GetTimeout
  <2>1. CASE meetingId = 0
    BY <1>2, <2>1 DEF GetTimeout, LoopsWith, Idling, Owned, Untouched
  <2>2. CASE meetingId # 0
    <3>1. proc'.pc \in {"model", "loop"}
      BY <1>2 DEF GetTimeout, LoopsWith, Calls, Idling
    <3> QED
      BY <1>2, <2>2, <3>1 DEF GetTimeout, Owned
  <2> QED
    BY <2>1, <2>2
<1>3. CASE Get
  <2>1. meetingId # 0
    BY <1>3 DEF Get, Owned, Untouched
  <2>2. proc'.pc \in {"loop", "model", "idle"}
    BY <1>3 DEF Get, Hear, HearPause, HearMore, HearFirst, HearNothing, LoopsWith, Calls, Idling
  <2> QED
    BY <1>3, <2>1, <2>2 DEF Get, Owned
<1>4. CASE Recognized
  <2>1. meetingId # 0
    BY <1>4 DEF Recognized, Owned, Untouched
  <2>2. proc'.pc = "append" /\ proc'.meeting = meetingId
    BY <1>4, <2>1 DEF Recognized
  <2> QED
    BY <1>4, <2>1, <2>2 DEF Recognized, Owned
<1>5. CASE NothingNew
  <2>1. meetingId # 0
    BY <1>5 DEF NothingNew, Owned, Untouched
  <2>2. proc'.pc \in {"loop", "model", "idle", "done"}
    BY <1>0, <1>5, ResumeGood DEF NothingNew
  <2> QED
    BY <1>5, <2>1, <2>2 DEF NothingNew, Owned
<1>6. CASE CreateForText
  BY <1>6 DEF CreateForText, Owned
<1>7. CASE AppendRow
  <2> DEFINE c == [last |-> counter.last, pending |-> 0]
  <2>1. meetingId # 0 /\ proc.meeting = meetingId
    BY <1>7 DEF AppendRow, Owned, Untouched
  <2>2. c \in Counters /\ Resume(c)
    BY <1>0, <1>7 DEF AppendRow, Counters
  <2>3. NewRow(counter) \in Row /\ NewRow(counter).meeting = meetingId
    BY <1>0, <2>1, NewRowType DEF NewRow
  <2>4. \A i \in DOMAIN rows' : rows'[i].meeting = meetingId
    BY <1>0, <1>7, <2>3 DEF AppendRow, Owned
  <2> HIDE DEF c
  <2>5. proc'.pc \in {"loop", "model", "idle", "done"}
    BY <1>0, <2>2, ResumeGood
  <2> QED
    BY <1>7, <2>1, <2>4, <2>5 DEF AppendRow, Owned
<1> QED
  BY <1>1, <1>2, <1>3, <1>4, <1>5, <1>6, <1>7 DEF ProcessorGoesOn

LEMMA OwnedNext == Types /\ OwnedIfNoFault /\ [Next]_vars => OwnedIfNoFault'
<1> SUFFICES ASSUME Types, OwnedIfNoFault, [Next]_vars, faults' = 0 PROVE Owned'
  BY DEF OwnedIfNoFault
<1>1. CASE UNCHANGED vars
  BY <1>1 DEF vars, receiverVars, procVars, OwnedIfNoFault, Owned, Untouched
<1>2. CASE Next
  <2>1. Owned /\ ~Fault
    BY <1>2, NoFaultBefore DEF OwnedIfNoFault
  <2>2. \/ Receives \/ ReceiverGoesOn \/ ShutDown
        \/ ProcessorGoesOn \/ Recognized \/ NothingNew
    BY <1>2, <2>1 DEF Next, AudioFault, RenameFault, CreateFault, AppendFault
  <2> QED
    BY <2>1, <2>2, OwnedReceiver, OwnedProcessor
<1> QED
  BY <1>1, <1>2

\* _ensure_live_meeting is called by the receiver and by the processor, and
\* suspends between its test and its assignment: still a session in which no
\* call fails has one meeting, and the file and every row belong to it.
THEOREM SessionHasOneMeeting == Spec => []OneMeeting
<1>1. OwnedIfNoFault => OneMeeting
  BY DEF OwnedIfNoFault, Owned, OneMeeting
<1> QED
  BY <1>1, InitTypes, TypesNext, InitOwned, OwnedNext, PTL DEF Spec

-----------------------------------------------------------------------------
(* Placeholders.                                                           *)

\* The pending number is the last announced, and no row bears it yet.
Numbered ==
    /\ counter.pending \in {0, counter.last}
    /\ \A i \in DOMAIN rows :
         /\ rows[i].seq \in {0, rows[i].announced}
         /\ rows[i].seq <= counter.last
         /\ rows[i].seq # 0 => rows[i].seq # counter.pending
    /\ \A i, k \in DOMAIN rows : i # k /\ rows[i].seq = rows[k].seq => rows[i].seq = 0

NextNumber(c) == [last |-> c.last + 1, pending |-> c.last + 1]

LEMMA HearNumbers ==
    ASSUME NEW v, NEW f, NEW c, Hear(v, f, c)
    PROVE  counter' \in {c, NextNumber(c)}
  BY DEF Hear, HearFirst, NextNumber

LEMMA ResumeNumbers ==
    ASSUME NEW c, Resume(c)
    PROVE  counter' \in {c, NextNumber(c)}
  BY HearNumbers DEF Resume

LEMMA RowNumbers ==
    ASSUME NEW i \in DOMAIN rows, rows \in Seq(Row)
    PROVE  rows[i].seq \in Nat
<1>1. rows[i] \in Row
  OBVIOUS
<1> QED
  BY <1>1 DEF Row

LEMMA StaysNumbered ==
    ASSUME Types, Numbered, UNCHANGED rows, counter' \in {counter, NextNumber(counter)}
    PROVE  Numbered'
<1>1. counter \in Counters /\ \A i \in DOMAIN rows : rows[i].seq \in Nat
  BY RowNumbers DEF Types, TypeOK, Counters
<1>2. CASE counter' = counter
  BY <1>2 DEF Numbered
<1>3. CASE counter' = NextNumber(counter)
  <2>1. counter'.last = counter.last + 1 /\ counter'.pending = counter.last + 1
    BY <1>3 DEF NextNumber
  <2>2. counter.last \in Nat
    BY <1>1 DEF Counters
  <2> QED
    BY <1>1, <2>1, <2>2 DEF Numbered
<1> QED
  BY <1>2, <1>3

LEMMA RowNumbered ==
    ASSUME Types, Numbered, rows' = Append(rows, NewRow(counter)),
           NEW c, c = [last |-> counter.last, pending |-> 0], counter' \in {c, NextNumber(c)}
    PROVE  Numbered'
<1> DEFINE r == NewRow(counter)
           n == Len(rows)
<1>1. /\ rows \in Seq(Row) /\ r \in Row /\ n \in Nat
      /\ counter.last \in Nat /\ counter.pending \in Nat
  BY NewRowType DEF Types, TypeOK, Counters
<1>2. r.seq = counter.pending /\ r.announced = counter.last
  BY DEF NewRow
<1>3. \A i \in DOMAIN rows : rows[i].seq \in Nat
  BY <1>1, RowNumbers
<1> HIDE DEF r
<1>4. /\ DOMAIN rows' = 1..(n + 1) /\ DOMAIN rows = 1..n
      /\ rows'[n + 1] = r /\ \A i \in 1..n : rows'[i] = rows[i]
  BY <1>1 DEF r
<1>5. /\ counter'.pending \in {0, counter'.last}
      /\ counter.last <= counter'.last
      /\ counter'.pending = 0 \/ counter'.pending > counter.last
  BY <1>1 DEF NextNumber
<1>6. counter'.last \in Nat /\ counter'.pending \in Nat
  BY <1>1 DEF NextNumber
<1> HIDE DEF n
<1>7. \A i \in DOMAIN rows' :
         /\ rows'[i].seq \in {0, rows'[i].announced}
         /\ rows'[i].seq \in Nat /\ rows'[i].seq <= counter.last
  BY <1>1, <1>2, <1>3, <1>4 DEF Numbered
<1>8. \A i \in 1..n : rows[i].seq # 0 => rows[i].seq # r.seq
  BY <1>2, <1>4 DEF Numbered
<1>9. \A i, k \in DOMAIN rows' : i # k /\ rows'[i].seq = rows'[k].seq => rows'[i].seq = 0
  <2> SUFFICES ASSUME NEW i \in DOMAIN rows', NEW k \in DOMAIN rows', i # k,
                      rows'[i].seq = rows'[k].seq
               PROVE  rows'[i].seq = 0
    OBVIOUS
  <2>1. CASE i \in 1..n /\ k \in 1..n
    BY <1>4, <2>1 DEF Numbered
  <2>2. CASE i \in 1..n /\ k = n + 1
    BY <1>4, <1>8, <2>2
  <2>3. CASE i = n + 1 /\ k \in 1..n
    BY <1>4, <1>8, <2>3
  <2> QED
    BY <1>1, <1>4, <2>1, <2>2, <2>3
<1> QED
  BY <1>1, <1>5, <1>6, <1>7, <1>9 DEF Numbered

LEMMA NumberedNext == Types /\ Numbered /\ [Next]_vars => Numbered'
<1> SUFFICES ASSUME Types, Numbered, [Next]_vars PROVE Numbered'
  OBVIOUS
<1> USE DEF receiverVars, procVars
<1>1. CASE AppendRow
  BY <1>1, ResumeNumbers, RowNumbered DEF AppendRow
<1>2. CASE Get
  <2>1. counter' \in {counter, NextNumber(counter)}
    BY <1>2, HearNumbers DEF Get
  <2> QED
    BY <1>2, <2>1, StaysNumbered DEF Get
<1>3. CASE NothingNew \/ AppendFault
  BY <1>3, ResumeNumbers, StaysNumbered DEF NothingNew, AppendFault
<1>4. CASE UNCHANGED <<counter, rows>>
  BY <1>4, StaysNumbered
<1>5. ASSUME Next
      PROVE  \/ AppendRow \/ Get \/ NothingNew \/ AppendFault
             \/ UNCHANGED <<counter, rows>>
  BY <1>5 DEF Next, Receives, ReceiverGoesOn, ProcessorGoesOn, AudioCapped, AudioWritten,
     AudioOpensFile, AudioNeedsMeeting, Rename, Leave, StopReceiving, CreateForAudio, SavePath,
     CreateForRename, ProcessorGone, DrainTimeout, GiveUp, ShutDown, Finalize, Loop,
     GetTimeout, CreateForText, Recognized, AudioFault, RenameFault, CreateFault
<1>6. UNCHANGED vars => UNCHANGED <<counter, rows>>
  BY DEF vars
<1> QED
  BY <1>1, <1>2, <1>3, <1>4, <1>5, <1>6

\* consume_pending reads and clears the number of the placeholder: a result
\* bears the number of its own utterance, and no two results bear the same,
\* whatever calls of _process_speech_segment end without one.
THEOREM ResultsPaired == Spec => []PairedOnce
<1>1. Init => Numbered
  BY DEF Init, Numbered
<1>2. Numbered => PairedOnce
  BY DEF Numbered, PairedOnce
<1> QED
  BY <1>1, <1>2, InitTypes, TypesNext, NumberedNext, PTL DEF Spec

-----------------------------------------------------------------------------
(* The time line.                                                          *)

Unread == received - Len(queue)

\* The queue holds the latest frames, in order, and what was dropped is older.
Ordered ==
    /\ Len(queue) <= received
    /\ \A i \in 1..Len(queue) : queue[i] = Unread + i - 1
    /\ \A d \in dropped : d < Unread

\* Numbers that rise by one at least.
IsRising(b) == \A i, k \in 1..Len(b) : i < k => b[i] + (k - i) <= b[k]

LEMMA AppendRising ==
    ASSUME NEW b \in Seq(Frames), b # <<>>, IsRising(b), NEW f \in Frames, b[Len(b)] < f
    PROVE  IsRising(Append(b, f))
<1> DEFINE n == Len(b)
           c == Append(b, f)
<1>1. n \in Nat /\ n > 0 /\ n \in 1..n /\ f \in Nat /\ \A i \in 1..n : b[i] \in Nat
  BY DEF Frames
<1>2. Len(c) = n + 1 /\ c[n + 1] = f /\ \A i \in 1..n : c[i] = b[i]
  OBVIOUS
<1>3. b[n] < f
  OBVIOUS
<1>4. \A i, k \in 1..n : i < k => b[i] + (k - i) <= b[k]
  BY DEF IsRising
<1> HIDE DEF n, c
<1> SUFFICES ASSUME NEW i \in 1..(n + 1), NEW k \in 1..(n + 1), i < k
               PROVE  c[i] + (k - i) <= c[k]
  BY <1>2 DEF IsRising, c
<1>5. i \in 1..n /\ c[i] = b[i] /\ b[i] \in Nat
  <2>1. i \in 1..n
    BY <1>1
  <2> QED
    BY <1>1, <1>2, <2>1
<1>6. CASE k # n + 1
  <2>1. k \in 1..n
    BY <1>1, <1>6
  <2>2. c[k] = b[k]
    BY <1>2, <2>1
  <2>3. b[i] + (k - i) <= b[k]
    BY <1>4, <1>5, <2>1
  <2> QED
    BY <1>5, <2>2, <2>3
<1>7. CASE k = n + 1
  <2>1. b[i] + (n - i) <= b[n]
    <3>1. CASE i = n
      BY <1>1, <3>1
    <3>2. CASE i # n
      <4>1. i < n
        BY <1>1, <1>5, <3>2
      <4> QED
        BY <1>1, <1>4, <1>5, <4>1
    <3> QED
      BY <3>1, <3>2
  <2>2. b[n] \in Nat /\ c[k] = f
    BY <1>1, <1>2, <1>7
  <2> QED
    BY <1>1, <1>3, <1>5, <1>7, <2>1, <2>2
<1> QED
  BY <1>6, <1>7

\* A buffer v is in order of time, without a dropped frame inside; counted from
\* its start it does not reach past its last frame, and no row of rs starts after it.
Spoken(v, rs) ==
    /\ v.speaking <=> v.buffer # <<>>
    /\ v.speaking =>
         /\ IsRising(v.buffer)
         /\ v.buffer[Len(v.buffer)] < v.last
         /\ v.buffer[1] <= v.start
         /\ v.start + Len(v.buffer) <= v.buffer[Len(v.buffer)] + 1
         /\ \A d \in dropped : ~(v.buffer[1] < d /\ d < v.last)
         /\ \A i \in DOMAIN rs : rs[i].from <= v.start
    /\ \A i \in DOMAIN rs : rs[i].from <= v.last

\* A call has a buffer, which ends at the last frame if it was full.
CallFits(p, v) ==
    /\ p.pc \in {"model", "create", "append"} => v.speaking
    /\ p.why = "full" => /\ Len(v.buffer) >= MaxSegment
                         /\ v.last = v.buffer[Len(v.buffer)] + 1
    /\ p.why = "gap" => v.last <= p.frame

\* A row's frames are behind the queue, and hold the row.
Placed(r) ==
    /\ r.frames # <<>>
    /\ r.frames[1] <= r.from
    /\ r.to <= r.frames[Len(r.frames)] + 1
    /\ r.frames[Len(r.frames)] < Unread
    /\ \A d \in dropped : ~(r.frames[1] < d /\ d < r.frames[Len(r.frames)])

Timeline ==
    /\ Ordered
    /\ voice.last <= Unread
    /\ proc.why = "gap" => proc.frame < Unread /\ proc.frame \notin dropped
    /\ Spoken(voice, rows) /\ CallFits(proc, voice)
    /\ \A i \in DOMAIN rows : Placed(rows[i])
    /\ \A i, k \in DOMAIN rows : i < k => rows[i].from <= rows[k].from

IsTranscript(rs) == rs \in Seq(Row)

LEMMA RowFields ==
    ASSUME NEW rs \in Seq(Row), NEW i \in DOMAIN rs
    PROVE  /\ rs[i].from \in 0..MaxFrames /\ rs[i].to \in Nat
           /\ rs[i].frames \in Seq(Frames)
<1>1. rs[i] \in Row
  OBVIOUS
<1> QED
  BY <1>1 DEF Row

LEMMA QuietSpoken ==
    ASSUME Types, NEW rs, IsTranscript(rs), NEW n \in 0..MaxFrames,
           \A i \in DOMAIN rs : rs[i].from <= n
    PROVE  Spoken(Quiet(n), rs) /\ Quiet(n).last = n /\ ~Quiet(n).speaking
  BY DEF Spoken, Quiet

\* What hearing frame f makes of the speech state v: f follows what is in the
\* buffer, if there is something.
LEMMA HearSpoken ==
    ASSUME Types, NEW rs, IsTranscript(rs), NEW v \in Voice, Spoken(v, rs),
           NEW f \in Frames, NEW c, Hear(v, f, c),
           v.last <= f, v.speaking => f = v.last, f \notin dropped
    PROVE  /\ Spoken(voice', rs) /\ CallFits(proc, voice)' /\ voice'.last = f + 1
           /\ proc'.why # "gap"
<1>0. /\ f \in Nat /\ v.last \in 0..MaxFrames /\ v.start \in 0..MaxFrames
      /\ v.buffer \in Seq(Frames) /\ dropped \subseteq Frames /\ v.speaking \in BOOLEAN
  BY DEF Voice, Frames, Types, TypeOK
<1>a. \A i \in DOMAIN rs : rs[i].from \in Nat
  BY RowFields DEF IsTranscript
<1>b. \A d \in dropped : d \in Nat
  BY <1>0 DEF Frames
<1>c. \A i \in DOMAIN rs : rs[i].from <= f + 1
  BY <1>0, <1>a DEF Spoken
<1>d. Spoken(Quiet(f + 1), rs)
  <2>1. f + 1 \in 0..MaxFrames
    BY DEF Frames
  <2> QED
    BY <1>c, <2>1, QuietSpoken
<1>e. v.speaking => /\ Len(v.buffer) \in Nat /\ Len(v.buffer) > 0
                    /\ v.buffer[1] \in Nat /\ v.buffer[Len(v.buffer)] \in Nat
  BY <1>0 DEF Spoken, Frames
<1>1. CASE v.speaking /\ HearPause(v, f)
  <2> DEFINE q == Speaking(v.buffer, v.start, v.silence + 1, f + 1)
  <2>1. q.buffer = v.buffer /\ q.start = v.start /\ q.last = f + 1 /\ q.speaking
    BY DEF Speaking
  <2>2. \A d \in dropped : d < f + 1 => d <= f /\ d # f
    BY <1>0, <1>b
  <2>3. Spoken(q, rs)
    <3>1. \A d \in dropped : ~(v.buffer[1] < d /\ d < f + 1)
      BY <1>0, <1>1, <1>b, <1>e, <2>2 DEF Spoken
    <3>2. v.buffer[Len(v.buffer)] < f + 1 /\ v.buffer # <<>>
      BY <1>0, <1>1, <1>e DEF Spoken
    <3> HIDE DEF q
    <3> QED
      BY <1>1, <1>c, <2>1, <3>1, <3>2 DEF Spoken
  <2>4. \/ voice' = q /\ (proc' = Idling("loop") \/ Calls("silence", 0))
        \/ voice' = Quiet(f + 1) /\ proc' = Idling("loop")
    BY <1>1 DEF HearPause, LoopsWith
  <2>5. CallFits(proc, voice)' /\ proc'.why # "gap" /\ voice'.last = f + 1
    BY <2>1, <2>4 DEF CallFits, Idling, Calls, Quiet
  <2>6. voice' = q \/ voice' = Quiet(f + 1)
    BY <2>4
  <2> HIDE DEF q
  <2> QED
    BY <1>d, <2>3, <2>5, <2>6 DEF Spoken
<1>2. CASE v.speaking /\ HearMore(v, f)
  <2> DEFINE buffer == Append(v.buffer, f)
             n == Len(v.buffer)
             q == Speaking(buffer, v.start, 0, f + 1)
  <2>1. q.buffer = buffer /\ q.start = v.start /\ q.last = f + 1 /\ q.speaking
    BY DEF Speaking
  <2>2. /\ Len(buffer) = n + 1 /\ buffer[n + 1] = f /\ buffer # <<>>
        /\ \A i \in 1..n : buffer[i] = v.buffer[i]
    BY <1>0
  <2>3. n \in Nat /\ n > 0 /\ \A i \in 1..n : v.buffer[i] \in Nat
    BY <1>0, <1>2, <1>e DEF Frames
  <2> HIDE DEF buffer
  <2>4. v.buffer[n] < f
    BY <1>2 DEF Spoken
  <2>5. IsRising(buffer)
    BY <1>0, <1>2, <2>4, AppendRising DEF Spoken, buffer
  <2>6. buffer[1] = v.buffer[1] /\ buffer[Len(buffer)] = f
    BY <2>2, <2>3
  <2>7. v.start + Len(buffer) <= f + 1
    <3>1. v.start + n <= v.buffer[n] + 1 /\ v.buffer[n] \in Nat
      BY <1>2, <2>3 DEF Spoken
    <3> QED
      BY <1>0, <2>2, <2>3, <2>4, <3>1
  <2>8. \A d \in dropped : ~(buffer[1] < d /\ d < f + 1)
    BY <1>0, <1>2, <1>b, <1>e, <2>6 DEF Spoken
  <2>9. Spoken(q, rs)
    <3>1. f < f + 1 /\ v.buffer[1] <= v.start
      BY <1>0, <1>2 DEF Spoken
    <3>2. \A i \in DOMAIN rs : rs[i].from <= v.start
      BY <1>2 DEF Spoken
    <3> HIDE DEF q
    <3> QED
      BY <1>c, <2>1, <2>2, <2>5, <2>6, <2>7, <2>8, <3>1, <3>2 DEF Spoken
  <2>10. /\ voice' = q
         /\ \/ proc' = Idling("loop")
            \/ Len(buffer) >= MaxSegment /\ Calls("full", 0)
    BY <1>2 DEF HearMore, LoopsWith, buffer
  <2>11. CallFits(proc, voice)' /\ proc'.why # "gap" /\ voice'.last = f + 1
    BY <2>1, <2>6, <2>10 DEF CallFits, Idling, Calls
  <2> HIDE DEF q
  <2> QED
    BY <2>9, <2>10, <2>11 DEF Spoken
<1>3. CASE HearFirst(f, c) /\ ~v.speaking
  <2> DEFINE q == Speaking(<<f>>, f, 0, f + 1)
  <2>1. q.buffer = <<f>> /\ q.start = f /\ q.last = f + 1 /\ q.speaking
    BY DEF Speaking
  <2>2. \A i \in DOMAIN rs : rs[i].from <= f
    BY <1>0, <1>a DEF Spoken
  <2>3. Spoken(q, rs)
    <3>1. /\ <<f>> # <<>> /\ Len(<<f>>) = 1 /\ <<f>>[1] = f /\ IsRising(<<f>>)
          /\ f < f + 1 /\ \A d \in dropped : ~(f < d /\ d < f + 1)
      BY <1>0, <1>b DEF IsRising
    <3> HIDE DEF q
    <3> QED
      BY <1>0, <1>c, <2>1, <2>2, <3>1 DEF Spoken
  <2>4. voice' = q /\ proc' = Idling("loop")
    BY <1>3 DEF HearFirst, LoopsWith
  <2>5. CallFits(proc, voice)' /\ proc'.why # "gap" /\ voice'.last = f + 1
    BY <2>1, <2>4 DEF CallFits, Idling
  <2> HIDE DEF q
  <2> QED
    BY <2>3, <2>4, <2>5 DEF Spoken
<1>4. CASE HearNothing(f) /\ ~v.speaking
  <2>1. voice' = Quiet(f + 1) /\ (proc' = Idling("loop") \/ proc' = Idling("idle"))
    BY <1>4 DEF HearNothing
  <2>2. CallFits(proc, voice)' /\ proc'.why # "gap" /\ voice'.last = f + 1
    BY <2>1 DEF CallFits, Idling, Quiet
  <2> QED
    BY <1>d, <2>1, <2>2 DEF Spoken
<1> QED
  BY <1>1, <1>2, <1>3, <1>4 DEF Hear

\* The context kept of a full buffer is its end, counted from where it began.
LEMMA CarryOverSpoken ==
    ASSUME Types, NEW rs, IsTranscript(rs), Spoken(voice, rs), CallFits(proc, voice),
           voice.speaking, proc.why = "full"
    PROVE  Spoken(CarryOver(voice), rs) /\ CarryOver(voice).last = voice.last
<1> DEFINE b == voice.buffer
           n == Len(b)
           kept == SubSeq(b, n - Carry + 1, n)
           start == voice.last - Carry
           v == Speaking(kept, start, 0, voice.last)
<1>1. /\ b \in Seq(Frames) /\ n \in Nat /\ voice.last \in Nat /\ voice.start \in Nat
      /\ \A i \in 1..n : b[i] \in Nat
  BY DEF Types, Good, Voice, Frames
<1>2. n > Carry /\ voice.last = b[n] + 1
  BY <1>1 DEF CallFits
<1>3. /\ kept \in Seq(Frames) /\ Len(kept) = Carry
      /\ \A i \in 1..Carry : kept[i] = b[n - Carry + i]
  BY <1>1, <1>2
<1>4. \A i, k \in 1..n : i < k => b[i] + (k - i) <= b[k]
  BY DEF Spoken, IsRising
<1> HIDE DEF n, kept
<1>5. \A i \in 1..n : b[i] + (n - i) <= b[n]
  BY <1>1, <1>4
<1>6. n - Carry + 1 \in 1..n /\ b[n - Carry + 1] \in Nat /\ b[n - Carry + 1] + (Carry - 1) <= b[n]
  BY <1>1, <1>2, <1>5
<1>7. voice.last >= Carry /\ start \in Nat
  <2>1. n \in 1..n /\ b[n] \in Nat
    BY <1>1, <1>2
  <2>2. Carry - 1 <= b[n]
    BY <1>6, <2>1
  <2> QED
    BY <1>1, <1>2, <2>1, <2>2
<1>8. CarryOver(voice) = v
  <2>1. (IF voice.last > Carry THEN voice.last - Carry ELSE 0) = start
    BY <1>1, <1>7
  <2> HIDE DEF start
  <2> QED
    BY <1>2, <2>1 DEF CarryOver, n, kept
<1>9. v.speaking /\ v.buffer = kept /\ v.start = start /\ v.last = voice.last
  BY DEF Speaking
<1>10. kept # <<>> /\ kept[1] = b[n - Carry + 1] /\ kept[Carry] = b[n]
  BY <1>1, <1>2, <1>3
<1>11. IsRising(kept)
  <2> SUFFICES ASSUME NEW i \in 1..Carry, NEW k \in 1..Carry, i < k
               PROVE  kept[i] + (k - i) <= kept[k]
    BY <1>3 DEF IsRising
  <2> DEFINE x == n - Carry + i
             y == n - Carry + k
  <2>1. x \in 1..n /\ y \in 1..n /\ x < y /\ y - x = k - i
    BY <1>1, <1>2
  <2>2. kept[i] = b[x] /\ kept[k] = b[y]
    BY <1>3
  <2> HIDE DEF x, y
  <2> QED
    BY <1>4, <2>1, <2>2
<1>12. \A d \in dropped : ~(kept[1] < d /\ d < voice.last)
  <2>1. b[1] <= kept[1]
    <3>1. 1 \in 1..n /\ b[1] \in Nat
      BY <1>1, <1>2
    <3>2. CASE n - Carry + 1 = 1
      BY <1>10, <3>1, <3>2
    <3>3. CASE n - Carry + 1 # 1
      <4> DEFINE x == n - Carry + 1
      <4>1. x \in 1..n /\ 1 < x /\ b[x] \in Nat /\ kept[1] = b[x]
        BY <1>6, <1>10, <3>3
      <4> HIDE DEF x
      <4>2. b[1] + (x - 1) <= b[x]
        BY <1>4, <3>1, <4>1
      <4> QED
        BY <3>1, <4>1, <4>2
    <3> QED
      BY <3>2, <3>3
  <2>2. \A d \in dropped : d \in Nat
    BY DEF Types, TypeOK, Frames
  <2>3. b[1] \in Nat /\ kept[1] \in Nat
    BY <1>1, <1>2, <1>6, <1>10
  <2> QED
    BY <1>1, <2>1, <2>2, <2>3 DEF Spoken
<1>13. \A i \in DOMAIN rs : rs[i].from <= start
  <2>1. voice.start + n <= voice.last
    BY <1>2 DEF Spoken, n
  <2>2. \A i \in DOMAIN rs : rs[i].from <= voice.start /\ rs[i].from \in Nat
    BY RowFields DEF IsTranscript, Spoken
  <2> QED
    BY <1>1, <1>2, <2>1, <2>2
<1>14. \A i \in DOMAIN rs : rs[i].from <= voice.last
  BY DEF Spoken
<1>15. kept[Carry] < voice.last /\ kept[1] <= start /\ start + Carry <= kept[Carry] + 1
  <2> DEFINE x == b[n - Carry + 1]
             y == b[n]
  <2>1. y \in Nat /\ voice.last = y + 1 /\ kept[Carry] = y
    BY <1>1, <1>2, <1>10
  <2>2. x \in Nat /\ x + (Carry - 1) <= y /\ kept[1] = x
    BY <1>6, <1>10
  <2> HIDE DEF x, y
  <2> QED
    BY <2>1, <2>2
<1> HIDE DEF v, b, start
<1>16. Spoken(v, rs)
  BY <1>3, <1>9, <1>10, <1>11, <1>12, <1>13, <1>14, <1>15 DEF Spoken
<1> QED
  BY <1>8, <1>9, <1>16

\* What follows a call; by then the rows, rs, may have grown.
LEMMA ResumeSpoken ==
    ASSUME Types, NEW rs, IsTranscript(rs), Spoken(voice, rs), CallFits(proc, voice),
           NEW c, Resume(c),
           proc.pc \in {"model", "append"},
           proc.why = "gap" => proc.frame \notin dropped
    PROVE  /\ Spoken(voice', rs) /\ CallFits(proc, voice)' /\ proc'.why # "gap"
           /\ voice'.last = IF proc.why = "gap" THEN proc.frame + 1 ELSE voice.last
<1>0. voice \in Voice /\ voice.last \in 0..MaxFrames /\ voice.speaking /\ proc.frame \in Frames
  BY DEF Types, Good, Voice, Proc, CallFits
<1>1. /\ Quiet(voice.last) \in Voice /\ Spoken(Quiet(voice.last), rs)
      /\ Quiet(voice.last).last = voice.last /\ ~Quiet(voice.last).speaking
  BY <1>0, QuietType, QuietSpoken DEF Spoken
<1>2. CASE proc.why = "gap" /\ Hear(Quiet(voice.last), proc.frame, c)
  <2> DEFINE v == Quiet(voice.last)
  <2>1. v \in Voice /\ Spoken(v, rs) /\ v.last <= proc.frame /\ ~v.speaking
    BY <1>1, <1>2 DEF CallFits
  <2>2. Hear(v, proc.frame, c)
    BY <1>2
  <2> HIDE DEF v
  <2> QED
    BY <1>0, <1>2, <2>1, <2>2, HearSpoken
<1>3. CASE proc.why = "full" /\ LoopsWith(CarryOver(voice))
  <2>1. voice' = CarryOver(voice) /\ proc' = Idling("loop")
    BY <1>3 DEF LoopsWith
  <2>2. CallFits(proc, voice)' /\ proc'.why # "gap"
    BY <2>1 DEF CallFits, Idling
  <2>3. Spoken(CarryOver(voice), rs) /\ CarryOver(voice).last = voice.last
    BY <1>0, <1>3, CarryOverSpoken
  <2> QED
    BY <1>3, <2>1, <2>2, <2>3 DEF Spoken
<1>4. CASE /\ proc.why # "gap" /\ voice' = Quiet(voice.last)
           /\ proc' \in {Idling("loop"), Idling("done")}
  <2>1. CallFits(proc, voice)' /\ proc'.why # "gap"
    BY <1>4 DEF CallFits, Idling
  <2> QED
    BY <1>1, <1>4, <2>1 DEF Spoken
<1> QED
  BY <1>2, <1>3, <1>4 DEF Resume, LoopsWith

\* A frame joins the queue, and perhaps the oldest leaves it.
LEMMA EnqueueOrdered ==
    ASSUME Types, Ordered, received < MaxFrames, Enqueue
    PROVE  /\ Ordered' /\ Unread <= Unread'
           /\ \A d \in dropped' : d \in dropped \/ d = Unread
<1>1. /\ queue \in Seq(Frames) /\ received \in Nat /\ Len(queue) \in Nat
      /\ \A d \in dropped : d \in Nat
  BY DEF Types, TypeOK, Frames
<1>2. CASE Len(queue) < QueueSize
  <2>1. queue' = Append(queue, received) /\ dropped' = dropped /\ received' = received + 1
    BY <1>2 DEF Enqueue
  <2>2. Len(queue') = Len(queue) + 1 /\ Unread' = Unread
    BY <1>1, <2>1 DEF Unread
  <2>3. \A i \in 1..Len(queue') : queue'[i] = IF i = Len(queue) + 1 THEN received ELSE queue[i]
    BY <1>1, <2>1
  <2>4. \A i \in 1..Len(queue') : queue'[i] = Unread + i - 1
    BY <1>1, <2>2, <2>3 DEF Ordered, Unread
  <2>5. Len(queue') <= received'
    BY <1>1, <2>1, <2>2 DEF Ordered
  <2> QED
    BY <1>1, <2>1, <2>2, <2>4, <2>5 DEF Ordered, Unread
<1>3. CASE ~(Len(queue) < QueueSize)
  <2>1. /\ queue' = Append(Tail(queue), received) /\ dropped' = dropped \cup {queue[1]}
        /\ received' = received + 1 /\ queue # <<>> /\ Len(queue) > 0
    BY <1>1, <1>3 DEF Enqueue
  <2>2. Tail(queue) \in Seq(Frames) /\ Len(Tail(queue)) = Len(queue) - 1
    BY <1>1, <2>1
  <2>3. Len(queue') = Len(queue) /\ Unread' = Unread + 1
    BY <1>1, <2>1, <2>2 DEF Unread
  <2> DEFINE t == Tail(queue)
  <2>a. \A i \in 1..Len(t) : t[i] = queue[i + 1]
    BY <1>1, <2>1, <2>2
  <2>b. queue' = Append(t, received) /\ t \in Seq(Frames) /\ Len(t) = Len(queue) - 1
    BY <2>1, <2>2
  <2> HIDE DEF t
  <2>5. \A i \in 1..Len(queue) : queue'[i] = Unread + i
    <3> TAKE i \in 1..Len(queue)
    <3>1. CASE i = Len(queue)
      <4>1. queue'[i] = received
        BY <1>1, <2>b, <3>1
      <4> QED
        BY <1>1, <3>1, <4>1 DEF Unread
    <3>2. CASE i # Len(queue)
      <4>1. i \in 1..Len(t) /\ i + 1 \in 1..Len(queue)
        BY <1>1, <2>b, <3>2
      <4>2. queue'[i] = queue[i + 1]
        BY <2>a, <2>b, <4>1
      <4>3. queue[i + 1] = Unread + (i + 1) - 1
        BY <4>1 DEF Ordered
      <4>4. Unread \in Int
        BY <1>1 DEF Unread
      <4> QED
        BY <4>2, <4>3, <4>4
    <3> QED
      BY <3>1, <3>2
  <2>6. queue[1] = Unread /\ Unread \in Int
    BY <1>1, <2>1 DEF Ordered, Unread
  <2>7. \A i \in 1..Len(queue') : queue'[i] = Unread' + i - 1
    BY <1>1, <2>3, <2>5, <2>6
  <2>8. Len(queue') <= received'
    BY <1>1, <2>1, <2>3 DEF Ordered
  <2>9. \A d \in dropped' : (d \in dropped \/ d = Unread) /\ d < Unread'
    BY <1>1, <2>1, <2>3, <2>6 DEF Ordered
  <2> QED
    BY <2>3, <2>6, <2>7, <2>8, <2>9 DEF Ordered
<1> QED
  BY <1>2, <1>3

\* Dropping frames that were not looked at changes nothing else.
LEMMA DroppingKeepsTimeline ==
    ASSUME Types, Timeline, Ordered', UNCHANGED <<rows, voice>>,
           proc' = proc \/ proc' = Idling("get"), Unread <= Unread',
           Unread' \in Int, \A d \in dropped' : d \in dropped \/ (d >= Unread /\ d \in Nat)
    PROVE  Timeline'
<1>1. Unread \in Int /\ voice.last \in Nat /\ proc.frame \in Nat
  BY Locals DEF Unread
<1>3. Spoken(voice, rows)'
  <2>1. Spoken(voice, rows) /\ voice.last <= Unread
    BY DEF Timeline
  <2>2. \A d \in dropped' : d \in dropped \/ ~(d < voice.last)
    BY <1>1, <2>1
  <2> QED
    BY <2>1, <2>2 DEF Spoken
<1>4. \A i \in DOMAIN rows : Placed(rows[i])'
  <2> TAKE i \in DOMAIN rows
  <2> DEFINE r == rows[i]
             last == r.frames[Len(r.frames)]
  <2>1. Placed(r) /\ r.frames \in Seq(Frames)
    BY RowFields DEF Timeline, Types, TypeOK
  <2>2. last \in Nat
    BY <2>1 DEF Placed, Frames
  <2>3. last < Unread'
    BY <1>1, <2>1, <2>2 DEF Placed
  <2>4. \A d \in dropped' : ~(r.frames[1] < d /\ d < last)
    BY <1>1, <2>1, <2>2 DEF Placed
  <2> QED
    BY <2>1, <2>3, <2>4 DEF Placed
<1>5. /\ voice.last <= Unread'
      /\ proc.why = "gap" => proc.frame < Unread' /\ proc.frame \notin dropped'
  BY <1>1 DEF Timeline
<1>6. /\ CallFits(proc, voice)'
      /\ proc'.why = "gap" => proc'.frame < Unread' /\ proc'.frame \notin dropped'
  BY <1>5 DEF Timeline, CallFits, Idling
<1> QED
  BY <1>3, <1>4, <1>5, <1>6 DEF Timeline

\* Older frames are skipped before the next one is awaited.
LEMMA AwaitOrdered ==
    ASSUME Types, Ordered, Await, UNCHANGED received
    PROVE  /\ Ordered' /\ Unread <= Unread' /\ Unread' \in Int
           /\ \A d \in dropped' : d \in dropped \/ (d >= Unread /\ d \in Nat)
<1> DEFINE m == SkipCount
           n == Len(queue)
<1>1. /\ queue \in Seq(Frames) /\ received \in Nat /\ n \in Nat /\ Unread \in Int
      /\ \A d \in dropped : d \in Nat
      /\ \A i \in 1..n : queue[i] \in Nat
  BY DEF Types, TypeOK, Frames, Unread
<1>2. m \in 0..n
  BY <1>1 DEF SkipCount, Kept
<1>3. queue' = SubSeq(queue, m + 1, n) /\ dropped' = dropped \cup {queue[i] : i \in 1..m}
  BY DEF Await
<1> HIDE DEF m
<1>4. Len(queue') = n - m /\ \A i \in 1..(n - m) : queue'[i] = queue[m + i]
  BY <1>1, <1>2, <1>3
<1>5. Unread' = Unread + m /\ Unread' \in Int
  BY <1>1, <1>2, <1>4 DEF Unread
<1>6. \A i \in 1..Len(queue') : queue'[i] = Unread' + i - 1
  <2> TAKE i \in 1..Len(queue')
  <2>1. i \in 1..(n - m) /\ m + i \in 1..n /\ queue'[i] = queue[m + i]
    BY <1>1, <1>2, <1>4
  <2>2. queue[m + i] = Unread + (m + i) - 1
    BY <2>1 DEF Ordered
  <2> QED
    BY <1>1, <1>2, <1>5, <2>1, <2>2
<1>7. \A d \in dropped' : d \in dropped \/ (d >= Unread /\ d < Unread' /\ d \in Nat)
  <2> SUFFICES ASSUME NEW i \in 1..m
               PROVE  queue[i] >= Unread /\ queue[i] < Unread' /\ queue[i] \in Nat
    BY <1>3
  <2>1. i \in 1..n
    BY <1>1, <1>2
  <2>2. queue[i] = Unread + i - 1 /\ queue[i] \in Nat
    BY <1>1, <2>1 DEF Ordered
  <2> QED
    BY <1>1, <1>2, <1>5, <2>2
<1>8. Len(queue') <= received' /\ \A d \in dropped : d < Unread'
  BY <1>1, <1>2, <1>4, <1>5 DEF Ordered
<1> QED
  BY <1>1, <1>2, <1>5, <1>6, <1>7, <1>8 DEF Ordered

\* A step of the receiver, or one that changes none of this.
LEMMA TimelineReceiver ==
    ASSUME Types, Timeline, UNCHANGED <<rows, voice, proc>>,
           \/ UNCHANGED <<received, queue, dropped>>
           \/ received < MaxFrames /\ Enqueue
    PROVE  Timeline'
<1>1. CASE UNCHANGED <<received, queue, dropped>>
  BY <1>1 DEF Timeline, Ordered, Unread, Spoken, CallFits, Placed
<1>2. CASE received < MaxFrames /\ Enqueue
  <2>1. Unread \in Nat
    BY DEF Types, TypeOK, Timeline, Ordered, Unread
  <2>2. Unread' \in Int
    BY <1>2, EnqueueTypes DEF Unread
  <2> QED
    BY <1>2, <2>1, <2>2, EnqueueOrdered, DroppingKeepsTimeline DEF Timeline
<1> QED
  BY <1>1, <1>2

\* A step of the processor that leaves queue and rows alone.
LEMMA TimelineStays ==
    ASSUME Timeline, UNCHANGED <<received, queue, dropped, rows>>, Spoken(voice', rows),
           CallFits(proc, voice)', voice'.last <= Unread,
           proc'.why = "gap" => proc'.frame < Unread /\ proc'.frame \notin dropped
    PROVE  Timeline'
  BY DEF Timeline, Ordered, Unread, Spoken, Placed

LEMMA TimelineCall ==
    ASSUME Types, Timeline,
           Recognized \/ CreateForText \/ CreateFault \/ NothingNew \/ AppendFault
    PROVE  Timeline'
<1> USE DEF receiverVars
<1>0. /\ IsTranscript(rows) /\ voice.last \in 0..MaxFrames /\ proc.frame \in Frames
      /\ Unread \in Int
  BY Locals DEF IsTranscript, Unread
<1>1. CASE Recognized \/ CreateForText
  <2>1. /\ proc'.why = proc.why /\ proc'.frame = proc.frame /\ voice' = voice
        /\ proc.pc \in {"model", "create"} /\ UNCHANGED <<received, queue, dropped, rows>>
    BY <1>1 DEF Recognized, CreateForText
  <2>2. CallFits(proc, voice)'
    BY <2>1 DEF Timeline, CallFits
  <2> QED
    BY <2>1, <2>2, TimelineStays DEF Timeline
<1>2. CASE CreateFault
  <2>1. /\ proc' \in {Idling("done"), Idling("dead")} /\ voice' = Quiet(voice.last)
        /\ UNCHANGED <<received, queue, dropped, rows>>
    BY <1>2 DEF CreateFault
  <2>2. Spoken(voice', rows) /\ voice'.last = voice.last
    BY <1>0, <2>1, QuietSpoken DEF Timeline, Spoken
  <2>3. CallFits(proc, voice)' /\ proc'.why # "gap"
    BY <2>1 DEF CallFits, Idling
  <2> QED
    BY <2>1, <2>2, <2>3, TimelineStays DEF Timeline
<1>3. CASE NothingNew \/ AppendFault
  <2>1. /\ Resume(counter) /\ proc.pc \in {"model", "append"}
        /\ UNCHANGED <<received, queue, dropped, rows>>
    BY <1>3 DEF NothingNew, AppendFault
  <2>2. /\ Spoken(voice', rows) /\ CallFits(proc, voice)' /\ proc'.why # "gap"
        /\ voice'.last = IF proc.why = "gap" THEN proc.frame + 1 ELSE voice.last
    BY <1>0, <2>1, ResumeSpoken DEF Timeline
  <2>3. voice'.last <= Unread
    BY <1>0, <2>2 DEF Timeline, Frames
  <2> QED
    BY <2>1, <2>2, <2>3, TimelineStays
<1> QED
  BY <1>1, <1>2, <1>3

\* The new row starts where the buffer does, which no earlier row is after.
LEMMA TimelineAppend ==
    ASSUME Types, Timeline, AppendRow
    PROVE  Timeline'
<1> USE DEF receiverVars
<1> DEFINE r == NewRow(counter)
           n == Len(rows)
           b == voice.buffer
<1>0. /\ rows \in Seq(Row) /\ n \in Nat /\ r \in Row /\ voice \in Voice
      /\ voice.start \in Nat /\ voice.last \in Nat /\ b \in Seq(Frames)
      /\ proc.frame \in Frames /\ Unread \in Int /\ counter \in Counters
  BY Locals, NewRowType DEF Unread
<1>1. /\ rows' = Append(rows, r) /\ UNCHANGED <<received, queue, dropped>>
      /\ Resume([last |-> counter.last, pending |-> 0]) /\ proc.pc = "append"
  BY DEF AppendRow
<1>2. r.from = voice.start /\ r.to = voice.start + Len(b) /\ r.frames = b
  BY DEF NewRow
<1> HIDE DEF r
<1>3. voice.speaking /\ b # <<>> /\ Len(b) \in 1..Len(b)
      /\ \A i \in 1..Len(b) : b[i] \in Nat
  <2>1. voice.speaking /\ b # <<>>
    BY <1>1 DEF Timeline, CallFits, Spoken
  <2> QED
    BY <1>0, <2>1 DEF Frames
<1>4. /\ DOMAIN rows' = 1..(n + 1) /\ DOMAIN rows = 1..n /\ rows' \in Seq(Row)
      /\ rows'[n + 1] = r /\ \A i \in 1..n : rows'[i] = rows[i]
  BY <1>0, <1>1
<1> HIDE DEF n
<1>5. voice.start <= voice.last
  <2>1. voice.start + Len(b) <= b[Len(b)] + 1 /\ b[Len(b)] < voice.last
    BY <1>3 DEF Timeline, Spoken
  <2> QED
    BY <1>0, <1>3, <2>1
<1>6. Spoken(voice, rows')
  <2>1. \A i \in DOMAIN rows' : rows'[i].from <= voice.start /\ rows'[i].from <= voice.last
    <3>1. \A i \in DOMAIN rows : rows[i].from <= voice.start /\ rows[i].from <= voice.last
      BY <1>3 DEF Timeline, Spoken
    <3>2. r.from <= voice.start /\ r.from <= voice.last
      BY <1>0, <1>2, <1>5
    <3> QED
      BY <1>0, <1>4, <3>1, <3>2
  <2> QED
    BY <2>1 DEF Timeline, Spoken
<1>7. /\ Spoken(voice', rows') /\ CallFits(proc, voice)' /\ proc'.why # "gap"
      /\ voice'.last = IF proc.why = "gap" THEN proc.frame + 1 ELSE voice.last
  BY <1>1, <1>4, <1>6, ResumeSpoken DEF Timeline, IsTranscript
<1>8. voice'.last <= Unread
  BY <1>0, <1>7 DEF Timeline, Frames
<1>9. Placed(r)
  <2>1. b[Len(b)] < Unread
    <3>1. b[Len(b)] < voice.last /\ voice.last <= Unread /\ b[Len(b)] \in Nat
      BY <1>3 DEF Timeline, Spoken
    <3> QED
      BY <1>0, <3>1
  <2>2. \A d \in dropped : ~(b[1] < d /\ d < b[Len(b)])
    <3>1. b[Len(b)] < voice.last /\ \A d \in dropped : ~(b[1] < d /\ d < voice.last)
      BY <1>3 DEF Timeline, Spoken
    <3> QED
      BY <1>0, <1>3, <3>1, Locals
  <2> QED
    BY <1>2, <1>3, <2>1, <2>2 DEF Placed, Timeline, Spoken
<1>10. \A i \in DOMAIN rows' : Placed(rows'[i])
  BY <1>0, <1>4, <1>9 DEF Timeline
<1>11. \A i \in DOMAIN rows' : Placed(rows[i])'
  BY <1>1, <1>10 DEF Placed, Unread
<1>12. \A i, k \in DOMAIN rows' : i < k => rows'[i].from <= rows'[k].from
  <2> SUFFICES ASSUME NEW i \in 1..(n + 1), NEW k \in 1..(n + 1), i < k
               PROVE  rows'[i].from <= rows'[k].from
    BY <1>4
  <2>1. CASE k = n + 1
    <3>1. i \in DOMAIN rows /\ rows'[i] = rows[i] /\ rows'[k] = r
      BY <1>0, <1>4, <2>1
    <3>2. rows[i].from <= voice.start
      BY <1>3, <3>1 DEF Timeline, Spoken
    <3> QED
      BY <1>2, <3>1, <3>2
  <2>2. CASE k # n + 1
    <3>1. i \in DOMAIN rows /\ k \in DOMAIN rows /\ rows'[i] = rows[i] /\ rows'[k] = rows[k]
      BY <1>0, <1>4, <2>2
    <3> QED
      BY <3>1 DEF Timeline
  <2> QED
    BY <2>1, <2>2
<1>13. Unread' = Unread /\ Ordered'
  BY <1>1 DEF Timeline, Ordered, Unread
<1>14. Spoken(voice, rows)'
  BY <1>1, <1>7 DEF Spoken
<1> QED
  BY <1>7, <1>8, <1>11, <1>12, <1>13, <1>14 DEF Timeline

LEMMA TimelineGet ==
    ASSUME Types, Timeline, Get
    PROVE  Timeline'
<1> USE DEF receiverVars
<1> DEFINE f == Head(queue)
           n == Len(queue)
<1>0. /\ queue \in Seq(Frames) /\ n \in Nat /\ n > 0 /\ received \in Nat
      /\ IsTranscript(rows) /\ voice \in Voice /\ voice.last \in 0..MaxFrames
      /\ \A d \in dropped : d \in Nat
  BY Locals DEF Get, IsTranscript
<1>1. /\ queue' = Tail(queue) /\ UNCHANGED <<received, dropped, rows>>
      /\ proc.pc = "get"
  BY DEF Get
<1>2. f \in Frames /\ f = Unread /\ f \in Nat
  <2>1. f = queue[1] /\ 1 \in 1..n /\ queue[1] \in Frames
    BY <1>0
  <2> QED
    BY <1>0, <2>1 DEF Timeline, Ordered, Unread, Frames
<1>3. /\ Len(queue') = n - 1 /\ Unread' = Unread + 1
      /\ \A i \in 1..Len(queue') : queue'[i] = queue[i + 1]
  <2>1. Len(queue') = n - 1 /\ \A i \in 1..Len(queue') : queue'[i] = queue[i + 1]
    BY <1>0, <1>1
  <2> QED
    BY <1>0, <1>1, <2>1 DEF Unread
<1> HIDE DEF f
<1>4. Ordered'
  <2>1. \A i \in 1..Len(queue') : queue'[i] = Unread' + i - 1
    <3> TAKE i \in 1..Len(queue')
    <3>1. i + 1 \in 1..n /\ queue'[i] = queue[i + 1]
      BY <1>0, <1>3
    <3>2. queue[i + 1] = Unread + (i + 1) - 1
      BY <3>1 DEF Timeline, Ordered
    <3> QED
      BY <1>2, <1>3, <3>1, <3>2
  <2>2. Len(queue') <= received' /\ \A d \in dropped' : d < Unread'
    BY <1>0, <1>1, <1>2, <1>3 DEF Timeline, Ordered
  <2> QED
    BY <2>1, <2>2 DEF Ordered
<1>5. voice.last <= f /\ f \notin dropped
  BY <1>0, <1>2 DEF Timeline, Ordered
<1>6. /\ Spoken(voice', rows) /\ CallFits(proc, voice)' /\ voice'.last <= f + 1
      /\ proc'.why = "gap" => proc'.frame = f
  <2>1. CASE Calls("gap", f) /\ UNCHANGED voice /\ voice.speaking
    BY <1>0, <1>2, <1>5, <2>1 DEF Calls, Timeline, CallFits
  <2>2. CASE Hear(Quiet(voice.last), f, counter)
    <3> DEFINE v == Quiet(voice.last)
    <3>1. v \in Voice /\ Spoken(v, rows) /\ v.last <= f /\ ~v.speaking /\ Hear(v, f, counter)
      BY <1>0, <1>5, <2>2, QuietType, QuietSpoken DEF Timeline, Spoken
    <3> HIDE DEF v
    <3> QED
      BY <1>0, <1>2, <1>5, <3>1, HearSpoken
  <2>3. CASE Hear(voice, f, counter) /\ ~(voice.last # 0 /\ f > voice.last)
    <3>1. voice.speaking => f = voice.last
      <4>1. SUFFICES ASSUME voice.speaking PROVE voice.last # 0
        BY <1>0, <1>2, <1>5, <2>3
      <4>2. voice.buffer # <<>> /\ voice.buffer[Len(voice.buffer)] < voice.last
        BY <4>1 DEF Timeline, Spoken
      <4>3. voice.buffer[Len(voice.buffer)] \in Nat
        BY <1>0, <4>2 DEF Voice, Frames
      <4> QED
        BY <4>2, <4>3
    <3> QED
      BY <1>0, <1>2, <1>5, <2>3, <3>1, HearSpoken DEF Timeline
  <2> QED
    BY <2>1, <2>2, <2>3 DEF Get, f
<1>7. Spoken(voice, rows)'
  BY <1>1, <1>6 DEF Spoken
<1>8. \A i \in DOMAIN rows : Placed(rows[i])'
  <2> TAKE i \in DOMAIN rows
  <2> DEFINE fr == rows[i].frames
  <2>1. fr \in Seq(Frames) /\ Placed(rows[i])
    BY RowFields DEF Timeline, Types, TypeOK
  <2>2. fr[Len(fr)] \in Nat /\ fr[Len(fr)] < Unread'
    BY <1>2, <1>3, <2>1 DEF Placed, Frames
  <2> QED
    BY <1>1, <2>1, <2>2 DEF Placed
<1>9. /\ voice'.last <= Unread'
      /\ proc'.why = "gap" => proc'.frame < Unread' /\ proc'.frame \notin dropped'
  BY <1>1, <1>2, <1>3, <1>5, <1>6
<1> QED
  BY <1>1, <1>4, <1>6, <1>7, <1>8, <1>9 DEF Timeline

LEMMA TimelineLoop ==
    ASSUME Types, Timeline, Loop \/ GetTimeout
    PROVE  Timeline'
<1> USE DEF receiverVars
<1>0. /\ IsTranscript(rows) /\ voice \in Voice /\ voice.last \in 0..MaxFrames
  BY Locals DEF IsTranscript
<1>1. Spoken(Quiet(voice.last), rows) /\ Quiet(voice.last).last = voice.last
  BY <1>0, QuietSpoken DEF Timeline, Spoken
<1>2. CASE Loop /\ Await
  <2>1. UNCHANGED <<rows, voice, received>> /\ proc' = Idling("get")
    BY <1>2 DEF Loop, Await
  <2> QED
    BY <1>2, <2>1, AwaitOrdered, DroppingKeepsTimeline DEF Timeline
<1>3. CASE /\ UNCHANGED <<received, queue, dropped, rows>>
           /\ \E w \in {"flush", "timeout"} : Calls(w, 0)
           /\ UNCHANGED voice /\ voice.buffer # <<>>
  <2>1. CallFits(proc, voice)' /\ proc'.why # "gap"
    BY <1>3 DEF Calls, CallFits, Timeline, Spoken
  <2> QED
    BY <1>3, <2>1, TimelineStays DEF Timeline
<1>4. CASE /\ UNCHANGED <<received, queue, dropped, rows>>
           /\ \E pc \in {"loop", "done"} : proc' = Idling(pc)
           /\ voice' = voice \/ voice' = Quiet(voice.last)
  <2>1. CallFits(proc, voice)' /\ proc'.why # "gap"
    BY <1>4 DEF CallFits, Idling
  <2>2. Spoken(voice', rows) /\ voice'.last = voice.last
    BY <1>1, <1>4 DEF Timeline
  <2> QED
    BY <1>4, <2>1, <2>2, TimelineStays DEF Timeline
<1>5. CASE Loop /\ Finish /\ UNCHANGED <<queue, dropped>>
  <2>1. voice.speaking => voice.buffer # <<>>
    BY DEF Timeline, Spoken
  <2> QED
    BY <1>3, <1>4, <1>5, <2>1 DEF Loop, Finish
<1>6. CASE GetTimeout
  BY <1>3, <1>4, <1>6 DEF GetTimeout, LoopsWith
<1> QED
  BY <1>2, <1>5, <1>6 DEF Loop

LEMMA InitTimeline == Init => Timeline
<1> SUFFICES ASSUME Init PROVE Timeline
  OBVIOUS
<1>1. received = 0 /\ queue = <<>> /\ dropped = {} /\ rows = <<>> /\ voice = Quiet(0)
  BY DEF Init
<1>2. proc.pc = "loop" /\ proc.why = "none"
  BY DEF Init, Idling
<1>3. Ordered /\ Unread = 0
  <2>1. received = 0 /\ Len(queue) = 0
    BY <1>1
  <2>2. Unread = 0
    BY <2>1, 0 - 0 = 0 DEF Unread
  <2>3. Len(queue) <= received /\ \A i \in 1..Len(queue) : queue[i] = Unread + i - 1
    BY <1>1, <2>1
  <2> QED
    BY <1>1, <2>2, <2>3 DEF Ordered
<1>4. Spoken(voice, rows) /\ voice.last = 0
  BY <1>1 DEF Spoken, Quiet
<1> QED
  BY <1>1, <1>2, <1>3, <1>4 DEF Timeline, CallFits

LEMMA TimelineNext == Types /\ Timeline /\ [Next]_vars => Timeline'
<1> SUFFICES ASSUME Types, Timeline, [Next]_vars PROVE Timeline'
  OBVIOUS
<1> USE DEF receiverVars, procVars
<1>1. CASE AudioCapped \/ AudioWritten \/ SavePath \/ AudioFault
  <2>1. received < MaxFrames /\ Enqueue /\ UNCHANGED <<rows, voice, proc>>
    BY <1>1 DEF AudioCapped, AudioWritten, SavePath, AudioFault, Hears, Types
  <2> QED
    BY <2>1, TimelineReceiver
<1>2. CASE UNCHANGED <<received, queue, dropped, rows, voice, proc>>
  BY <1>2, TimelineReceiver
<1>3. CASE ProcessorGoesOn \/ Recognized \/ NothingNew \/ CreateFault \/ AppendFault
  BY <1>3, TimelineLoop, TimelineGet, TimelineAppend, TimelineCall DEF ProcessorGoesOn
<1>4. ASSUME Next
      PROVE  \/ AudioCapped \/ AudioWritten \/ SavePath \/ AudioFault
             \/ UNCHANGED <<received, queue, dropped, rows, voice, proc>>
             \/ ProcessorGoesOn \/ Recognized \/ NothingNew \/ CreateFault \/ AppendFault
  BY <1>4 DEF Next, Receives, ReceiverGoesOn, AudioOpensFile, AudioNeedsMeeting, Rename,
     Leave, StopReceiving, CreateForAudio, CreateForRename, ProcessorGone, DrainTimeout,
     GiveUp, ShutDown, Finalize, RenameFault
<1>5. UNCHANGED vars => UNCHANGED <<received, queue, dropped, rows, voice, proc>>
  BY DEF vars
<1> QED
  BY <1>1, <1>2, <1>3, <1>4, <1>5

\* The arithmetic of speech_start_sample, the context carried over from a full
\* buffer and the flush at a gap keep every row within the speech it was heard
\* in, and the rows in order of time.
THEOREM RowsAreOnTimeline == Spec => []RowsOnTimeline
<1>1. Types /\ Timeline => RowsOnTimeline
  <2> SUFFICES ASSUME Types, Timeline, NEW i \in DOMAIN rows
               PROVE  /\ Head(rows[i].frames) <= rows[i].from
                      /\ rows[i].to <= Last(rows[i].frames) + 1
    BY DEF Timeline, RowsOnTimeline
  <2>1. Placed(rows[i]) /\ rows[i].frames \in Seq(Frames)
    BY RowFields DEF Timeline, Types, TypeOK
  <2>2. Head(rows[i].frames) = rows[i].frames[1]
    BY <2>1 DEF Placed
  <2> QED
    BY <2>1, <2>2 DEF Placed, Last
<1> QED
  BY <1>1, InitTypes, TypesNext, InitTimeline, TimelineNext, PTL DEF Spec

\* A queue that drops its oldest frame, and the skip of old frames before the
\* next is awaited, leave gaps; no segment reaches across one.
THEOREM GapsSeparate == Spec => []NoJoinAcrossGap
<1>1. Types /\ Timeline => NoJoinAcrossGap
  <2> SUFFICES ASSUME Types, Timeline, NEW i \in DOMAIN rows, NEW d \in dropped
               PROVE  ~(Head(rows[i].frames) < d /\ d < Last(rows[i].frames))
    BY DEF NoJoinAcrossGap
  <2>1. Placed(rows[i]) /\ rows[i].frames \in Seq(Frames)
    BY RowFields DEF Timeline, Types, TypeOK
  <2>2. Head(rows[i].frames) = rows[i].frames[1]
    BY <2>1 DEF Placed
  <2> QED
    BY <2>1, <2>2 DEF Placed, Last
<1> QED
  BY <1>1, InitTypes, TypesNext, InitTimeline, TimelineNext, PTL DEF Spec

-----------------------------------------------------------------------------
(* The recording.                                                          *)

\* Until the cap every frame is written, in order, before it is queued; past it
\* the session is marked before the next frame is.
Recorded ==
    /\ Len(recording.frames) = IF received <= CapFrames THEN received ELSE CapFrames + 1
    /\ \A n \in DOMAIN recording.frames : recording.frames[n] = n - 1
    /\ receiver \in {"create", "path"} => received <= CapFrames
    /\ ~recording.capped => received <= CapFrames + 1
    /\ outcome.state = "queued" => receiver = "over" /\ ~recording.capped

RecordedIfNoFault == faults = 0 => Recorded

\* What was recognized was received.
RowsHeard ==
    \A i \in DOMAIN rows : \A k \in DOMAIN rows[i].frames : rows[i].frames[k] < received

\* One more frame in the file.
LEMMA WriteRecorded ==
    ASSUME Types, Recorded, received <= CapFrames, received < MaxFrames, Enqueue,
           recording'.frames = Append(recording.frames, received),
           recording'.capped = recording.capped, UNCHANGED outcome,
           receiver # "over"
    PROVE  Recorded'
<1> DEFINE fs == recording.frames
<1>1. /\ fs \in Seq(Frames) /\ Len(fs) \in Nat /\ received \in Nat /\ received \in Frames
      /\ received' = received + 1 /\ receiver' \in {"recv", "draining"}
  BY EnqueueTypes DEF Types, TypeOK, Recording, Enqueue, Frames
<1>2. Len(fs) = received /\ \A n \in 1..Len(fs) : fs[n] = n - 1
  BY <1>1 DEF Recorded
<1> HIDE DEF fs
<1>3. /\ Len(Append(fs, received)) = received + 1
      /\ \A n \in 1..(received + 1) : Append(fs, received)[n] = n - 1
  BY <1>1, <1>2
<1>4. /\ Len(recording'.frames) = received'
      /\ \A n \in DOMAIN recording'.frames : recording'.frames[n] = n - 1
  BY <1>1, <1>3 DEF fs
<1>5. outcome'.state # "queued"
  BY DEF Recorded
<1> QED
  BY <1>1, <1>4, <1>5 DEF Recorded

\* Nothing happens to the file.
LEMMA StaysRecorded ==
    ASSUME Recorded, UNCHANGED <<received, outcome>>,
           recording'.frames = recording.frames, recording'.capped = recording.capped,
           receiver' = "over" <=> receiver = "over",
           receiver' \in {"create", "path"} => received <= CapFrames
    PROVE  Recorded'
  BY DEF Recorded

LEMMA RecordedReceiver ==
    ASSUME Types, Recorded, Receives \/ ReceiverGoesOn \/ ShutDown
    PROVE  Recorded'
<1>0. recording \in Recording /\ received \in Nat
  BY DEF Types, TypeOK
<1>1. CASE AudioCapped
  <2>1. /\ recording'.frames = recording.frames /\ recording'.capped
        /\ received' = received + 1 /\ received > CapFrames /\ outcome' = outcome
        /\ receiver = "recv" /\ receiver' \in {"recv", "draining"}
    BY <1>0, <1>1 DEF AudioCapped, Enqueue, Hears, Recording
  <2> QED
    BY <1>0, <2>1 DEF Recorded
<1>2. CASE AudioWritten
  <2>1. /\ recording'.frames = Append(recording.frames, received)
        /\ recording'.capped = recording.capped
    BY <1>0, <1>2 DEF AudioWritten, Recording
  <2> QED
    BY <1>2, <2>1, WriteRecorded DEF AudioWritten, Hears
<1>3. CASE SavePath
  <2>1. /\ recording'.frames = Append(recording.frames, received)
        /\ recording'.capped = recording.capped
    BY <1>0, <1>3 DEF SavePath, Recording
  <2>2. received <= CapFrames /\ received < MaxFrames
    BY <1>3 DEF SavePath, Recorded, Types
  <2> QED
    BY <1>3, <2>1, <2>2, WriteRecorded DEF SavePath
<1>4. CASE AudioOpensFile \/ CreateForAudio
  <2>1. /\ recording'.frames = recording.frames /\ recording'.capped = recording.capped
    BY <1>0, <1>4 DEF AudioOpensFile, CreateForAudio, OpenFile, Recording
  <2>2. received <= CapFrames
    BY <1>4 DEF AudioOpensFile, CreateForAudio, Recorded
  <2> QED
    BY <1>4, <2>1, <2>2, StaysRecorded DEF AudioOpensFile, CreateForAudio, Hears, OpenFile
<1>5. CASE AudioNeedsMeeting \/ Rename \/ Leave \/ CreateForRename
  BY <1>5, StaysRecorded DEF AudioNeedsMeeting, Hears, Rename, Leave, StopReceiving, CreateForRename
<1>6. CASE DrainTimeout
  <2>1. recording'.frames = recording.frames /\ recording'.capped = recording.capped
    BY <1>0, <1>6 DEF DrainTimeout, Recording
  <2> QED
    BY <1>6, <2>1, StaysRecorded DEF DrainTimeout
<1>7. CASE ProcessorGone \/ GiveUp \/ ShutDown
  <2>1. PICK early \in BOOLEAN : Finalize(early)
    BY <1>7 DEF ProcessorGone, GiveUp, ShutDown
  <2>2. recording'.frames = recording.frames /\ recording'.capped = recording.capped
    BY <1>0, <2>1 DEF Finalize, Recording
  <2>3. outcome'.state = "queued" => ~recording.capped
    BY <2>1 DEF Finalize
  <2> QED
    BY <2>1, <2>2, <2>3 DEF Finalize, Recorded
<1> QED
  BY <1>1, <1>2, <1>3, <1>4, <1>5, <1>6, <1>7 DEF Receives, ReceiverGoesOn

LEMMA RecordedNext == Types /\ RecordedIfNoFault /\ [Next]_vars => RecordedIfNoFault'
<1> SUFFICES ASSUME Types, RecordedIfNoFault, [Next]_vars, faults' = 0 PROVE Recorded'
  BY DEF RecordedIfNoFault
<1>1. CASE UNCHANGED vars
  BY <1>1, StaysRecorded DEF vars, RecordedIfNoFault, Recorded
<1>2. CASE Next
  <2>1. Recorded /\ ~Fault
    BY <1>2, NoFaultBefore DEF RecordedIfNoFault
  <2>2. CASE ProcessorGoesOn \/ Recognized \/ NothingNew
    <3>1. UNCHANGED <<receiver, received, recording, outcome>>
      BY <2>2 DEF receiverVars, ProcessorGoesOn, Loop, Get, GetTimeout, CreateForText, AppendRow,
         Recognized, NothingNew
    <3> QED
      BY <2>1, <3>1, StaysRecorded DEF Recorded
  <2> QED
    BY <1>2, <2>1, <2>2, RecordedReceiver
       DEF Next, AudioFault, RenameFault, CreateFault, AppendFault
<1> QED
  BY <1>1, <1>2

LEMMA RowsHeardNext == Types /\ Timeline /\ RowsHeard /\ [Next]_vars => RowsHeard'
<1> SUFFICES ASSUME Types, Timeline, RowsHeard, [Next]_vars PROVE RowsHeard'
  OBVIOUS
<1>1. CASE UNCHANGED <<rows, received>>
  BY <1>1 DEF RowsHeard
<1>2. CASE rows' = rows /\ Enqueue
  <2>1. received \in Nat /\ received' = received + 1
    BY <1>2 DEF Enqueue, Types, TypeOK
  <2>2. \A i \in DOMAIN rows : \A k \in DOMAIN rows[i].frames : rows[i].frames[k] \in Nat
    BY RowFields DEF Types, TypeOK, Frames
  <2> QED
    BY <1>2, <2>1, <2>2 DEF RowsHeard
<1>3. CASE AppendRow
  <2> DEFINE b == voice.buffer
             n == Len(b)
  <2>1. /\ voice.speaking /\ rows \in Seq(Row) /\ NewRow(counter) \in Row
        /\ NewRow(counter).frames = b /\ b \in Seq(Frames) /\ n \in Nat
    BY <1>3, Locals, NewRowType DEF AppendRow, Timeline, CallFits, NewRow
  <2>2. /\ IsRising(b) /\ b # <<>> /\ b[n] < voice.last /\ voice.last <= Unread
        /\ received \in Nat /\ Len(queue) \in Nat /\ voice.last \in Nat
    BY <2>1, Locals DEF Timeline, Spoken
  <2>a. voice.last <= received
    BY <2>2 DEF Unread
  <2>b. n > 0 /\ \A k \in 1..n : b[k] \in Frames /\ b[k] \in Nat
    BY <2>1, <2>2 DEF Frames
  <2>c. \A i, k \in 1..n : i < k => b[i] + (k - i) <= b[k]
    BY <2>2 DEF IsRising
  <2>d. n \in Nat /\ DOMAIN b = 1..n
    BY <2>1
  <2>e. b[n] < voice.last
    BY <2>2
  <2> HIDE DEF b, n
  <2>3. \A k \in 1..n : b[k] < received
    <3> TAKE k \in 1..n
    <3>1. n \in 1..n /\ b[n] \in Nat /\ b[k] \in Nat
      BY <2>b, <2>d
    <3>2. b[k] <= b[n]
      <4>1. CASE k = n
        BY <3>1, <4>1
      <4>2. CASE k # n
        <5>1. k < n
          BY <2>d, <4>2
        <5>2. b[k] + (n - k) <= b[n]
          BY <2>c, <3>1, <5>1
        <5> QED
          BY <2>d, <3>1, <5>1, <5>2
      <4> QED
        BY <4>1, <4>2
    <3> QED
      BY <2>2, <2>a, <2>e, <3>1, <3>2
  <2>4. received' = received /\ rows' = Append(rows, NewRow(counter))
    BY <1>3 DEF AppendRow, receiverVars
  <2> SUFFICES ASSUME NEW i \in DOMAIN rows' PROVE \A k \in DOMAIN rows'[i].frames :
                                                    rows'[i].frames[k] < received'
    BY DEF RowsHeard
  <2>5. CASE i \in DOMAIN rows
    BY <2>1, <2>4, <2>5 DEF RowsHeard
  <2>6. CASE i \notin DOMAIN rows
    <3>1. rows'[i] = NewRow(counter)
      BY <2>1, <2>4, <2>6
    <3> QED
      BY <2>1, <2>3, <2>4, <2>d, <3>1
  <2> QED
    BY <2>5, <2>6
<1> QED
  BY <1>1, <1>2, <1>3 DEF receiverVars, procVars, vars, Next, Receives, ReceiverGoesOn,
     ProcessorGoesOn, AudioCapped, AudioWritten, AudioOpensFile, AudioNeedsMeeting, Rename, Leave,
     StopReceiving, CreateForAudio, SavePath, CreateForRename, ProcessorGone, DrainTimeout, GiveUp,
     ShutDown, Finalize, Loop, Get, GetTimeout, CreateForText, Recognized, NothingNew,
     AudioFault, RenameFault, CreateFault, AppendFault

\* The recording is the session's time line, and a refinement hears all of it.
THEOREM RefinementHears == Spec => []RefinementHearsAll
<1>1. Init => RecordedIfNoFault /\ RowsHeard
  <2> SUFFICES ASSUME Init PROVE RecordedIfNoFault /\ RowsHeard
    OBVIOUS
  <2>1. recording.frames = <<>> /\ received = 0 /\ rows = <<>>
    BY DEF Init
  <2>2. Len(recording.frames) = 0 /\ DOMAIN recording.frames = {} /\ DOMAIN rows = {}
    BY <2>1
  <2> QED
    BY <2>1, <2>2 DEF Init, RecordedIfNoFault, Recorded, RowsHeard
<1>2. Types /\ RecordedIfNoFault /\ RowsHeard => RefinementHearsAll
  <2> SUFFICES ASSUME Types, Recorded, RowsHeard
               PROVE  /\ \A n \in DOMAIN recording.frames : recording.frames[n] = n - 1
                      /\ outcome.state = "queued" =>
                            \A i \in DOMAIN rows :
                               ToSet(rows[i].frames) \subseteq ToSet(recording.frames)
    BY DEF RecordedIfNoFault, RefinementHearsAll
  <2>1. ASSUME outcome.state = "queued", NEW i \in DOMAIN rows, NEW k \in DOMAIN rows[i].frames
        PROVE  rows[i].frames[k] \in ToSet(recording.frames)
    <3> DEFINE f == rows[i].frames[k]
    <3>1. f \in Nat /\ f < received /\ received \in Nat
      BY RowFields DEF RowsHeard, Types, TypeOK, Frames
    <3>2. Len(recording.frames) = received
      BY <2>1, <3>1 DEF Recorded
    <3> HIDE DEF f
    <3>3. f + 1 \in DOMAIN recording.frames
      BY <3>1, <3>2 DEF Types, TypeOK, Recording
    <3>4. recording.frames[f + 1] = f
      BY <3>1, <3>3 DEF Recorded
    <3> QED
      BY <3>3, <3>4 DEF ToSet, f
  <2> QED
    BY <2>1 DEF Recorded, ToSet
<1> QED
  BY <1>1, <1>2, InitTypes, TypesNext, InitTimeline, TimelineNext, RecordedNext, RowsHeardNext, PTL
     DEF Spec

-----------------------------------------------------------------------------
(* The end.                                                                *)

Draining == {"draining", "deferred", "over"}

\* The processor flushes once the queue has been drained of what the receiver,
\* which hears nothing any more, had put there.
EndsInOrder ==
    /\ stop => proc.pc = "idle" \/ receiver \in Draining
    /\ proc.pc = "done" \/ proc.why = "flush" => queue = <<>> /\ receiver \in Draining
    /\ outcome.state # "none" /\ ~outcome.early => Ended

LEMMA HearEnds ==
    ASSUME NEW v, NEW f, NEW c, Hear(v, f, c)
    PROVE  /\ proc'.pc # "done" /\ proc'.why # "flush"
           /\ stop' => stop \/ proc'.pc = "idle"
  BY DEF Hear, HearPause, HearMore, HearFirst, HearNothing, LoopsWith, Calls, Idling

LEMMA ResumeEnds ==
    ASSUME NEW c, Resume(c)
    PROVE  /\ proc'.pc = "done" \/ proc'.why = "flush" => proc.why = "flush"
           /\ stop' => stop \/ proc'.pc = "idle"
<1>1. CASE Hear(Quiet(voice.last), proc.frame, c)
  BY <1>1, HearEnds
<1>2. CASE ~Hear(Quiet(voice.last), proc.frame, c)
  BY <1>2 DEF Resume, LoopsWith, Idling
<1> QED
  BY <1>1, <1>2

LEMMA ReceiverEnds ==
    ASSUME Types, EndsInOrder,
           Receives \/ ReceiverGoesOn \/ ShutDown \/ AudioFault \/ RenameFault
    PROVE  EndsInOrder'
<1> USE DEF procVars
<1>1. CASE Enqueue /\ receiver \notin Draining /\ UNCHANGED <<stop, procVars, outcome>>
  <2>1. receiver' = IF stop THEN "draining" ELSE "recv"
    BY <1>1 DEF Enqueue
  <2> QED
    BY <1>1, <2>1 DEF EndsInOrder, Draining, Ended
<1>2. CASE /\ UNCHANGED <<queue, procVars, outcome>>
           /\ receiver \in Draining => receiver' \in Draining
           /\ stop' => stop \/ receiver' \in Draining
  BY <1>2 DEF EndsInOrder, Ended
<1>3. CASE ProcessorGone \/ GiveUp \/ ShutDown
  <2>1. PICK early \in BOOLEAN : Finalize(early) /\ (early \/ Ended)
    BY <1>3 DEF ProcessorGone, GiveUp, ShutDown
  <2> QED
    BY <2>1 DEF Finalize, EndsInOrder, Draining, Ended
<1> QED
  BY <1>1, <1>2, <1>3 DEF Receives, ReceiverGoesOn, AudioCapped, AudioWritten, AudioOpensFile,
     AudioNeedsMeeting, Rename, Leave, StopReceiving, CreateForAudio, OpenFile, SavePath,
     CreateForRename, DrainTimeout, AudioFault, RenameFault, Hears, Draining

LEMMA ProcessorEnds ==
    ASSUME Types, EndsInOrder,
           ProcessorGoesOn \/ Recognized \/ NothingNew \/ CreateFault \/ AppendFault
    PROVE  EndsInOrder'
<1> USE DEF receiverVars
<1>1. /\ UNCHANGED <<receiver, outcome>> /\ ~Ended
      /\ stop' => stop \/ proc'.pc = "idle"
      /\ proc'.pc = "done" \/ proc'.why = "flush" => receiver \in Draining /\ queue' = <<>>
  <2>1. CASE Loop
    BY <2>1 DEF Loop, Finish, Await, Calls, Idling, Ended, EndsInOrder
  <2>2. CASE Get
    BY <2>2, HearEnds DEF Get, Calls, Ended
  <2>3. CASE GetTimeout
    BY <2>3 DEF GetTimeout, LoopsWith, Calls, Idling, Ended
  <2>4. CASE Recognized \/ CreateForText \/ CreateFault
    BY <2>4 DEF Recognized, CreateForText, CreateFault, Idling, Ended, EndsInOrder
  <2>5. CASE NothingNew \/ AppendRow \/ AppendFault
    <3>1. PICK c : Resume(c)
      BY <2>5 DEF NothingNew, AppendRow, AppendFault
    <3> QED
      BY <2>5, <3>1, ResumeEnds DEF NothingNew, AppendRow, AppendFault, Ended, EndsInOrder
  <2> QED
    BY <2>1, <2>2, <2>3, <2>4, <2>5 DEF ProcessorGoesOn
<1>2. stop => receiver \in Draining
  BY <1>1 DEF EndsInOrder, Ended
<1> QED
  BY <1>1, <1>2 DEF EndsInOrder

\* A session that was not given up leaves no frame unheard and no row to come.
THEOREM EndsClean == Spec => []NothingLeftBehind
<1>1. Init => EndsInOrder
  BY DEF Init, Idling, EndsInOrder
<1>2. Types /\ EndsInOrder /\ [Next]_vars => EndsInOrder'
  <2>1. EndsInOrder /\ UNCHANGED vars => EndsInOrder'
    BY DEF vars, procVars, receiverVars, EndsInOrder, Ended
  <2> QED
    BY <2>1, ReceiverEnds, ProcessorEnds DEF Next
<1>3. EndsInOrder => NothingLeftBehind
  BY DEF EndsInOrder, NothingLeftBehind
<1> QED
  BY <1>1, <1>2, <1>3, InitTypes, TypesNext, PTL DEF Spec
=============================================================================
