------------------------ MODULE MeetingPipelineProofs ------------------------
(***************************************************************************)
(* Safety of MeetingPipeline for every set of meetings and clients and for *)
(* every bound, from an inductive invariant, RowsInv, proved in three      *)
(* layers:                                                                 *)
(*                                                                         *)
(*   1. types, and locals that name rows the store has;                    *)
(*   2. the runner's claim is recorded in the table, and what is cancelled *)
(*      was requested to be;                                               *)
(*   3. without database faults, no running row and no audio path is left  *)
(*      behind.                                                            *)
(***************************************************************************)
EXTENDS MeetingPipeline, TLAPS

-----------------------------------------------------------------------------
(* What each transaction of the store preserves.                           *)
\* No meeting appears, disappears or changes its audio path.
SameMeetings ==
    \A n \in Meetings :
        /\ Exists(n)' <=> Exists(n)
        /\ meeting'[n].status = "deleted" <=> meeting[n].status = "deleted"
        /\ meeting'[n].audio = meeting[n].audio

\* No job row appears, disappears or changes its meeting.
SameJobs ==
    \A k \in Jobs :
        /\ JobExists(k)' <=> JobExists(k)
        /\ job'[k].meeting = job[k].meeting

\* The transactions that only change what rows say.
Quiet == SameMeetings /\ SameJobs /\ UNCHANGED <<nextJob, wav>>

-----------------------------------------------------------------------------

\* Whatever only changes what rows say keeps the store consistent.
LEMMA QuietKeepsStoreInv ==
    ASSUME StoreInv, StoreTypeOK', Quiet
    PROVE  StoreInv'
  BY DEF StoreInv, JobsHaveMeetings, Quiet, SameMeetings, SameJobs, JobExists, Exists

\* An UPDATE of a meeting, which must not make it look absent or deleted.
LEMMA SetMeetingKeepsRows ==
    ASSUME meeting \in [Meetings -> MeetingRow],
           NEW m \in Meetings, NEW row \in MeetingRow,
           Exists(m) => row.status \notin {"absent", "deleted"},
           row.audio = meeting[m].audio,
           SetMeeting(m, row)
    PROVE  /\ meeting' \in [Meetings -> MeetingRow]
           /\ SameMeetings
<1>1. CASE ~Exists(m)
  BY <1>1 DEF SetMeeting, SameMeetings, Exists
<1>2. CASE Exists(m)
  <2>1. meeting' = [meeting EXCEPT ![m] = row]
    BY <1>2 DEF SetMeeting
  <2>2. meeting' \in [Meetings -> MeetingRow]
    BY <2>1
  <2>3. ASSUME NEW n \in Meetings
        PROVE  /\ Exists(n)' <=> Exists(n)
               /\ meeting'[n].status = "deleted" <=> meeting[n].status = "deleted"
               /\ meeting'[n].audio = meeting[n].audio
    <3>1. CASE n = m
      BY <2>1, <1>2, <3>1 DEF Exists
    <3>2. CASE n # m
      BY <2>1, <3>2 DEF Exists
    <3>3. QED BY <3>1, <3>2
  <2>4. QED BY <2>2, <2>3 DEF SameMeetings
<1>3. QED BY <1>1, <1>2

\* The updates of a meeting that leave the other tables alone.
UpdatesMeeting(m) ==
    \/ FailMeeting(m) \/ MarkProcessing(m)
    \/ \E result \in {"completed", "unavailable"} : SetDiarization(m, result)
    \/ ReplaceWithDraft(m) \/ ReplaceWithFinal(m)
    \/ AppendLiveSegment(m) \/ FinalizeLive(m)

LEMMA UpdatesMeetingIsQuiet ==
    ASSUME StoreInv, NEW m \in Meetings, UpdatesMeeting(m)
    PROVE  StoreInv' /\ Quiet /\ UNCHANGED job
<1> USE DEF StoreInv, StoreTypeOK
<1>0. meeting \in [Meetings -> MeetingRow] /\ meeting[m] \in MeetingRow
  OBVIOUS
<1>1. SUFFICES meeting' \in [Meetings -> MeetingRow] /\ SameMeetings
                /\ UNCHANGED <<job, nextJob, wav>>
  <2>1. SameJobs
    BY <1>1 DEF SameJobs, JobExists
  <2>2. StoreTypeOK' /\ Quiet
    BY <1>1, <2>1 DEF Quiet, Jobs
  <2>3. QED BY <1>1, <2>2, QuietKeepsStoreInv
<1>2. UNCHANGED <<job, nextJob, wav>>
  BY DEF UpdatesMeeting, FailMeeting, MarkProcessing, SetDiarization,
         ReplaceWithDraft, ReplaceWithFinal, AppendLiveSegment, FinalizeLive
<1>3. CASE FinalizeLive(m) /\ meeting[m].source # "live"
  BY <1>2, <1>3 DEF FinalizeLive, SameMeetings, Exists
<1>4. CASE ~(FinalizeLive(m) /\ meeting[m].source # "live")
  <2>1. PICK row \in MeetingRow :
            /\ SetMeeting(m, row)
            /\ Exists(m) => row.status \notin {"absent", "deleted"}
            /\ row.audio = meeting[m].audio
    <3>1. CASE FailMeeting(m)
      BY <1>0, <3>1 DEF FailMeeting, MeetingRow
    <3>2. CASE MarkProcessing(m)
      BY <1>0, <3>2 DEF MarkProcessing, MeetingRow
    <3>3. CASE \E result \in {"completed", "unavailable"} : SetDiarization(m, result)
      BY <1>0, <3>3 DEF SetDiarization, MeetingRow, Exists
    <3>4. CASE ReplaceWithDraft(m)
      BY <1>0, <3>4 DEF ReplaceWithDraft, MeetingRow, Exists, Origins
    <3>5. CASE ReplaceWithFinal(m)
      <4> DEFINE final == [meeting[m] EXCEPT !.text = {"final"},
                                             !.state = "refined",
                                             !.truncated = FALSE]
      <4>1. final \in MeetingRow
        BY <1>0 DEF MeetingRow, Origins
      <4>2. /\ final.status = meeting[m].status
            /\ final.audio = meeting[m].audio
        BY <1>0 DEF MeetingRow
      <4>3. SetMeeting(m, final)
        BY <3>5 DEF ReplaceWithFinal
      <4> HIDE DEF final
      <4>4. QED BY <4>1, <4>2, <4>3 DEF Exists
    <3>6. CASE AppendLiveSegment(m)
      BY <1>0, <3>6 DEF AppendLiveSegment, MeetingRow, Exists, Origins
    <3>7. CASE FinalizeLive(m)
      <4>1. PICK s \in {"draft", "failed", "ready"} :
                SetMeeting(m, [meeting[m] EXCEPT !.status = s])
        BY <1>4, <3>7 DEF FinalizeLive
      <4>2. QED BY <1>0, <4>1 DEF MeetingRow
    <3>8. QED
      BY <3>1, <3>2, <3>3, <3>4, <3>5, <3>6, <3>7 DEF UpdatesMeeting
  <2>2. QED BY <1>0, <1>2, <2>1, SetMeetingKeepsRows
<1>5. QED BY <1>3, <1>4

-----------------------------------------------------------------------------

\* The updates of a job row that leave the other tables alone.
UpdatesJob(j) ==
    \/ ClaimNext(j) \/ SetCancelRequested(j)
    \/ \E s \in {"failed", "cancelled"} : SetJobStatus(j, s)

LEMMA SetJobKeepsRows ==
    ASSUME job \in [Jobs -> JobRow], NEW j \in Jobs, NEW row \in JobRow,
           row.status # "none", JobExists(j), row.meeting = job[j].meeting,
           job' = [job EXCEPT ![j] = row]
    PROVE  job' \in [Jobs -> JobRow] /\ SameJobs
<1>1. job' \in [Jobs -> JobRow]
  OBVIOUS
<1>2. ASSUME NEW k \in Jobs
      PROVE  (JobExists(k)' <=> JobExists(k)) /\ job'[k].meeting = job[k].meeting
  <2>1. CASE k = j
    BY <2>1 DEF JobExists
  <2>2. CASE k # j
    BY <2>2 DEF JobExists
  <2>3. QED BY <2>1, <2>2
<1>3. QED BY <1>1, <1>2 DEF SameJobs

LEMMA UpdatesJobIsQuiet ==
    ASSUME StoreInv, NEW j \in Jobs, UpdatesJob(j)
    PROVE  StoreInv' /\ Quiet /\ UNCHANGED meeting
<1> USE DEF StoreInv, StoreTypeOK
<1>1. job[j] \in JobRow
  OBVIOUS
<1>2. UNCHANGED <<meeting, nextJob, wav>>
  BY DEF UpdatesJob, ClaimNext, SetCancelRequested, SetJobStatus
<1>3. \/ job' = job
      \/ /\ JobExists(j)
         /\ \E s \in {"running", "failed", "cancelled"} :
              job' = [job EXCEPT ![j] = [job[j] EXCEPT !.status = s]]
      \/ /\ JobExists(j)
         /\ job' = [job EXCEPT ![j] = [job[j] EXCEPT !.cancel = TRUE]]
  BY DEF UpdatesJob, ClaimNext, SetCancelRequested, SetJobStatus, OldestClaimable,
         Claimable, JobExists
<1>4. job' \in [Jobs -> JobRow] /\ SameJobs
  <2>1. CASE job' = job
    BY <2>1 DEF SameJobs, JobExists
  <2>2. ASSUME JobExists(j),
               NEW s \in {"running", "failed", "cancelled"},
               job' = [job EXCEPT ![j] = [job[j] EXCEPT !.status = s]]
        PROVE  job' \in [Jobs -> JobRow] /\ SameJobs
    <3> DEFINE row == [job[j] EXCEPT !.status = s]
    <3>1. row \in JobRow /\ row.status = s /\ row.meeting = job[j].meeting
      BY <1>1 DEF JobRow
    <3>2. job' = [job EXCEPT ![j] = row]
      BY <2>2
    <3> HIDE DEF row
    <3>3. QED BY <2>2, <3>1, <3>2, SetJobKeepsRows
  <2>3. ASSUME JobExists(j), job' = [job EXCEPT ![j] = [job[j] EXCEPT !.cancel = TRUE]]
        PROVE  job' \in [Jobs -> JobRow] /\ SameJobs
    <3> DEFINE row == [job[j] EXCEPT !.cancel = TRUE]
    <3>1. row \in JobRow /\ row.status = job[j].status /\ row.meeting = job[j].meeting
      BY <1>1 DEF JobRow
    <3>2. job' = [job EXCEPT ![j] = row]
      BY <2>3
    <3> HIDE DEF row
    <3>3. QED BY <2>3, <3>1, <3>2, SetJobKeepsRows DEF JobExists
  <2>4. QED BY <1>3, <2>1, <2>2, <2>3
<1>5. SameMeetings
  BY <1>2 DEF SameMeetings, Exists
<1>6. StoreTypeOK' /\ Quiet
  BY <1>2, <1>4, <1>5 DEF Quiet, Jobs
<1>7. QED BY <1>2, <1>6, QuietKeepsStoreInv

\* The transactions that change a job together with its meeting.
UpdatesBoth(j) ==
    \/ CancelQueued(j) \/ BackToQueue(j)
    \/ \E m \in Meetings : MarkCompleted(m, j)

LEMMA UpdatesBothIsQuiet ==
    ASSUME StoreInv, NEW j \in Jobs,
           JobExists(j) \/ \E m \in Meetings : MarkCompleted(m, j),
           UpdatesBoth(j)
    PROVE  StoreInv' /\ Quiet
<1> USE DEF StoreInv, StoreTypeOK
<1>1. job[j] \in JobRow /\ (JobExists(j) => job[j].meeting \in Meetings)
  BY DEF JobsHaveMeetings
<1>a. ASSUME NEW m \in Meetings, MarkCompleted(m, j)
      PROVE  StoreInv' /\ Quiet
  <2>1. job' \in [Jobs -> JobRow] /\ SameJobs
    BY <1>1, <1>a DEF MarkCompleted, JobRow, SameJobs, JobExists
  <2> DEFINE row == [meeting[m] EXCEPT !.status = "ready"]
  <2>2. row \in MeetingRow /\ row.status = "ready" /\ row.audio = meeting[m].audio
    BY DEF MeetingRow
  <2>3. SetMeeting(m, row)
    BY <1>a DEF MarkCompleted
  <2> HIDE DEF row
  <2>4. meeting' \in [Meetings -> MeetingRow] /\ SameMeetings
    BY <2>2, <2>3, SetMeetingKeepsRows
  <2>5. StoreTypeOK' /\ Quiet
    BY <1>a, <2>1, <2>4 DEF Quiet, Jobs, MarkCompleted
  <2>6. QED BY <2>5, QuietKeepsStoreInv
<1>b. SUFFICES ASSUME JobExists(j), CancelQueued(j) \/ BackToQueue(j)
               PROVE  StoreInv' /\ Quiet
  BY <1>a DEF UpdatesBoth, CancelQueued, JobExists
<1>2. UNCHANGED <<nextJob, wav>>
  BY <1>b DEF CancelQueued, BackToQueue
<1>3. job' \in [Jobs -> JobRow] /\ SameJobs
  <2>1. CASE CancelQueued(j)
    BY <1>1, <2>1 DEF CancelQueued, JobRow, SameJobs, JobExists
  <2>2. CASE BackToQueue(j)
    <3> DEFINE row == [job[j] EXCEPT !.status = "queued", !.cancel = FALSE,
                                     !.retries = job[j].retries + 1]
    <3>0. job[j].retries + 1 \in Nat
      BY <1>1 DEF JobRow
    <3>1. row \in JobRow /\ row.status = "queued" /\ row.meeting = job[j].meeting
      BY <1>1, <3>0 DEF JobRow
    <3>2. job' = [job EXCEPT ![j] = row]
      BY <2>2 DEF BackToQueue
    <3> HIDE DEF row
    <3>3. QED BY <1>b, <3>1, <3>2, SetJobKeepsRows
  <2>3. QED BY <1>b, <2>1, <2>2
<1>4. meeting' \in [Meetings -> MeetingRow] /\ SameMeetings
  <2> DEFINE m == job[j].meeting
  <2>0. m \in Meetings /\ meeting[m] \in MeetingRow
    BY <1>b, <1>1
  <2>1. CASE CancelQueued(j)
    <3> DEFINE row == [meeting[m] EXCEPT !.status = "failed"]
    <3>1. row \in MeetingRow /\ row.status = "failed" /\ row.audio = meeting[m].audio
      BY <2>0 DEF MeetingRow
    <3>2. SetMeeting(m, row)
      BY <2>1 DEF CancelQueued
    <3> HIDE DEF m, row
    <3>3. QED BY <2>0, <3>1, <3>2, SetMeetingKeepsRows
  <2>2. CASE BackToQueue(j)
    <3> DEFINE row == [meeting[m] EXCEPT
                         !.status = "processing", !.state = "draft",
                         !.diar = InitialDiarization(meeting[m].mode)]
    <3>1. InitialDiarization(meeting[m].mode) \in {"pending", "not_requested"}
      BY DEF InitialDiarization
    <3>2. row \in MeetingRow /\ row.status = "processing" /\ row.audio = meeting[m].audio
      BY <2>0, <3>1 DEF MeetingRow
    <3>3. SetMeeting(m, row)
      BY <2>2 DEF BackToQueue
    <3> HIDE DEF m, row
    <3>4. QED BY <2>0, <3>2, <3>3, SetMeetingKeepsRows
  <2>3. QED BY <1>b, <2>1, <2>2
<1>5. StoreTypeOK' /\ Quiet
  BY <1>2, <1>3, <1>4 DEF Quiet, Jobs
<1>6. QED BY <1>5, QuietKeepsStoreInv

\* The recovery at start keeps every row.
LEMMA RecoveryIsQuiet ==
    ASSUME StoreInv, RecoverInterrupted
    PROVE  StoreInv' /\ Quiet
<1> USE DEF StoreInv, StoreTypeOK
<1>1. UNCHANGED <<nextJob, wav>>
  BY DEF RecoverInterrupted
<1>2. job' \in [Jobs -> JobRow] /\ SameJobs
  <2>1. ASSUME NEW j \in Jobs
        PROVE  /\ job'[j] \in JobRow
               /\ JobExists(j)' <=> JobExists(j)
               /\ job'[j].meeting = job[j].meeting
    <3>1. job[j] \in JobRow
      OBVIOUS
    <3>2. \/ job'[j] = job[j]
          \/ /\ job[j].status = "running"
             /\ \E s \in {"queued", "cancelled"} : job'[j] = [job[j] EXCEPT !.status = s]
      BY DEF RecoverInterrupted, CancelledByRestart
    <3>3. QED BY <3>1, <3>2 DEF JobRow, JobExists
  <2>2. job' = [j \in Jobs |-> job'[j]]
    BY DEF RecoverInterrupted
  <2>3. QED BY <2>1, <2>2 DEF SameJobs
<1>3. meeting' \in [Meetings -> MeetingRow] /\ SameMeetings
  <2>1. ASSUME NEW m \in Meetings
        PROVE  /\ meeting'[m] \in MeetingRow
               /\ Exists(m)' <=> Exists(m)
               /\ meeting'[m].status = "deleted" <=> meeting[m].status = "deleted"
               /\ meeting'[m].audio = meeting[m].audio
    <3>1. meeting[m] \in MeetingRow
      OBVIOUS
    <3>2. \/ meeting'[m] = meeting[m]
          \/ Exists(m) /\ meeting'[m] = [meeting[m] EXCEPT !.status = "failed"]
      BY DEF RecoverInterrupted
    <3>3. QED BY <3>1, <3>2 DEF MeetingRow, Exists
  <2>2. meeting' = [m \in Meetings |-> meeting'[m]]
    BY DEF RecoverInterrupted
  <2>3. QED BY <2>1, <2>2 DEF SameMeetings
<1>4. StoreTypeOK' /\ Quiet
  BY <1>1, <1>2, <1>3 DEF Quiet, Jobs
<1>5. QED BY <1>4, QuietKeepsStoreInv

-----------------------------------------------------------------------------
(* The transactions that insert or delete rows, and the unlink.            *)

LEMMA CreateWithJobKeepsStoreInv ==
    ASSUME StoreInv, NEW m \in Meetings, NEW mode \in {"quick", "meeting"},
           CreateWithJob(m, mode)
    PROVE  StoreInv'
<1> USE DEF StoreInv, StoreTypeOK
<1>1. NewMeeting("upload", mode, TRUE) \in MeetingRow
  BY DEF NewMeeting, InitialDiarization, MeetingRow, Origins
<1>2. NewJob(m) \in JobRow
  BY DEF NewJob, JobRow
<1>3. StoreTypeOK'
  <2>1. meeting' \in [Meetings -> MeetingRow] /\ job' \in [Jobs -> JobRow]
    BY <1>1, <1>2 DEF CreateWithJob
  <2>2. nextJob' \in 1..(MaxJobs + 1) /\ wav' \in [Meetings -> WavStates]
    BY StoreAssumption DEF CreateWithJob, Jobs, WavStates
  <2>3. QED BY <2>1, <2>2 DEF Jobs
<1>4. ASSUME NEW j \in Jobs, JobExists(j)'
      PROVE  /\ j < nextJob' /\ job'[j].meeting \in Meetings
             /\ meeting'[job'[j].meeting].status \notin {"absent", "deleted"}
  <2>1. CASE j = nextJob
    BY <1>1, <2>1 DEF CreateWithJob, NewJob, NewMeeting, Exists, Jobs
  <2>2. CASE j # nextJob
    <3>1. job'[j] = job[j] /\ JobExists(j)
      BY <1>4, <2>2 DEF CreateWithJob, JobExists
    <3>2. job[j].meeting \in Meetings /\ Exists(job[j].meeting) /\ j < nextJob
      BY <3>1 DEF JobsHaveMeetings
    <3>3. meeting'[job[j].meeting] = meeting[job[j].meeting]
      BY <3>2 DEF CreateWithJob, Exists
    <3>4. nextJob' = nextJob + 1
      BY DEF CreateWithJob
    <3>5. QED BY <3>1, <3>2, <3>3, <3>4 DEF Exists, Jobs
  <2>3. QED BY <2>1, <2>2
<1>5. QED BY <1>3, <1>4 DEF JobsHaveMeetings, Exists

LEMMA CreateLiveKeepsStoreInv ==
    ASSUME StoreInv, NEW m \in Meetings, CreateLive(m)
    PROVE  StoreInv'
<1> USE DEF StoreInv, StoreTypeOK
<1>1. NewMeeting("live", "quick", FALSE) \in MeetingRow
  BY DEF NewMeeting, InitialDiarization, MeetingRow, Origins
<1>2. StoreTypeOK'
  BY <1>1 DEF CreateLive, Jobs
<1>3. JobsHaveMeetings'
  BY DEF CreateLive, JobsHaveMeetings, JobExists, Exists
<1>4. QED BY <1>2, <1>3

LEMMA EnqueueKeepsStoreInv ==
    ASSUME StoreInv, NEW m \in Meetings, NEW allowLive \in BOOLEAN,
           EnqueueRefinement(m, allowLive)
    PROVE  StoreInv' /\ SameMeetings /\ UNCHANGED wav
<1> USE DEF StoreInv, StoreTypeOK
<1> DEFINE row == [meeting[m] EXCEPT !.status = "processing", !.mode = "meeting",
                                     !.state = "draft", !.diar = "pending"]
<1>0. meeting[m] \in MeetingRow
  OBVIOUS
<1>1. row \in MeetingRow /\ row.status = "processing" /\ row.audio = meeting[m].audio
  BY <1>0 DEF MeetingRow
<1>2. SetMeeting(m, row) /\ Exists(m)
  BY DEF EnqueueRefinement, CanEnqueue, SetMeeting
<1> HIDE DEF row
<1>3. meeting' \in [Meetings -> MeetingRow] /\ SameMeetings
  BY <1>1, <1>2, SetMeetingKeepsRows
<1>4. NewJob(m) \in JobRow
  BY DEF NewJob, JobRow
<1>5. StoreTypeOK'
  BY <1>3, <1>4, StoreAssumption DEF EnqueueRefinement, Jobs
<1>6. ASSUME NEW j \in Jobs, JobExists(j)'
      PROVE  /\ j < nextJob' /\ job'[j].meeting \in Meetings
             /\ meeting'[job'[j].meeting].status \notin {"absent", "deleted"}
  <2>1. CASE j = nextJob
    BY <1>2, <1>3, <2>1 DEF EnqueueRefinement, NewJob, SameMeetings, Exists, Jobs
  <2>2. CASE j # nextJob
    BY <1>3, <1>6, <2>2 DEF EnqueueRefinement, JobExists, JobsHaveMeetings,
                            SameMeetings, Exists, Jobs
  <2>3. QED BY <2>1, <2>2
<1>7. QED BY <1>3, <1>5, <1>6 DEF JobsHaveMeetings, Exists, EnqueueRefinement

LEMMA PruneKeepsStoreInv ==
    ASSUME StoreInv, PruneFinished
    PROVE  StoreInv' /\ UNCHANGED <<meeting, nextJob, wav>>
<1> USE DEF StoreInv, StoreTypeOK
<1>1. NoJob \in JobRow
  BY DEF NoJob, JobRow
<1>2. StoreTypeOK'
  BY <1>1 DEF PruneFinished, Jobs
<1>3. JobsHaveMeetings'
  BY DEF PruneFinished, JobsHaveMeetings, JobExists, Exists, NoJob
<1>4. QED BY <1>2, <1>3 DEF PruneFinished

LEMMA DeleteKeepsStoreInv ==
    ASSUME StoreInv, NEW m \in Meetings, DeleteIfInactive(m)
    PROVE  StoreInv'
<1> USE DEF StoreInv, StoreTypeOK
<1>1. NoJob \in JobRow
  BY DEF NoJob, JobRow
<1>2. [AbsentMeeting EXCEPT !.status = "deleted"] \in MeetingRow
  BY DEF AbsentMeeting, MeetingRow, Origins
<1>3. StoreTypeOK'
  BY <1>1, <1>2 DEF DeleteIfInactive, Jobs
<1>4. ASSUME NEW j \in Jobs, JobExists(j)'
      PROVE  /\ job'[j] = job[j] /\ JobExists(j) /\ job[j].meeting # m
  BY <1>4 DEF DeleteIfInactive, JobExists, NoJob
<1>5. JobsHaveMeetings'
  BY <1>4 DEF DeleteIfInactive, JobsHaveMeetings, Exists
<1>6. QED BY <1>3, <1>5

LEMMA UnlinkKeepsStoreInv ==
    ASSUME StoreInv, NEW m \in Meetings, Unlink(m)
    PROVE  StoreInv'
  BY DEF StoreInv, StoreTypeOK, JobsHaveMeetings, JobExists, Exists, Unlink, WavStates, Jobs

\* A change of a meeting's audio path, or of any file.
LEMMA FileUpdateKeepsStoreInv ==
    ASSUME StoreInv, NEW m \in Meetings, NEW row \in MeetingRow,
           row.status = meeting[m].status,
           SetMeeting(m, row) \/ UNCHANGED meeting,
           UNCHANGED <<job, nextJob>>, wav' \in [Meetings -> WavStates]
    PROVE  /\ StoreInv'
           /\ \A n \in Meetings : meeting'[n].status = meeting[n].status
<1> USE DEF StoreInv, StoreTypeOK
<1>1. /\ meeting' \in [Meetings -> MeetingRow]
      /\ \A n \in Meetings : meeting'[n].status = meeting[n].status
  BY DEF SetMeeting
<1>2. StoreTypeOK'
  BY <1>1 DEF Jobs
<1>3. JobsHaveMeetings'
  BY <1>1 DEF JobsHaveMeetings, JobExists, Exists
<1>4. QED BY <1>1, <1>2, <1>3

-----------------------------------------------------------------------------
(* What each group of actors leaves alone.                                 *)

LEMMA RunnerFrame ==
    ASSUME RunnerLoop \/ RunnerFault \/ ProcessorStep \/ ProcessorRaises
    PROVE  /\ UNCHANGED <<client, live, capped, stuck, crashes>>
           /\ RunnerFault \/ UNCHANGED faults
           /\ wake' \in {wake, FALSE}
  BY DEF RunnerLoop, RunnerFault, ProcessorStep, ProcessorRaises, OnlyRunner, auxVars,
     Claim, ClaimNothing, ClearWake, WakeUp, RecordCancelled, CancelMeeting, RecordFailed,
     Requeue, GiveUp, FailTheMeeting, Backoff, Start, Checkpoint, Decode, Transcribe,
     PublishDraft, Diarize, PublishFinal, Complete

LEMMA RequestFrame ==
    ASSUME \/ \E m \in Meetings, mode \in {"quick", "meeting"} : Upload(m, mode)
           \/ \E c \in Clients : ClientStep(c) \/ ClientRequest(c)
    PROVE  /\ UNCHANGED <<runner, live, capped, stuck, crashes, faults>>
           /\ wake' \in {wake, TRUE}
  BY DEF Upload, ClientStep, ClientRequest, CancelWhileQueued, CancelMissed, CancelReread,
     CancelFlag, Notify, Reprocess, ReprocessRefused, Prune, DeleteAudio,
     CancelRead, RetryJob, ReprocessCheck, Delete, OnlyClient, auxVars

LEMMA SessionFrame ==
    ASSUME NEW m \in Meetings, LiveStep(m) \/ LiveFinalize(m) \/ LiveFault(m)
    PROVE  /\ UNCHANGED <<runner, client, crashes>>
           /\ LiveFault(m) \/ UNCHANGED faults
           /\ wake' \in {wake, TRUE}
           /\ \/ UNCHANGED live
              \/ \E pc \in LivePcs \ {"dropAudio"} : SessionGoto(m, pc)
              \/ LiveFault(m) /\ SessionGoto(m, "dropAudio")
           /\ capped' \in {capped, [capped EXCEPT ![m] = TRUE]}
           /\ stuck' \in {stuck, [stuck EXCEPT ![m] = TRUE]}
  BY DEF LiveStep, LiveFinalize, LiveFault, LiveStart, LiveAudio, LiveCap,
     LiveAppend, LiveClose, LiveDeferredDone, LiveGiveUp, LiveEnqueue, LivePrune,
     LiveNotify, LiveManifest, LiveNoAudio, LiveSettle, LiveDropAudio, OnlySession,
     procVars, auxVars, LivePcs

-----------------------------------------------------------------------------
(* Layer 1.                                                                *)

RunnerOK ==
    /\ runner \in Runner
    /\ runner.pc \in {"cpAsr", "asr"} => runner.left # 0
    /\ runner.pc \in WorkPcs \cup {"requeue", "failMeeting", "cancelMeeting"} =>
           runner.job \in Jobs /\ runner.meeting \in Meetings

ClientsOK ==
    /\ client \in [Clients -> Client]
    /\ \A c \in Clients :
         /\ client[c].pc \in {"cancelQueued", "reread", "flag"} => client[c].job \in Jobs
         /\ client[c].pc \in {"enqueue", "unlink"} => client[c].meeting \in Meetings

RestOK ==
    /\ wake \in BOOLEAN
    /\ live \in [Meetings -> LivePcs]
    /\ capped \in [Meetings -> BOOLEAN]
    /\ stuck \in [Meetings -> BOOLEAN]
    /\ crashes \in 0..MaxCrashes
    /\ faults \in 0..MaxFaults

TypeInv == StoreInv /\ RunnerOK /\ ClientsOK /\ RestOK

LEMMA TypeInvParts == TypeInv <=> TypeOK /\ JobsHaveMeetings /\ LocalsNameRows
  BY DEF TypeInv, StoreInv, RunnerOK, ClientsOK, RestOK, TypeOK, LocalsNameRows

\* Where the runner can be put.
LEMMA HoldingIsRunner ==
    ASSUME NEW pc \in RunnerPcs, NEW j \in 0..MaxJobs,
           NEW m \in Meetings \cup {NoMeeting}, NEW b \in BOOLEAN
    PROVE  /\ Holding(pc, j, m, b) \in Runner
           /\ Holding(pc, j, m, b).pc = pc
           /\ Holding(pc, j, m, b).job = j
           /\ Holding(pc, j, m, b).meeting = m
<1>1. 0 \in 0..MaxChunks
  BY PipelineAssumption
<1>2. QED BY <1>1 DEF Holding, Runner, Plans

LEMMA LoopingIsRunner ==
    ASSUME NEW pc \in RunnerPcs
    PROVE  Looping(pc) \in Runner /\ Looping(pc).pc = pc
<1>1. 0 \in 0..MaxJobs
  BY StoreAssumption
<1>2. QED BY <1>1, HoldingIsRunner DEF Looping

LEMMA GotoIsRunner ==
    ASSUME runner \in Runner, NEW pc \in RunnerPcs, Goto(pc)
    PROVE  /\ runner' \in Runner /\ runner'.pc = pc
           /\ runner'.job = runner.job /\ runner'.meeting = runner.meeting
           /\ runner'.left = runner.left
  BY DEF Goto, Runner

\* The only steps that change the runner are its own, a crash and a restart.
LEMMA RunnerStepOK ==
    ASSUME TypeInv, Next
    PROVE  RunnerOK'
<1> USE DEF TypeInv, RunnerOK
<1>0. /\ {"down", "dead", "claim", "clear", "wait", "failed", "requeue", "failMeeting",
          "backoff", "cancelled", "cancelMeeting"} \subseteq RunnerPcs
      /\ ProcessorPcs \subseteq RunnerPcs
      /\ WorkPcs = ProcessorPcs \cup {"failed", "cancelled"}
  BY DEF RunnerPcs, WorkPcs
<1>1. CASE Claim
  <2>1. PICK j \in Jobs : ClaimNext(j) /\ runner' = Holding("start", j, job[j].meeting, FALSE)
    BY <1>1 DEF Claim
  <2>2. job[j].meeting \in Meetings
    BY <2>1 DEF ClaimNext, OldestClaimable, Claimable, JobExists, StoreInv, JobsHaveMeetings
  <2>3. j \in 0..MaxJobs /\ "start" \in RunnerPcs
    BY <1>0, StoreAssumption DEF Jobs, ProcessorPcs
  <2>4. /\ runner' \in Runner /\ runner'.pc = "start"
        /\ runner'.job = j /\ runner'.meeting = job[j].meeting
    <3>1. 0 \in 0..MaxChunks
      BY PipelineAssumption
    <3>2. QED BY <2>1, <2>2, <2>3, <3>1 DEF Holding, Runner, Plans
  <2>5. QED BY <2>2, <2>4
<1>2. ASSUME NEW pc \in {"claim", "clear", "wait", "backoff", "down", "dead"}, Loop(pc)
      PROVE  RunnerOK'
  BY <1>0, <1>2, LoopingIsRunner DEF Loop, ProcessorPcs
<1>3. ASSUME NEW pc \in RunnerPcs, Goto(pc),
             pc \in {"cpAsr", "asr"} => runner.left # 0,
             runner.pc \in WorkPcs \cup {"requeue", "failMeeting", "cancelMeeting"}
      PROVE  RunnerOK'
  BY <1>3, GotoIsRunner
<1>4. ASSUME NEW b \in BOOLEAN, NEW pc \in {"failed", "cancelled"},
             runner.pc \in WorkPcs, runner' = Holding(pc, runner.job, runner.meeting, b)
      PROVE  RunnerOK'
  BY <1>0, <1>4, HoldingIsRunner DEF Runner
<1>5. CASE ClaimNothing \/ ClearWake \/ WakeUp
  BY <1>0, <1>5, GotoIsRunner DEF ClaimNothing, ClearWake, WakeUp, ProcessorPcs
<1>6. CASE RecordCancelled \/ RecordFailed \/ GiveUp
  BY <1>0, <1>3, <1>6 DEF RecordCancelled, RecordFailed, GiveUp
<1>7. CASE CancelMeeting \/ Requeue \/ FailTheMeeting \/ Backoff \/ Complete \/ Crash \/ Restart
  <2>1. \E pc \in {"claim", "clear", "wait", "backoff", "down", "dead"} : Loop(pc)
    BY <1>7 DEF CancelMeeting, Requeue, FailTheMeeting, Backoff, Complete, Crash, Restart,
                Goto, Loop
  <2>2. QED BY <1>2, <2>1
<1>8. CASE RunnerFault
  <2>1. /\ AfterFault[runner.pc] \in {"requeue", "failMeeting", "claim", "dead"}
        /\ runner.pc = "claim" => AfterFault[runner.pc] = "dead"
        /\ runner.pc \in WorkPcs \cup {"requeue", "failMeeting", "cancelMeeting", "claim"}
    BY <1>0, <1>8 DEF RunnerFault, AfterFault
  <2>2. CASE AfterFault[runner.pc] \in {"claim", "dead"}
    BY <1>2, <1>8, <2>2 DEF RunnerFault
  <2>3. CASE AfterFault[runner.pc] \notin {"claim", "dead"}
    BY <1>0, <1>3, <1>8, <2>1, <2>3 DEF RunnerFault
  <2>4. QED BY <2>2, <2>3
<1>9. CASE Start
  <2>1. runner.pc \in WorkPcs
    BY <1>0, <1>9 DEF Start, ProcessorPcs
  <2>2. CASE Raise(FALSE)
    BY <1>4, <2>1, <2>2 DEF Raise
  <2>3. CASE runner' = [runner EXCEPT !.pc = "cpDecode", !.plan = PlanFor(runner.meeting)]
    <3>1. PlanFor(runner.meeting) \in Plans
      BY DEF PlanFor, Plans
    <3>2. "cpDecode" \in RunnerPcs
      BY <1>0 DEF ProcessorPcs
    <3>3. QED BY <2>1, <2>3, <3>1, <3>2 DEF Runner
  <2>4. QED BY <1>9, <2>2, <2>3 DEF Start
<1>10. CASE Checkpoint
  <2>1. /\ runner.pc \in WorkPcs /\ AfterCheckpoint[runner.pc] \in RunnerPcs
        /\ AfterCheckpoint[runner.pc] \in {"cpAsr", "asr"} => runner.left # 0
    BY <1>0, <1>10 DEF Checkpoint, AfterCheckpoint, ProcessorPcs
  <2>2. QED BY <1>3, <1>4, <1>10, <2>1 DEF Checkpoint
<1>11. CASE Decode
  <2>1. PICK n \in 1..MaxChunks : runner' = [runner EXCEPT !.pc = "cpAsr", !.left = n]
    BY <1>11 DEF Decode
  <2>2. runner.pc \in WorkPcs /\ "cpAsr" \in RunnerPcs
    BY <1>0, <1>11 DEF Decode, ProcessorPcs
  <2>3. n \in 0..MaxChunks /\ n # 0
    BY PipelineAssumption
  <2>4. /\ runner' \in Runner /\ runner'.left = n
        /\ runner'.job = runner.job /\ runner'.meeting = runner.meeting
    BY <2>1, <2>2, <2>3 DEF Runner
  <2>5. QED BY <2>2, <2>3, <2>4
<1>12. CASE Transcribe
  <2>1. runner.pc \in WorkPcs /\ "cpAsr" \in RunnerPcs
    BY <1>0, <1>12 DEF Transcribe, ProcessorPcs
  <2>2. PICK text \in BOOLEAN : runner' =
            [runner EXCEPT
               !.pc = IF runner.left > 1 THEN "cpAsr" ELSE AfterAsr(runner.heard \/ text),
               !.left = runner.left - 1,
               !.heard = (runner.heard \/ text)]
    BY <1>12 DEF Transcribe
  <2>3. AfterAsr(runner.heard \/ text) \in RunnerPcs
    BY <1>0 DEF AfterAsr, ProcessorPcs
  <2>4. runner.left \in 0..MaxChunks /\ runner.left # 0 /\ MaxChunks \in Nat
    BY <1>12, PipelineAssumption DEF Transcribe, Runner
  <2>5. /\ runner.left - 1 \in 0..MaxChunks
        /\ runner.left > 1 => runner.left - 1 # 0
    BY <2>4
  <2>6. AfterAsr(runner.heard \/ text) \notin {"cpAsr", "asr"}
    BY DEF AfterAsr
  <2>7. QED BY <2>1, <2>2, <2>3, <2>4, <2>5, <2>6 DEF Runner
<1>13. CASE PublishDraft \/ Diarize
  <2>1. runner.pc \in WorkPcs /\ {"cpDiarize", "cpSave"} \subseteq RunnerPcs
    BY <1>0, <1>13 DEF PublishDraft, Diarize, ProcessorPcs
  <2>2. QED BY <1>3, <1>13, <2>1 DEF PublishDraft, Diarize
<1>14. CASE PublishFinal
  <2>1. runner.pc \in WorkPcs /\ "complete" \in RunnerPcs /\ runner.heard \in BOOLEAN
    BY <1>0, <1>14 DEF PublishFinal, ProcessorPcs, Runner
  <2>2. QED BY <1>3, <1>4, <1>14, <2>1 DEF PublishFinal, Raise
<1>15. CASE ProcessorRaises
  BY <1>0, <1>4, <1>15 DEF ProcessorRaises, Raise, ProcessorPcs
<1>16. ASSUME UNCHANGED runner PROVE RunnerOK'
  BY <1>16
<1>17. CASE \/ \E m \in Meetings, mode \in {"quick", "meeting"} : Upload(m, mode)
            \/ \E c \in Clients : ClientStep(c) \/ ClientRequest(c)
  BY <1>16, <1>17, RequestFrame
<1>18. CASE \E m \in Meetings : LiveStep(m) \/ LiveFinalize(m) \/ LiveFault(m)
  BY <1>16, <1>18, SessionFrame
<1>20. QED
  BY <1>1, <1>5, <1>6, <1>7, <1>8, <1>9, <1>10, <1>11, <1>12, <1>13, <1>14, <1>15,
     <1>17, <1>18 DEF Next, RunnerLoop, ProcessorStep

-----------------------------------------------------------------------------

\* The steps that insert or delete rows, or touch a file or its path.
Structural ==
    \/ \E m \in Meetings, mode \in {"quick", "meeting"} : Upload(m, mode)
    \/ \E c \in Clients : \/ Reprocess(c) \/ Prune(c) \/ DeleteAudio(c)
                         \/ \E m \in Meetings : Delete(c, m)
    \/ \E m \in Meetings :
         \/ LiveStart(m) \/ LiveAudio(m) \/ LiveClose(m) \/ LiveEnqueue(m)
         \/ LivePrune(m) \/ LiveManifest(m) \/ LiveDropAudio(m) \/ LiveFault(m)
    \/ Crash

KeepsStore == StoreInv' /\ (Quiet \/ Structural)

\* Every step runs transactions that keep the store consistent.
LEMMA StoreStepOK ==
    ASSUME TypeInv, Next
    PROVE  KeepsStore
<1> USE DEF TypeInv, KeepsStore
<1>0. /\ meeting \in [Meetings -> MeetingRow] /\ wav \in [Meetings -> WavStates]
  BY DEF StoreInv, StoreTypeOK
<1>1. ASSUME UNCHANGED storeVars PROVE KeepsStore
  <2>1. meeting' = meeting /\ job' = job /\ nextJob' = nextJob /\ wav' = wav
    BY <1>1 DEF storeVars
  <2>2. StoreTypeOK'
    BY <2>1 DEF StoreInv, StoreTypeOK, Jobs
  <2>3. JobsHaveMeetings'
    BY <2>1 DEF StoreInv, JobsHaveMeetings, JobExists, Exists
  <2>4. Quiet
    BY <2>1 DEF Quiet, SameMeetings, SameJobs, JobExists, Exists
  <2>5. QED BY <2>2, <2>3, <2>4 DEF StoreInv
<1>2. CASE ClaimNothing \/ ClearWake \/ WakeUp \/ GiveUp \/ Backoff \/ RunnerFault \/ Start
           \/ Checkpoint \/ Transcribe \/ ProcessorRaises
  BY <1>1, <1>2 DEF ClaimNothing, ClearWake, WakeUp, GiveUp, Backoff, RunnerFault, Start,
     Checkpoint, Transcribe, ProcessorRaises, Raise
<1>3. CASE Claim
  BY <1>3, UpdatesJobIsQuiet DEF Claim, UpdatesJob
<1>4. CASE RecordCancelled \/ RecordFailed
  <2>1. runner.job \in Jobs
    BY <1>4 DEF RunnerOK, RecordCancelled, RecordFailed, WorkPcs
  <2>2. UpdatesJob(runner.job)
    BY <1>4 DEF RecordCancelled, RecordFailed, UpdatesJob
  <2>3. QED BY <2>1, <2>2, UpdatesJobIsQuiet
<1>5. CASE CancelMeeting \/ FailTheMeeting \/ Decode \/ PublishDraft \/ Diarize
  <2>1. runner.meeting \in Meetings
    BY <1>5 DEF RunnerOK, CancelMeeting, FailTheMeeting, Decode, PublishDraft, Diarize,
       WorkPcs, ProcessorPcs
  <2>2. UpdatesMeeting(runner.meeting)
    BY <1>5 DEF CancelMeeting, FailTheMeeting, Decode, PublishDraft, Diarize, UpdatesMeeting
  <2>3. QED BY <2>1, <2>2, UpdatesMeetingIsQuiet
<1>6. CASE PublishFinal
  <2>1. runner.meeting \in Meetings
    BY <1>6 DEF RunnerOK, PublishFinal, WorkPcs, ProcessorPcs
  <2>2. UNCHANGED storeVars \/ UpdatesMeeting(runner.meeting)
    BY <1>6 DEF PublishFinal, Raise, UpdatesMeeting
  <2>3. QED BY <1>1, <2>1, <2>2, UpdatesMeetingIsQuiet
<1>7. CASE Requeue
  <2>1. runner.job \in Jobs /\ JobExists(runner.job) /\ BackToQueue(runner.job)
    BY <1>7 DEF RunnerOK, Requeue, RequeueForRetry, MayRequeue
  <2>2. QED BY <2>1, UpdatesBothIsQuiet DEF UpdatesBoth
<1>8. CASE Complete
  <2>1. runner.job \in Jobs /\ runner.meeting \in Meetings
    BY <1>8 DEF RunnerOK, Complete, WorkPcs, ProcessorPcs
  <2>2. MarkCompleted(runner.meeting, runner.job)
    BY <1>8 DEF Complete
  <2>3. QED BY <2>1, <2>2, UpdatesBothIsQuiet DEF UpdatesBoth
<1>9. ASSUME NEW m \in Meetings, NEW mode \in {"quick", "meeting"}, Upload(m, mode)
      PROVE  KeepsStore
  BY <1>9, CreateWithJobKeepsStoreInv DEF Upload, Structural
<1>10. ASSUME NEW c \in Clients, ClientStep(c)
       PROVE  KeepsStore
  <2> USE DEF At
  <2>1. CASE CancelMissed(c) \/ CancelReread(c) \/ Notify(c) \/ ReprocessRefused(c)
    BY <1>1, <2>1 DEF CancelMissed, CancelReread, Notify, ReprocessRefused
  <2>2. CASE CancelWhileQueued(c)
    <3>1. client[c].job \in Jobs /\ CancelQueued(client[c].job)
      BY <2>2 DEF ClientsOK, CancelWhileQueued
    <3>2. JobExists(client[c].job)
      BY <3>1 DEF CancelQueued, JobExists
    <3>3. QED BY <3>1, <3>2, UpdatesBothIsQuiet DEF UpdatesBoth
  <2>3. CASE CancelFlag(c)
    <3>1. client[c].job \in Jobs /\ SetCancelRequested(client[c].job)
      BY <2>3 DEF ClientsOK, CancelFlag
    <3>2. QED BY <3>1, UpdatesJobIsQuiet DEF UpdatesJob
  <2>4. CASE Reprocess(c)
    <3>1. client[c].meeting \in Meetings /\ EnqueueRefinement(client[c].meeting, FALSE)
      BY <2>4 DEF ClientsOK, Reprocess
    <3>2. QED BY <2>4, <3>1, EnqueueKeepsStoreInv DEF Structural
  <2>5. CASE Prune(c)
    BY <2>5, PruneKeepsStoreInv DEF Prune, Structural
  <2>6. CASE DeleteAudio(c)
    <3>1. client[c].meeting \in Meetings /\ Unlink(client[c].meeting)
      BY <2>6 DEF ClientsOK, DeleteAudio
    <3>2. QED BY <2>6, <3>1, UnlinkKeepsStoreInv DEF Structural
  <2>7. QED BY <1>10, <2>1, <2>2, <2>3, <2>4, <2>5, <2>6 DEF ClientStep
<1>11. ASSUME NEW c \in Clients, ClientRequest(c)
       PROVE  KeepsStore
  <2>1. ASSUME NEW j \in Jobs, RetryJob(c, j)
        PROVE  KeepsStore
    <3>1. BackToQueue(j) /\ JobExists(j)
      BY <2>1 DEF RetryJob, Retry, JobExists
    <3>2. QED BY <3>1, UpdatesBothIsQuiet DEF UpdatesBoth
  <2>2. ASSUME NEW m \in Meetings, Delete(c, m)
        PROVE  KeepsStore
    BY <2>2, DeleteKeepsStoreInv DEF Delete, Structural
  <2>3. CASE UNCHANGED storeVars
    BY <1>1, <2>3
  <2>4. QED BY <1>11, <2>1, <2>2, <2>3 DEF ClientRequest, CancelRead, ReprocessCheck
<1>12. ASSUME NEW m \in Meetings, LiveStep(m)
       PROVE  KeepsStore
  <2>1. CASE LiveCap(m) \/ LiveDeferredDone(m) \/ LiveGiveUp(m)
    BY <1>1, <2>1 DEF LiveCap, LiveDeferredDone, LiveGiveUp
  <2>2. CASE LiveStart(m)
    BY <2>2, CreateLiveKeepsStoreInv DEF LiveStart, Structural
  <2>3. CASE LiveAppend(m)
    BY <2>3, UpdatesMeetingIsQuiet DEF LiveAppend, UpdatesMeeting
  <2>4. CASE LiveAudio(m) \/ LiveClose(m)
    <3> DEFINE row == [meeting[m] EXCEPT !.audio = TRUE]
    <3>1. row \in MeetingRow /\ row.status = meeting[m].status
      BY <1>0 DEF MeetingRow
    <3>2. SetMeeting(m, row) \/ UNCHANGED meeting
      BY <2>4 DEF LiveAudio, LiveClose
    <3>3. UNCHANGED <<job, nextJob>> /\ wav' \in [Meetings -> WavStates]
      BY <1>0, <2>4 DEF LiveAudio, LiveClose, CloseWav, WavStates
    <3> HIDE DEF row
    <3>4. QED BY <2>4, <3>1, <3>2, <3>3, FileUpdateKeepsStoreInv DEF Structural
  <2>5. QED BY <1>12, <2>1, <2>2, <2>3, <2>4 DEF LiveStep
<1>13. ASSUME NEW m \in Meetings, LiveFinalize(m)
       PROVE  KeepsStore
  <2>1. CASE LiveNotify(m) \/ LiveNoAudio(m)
    BY <1>1, <2>1 DEF LiveNotify, LiveNoAudio
  <2>2. CASE LiveEnqueue(m)
    <3>1. EnqueueRefinement(m, TRUE) \/ UNCHANGED storeVars
      BY <2>2 DEF LiveEnqueue
    <3>2. QED BY <1>1, <2>2, <3>1, EnqueueKeepsStoreInv DEF Structural
  <2>3. CASE LivePrune(m)
    BY <2>3, PruneKeepsStoreInv DEF LivePrune, Structural
  <2>4. CASE LiveSettle(m)
    BY <2>4, UpdatesMeetingIsQuiet DEF LiveSettle, UpdatesMeeting
  <2>5. CASE LiveManifest(m)
    <3> DEFINE row == [meeting[m] EXCEPT !.truncated = TRUE]
    <3>1. row \in MeetingRow /\ row.status = meeting[m].status
      BY <1>0 DEF MeetingRow
    <3>2. SetMeeting(m, row) /\ UNCHANGED <<job, nextJob, wav>>
      BY <2>5 DEF LiveManifest
    <3> HIDE DEF row
    <3>3. QED BY <1>0, <2>5, <3>1, <3>2, FileUpdateKeepsStoreInv DEF Structural
  <2>6. CASE LiveDropAudio(m)
    <3> DEFINE row == [meeting[m] EXCEPT !.audio = FALSE]
    <3>1. row \in MeetingRow /\ row.status = meeting[m].status
      BY <1>0 DEF MeetingRow
    <3>2. SetMeeting(m, row) /\ UNCHANGED <<job, nextJob, wav>>
      BY <2>6 DEF LiveDropAudio
    <3> HIDE DEF row
    <3>3. QED BY <1>0, <2>6, <3>1, <3>2, FileUpdateKeepsStoreInv DEF Structural
  <2>7. QED BY <1>13, <2>1, <2>2, <2>3, <2>4, <2>5, <2>6 DEF LiveFinalize
<1>14. ASSUME NEW m \in Meetings, LiveFault(m)
       PROVE  KeepsStore
  <2>1. UNCHANGED storeVars \/ Unlink(m)
    BY <1>14 DEF LiveFault
  <2>2. QED BY <1>14, <1>1, <2>1, UnlinkKeepsStoreInv DEF Structural
<1>15. CASE Crash
  BY <1>0, <1>15 DEF Crash, StoreInv, StoreTypeOK, JobsHaveMeetings, JobExists, Exists, Jobs,
     WavStates, Structural
<1>16. CASE Restart
  BY <1>16, RecoveryIsQuiet DEF Restart
<1>17. QED
  BY <1>2, <1>3, <1>4, <1>5, <1>6, <1>7, <1>8, <1>9, <1>10, <1>11, <1>12, <1>13, <1>14,
     <1>15, <1>16 DEF Next, RunnerLoop, ProcessorStep

-----------------------------------------------------------------------------

\* Requests only move from a row they found to the work on it.
LEMMA ClientsStepOK ==
    ASSUME TypeInv, Next
    PROVE  ClientsOK'
<1> USE DEF TypeInv, ClientsOK
<1>0. IdleClient \in Client /\ IdleClient.pc = "idle"
  BY StoreAssumption DEF IdleClient, Client, ClientPcs
<1>1. ASSUME UNCHANGED client PROVE ClientsOK'
  BY <1>1
<1>2. ASSUME NEW c \in Clients, NEW to \in Client, client' = [client EXCEPT ![c] = to],
             to.pc \in {"cancelQueued", "reread", "flag"} => to.job \in Jobs,
             to.pc \in {"enqueue", "unlink"} => to.meeting \in Meetings
      PROVE  ClientsOK'
  BY <1>2
<1>3. ASSUME NEW c \in Clients, NEW pc \in ClientPcs, NEW j \in 0..MaxJobs,
             NEW m \in Meetings \cup {NoMeeting}, Begin(c, pc, j, m),
             pc \in {"cancelQueued", "reread", "flag"} => j \in Jobs,
             pc \in {"enqueue", "unlink"} => m \in Meetings
      PROVE  ClientsOK'
  <2> DEFINE to == [pc |-> pc, job |-> j, meeting |-> m]
  <2>1. to \in Client /\ to.pc = pc /\ to.job = j /\ to.meeting = m
    BY DEF Client
  <2>2. client' = [client EXCEPT ![c] = to]
    BY <1>3 DEF Begin
  <2> HIDE DEF to
  <2>3. QED BY <1>2, <1>3, <2>1, <2>2
<1>4. ASSUME NEW c \in Clients, NEW pc \in {"reread", "flag"}, Advance(c, pc),
             client[c].pc \in {"cancelQueued", "reread"}
      PROVE  ClientsOK'
  <2> DEFINE to == [client[c] EXCEPT !.pc = pc]
  <2>1. to \in Client /\ to.pc = pc /\ to.job = client[c].job
    BY DEF Client, ClientPcs
  <2>2. client' = [client EXCEPT ![c] = to]
    BY <1>4 DEF Advance
  <2> HIDE DEF to
  <2>3. QED BY <1>2, <1>4, <2>1, <2>2
<1>5. ASSUME NEW c \in Clients, Done(c) PROVE ClientsOK'
  BY <1>0, <1>2, <1>5 DEF Done
<1>6. 0 \in 0..MaxJobs /\ Jobs \subseteq 0..MaxJobs
  BY StoreAssumption DEF Jobs
<1>7. CASE RunnerLoop \/ RunnerFault \/ ProcessorStep \/ ProcessorRaises
  BY <1>1, <1>7, RunnerFrame
<1>8. CASE \E m \in Meetings, mode \in {"quick", "meeting"} : Upload(m, mode)
  BY <1>1, <1>8 DEF Upload
<1>9. CASE \E m \in Meetings : LiveStep(m) \/ LiveFinalize(m) \/ LiveFault(m)
  BY <1>1, <1>9, SessionFrame
<1>10. ASSUME NEW c \in Clients, ClientStep(c)
       PROVE  ClientsOK'
  <2>1. CASE CancelMissed(c)
    BY <1>4, <2>1 DEF CancelMissed, At
  <2>2. CASE CancelReread(c)
    BY <1>4, <1>5, <2>2 DEF CancelReread, At
  <2>3. CASE Reprocess(c)
    BY <1>3, <1>6, <2>3 DEF Reprocess, ClientPcs
  <2>4. CASE Prune(c)
    <3> DEFINE to == [client[c] EXCEPT !.pc = "notify"]
    <3>1. to \in Client /\ to.pc = "notify"
      BY DEF Client, ClientPcs
    <3>2. client' = [client EXCEPT ![c] = to]
      BY <2>4 DEF Prune, Advance
    <3> HIDE DEF to
    <3>3. QED BY <1>2, <3>1, <3>2
  <2>5. CASE Done(c)
    BY <1>5, <2>5
  <2>6. QED
    BY <1>10, <2>1, <2>2, <2>3, <2>4, <2>5 DEF ClientStep, CancelWhileQueued, CancelFlag,
       Notify, ReprocessRefused, DeleteAudio
<1>11. ASSUME NEW c \in Clients, ClientRequest(c)
       PROVE  ClientsOK'
  <2>1. ASSUME NEW j \in Jobs, CancelRead(c, j) \/ RetryJob(c, j)
        PROVE  ClientsOK'
    BY <1>3, <1>6, <2>1 DEF CancelRead, RetryJob, ClientPcs
  <2>2. ASSUME NEW m \in Meetings, ReprocessCheck(c, m) \/ Delete(c, m)
        PROVE  ClientsOK'
    BY <1>3, <1>6, <2>2 DEF ReprocessCheck, Delete, ClientPcs
  <2>3. QED BY <1>11, <2>1, <2>2 DEF ClientRequest
<1>12. CASE Crash
  BY <1>0, <1>12 DEF Crash
<1>13. CASE Restart
  BY <1>1, <1>13 DEF Restart
<1>14. QED
  BY <1>7, <1>8, <1>9, <1>10, <1>11, <1>12, <1>13 DEF Next

\* The remaining variables.
LEMMA RestStepOK ==
    ASSUME TypeInv, Next
    PROVE  RestOK'
<1> USE PipelineAssumption DEF TypeInv, RestOK
<1>1. CASE RunnerFault
  <2>1. faults' \in 0..MaxFaults
    BY <1>1 DEF RunnerFault
  <2>2. QED BY <1>1, <2>1, RunnerFrame
<1>2. CASE RunnerLoop \/ ProcessorStep \/ ProcessorRaises
  <2>1. UNCHANGED faults \/ RunnerFault
    BY <1>2, RunnerFrame
  <2>2. QED BY <1>1, <1>2, <2>1, RunnerFrame
<1>3. CASE \/ \E m \in Meetings, mode \in {"quick", "meeting"} : Upload(m, mode)
           \/ \E c \in Clients : ClientStep(c) \/ ClientRequest(c)
  BY <1>3, RequestFrame
<1>4. ASSUME NEW m \in Meetings, LiveStep(m) \/ LiveFinalize(m) \/ LiveFault(m)
      PROVE  RestOK'
  <2>1. faults' \in 0..MaxFaults
    <3>1. CASE LiveFault(m)
      BY <3>1 DEF LiveFault
    <3>2. CASE ~LiveFault(m)
      BY <1>4, <3>2, SessionFrame
    <3>3. QED BY <3>1, <3>2
  <2>2. live' \in [Meetings -> LivePcs]
    BY <1>4, SessionFrame DEF SessionGoto, LivePcs
  <2>3. QED BY <1>4, <2>1, <2>2, SessionFrame
<1>5. CASE Crash
  <2>1. crashes' \in 0..MaxCrashes /\ faults' = faults /\ wake' = FALSE
    BY <1>5 DEF Crash
  <2>2. /\ live' \in [Meetings -> LivePcs] /\ capped' \in [Meetings -> BOOLEAN]
        /\ stuck' \in [Meetings -> BOOLEAN]
    BY <1>5 DEF Crash, LivePcs
  <2>3. QED BY <2>1, <2>2
<1>6. CASE Restart
  BY <1>6 DEF Restart, auxVars
<1>7. QED BY <1>1, <1>2, <1>3, <1>4, <1>5, <1>6 DEF Next

LEMMA InitTypeInv == Init => TypeInv
<1> SUFFICES ASSUME Init PROVE TypeInv
  OBVIOUS
<1> USE StoreAssumption, PipelineAssumption DEF Init
<1>1. AbsentMeeting \in MeetingRow /\ NoJob \in JobRow
  BY DEF AbsentMeeting, NoJob, MeetingRow, JobRow, Origins
<1>2. StoreTypeOK
  BY <1>1 DEF StoreInit, StoreTypeOK, WavStates
<1>3. JobsHaveMeetings
  BY DEF StoreInit, JobsHaveMeetings, JobExists, NoJob
<1>4. RunnerOK
  BY LoopingIsRunner DEF RunnerOK, RunnerPcs, WorkPcs, ProcessorPcs
<1>5. ClientsOK
  BY DEF ClientsOK, Client, ClientPcs, IdleClient
<1>6. RestOK
  BY DEF RestOK, LivePcs
<1>7. QED BY <1>2, <1>3, <1>4, <1>5, <1>6 DEF TypeInv, StoreInv

\* A stuttering step.
LEMMA StutterTypeInv ==
    ASSUME TypeInv, UNCHANGED vars
    PROVE  TypeInv'
<1>1. /\ meeting' = meeting /\ job' = job /\ nextJob' = nextJob /\ wav' = wav
      /\ runner' = runner /\ wake' = wake /\ client' = client /\ live' = live
      /\ capped' = capped /\ stuck' = stuck /\ crashes' = crashes /\ faults' = faults
  BY DEF vars
<1>2. StoreInv'
  BY <1>1 DEF TypeInv, StoreInv, StoreTypeOK, JobsHaveMeetings, JobExists, Exists, Jobs
<1>3. RunnerOK' /\ ClientsOK' /\ RestOK'
  BY <1>1 DEF TypeInv, RunnerOK, ClientsOK, RestOK
<1>4. QED BY <1>2, <1>3 DEF TypeInv

LEMMA SpecTypeInv == Spec => []TypeInv
<1>1. TypeInv /\ [Next]_vars => TypeInv'
  BY StoreStepOK, RunnerStepOK, ClientsStepOK, RestStepOK, StutterTypeInv DEF TypeInv, KeepsStore
<1>2. QED BY <1>1, InitTypeInv, PTL DEF Spec

\* Rows and locals have the shape their readers expect, in every state.
THEOREM TypesHold == Spec => []TypeOK
<1>1. TypeInv => TypeOK
  BY TypeInvParts
<1>2. QED BY <1>1, SpecTypeInv, PTL

-----------------------------------------------------------------------------
(* Layer 2.                                                                *)

ClaimInv == ClaimIsRecorded /\ CancelledWasRequested

\* What the other actors do to job rows: new rows, requests to cancel, and
\* changes of rows that are not running.
RespectsClaim ==
    /\ \A j \in Jobs : job[j].status = "running" =>
           /\ job'[j].status = "running"
           /\ job'[j].meeting = job[j].meeting
           /\ job[j].cancel => job'[j].cancel
    /\ \A j \in Jobs : job'[j].status = "cancelled" =>
           (job[j].status = "cancelled" /\ job'[j] = job[j]) \/ job'[j].cancel

LEMMA ClientsRespectClaim ==
    ASSUME TypeInv,
           \/ \E m \in Meetings, mode \in {"quick", "meeting"} : Upload(m, mode)
           \/ \E c \in Clients : ClientStep(c) \/ ClientRequest(c)
           \/ \E m \in Meetings : LiveStep(m) \/ LiveFinalize(m) \/ LiveFault(m)
    PROVE  RespectsClaim /\ UNCHANGED runner
<1> USE DEF TypeInv, StoreInv, StoreTypeOK
<1>1. ASSUME UNCHANGED job PROVE RespectsClaim
  BY <1>1 DEF RespectsClaim
<1>2. \A j \in Jobs : job[j].status = "running" => j # nextJob
  BY DEF JobsHaveMeetings, JobExists, Jobs
<1>3. ASSUME NEW m \in Meetings, nextJob \in Jobs,
             job' = [job EXCEPT ![nextJob] = NewJob(m)]
      PROVE  RespectsClaim
  BY <1>2, <1>3 DEF RespectsClaim, NewJob
<1>4. ASSUME PruneFinished PROVE RespectsClaim
  BY <1>4 DEF PruneFinished, Prunable, Terminal, RespectsClaim, NoJob
<1>5. ASSUME NEW m \in Meetings, NEW mode \in {"quick", "meeting"}, Upload(m, mode)
      PROVE  RespectsClaim /\ UNCHANGED runner
  BY <1>3, <1>5 DEF Upload, CreateWithJob
<1>6. ASSUME NEW c \in Clients, ClientStep(c)
      PROVE  RespectsClaim /\ UNCHANGED runner
  <2>1. UNCHANGED runner
    BY <1>6, RequestFrame
  <2>2. CASE CancelWhileQueued(c)
    <3>1. client[c].job \in Jobs
      BY <2>2 DEF CancelWhileQueued, ClientsOK, At
    <3>2. QED BY <2>1, <2>2, <3>1 DEF CancelWhileQueued, CancelQueued, RespectsClaim, JobRow
  <2>3. CASE CancelFlag(c)
    <3>1. client[c].job \in Jobs
      BY <2>3 DEF CancelFlag, ClientsOK, At
    <3>2. QED BY <2>1, <2>3, <3>1 DEF CancelFlag, SetCancelRequested, RespectsClaim, JobRow
  <2>4. CASE Reprocess(c)
    <3>1. client[c].meeting \in Meetings
      BY <2>4 DEF Reprocess, ClientsOK, At
    <3>2. QED BY <1>3, <2>1, <2>4, <3>1 DEF Reprocess, EnqueueRefinement
  <2>5. CASE Prune(c)
    BY <1>4, <2>1, <2>5 DEF Prune
  <2>6. CASE UNCHANGED job
    BY <1>1, <2>1, <2>6
  <2>7. QED
    BY <1>6, <2>1, <2>2, <2>3, <2>4, <2>5, <2>6 DEF ClientStep, CancelMissed, CancelReread,
       Notify, ReprocessRefused, DeleteAudio, Unlink, storeVars
<1>7. ASSUME NEW c \in Clients, ClientRequest(c)
      PROVE  RespectsClaim /\ UNCHANGED runner
  <2>1. UNCHANGED runner
    BY <1>7, RequestFrame
  <2>2. ASSUME NEW j \in Jobs, RetryJob(c, j)
        PROVE  RespectsClaim
    BY <2>2 DEF RetryJob, Retry, BackToQueue, RespectsClaim, JobRow
  <2>3. ASSUME NEW m \in Meetings, Delete(c, m)
        PROVE  RespectsClaim
    BY <2>3 DEF Delete, DeleteIfInactive, HasActive, Active, RespectsClaim, NoJob
  <2>4. CASE UNCHANGED job
    BY <1>1, <2>1, <2>4
  <2>5. QED
    BY <1>7, <2>1, <2>2, <2>3, <2>4 DEF ClientRequest, CancelRead, ReprocessCheck, storeVars
<1>8. ASSUME NEW m \in Meetings, LiveStep(m) \/ LiveFinalize(m) \/ LiveFault(m)
      PROVE  RespectsClaim /\ UNCHANGED runner
  <2>1. UNCHANGED runner
    BY <1>8, SessionFrame
  <2>2. CASE LiveEnqueue(m)
    BY <1>1, <1>3, <2>1, <2>2 DEF LiveEnqueue, EnqueueRefinement, storeVars
  <2>3. CASE LivePrune(m)
    BY <1>4, <2>1, <2>3 DEF LivePrune
  <2>4. CASE UNCHANGED job
    BY <1>1, <2>1, <2>4
  <2>5. QED
    BY <1>8, <2>1, <2>2, <2>3, <2>4 DEF LiveStep, LiveFinalize, LiveFault, LiveStart,
       LiveAudio, LiveCap, LiveAppend, LiveClose, LiveDeferredDone, LiveGiveUp, LiveNotify,
       LiveManifest, LiveNoAudio, LiveSettle, LiveDropAudio, CreateLive, AppendLiveSegment,
       FinalizeLive, Unlink, storeVars
<1>9. QED BY <1>5, <1>6, <1>7, <1>8

LEMMA ClaimInvStep ==
    ASSUME TypeInv, TypeInv', ClaimInv, [Next]_vars
    PROVE  ClaimInv'
<1> USE DEF ClaimInv
<1>1. ASSUME RespectsClaim, UNCHANGED runner PROVE ClaimInv'
  <2>1. runner.pc \in WorkPcs => runner.job \in Jobs
    BY DEF TypeInv, RunnerOK
  <2>2. ClaimIsRecorded'
    BY <1>1, <2>1 DEF ClaimIsRecorded, RespectsClaim
  <2>3. CancelledWasRequested'
    BY <1>1, <2>1 DEF ClaimIsRecorded, CancelledWasRequested, RespectsClaim, WorkPcs
  <2>4. QED BY <2>2, <2>3
\* The runner moves on while it works on its claim.
<1>2. ASSUME runner.pc \in WorkPcs, runner'.pc \in WorkPcs \ {"cancelled"},
             runner'.job = runner.job, runner'.meeting = runner.meeting, UNCHANGED job
      PROVE  ClaimInv'
  BY <1>2 DEF ClaimIsRecorded, CancelledWasRequested
\* It lets go of it.
<1>3. ASSUME runner'.pc \notin WorkPcs,
             \A j \in Jobs : job'[j].status = "cancelled" => job'[j].cancel
      PROVE  ClaimInv'
  BY <1>3 DEF ClaimIsRecorded, CancelledWasRequested, WorkPcs
<1>4. /\ job \in [Jobs -> JobRow] /\ runner \in Runner /\ runner' \in Runner
      /\ runner.pc \in WorkPcs \cup {"requeue"} => runner.job \in Jobs
  BY DEF TypeInv, StoreInv, StoreTypeOK, RunnerOK
<1>5. CASE Claim
  <2>1. PICK j \in Jobs : ClaimNext(j) /\ runner' = Holding("start", j, job[j].meeting, FALSE)
    BY <1>5 DEF Claim
  <2>2. /\ job'[j].status = "running" /\ job'[j].meeting = job[j].meeting
        /\ \A k \in Jobs : k # j => job'[k] = job[k]
    BY <1>4, <2>1 DEF ClaimNext, JobRow
  <2>3. QED BY <2>1, <2>2 DEF Holding, ClaimIsRecorded, CancelledWasRequested
<1>6. CASE ClaimNothing \/ ClearWake \/ WakeUp \/ GiveUp \/ CancelMeeting \/ FailTheMeeting
           \/ Backoff \/ Crash
  <2>1. runner'.pc \notin WorkPcs
    BY <1>4, <1>6 DEF ClaimNothing, ClearWake, WakeUp, GiveUp, CancelMeeting, FailTheMeeting,
       Backoff, Crash, Goto, Loop, Looping, Holding, Runner, WorkPcs, ProcessorPcs
  <2>2. UNCHANGED job
    BY <1>6 DEF ClaimNothing, ClearWake, WakeUp, GiveUp, CancelMeeting, FailTheMeeting,
       Backoff, Crash, FailMeeting, storeVars
  <2>3. QED BY <1>3, <2>1, <2>2 DEF CancelledWasRequested
<1>7. CASE RunnerFault
  <2>1. runner'.pc \notin WorkPcs
    BY <1>4, <1>7 DEF RunnerFault, AfterFault, Goto, Loop, Looping, Holding, Runner, WorkPcs,
       ProcessorPcs
  <2>2. UNCHANGED job
    BY <1>7 DEF RunnerFault, storeVars
  <2>3. QED BY <1>3, <2>1, <2>2 DEF CancelledWasRequested
<1>8. CASE RecordCancelled
  <2>1. runner'.pc = "cancelMeeting" /\ runner.job \in Jobs /\ job[runner.job].cancel
    BY <1>4, <1>8 DEF RecordCancelled, Goto, Runner, WorkPcs, CancelledWasRequested
  <2>2. \A j \in Jobs : job'[j].cancel = job[j].cancel
                     /\ (j # runner.job => job'[j].status = job[j].status)
    BY <1>4, <1>8 DEF RecordCancelled, SetJobStatus, JobRow
  <2>3. QED BY <1>3, <2>1, <2>2 DEF CancelledWasRequested, WorkPcs, ProcessorPcs
<1>9. CASE RecordFailed
  <2>1. runner'.pc = "requeue" /\ runner.job \in Jobs
    BY <1>4, <1>9 DEF RecordFailed, Goto, Runner, WorkPcs
  <2>2. \A j \in Jobs : job'[j] = job[j] \/ job'[j].status = "failed"
    BY <1>4, <1>9, <2>1 DEF RecordFailed, SetJobStatus, JobRow
  <2>3. QED BY <1>3, <2>1, <2>2 DEF CancelledWasRequested, WorkPcs, ProcessorPcs
<1>10. CASE Requeue
  <2>1. runner'.pc = "backoff" /\ runner.job \in Jobs
    BY <1>4, <1>10 DEF Requeue, Loop, Looping, Holding
  <2>2. \A j \in Jobs : job'[j] = job[j] \/ job'[j].status = "queued"
    BY <1>4, <1>10, <2>1 DEF Requeue, RequeueForRetry, BackToQueue, JobRow
  <2>3. QED BY <1>3, <2>1, <2>2 DEF CancelledWasRequested, WorkPcs, ProcessorPcs
<1>11. CASE Complete
  <2>1. runner'.pc = "claim" /\ runner.job \in Jobs
    BY <1>4, <1>11 DEF Complete, Loop, Looping, Holding, WorkPcs, ProcessorPcs
  <2>2. \A j \in Jobs : job'[j] = job[j] \/ job'[j].status = "completed"
    BY <1>4, <1>11, <2>1 DEF Complete, MarkCompleted, JobRow
  <2>3. QED BY <1>3, <2>1, <2>2 DEF CancelledWasRequested, WorkPcs, ProcessorPcs
<1>12. CASE Restart
  <2>1. runner'.pc = "claim"
    BY <1>12 DEF Restart, Loop, Looping, Holding
  <2>2. \A j \in Jobs : /\ job'[j].status = "cancelled" =>
                              CancelledByRestart(j) \/ job[j].status = "cancelled"
                      /\ job'[j].cancel = job[j].cancel
    BY <1>4, <1>12 DEF Restart, RecoverInterrupted, CancelledByRestart, JobRow
  <2>3. QED BY <1>3, <2>1, <2>2 DEF CancelledWasRequested, CancelledByRestart, WorkPcs, ProcessorPcs
<1>13. CASE Checkpoint
  <2>1. runner.pc \in WorkPcs /\ UNCHANGED job
    BY <1>13 DEF Checkpoint, AfterCheckpoint, WorkPcs, ProcessorPcs, storeVars
  <2>2. CASE CancelSeen
    <3>1. /\ runner'.pc = "cancelled"
          /\ runner'.job = runner.job /\ runner'.meeting = runner.meeting
      BY <1>13, <2>2 DEF Checkpoint, Holding
    <3>2. job[runner.job].cancel
      BY <2>1, <2>2 DEF CancelSeen, ClaimIsRecorded, JobExists
    <3>3. QED BY <2>1, <3>1, <3>2 DEF ClaimIsRecorded, CancelledWasRequested
  <2>3. CASE ~CancelSeen
    <3>1. /\ runner'.pc \in WorkPcs \ {"cancelled"}
          /\ runner'.job = runner.job /\ runner'.meeting = runner.meeting
      BY <1>4, <1>13, <2>3 DEF Checkpoint, AfterCheckpoint, Goto, Runner, WorkPcs, ProcessorPcs
    <3>2. QED BY <1>2, <2>1, <3>1
  <2>4. QED BY <2>2, <2>3
<1>14. CASE Start \/ Decode \/ Transcribe \/ PublishDraft \/ Diarize \/ PublishFinal
            \/ ProcessorRaises
  <2>1. runner.pc \in WorkPcs
    BY <1>14 DEF Start, Decode, Transcribe, PublishDraft, Diarize, PublishFinal,
       ProcessorRaises, WorkPcs, ProcessorPcs
  <2>2. UNCHANGED job
    BY <1>14 DEF Start, Decode, Transcribe, PublishDraft, Diarize, PublishFinal,
       ProcessorRaises, Raise, MarkProcessing, ReplaceWithDraft, SetDiarization,
       ReplaceWithFinal, storeVars
  <2>3. /\ runner'.pc \in WorkPcs \ {"cancelled"}
        /\ runner'.job = runner.job /\ runner'.meeting = runner.meeting
    <3>1. CASE Raise(TRUE) \/ Raise(FALSE) \/ Raise(runner.heard)
      BY <3>1 DEF Raise, Holding, WorkPcs, ProcessorPcs
    <3>2. CASE Start \/ PublishDraft \/ Diarize \/ PublishFinal \/ ProcessorRaises
      BY <1>4, <3>1, <3>2 DEF Start, PublishDraft, Diarize, PublishFinal, ProcessorRaises,
         Goto, Runner, WorkPcs, ProcessorPcs
    <3>3. CASE Decode \/ Transcribe
      BY <1>4, <3>3 DEF Decode, Transcribe, AfterAsr, Runner, WorkPcs, ProcessorPcs
    <3>4. QED BY <1>14, <3>2, <3>3
  <2>4. QED BY <1>2, <2>1, <2>2, <2>3
<1>15. CASE UNCHANGED vars
  BY <1>1, <1>15 DEF vars, RespectsClaim
<1>16. CASE \/ \E m \in Meetings, mode \in {"quick", "meeting"} : Upload(m, mode)
            \/ \E c \in Clients : ClientStep(c) \/ ClientRequest(c)
            \/ \E m \in Meetings : LiveStep(m) \/ LiveFinalize(m) \/ LiveFault(m)
  BY <1>1, <1>16, ClientsRespectClaim
<1>17. QED
  BY <1>5, <1>6, <1>7, <1>8, <1>9, <1>10, <1>11, <1>12, <1>13, <1>14, <1>15, <1>16
     DEF Next, RunnerLoop, ProcessorStep

LEMMA InitClaimInv == Init => ClaimInv
  BY DEF Init, StoreInit, NoJob, Looping, Holding, ClaimInv, ClaimIsRecorded,
     CancelledWasRequested, WorkPcs, ProcessorPcs

LEMMA SpecClaimInv == Spec => []ClaimInv
<1>1. TypeInv /\ TypeInv' /\ ClaimInv /\ [Next]_vars => ClaimInv'
  BY ClaimInvStep
<1>2. QED BY <1>1, InitClaimInv, SpecTypeInv, PTL DEF Spec

-----------------------------------------------------------------------------
(* Layer 3.                                                                *)

PathsInv == PathsResolve /\ UnlinkAfterDelete

DeletedStays ==
    \A m \in Meetings : meeting[m].status = "deleted" => meeting'[m].status = "deleted"

\* Faults are only counted up.
LEMMA FaultsGrow ==
    ASSUME TypeInv, Next, faults' = 0
    PROVE  /\ faults = 0 /\ ~RunnerFault
           /\ \A m \in Meetings : ~LiveFault(m)
<1>1. faults \in Nat
  BY PipelineAssumption DEF TypeInv, RestOK
<1>2. ~RunnerFault /\ \A m \in Meetings : ~LiveFault(m)
  BY <1>1 DEF RunnerFault, LiveFault
<1>3. UNCHANGED faults
  <2>1. CASE RunnerLoop \/ ProcessorStep \/ ProcessorRaises
    BY <1>2, <2>1, RunnerFrame
  <2>2. CASE \/ \E m \in Meetings, mode \in {"quick", "meeting"} : Upload(m, mode)
             \/ \E c \in Clients : ClientStep(c) \/ ClientRequest(c)
    BY <2>2, RequestFrame
  <2>3. CASE \E m \in Meetings : LiveStep(m) \/ LiveFinalize(m) \/ LiveFault(m)
    BY <1>2, <2>3, SessionFrame
  <2>4. QED BY <1>2, <2>1, <2>2, <2>3 DEF Next, Crash, Restart, auxVars
<1>4. QED BY <1>2, <1>3

\* The rows and files a step leaves are as consistent as those it found.
StoreStaysResolved ==
    /\ DeletedStays
    /\ \A m \in Meetings : meeting'[m].audio => meeting'[m].status \notin {"absent", "deleted"}
    /\ faults' = 0 =>
         /\ \A m \in Meetings : meeting'[m].audio => wav'[m] # "none"
         /\ \A j \in Jobs : job'[j].status # "none" => meeting'[job'[j].meeting].audio

LEMMA StoreResolves ==
    ASSUME TypeInv, TypeInv', PathsInv, Next
    PROVE  StoreStaysResolved
<1> USE DEF PathsInv, PathsResolve, StoreStaysResolved, DeletedStays, Exists
<1>0. /\ StoreTypeOK /\ StoreTypeOK' /\ JobsHaveMeetings /\ JobsHaveMeetings'
      /\ meeting \in [Meetings -> MeetingRow] /\ wav \in [Meetings -> WavStates]
      /\ job \in [Jobs -> JobRow] /\ ClientsOK
  BY DEF TypeInv, StoreInv, StoreTypeOK
<1>1. Quiet \/ Structural
  BY StoreStepOK DEF KeepsStore
<1>2. faults' = 0 => /\ faults = 0
                     /\ \A m \in Meetings : ~LiveFault(m)
                     /\ \A m \in Meetings : live[m] # "dropAudio"
  BY FaultsGrow
<1>3. CASE Quiet
  <2>1. DeletedStays /\ \A m \in Meetings :
            meeting'[m].audio => meeting'[m].status \notin {"absent", "deleted"}
    BY <1>3 DEF Quiet, SameMeetings
  <2>2. ASSUME faults' = 0, NEW j \in Jobs, job'[j].status # "none"
        PROVE  meeting'[job'[j].meeting].audio
    <3>1. JobExists(j) /\ job'[j].meeting = job[j].meeting
      BY <1>3, <2>2 DEF Quiet, SameJobs, JobExists
    <3>2. job[j].meeting \in Meetings /\ meeting[job[j].meeting].audio
      BY <1>0, <1>2, <2>2, <3>1 DEF JobsHaveMeetings
    <3>3. QED BY <1>3, <3>1, <3>2 DEF Quiet, SameMeetings
  <2>3. QED BY <1>2, <1>3, <2>1, <2>2 DEF Quiet, SameMeetings
<1>4. ASSUME NEW m \in Meetings, NEW mode \in {"quick", "meeting"}, Upload(m, mode)
      PROVE  StoreStaysResolved
  <2>1. /\ meeting' = [meeting EXCEPT ![m] = NewMeeting("upload", mode, TRUE)]
        /\ meeting[m].status = "absent" /\ wav' = [wav EXCEPT ![m] = "whole"]
        /\ job' = [job EXCEPT ![nextJob] = NewJob(m)] /\ nextJob \in Jobs
    BY <1>4 DEF Upload, CreateWithJob
  <2>2. ASSUME NEW j \in Jobs, job'[j].status # "none", j # nextJob
        PROVE  JobExists(j) /\ job'[j] = job[j] /\ job[j].meeting \in Meetings /\ job[j].meeting # m
    BY <1>0, <2>1, <2>2 DEF JobExists, JobsHaveMeetings
  <2>3. ASSUME faults' = 0, NEW j \in Jobs, job'[j].status # "none"
        PROVE  meeting'[job'[j].meeting].audio
    BY <1>0, <1>2, <2>1, <2>2, <2>3 DEF NewMeeting, NewJob
  <2>4. QED BY <1>0, <1>2, <2>1, <2>3 DEF NewMeeting
<1>5. ASSUME NEW m \in Meetings, NEW allowLive \in BOOLEAN, EnqueueRefinement(m, allowLive)
      PROVE  StoreStaysResolved
  <2>1. SameMeetings /\ UNCHANGED wav
    BY <1>5, EnqueueKeepsStoreInv DEF TypeInv
  <2>2. job' = [job EXCEPT ![nextJob] = NewJob(m)] /\ nextJob \in Jobs /\ meeting[m].audio
    BY <1>5 DEF EnqueueRefinement, CanEnqueue
  <2>3. ASSUME faults' = 0, NEW j \in Jobs, job'[j].status # "none"
        PROVE  meeting'[job'[j].meeting].audio
    <3>1. CASE j = nextJob
      BY <1>0, <2>1, <2>2, <3>1 DEF NewJob, SameMeetings
    <3>2. CASE j # nextJob
      BY <1>0, <1>2, <2>1, <2>2, <2>3, <3>2 DEF SameMeetings, JobExists, JobsHaveMeetings
    <3>3. QED BY <3>1, <3>2
  <2>4. QED BY <1>2, <2>1, <2>3 DEF SameMeetings
<1>6. ASSUME PruneFinished PROVE StoreStaysResolved
  BY <1>0, <1>2, <1>6 DEF PruneFinished, JobExists, NoJob
<1>7. ASSUME NEW m \in Meetings, DeleteIfInactive(m) PROVE StoreStaysResolved
  <2>1. meeting' = [meeting EXCEPT ![m] = [AbsentMeeting EXCEPT !.status = "deleted"]]
    BY <1>7 DEF DeleteIfInactive
  <2>2. meeting'[m].status = "deleted" /\ meeting'[m].audio = FALSE
    BY <1>0, <2>1 DEF AbsentMeeting
  <2>3. ASSUME NEW j \in Jobs, job'[j].status # "none"
        PROVE  JobExists(j) /\ job'[j] = job[j] /\ job[j].meeting # m /\ job[j].meeting \in Meetings
    BY <1>0, <1>7, <2>3 DEF DeleteIfInactive, NoJob, JobExists, JobsHaveMeetings
  <2>4. ASSUME faults' = 0, NEW j \in Jobs, job'[j].status # "none"
        PROVE  meeting'[job'[j].meeting].audio
    BY <1>0, <1>2, <2>1, <2>3, <2>4
  <2>5. QED BY <1>0, <1>2, <1>7, <2>1, <2>2, <2>4 DEF DeleteIfInactive
<1>8. ASSUME UNCHANGED <<meeting, job>>,
             \A m \in Meetings : wav'[m] = "none" => wav[m] = "none" \/ meeting[m].status = "deleted"
      PROVE  StoreStaysResolved
  BY <1>0, <1>2, <1>8 DEF JobExists
<1>9. ASSUME NEW c \in Clients, DeleteAudio(c) PROVE StoreStaysResolved
  <2>1. client[c].meeting \in Meetings /\ meeting[client[c].meeting].status = "deleted"
    BY <1>0, <1>9 DEF DeleteAudio, At, ClientsOK, UnlinkAfterDelete
  <2>2. QED BY <1>0, <1>8, <1>9, <2>1 DEF DeleteAudio, Unlink
<1>10. ASSUME NEW m \in Meetings, LiveStart(m) PROVE StoreStaysResolved
  <2>1. /\ meeting' = [meeting EXCEPT ![m] = NewMeeting("live", "quick", FALSE)]
        /\ meeting[m].status = "absent" /\ UNCHANGED <<job, wav>>
    BY <1>10 DEF LiveStart, CreateLive
  <2>2. ASSUME NEW j \in Jobs, job'[j].status # "none"
        PROVE  JobExists(j) /\ job'[j] = job[j] /\ job[j].meeting \in Meetings /\ job[j].meeting # m
    BY <1>0, <2>1, <2>2 DEF JobExists, JobsHaveMeetings
  <2>3. QED BY <1>0, <1>2, <2>1, <2>2 DEF NewMeeting
<1>11. ASSUME NEW m \in Meetings, LiveAudio(m) PROVE StoreStaysResolved
  <2>1. /\ meeting' = IF Exists(m) THEN [meeting EXCEPT ![m] = [meeting[m] EXCEPT !.audio = TRUE]]
                                   ELSE meeting
        /\ wav' = [wav EXCEPT ![m] = "open"] /\ UNCHANGED job
    BY <1>11 DEF LiveAudio, SetMeeting
  <2>2. /\ meeting'[m].status = meeting[m].status
        /\ meeting[m].audio => meeting'[m].audio
        /\ meeting'[m].audio => Exists(m)
        /\ \A n \in Meetings : n # m => meeting'[n] = meeting[n]
    BY <1>0, <2>1 DEF MeetingRow
  <2>3. ASSUME NEW j \in Jobs, job'[j].status # "none"
        PROVE  JobExists(j) /\ job'[j] = job[j] /\ job[j].meeting \in Meetings
    BY <1>0, <2>1, <2>3 DEF JobExists, JobsHaveMeetings
  <2>4. QED BY <1>0, <1>2, <2>1, <2>2, <2>3
<1>12. ASSUME NEW m \in Meetings, LiveClose(m) PROVE StoreStaysResolved
  BY <1>0, <1>8, <1>12 DEF LiveClose, CloseWav
<1>13. ASSUME NEW m \in Meetings, LiveManifest(m) \/ LiveDropAudio(m)
       PROVE  StoreStaysResolved
  <2>1. PICK row \in {[meeting[m] EXCEPT !.truncated = TRUE], [meeting[m] EXCEPT !.audio = FALSE]} :
            /\ SetMeeting(m, row) /\ UNCHANGED <<job, wav>>
            /\ faults' = 0 => row = [meeting[m] EXCEPT !.truncated = TRUE]
    BY <1>2, <1>13 DEF LiveManifest, LiveDropAudio
  <2>2. /\ row.status = meeting[m].status /\ (row.audio => meeting[m].audio)
        /\ faults' = 0 => row.audio = meeting[m].audio
    BY <1>0, <2>1 DEF MeetingRow
  <2>3. meeting' = [meeting EXCEPT ![m] = row] \/ meeting' = meeting
    BY <2>1 DEF SetMeeting
  <2>4. ASSUME NEW j \in Jobs, job'[j].status # "none"
        PROVE  JobExists(j) /\ job'[j] = job[j] /\ job[j].meeting \in Meetings
    BY <1>0, <2>1, <2>4 DEF JobExists, JobsHaveMeetings
  <2>5. QED BY <1>0, <1>2, <2>1, <2>2, <2>3, <2>4
<1>14. ASSUME NEW m \in Meetings, LiveFault(m) PROVE StoreStaysResolved
  <2>1. UNCHANGED <<meeting, job>> /\ faults' # 0
    BY <1>2, <1>14 DEF LiveFault, Unlink, storeVars
  <2>2. QED BY <2>1
<1>15. CASE Crash
  BY <1>0, <1>8, <1>15 DEF Crash
<1>16. CASE Structural
  <2>1. ASSUME NEW m \in Meetings, LiveEnqueue(m) PROVE StoreStaysResolved
    <3>1. CASE EnqueueRefinement(m, TRUE)
      BY <1>5, <3>1
    <3>2. CASE UNCHANGED storeVars
      BY <1>8, <3>2 DEF storeVars
    <3>3. QED BY <2>1, <3>1, <3>2 DEF LiveEnqueue
  <2>2. ASSUME NEW c \in Clients, Reprocess(c) PROVE StoreStaysResolved
    BY <1>0, <1>5, <2>2 DEF Reprocess, At, ClientsOK
  <2>3. QED
    BY <1>4, <1>6, <1>7, <1>9, <1>10, <1>11, <1>12, <1>13, <1>14, <1>15, <1>16, <2>1, <2>2
       DEF Structural, Prune, Delete, LivePrune
<1>17. QED BY <1>1, <1>3, <1>16

\* A session never comes to the point of dropping its path, and a request gets
\* to unlink a file only by having deleted the meeting.
LEMMA PathsInvStep ==
    ASSUME TypeInv, TypeInv', PathsInv, [Next]_vars
    PROVE  PathsInv'
<1> USE DEF PathsInv
<1>1. CASE UNCHANGED vars
  BY <1>1 DEF vars, PathsResolve, UnlinkAfterDelete, Exists, JobExists
<1>2. CASE Next
  <2>1. StoreStaysResolved
    BY <1>2, StoreResolves
  <2>2. ASSUME faults' = 0, NEW m \in Meetings
        PROVE  live'[m] # "dropAudio"
    <3>1. /\ live[m] # "dropAudio" /\ ~RunnerFault /\ \A n \in Meetings : ~LiveFault(n)
          /\ live \in [Meetings -> LivePcs]
      BY <1>2, <2>2, FaultsGrow DEF PathsResolve, TypeInv, RestOK
    <3>2. \/ UNCHANGED live
          \/ live' = [n \in Meetings |-> "off"]
          \/ \E n \in Meetings, pc \in LivePcs \ {"dropAudio"} : SessionGoto(n, pc)
      <4>1. CASE RunnerLoop \/ ProcessorStep \/ ProcessorRaises
        BY <4>1, RunnerFrame
      <4>2. CASE \/ \E n \in Meetings, mode \in {"quick", "meeting"} : Upload(n, mode)
                 \/ \E c \in Clients : ClientStep(c) \/ ClientRequest(c)
        BY <4>2, RequestFrame
      <4>3. CASE \E n \in Meetings : LiveStep(n) \/ LiveFinalize(n) \/ LiveFault(n)
        BY <3>1, <4>3, SessionFrame
      <4>4. QED BY <1>2, <3>1, <4>1, <4>2, <4>3 DEF Next, Crash, Restart
    <3>3. QED BY <3>1, <3>2 DEF SessionGoto
  <2>3. PathsResolve'
    BY <2>1, <2>2 DEF StoreStaysResolved, PathsResolve, Exists, JobExists
  <2>4. ASSUME NEW c \in Clients, client'[c].pc = "unlink"
        PROVE  meeting'[client'[c].meeting].status = "deleted"
    <3>1. ASSUME NEW m \in Meetings, Delete(c, m)
          PROVE  meeting'[client'[c].meeting].status = "deleted"
      <4>1. client'[c].meeting = m
        BY <3>1 DEF Delete, Begin, TypeInv, ClientsOK
      <4>2. meeting'[m].status = "deleted"
        BY <3>1 DEF Delete, DeleteIfInactive, AbsentMeeting, TypeInv, StoreInv, StoreTypeOK
      <4>3. QED BY <4>1, <4>2
    <3>2. CASE client'[c] = client[c]
      <4>1. client[c].meeting \in Meetings /\ meeting[client[c].meeting].status = "deleted"
        BY <2>4, <3>2 DEF UnlinkAfterDelete, TypeInv, ClientsOK
      <4>2. QED BY <2>1, <3>2, <4>1 DEF StoreStaysResolved, DeletedStays
    <3>3. \/ client'[c] = client[c]
          \/ client'[c].pc # "unlink"
          \/ \E m \in Meetings : Delete(c, m)
      <4>0. client \in [Clients -> Client] /\ IdleClient.pc = "idle"
        BY DEF TypeInv, ClientsOK, IdleClient
      <4>1. CASE RunnerLoop \/ RunnerFault \/ ProcessorStep \/ ProcessorRaises
        BY <4>1, RunnerFrame
      <4>2. CASE \E m \in Meetings : LiveStep(m) \/ LiveFinalize(m) \/ LiveFault(m)
        BY <4>2, SessionFrame
      <4>3. ASSUME NEW d \in Clients, ClientStep(d)
            PROVE  client'[c] = client[c] \/ client'[c].pc # "unlink"
        <5>1. CASE Done(d)
          BY <4>0, <5>1 DEF Done
        <5>2. CASE \E pc \in ClientPcs \ {"unlink"} : Advance(d, pc)
          BY <4>0, <5>2 DEF Advance, Client
        <5>3. CASE Begin(d, "prune", 0, NoMeeting)
          BY <4>0, <5>3 DEF Begin
        <5>4. QED
          BY <4>3, <5>1, <5>2, <5>3 DEF ClientStep, CancelWhileQueued, CancelMissed,
             CancelReread, CancelFlag, Notify, Reprocess, ReprocessRefused, Prune,
             DeleteAudio, ClientPcs
      <4>4. ASSUME NEW d \in Clients, ClientRequest(d)
            PROVE  \/ client'[c] = client[c]
                   \/ client'[c].pc # "unlink"
                   \/ \E m \in Meetings : Delete(c, m)
        BY <4>0, <4>4 DEF ClientRequest, CancelRead, RetryJob, ReprocessCheck, Delete, Begin, Client
      <4>5. CASE Crash
        BY <4>0, <4>5 DEF Crash
      <4>6. QED BY <1>2, <4>1, <4>2, <4>3, <4>4, <4>5 DEF Next, Upload, Restart
    <3>4. QED BY <2>4, <3>1, <3>2, <3>3
  <2>5. QED BY <2>3, <2>4 DEF UnlinkAfterDelete
<1>3. QED BY <1>1, <1>2

LEMMA InitPathsInv == Init => PathsInv
  BY DEF Init, StoreInit, AbsentMeeting, NoJob, IdleClient, PathsInv, PathsResolve,
     UnlinkAfterDelete, JobExists

LEMMA SpecPathsInv == Spec => []PathsInv
<1>1. TypeInv /\ TypeInv' /\ PathsInv /\ [Next]_vars => PathsInv'
  BY PathsInvStep
<1>2. QED BY <1>1, InitPathsInv, SpecTypeInv, PTL DEF Spec

-----------------------------------------------------------------------------

\* Nobody but the runner makes a job running.
LEMMA NobodyElseRuns ==
    ASSUME TypeInv,
           \/ \E m \in Meetings, mode \in {"quick", "meeting"} : Upload(m, mode)
           \/ \E c \in Clients : ClientStep(c) \/ ClientRequest(c)
           \/ \E m \in Meetings : LiveStep(m) \/ LiveFinalize(m) \/ LiveFault(m)
    PROVE  /\ \A j \in Jobs : job'[j].status = "running" => job[j].status = "running"
           /\ UNCHANGED runner
<1> USE DEF TypeInv, StoreInv, StoreTypeOK
<1>1. SUFFICES \A j \in Jobs : job'[j].status = "running" => job[j].status = "running"
  BY ClientsRespectClaim
<1> DEFINE Goal == \A j \in Jobs : job'[j].status = "running" => job[j].status = "running"
<1>2. ASSUME UNCHANGED job PROVE Goal
  BY <1>2
<1>3. ASSUME NEW m \in Meetings, nextJob \in Jobs, job' = [job EXCEPT ![nextJob] = NewJob(m)]
      PROVE  Goal
  BY <1>3 DEF NewJob
<1>4. ASSUME PruneFinished PROVE Goal
  BY <1>4 DEF PruneFinished, NoJob
<1>5. ASSUME NEW m \in Meetings, NEW mode \in {"quick", "meeting"}, Upload(m, mode)
      PROVE  Goal
  BY <1>3, <1>5 DEF Upload, CreateWithJob
<1>6. ASSUME NEW c \in Clients, ClientStep(c) PROVE Goal
  <2>1. CASE CancelWhileQueued(c)
    BY <2>1 DEF CancelWhileQueued, CancelQueued, JobRow, ClientsOK, At
  <2>2. CASE CancelFlag(c)
    BY <2>2 DEF CancelFlag, SetCancelRequested, JobRow, ClientsOK, At
  <2>3. CASE Reprocess(c)
    <3>1. client[c].meeting \in Meetings
      BY <2>3 DEF Reprocess, ClientsOK, At
    <3>2. QED BY <1>3, <2>3, <3>1 DEF Reprocess, EnqueueRefinement
  <2>4. CASE Prune(c)
    BY <1>4, <2>4 DEF Prune
  <2>5. CASE UNCHANGED job
    BY <1>2, <2>5
  <2>6. QED
    BY <1>6, <2>1, <2>2, <2>3, <2>4, <2>5 DEF ClientStep, CancelMissed, CancelReread,
       Notify, ReprocessRefused, DeleteAudio, Unlink, storeVars
<1>7. ASSUME NEW c \in Clients, ClientRequest(c) PROVE Goal
  <2>1. ASSUME NEW j \in Jobs, RetryJob(c, j) PROVE Goal
    BY <2>1 DEF RetryJob, Retry, BackToQueue, JobRow
  <2>2. ASSUME NEW m \in Meetings, Delete(c, m) PROVE Goal
    BY <2>2 DEF Delete, DeleteIfInactive, NoJob
  <2>3. CASE UNCHANGED job
    BY <1>2, <2>3
  <2>4. QED
    BY <1>7, <2>1, <2>2, <2>3 DEF ClientRequest, CancelRead, ReprocessCheck, storeVars
<1>8. ASSUME NEW m \in Meetings, LiveStep(m) \/ LiveFinalize(m) \/ LiveFault(m)
      PROVE  Goal
  <2>1. CASE LiveEnqueue(m)
    BY <1>2, <1>3, <2>1 DEF LiveEnqueue, EnqueueRefinement, storeVars
  <2>2. CASE LivePrune(m)
    BY <1>4, <2>2 DEF LivePrune
  <2>3. CASE UNCHANGED job
    BY <1>2, <2>3
  <2>4. QED
    BY <1>8, <2>1, <2>2, <2>3 DEF LiveStep, LiveFinalize, LiveFault, LiveStart,
       LiveAudio, LiveCap, LiveAppend, LiveClose, LiveDeferredDone, LiveGiveUp, LiveNotify,
       LiveManifest, LiveNoAudio, LiveSettle, LiveDropAudio, CreateLive, AppendLiveSegment,
       FinalizeLive, Unlink, storeVars
<1>9. QED BY <1>5, <1>6, <1>7, <1>8

\* What the runner does to its own claim, faults aside: it takes one when it has
\* none, keeps it, or ends it.
LEMMA RunnerKeepsClaim ==
    ASSUME TypeInv, TypeInv', ClaimInv, RunnerLoop \/ ProcessorStep \/ ProcessorRaises
    PROVE  \/ Claim
           \/ /\ UNCHANGED job
              /\ runner.pc \in WorkPcs <=> runner'.pc \in WorkPcs
              /\ runner.pc \in WorkPcs => runner'.job = runner.job
           \/ /\ \A j \in Jobs : job'[j].status = "running" =>
                       job[j].status = "running" /\ j # runner.job
              /\ runner'.pc \notin WorkPcs
<1> DEFINE Kept == /\ UNCHANGED job
                   /\ runner.pc \in WorkPcs <=> runner'.pc \in WorkPcs
                   /\ runner.pc \in WorkPcs => runner'.job = runner.job
           Ended1 == /\ \A j \in Jobs : job'[j].status = "running" =>
                           job[j].status = "running" /\ j # runner.job
                     /\ runner'.pc \notin WorkPcs
<1> USE DEF WorkPcs, ProcessorPcs
<1>1. /\ job \in [Jobs -> JobRow] /\ runner \in Runner /\ runner' \in Runner
      /\ runner.pc \in WorkPcs \cup {"requeue"} => runner.job \in Jobs
  BY DEF TypeInv, StoreInv, StoreTypeOK, RunnerOK
<1>2. CASE ClaimNothing \/ ClearWake \/ WakeUp \/ GiveUp \/ CancelMeeting \/ FailTheMeeting
           \/ Backoff
  <2>1. runner.pc \notin WorkPcs /\ runner'.pc \notin WorkPcs
    BY <1>1, <1>2 DEF ClaimNothing, ClearWake, WakeUp, GiveUp, CancelMeeting, FailTheMeeting,
       Backoff, Goto, Loop, Looping, Holding, Runner
  <2>2. UNCHANGED job
    BY <1>2 DEF ClaimNothing, ClearWake, WakeUp, GiveUp, CancelMeeting, FailTheMeeting,
       Backoff, FailMeeting, storeVars
  <2>3. QED BY <2>1, <2>2
<1>3. CASE RecordCancelled \/ RecordFailed
  <2>1. PICK s \in {"failed", "cancelled"} : SetJobStatus(runner.job, s)
    BY <1>3 DEF RecordCancelled, RecordFailed
  <2>2. runner'.pc \in {"requeue", "cancelMeeting"} /\ runner.job \in Jobs
        /\ JobExists(runner.job)
    BY <1>1, <1>3 DEF RecordCancelled, RecordFailed, Goto, Runner, ClaimInv, ClaimIsRecorded,
       JobExists
  <2>3. Ended1
    BY <1>1, <2>1, <2>2 DEF SetJobStatus, JobRow
  <2>4. QED BY <2>3
<1>4. CASE Requeue
  <2>1. runner'.pc = "backoff" /\ runner.job \in Jobs
    BY <1>1, <1>4 DEF Requeue, Loop, Looping, Holding
  <2>2. Ended1
    BY <1>1, <1>4, <2>1 DEF Requeue, RequeueForRetry, BackToQueue, JobRow
  <2>3. QED BY <2>2
<1>5. CASE Complete
  <2>1. runner'.pc = "claim" /\ runner.job \in Jobs /\ JobExists(runner.job)
    BY <1>1, <1>5 DEF Complete, Loop, Looping, Holding, ClaimInv, ClaimIsRecorded, JobExists
  <2>2. Ended1
    BY <1>1, <1>5, <2>1 DEF Complete, MarkCompleted, JobRow
  <2>3. QED BY <2>2
<1>6. CASE Checkpoint \/ Start \/ Decode \/ Transcribe \/ PublishDraft \/ Diarize
           \/ PublishFinal \/ ProcessorRaises
  <2>1. runner.pc \in WorkPcs
    BY <1>6 DEF Checkpoint, AfterCheckpoint, Start, Decode, Transcribe, PublishDraft, Diarize,
       PublishFinal, ProcessorRaises
  <2>2. UNCHANGED job
    BY <1>6 DEF Checkpoint, Start, Decode, Transcribe, PublishDraft, Diarize, PublishFinal,
       ProcessorRaises, Raise, MarkProcessing, ReplaceWithDraft, SetDiarization,
       ReplaceWithFinal, storeVars
  <2>3. runner'.pc \in WorkPcs /\ runner'.job = runner.job
    <3>1. CASE ProcessorRaises
      BY <3>1 DEF ProcessorRaises, Raise, Holding
    <3>2. CASE Start
      <4>1. CASE Raise(FALSE)
        BY <4>1 DEF Raise, Holding
      <4>2. CASE runner' = [runner EXCEPT !.pc = "cpDecode", !.plan = PlanFor(runner.meeting)]
        BY <1>1, <4>2 DEF Runner
      <4>3. QED BY <3>2, <4>1, <4>2 DEF Start
    <3>3. CASE Checkpoint
      <4>1. CASE CancelSeen
        BY <3>3, <4>1 DEF Checkpoint, Holding
      <4>2. CASE ~CancelSeen
        BY <1>1, <3>3, <4>2 DEF Checkpoint, AfterCheckpoint, Goto, Runner
      <4>3. QED BY <4>1, <4>2
    <3>4. CASE PublishDraft \/ Diarize
      BY <1>1, <3>4 DEF PublishDraft, Diarize, Goto, Runner
    <3>5. CASE PublishFinal
      BY <1>1, <3>5 DEF PublishFinal, Raise, Holding, Goto, Runner
    <3>6. CASE Decode
      BY <1>1, <3>6 DEF Decode, Runner
    <3>7. CASE Transcribe
      BY <1>1, <3>7 DEF Transcribe, AfterAsr, Runner
    <3>8. QED BY <1>6, <3>1, <3>2, <3>3, <3>4, <3>5, <3>6, <3>7
  <2>4. QED BY <2>1, <2>2, <2>3
<1>7. QED BY <1>2, <1>3, <1>4, <1>5, <1>6 DEF RunnerLoop, ProcessorStep

\* The runner's own steps neither start nor stop the process.
LEMMA RunnerStaysUp ==
    ASSUME TypeInv, RunnerLoop \/ ProcessorStep \/ ProcessorRaises
    PROVE  runner.pc # "down" /\ runner'.pc # "down"
<1>1. runner \in Runner
  BY DEF TypeInv, RunnerOK
<1>2. CASE RunnerLoop
  <2>1. CASE Claim
    BY <2>1 DEF Claim, Holding
  <2>2. CASE ClaimNothing \/ ClearWake \/ WakeUp \/ RecordCancelled \/ RecordFailed \/ GiveUp
    BY <1>1, <2>2 DEF ClaimNothing, ClearWake, WakeUp, RecordCancelled, RecordFailed,
       GiveUp, Goto, Runner
  <2>3. CASE CancelMeeting \/ Requeue \/ FailTheMeeting \/ Backoff
    BY <2>3 DEF CancelMeeting, Requeue, FailTheMeeting, Backoff, Loop, Looping, Holding
  <2>4. QED BY <1>2, <2>1, <2>2, <2>3 DEF RunnerLoop
<1>3. CASE ProcessorRaises
  BY <1>3 DEF ProcessorRaises, Raise, Holding, ProcessorPcs
<1>4. CASE ProcessorStep
  <2>1. CASE Start
    <3>1. CASE Raise(FALSE)
      BY <2>1, <3>1 DEF Start, Raise, Holding
    <3>2. CASE runner' = [runner EXCEPT !.pc = "cpDecode", !.plan = PlanFor(runner.meeting)]
      BY <1>1, <2>1, <3>2 DEF Start, Runner
    <3>3. QED BY <2>1, <3>1, <3>2 DEF Start
  <2>2. CASE Checkpoint
    <3>1. CASE CancelSeen
      BY <2>2, <3>1 DEF Checkpoint, AfterCheckpoint, Holding
    <3>2. CASE ~CancelSeen
      BY <1>1, <2>2, <3>2 DEF Checkpoint, AfterCheckpoint, Goto, Runner
    <3>3. QED BY <3>1, <3>2
  <2>3. CASE Decode
    BY <1>1, <2>3 DEF Decode, Runner
  <2>4. CASE Transcribe
    BY <1>1, <2>4 DEF Transcribe, AfterAsr, Runner
  <2>5. CASE PublishDraft \/ Diarize
    BY <1>1, <2>5 DEF PublishDraft, Diarize, Goto, Runner
  <2>6. CASE PublishFinal
    BY <1>1, <2>6 DEF PublishFinal, Raise, Holding, Goto, Runner
  <2>7. CASE Complete
    BY <2>7 DEF Complete, Loop, Looping, Holding
  <2>8. QED BY <1>4, <2>1, <2>2, <2>3, <2>4, <2>5, <2>6, <2>7 DEF ProcessorStep
<1>5. QED BY <1>2, <1>3, <1>4

LEMMA RunningStep ==
    ASSUME TypeInv, TypeInv', ClaimInv, RunningIsWorkedOn, [Next]_vars
    PROVE  RunningIsWorkedOn'
<1> USE DEF RunningIsWorkedOn, Up
<1>1. CASE UNCHANGED vars
  BY <1>1 DEF vars
<1>2. CASE Next
  <2>0. SUFFICES ASSUME faults' = 0 PROVE RunningIsWorkedOn'
    OBVIOUS
  <2>1. faults = 0 /\ ~RunnerFault
    BY <1>2, <2>0, FaultsGrow
  <2>2. "down" \notin WorkPcs /\ "claim" \notin WorkPcs
    BY DEF WorkPcs, ProcessorPcs
  <2>3. job \in [Jobs -> JobRow] /\ runner \in Runner
    BY DEF TypeInv, StoreInv, StoreTypeOK, RunnerOK
  <2>4. CASE Claim
    <3>1. PICK j \in Jobs : ClaimNext(j) /\ runner' = Holding("start", j, job[j].meeting, FALSE)
      BY <2>4 DEF Claim
    <3>2. runner.pc = "claim" /\ \A k \in Jobs : job[k].status # "running"
      BY <2>1, <2>2, <2>4 DEF Claim
    <3>3. \A k \in Jobs : job'[k].status = "running" => k = j
      BY <2>3, <3>1, <3>2 DEF ClaimNext
    <3>4. runner'.pc = "start" /\ runner'.job = j
      BY <3>1 DEF Holding
    <3>5. QED BY <3>3, <3>4 DEF WorkPcs, ProcessorPcs
  <2>5. CASE (RunnerLoop \/ ProcessorStep \/ ProcessorRaises) /\ ~Claim
    <3>1. runner.pc # "down" /\ runner'.pc # "down"
      BY <2>5, RunnerStaysUp
    <3>2. QED BY <2>1, <2>5, <3>1, RunnerKeepsClaim
  <2>6. CASE \/ \E m \in Meetings, mode \in {"quick", "meeting"} : Upload(m, mode)
             \/ \E c \in Clients : ClientStep(c) \/ ClientRequest(c)
             \/ \E m \in Meetings : LiveStep(m) \/ LiveFinalize(m) \/ LiveFault(m)
    BY <2>1, <2>6, NobodyElseRuns
  <2>7. CASE Crash
    <3>1. runner.pc # "down" /\ runner'.pc = "down" /\ UNCHANGED job
      BY <2>7 DEF Crash, Loop, Looping, Holding
    <3>2. QED BY <2>1, <3>1
  <2>8. CASE Restart
    BY <2>3, <2>8 DEF Restart, RecoverInterrupted, CancelledByRestart, JobRow
  <2>9. QED BY <1>2, <2>1, <2>4, <2>5, <2>6, <2>7, <2>8 DEF Next
<1>3. QED BY <1>1, <1>2

LEMMA InitRunning == Init => RunningIsWorkedOn
  BY DEF Init, StoreInit, NoJob, RunningIsWorkedOn

LEMMA SpecRunning == Spec => []RunningIsWorkedOn
<1>1. TypeInv /\ TypeInv' /\ ClaimInv /\ RunningIsWorkedOn /\ [Next]_vars => RunningIsWorkedOn'
  BY RunningStep
<1>2. QED BY <1>1, InitRunning, SpecTypeInv, SpecClaimInv, PTL DEF Spec

-----------------------------------------------------------------------------
(* The results.                                                            *)

\* The part of the inductive invariant that is about rows, claims and files.
THEOREM RowsHold == Spec => []RowsInv
<1>1. TypeInv /\ ClaimInv /\ PathsInv /\ RunningIsWorkedOn => RowsInv
  BY TypeInvParts DEF ClaimInv, PathsInv, RowsInv
<1>2. QED BY <1>1, SpecTypeInv, SpecClaimInv, SpecPathsInv, SpecRunning, PTL

\* One worker: the running rows of the job table are exactly the runner's claim,
\* through failures, retries, crashes and restarts.
THEOREM OneWorker == Spec => []SingleWorker
<1>1. RowsInv => SingleWorker
  BY DEF RowsInv, RunningIsWorkedOn, ClaimIsRecorded, SingleWorker
<1>2. QED BY <1>1, RowsHold, PTL

\* Neither the meeting nor its audio is taken away from a running job.
THEOREM WorkProtected == Spec => []WorkIsProtected
<1>1. RowsInv => WorkIsProtected
  <2> SUFFICES ASSUME RowsInv, runner.pc \in WorkPcs, faults = 0
               PROVE  /\ JobExists(runner.job) /\ job[runner.job].meeting = runner.meeting
                      /\ Exists(runner.meeting) /\ AudioOnDisk(runner.meeting)
    BY DEF WorkIsProtected
  <2>1. runner.job \in Jobs /\ runner.meeting \in Meetings
    BY DEF RowsInv, LocalsNameRows
  <2>2. JobExists(runner.job) /\ job[runner.job].meeting = runner.meeting
    BY DEF RowsInv, ClaimIsRecorded, JobExists
  <2>3. Exists(runner.meeting)
    BY <2>1, <2>2 DEF RowsInv, JobsHaveMeetings
  <2>4. AudioOnDisk(runner.meeting)
    BY <2>1, <2>2 DEF RowsInv, PathsResolve, AudioOnDisk
  <2>5. QED BY <2>2, <2>3, <2>4
<1>2. QED BY <1>1, RowsHold, PTL
=============================================================================
