---------------------------- MODULE MeetingStore ----------------------------
(***************************************************************************)
(* The durable state of the service: the meetings and processing_jobs      *)
(* tables of the SQLite database and the WAV files the rows point at.      *)
(* Every operator with a primed variable is one committed transaction of   *)
(* JobRepository or MeetingRepository (or one unlink of a file); the       *)
(* processes that issue them are in MeetingPipeline.                       *)
(*                                                                         *)
(* Job ids are numbered in creation order, so "oldest first" is "smallest  *)
(* id first".  The text of a transcript is abstracted to where its rows    *)
(* come from: the live session, the draft a job publishes early, or the    *)
(* final result of a job.                                                  *)
(***************************************************************************)
EXTENDS Naturals, FiniteSets

CONSTANTS
    Meetings,        \* ids a meeting may get
    NoMeeting,       \* the meeting of a job row that does not exist
    MaxJobs,         \* bound: how many job rows are ever inserted
    MaxAutoRetries,  \* MAX_AUTO_RETRIES
    KeepFinished     \* keep_per_meeting of prune_finished

ASSUME StoreAssumption ==
    /\ NoMeeting \notin Meetings
    /\ MaxJobs \in Nat
    /\ MaxAutoRetries \in Nat
    /\ KeepFinished \in Nat

VARIABLES
    meeting,    \* the meetings table
    job,        \* the processing_jobs table
    nextJob,    \* the id the next inserted job gets
    wav         \* the audio file of each meeting

storeVars == <<meeting, job, nextJob, wav>>

Jobs == 1..MaxJobs

Origins == {"live", "draft", "final"}

MeetingRow ==
    [status : {"absent", "draft", "processing", "ready", "failed", "deleted"},
     source : {"live", "upload"},
     mode   : {"quick", "meeting"},
     state  : {"draft", "refined"},                          \* transcript_state
     diar   : {"not_requested", "pending", "completed", "unavailable"},
     text   : SUBSET Origins,
     audio  : BOOLEAN,                                \* audio_path IS NOT NULL
     truncated : BOOLEAN]                             \* manifest.truncated

JobRow ==
    [status  : {"none", "queued", "running", "completed", "failed", "cancelled"},
     cancel  : BOOLEAN,                                      \* cancel_requested
     retries : Nat,                                          \* retry_count
     meeting : Meetings \cup {NoMeeting}]

(***************************************************************************)
(* A WAV file: not on disk; being written; closed with everything that was *)
(* received; closed after the size cap; or left behind by a process that   *)
(* died before wave.close() patched the frame count in its header.         *)
(***************************************************************************)
WavStates == {"none", "open", "whole", "cut", "unpatched"}

StoreTypeOK ==
    /\ meeting \in [Meetings -> MeetingRow]
    /\ job \in [Jobs -> JobRow]
    /\ nextJob \in 1..(MaxJobs + 1)
    /\ wav \in [Meetings -> WavStates]

AbsentMeeting ==
    [status |-> "absent", source |-> "upload", mode |-> "quick", state |-> "draft",
     diar |-> "not_requested", text |-> {}, audio |-> FALSE, truncated |-> FALSE]

NoJob == [status |-> "none", cancel |-> FALSE, retries |-> 0, meeting |-> NoMeeting]

StoreInit ==
    /\ meeting = [m \in Meetings |-> AbsentMeeting]
    /\ job = [j \in Jobs |-> NoJob]
    /\ nextJob = 1
    /\ wav = [m \in Meetings |-> "none"]

-----------------------------------------------------------------------------
(* What the SELECT statements look for.                                    *)

Exists(m) == meeting[m].status \notin {"absent", "deleted"}

JobExists(j) == job[j].status # "none"

Terminal == {"completed", "failed", "cancelled"}

Active(j) == job[j].status \in {"queued", "running"}

HasActive(m) == \E j \in Jobs : job[j].meeting = m /\ Active(j)

Claimable(j) == job[j].status = "queued" /\ ~job[j].cancel

OldestClaimable(j) == Claimable(j) /\ \A k \in Jobs : Claimable(k) => j <= k

AudioOnDisk(m) == meeting[m].audio /\ wav[m] # "none"

-----------------------------------------------------------------------------
(* Transactions on meetings.                                               *)

\* UPDATE meetings ... WHERE id = m: an absent row is left alone.
SetMeeting(m, row) ==
    meeting' = IF Exists(m) THEN [meeting EXCEPT ![m] = row] ELSE meeting

InitialDiarization(mode) == IF mode = "meeting" THEN "pending" ELSE "not_requested"

NewMeeting(source, mode, audio) ==
    [status |-> "processing", source |-> source, mode |-> mode, state |-> "draft",
     diar |-> InitialDiarization(mode), text |-> {}, audio |-> audio,
     truncated |-> FALSE]

NewJob(m) == [status |-> "queued", cancel |-> FALSE, retries |-> 0, meeting |-> m]

\* The upload's file is on disk before the rows are inserted.
CreateWithJob(m, mode) ==
    /\ meeting[m].status = "absent"
    /\ nextJob \in Jobs
    /\ meeting' = [meeting EXCEPT ![m] = NewMeeting("upload", mode, TRUE)]
    /\ job' = [job EXCEPT ![nextJob] = NewJob(m)]
    /\ nextJob' = nextJob + 1
    /\ wav' = [wav EXCEPT ![m] = "whole"]

CreateLive(m) ==
    /\ meeting[m].status = "absent"
    /\ meeting' = [meeting EXCEPT ![m] = NewMeeting("live", "quick", FALSE)]
    /\ UNCHANGED <<job, nextJob, wav>>

FailMeeting(m) ==
    /\ SetMeeting(m, [meeting[m] EXCEPT !.status = "failed"])
    /\ UNCHANGED <<job, nextJob, wav>>

\* The processor's own update once the audio is decoded.
MarkProcessing(m) ==
    /\ SetMeeting(m, [meeting[m] EXCEPT !.status = "processing"])
    /\ UNCHANGED <<job, nextJob, wav>>

SetDiarization(m, result) ==
    /\ SetMeeting(m, [meeting[m] EXCEPT !.diar = result])
    /\ UNCHANGED <<job, nextJob, wav>>

\* replace_generated_transcript without a manifest, then with one.
ReplaceWithDraft(m) ==
    /\ SetMeeting(m, [meeting[m] EXCEPT !.text = {"draft"}])
    /\ UNCHANGED <<job, nextJob, wav>>

\* Mutant: the old rows are not deleted first.
AddFinalRows(m) ==
    /\ SetMeeting(m, [meeting[m] EXCEPT !.text = @ \cup {"final"},
                                        !.state = "refined",
                                        !.truncated = FALSE])
    /\ UNCHANGED <<job, nextJob, wav>>

ReplaceWithFinal(m) ==
    /\ SetMeeting(m, [meeting[m] EXCEPT !.text = {"final"},
                                        !.state = "refined",
                                        !.truncated = FALSE])
    /\ UNCHANGED <<job, nextJob, wav>>

\* The segment's foreign key makes the insert fail for a deleted meeting.
AppendLiveSegment(m) ==
    /\ Exists(m)
    /\ SetMeeting(m, [meeting[m] EXCEPT !.text = @ \cup {"live"}])
    /\ UNCHANGED <<job, nextJob, wav>>

\* Mutant: an empty session becomes ready too.
FinalizeLiveAsReady(m) ==
    /\ SetMeeting(m, [meeting[m] EXCEPT !.status =
           IF meeting[m].source = "live" THEN "ready" ELSE @])
    /\ UNCHANGED <<job, nextJob, wav>>

\* WHERE source = 'live'; the status depends on the rows and on the file,
\* not on the status the meeting has now.
FinalizeLive(m) ==
    /\ IF meeting[m].source = "live"
         THEN SetMeeting(m, [meeting[m] EXCEPT !.status =
                  IF meeting[m].text = {} THEN "draft"
                  ELSE IF meeting[m].audio /\ wav[m] = "none" THEN "failed"
                  ELSE "ready"])
         ELSE UNCHANGED meeting
    /\ UNCHANGED <<job, nextJob, wav>>

\* Mutant: looks at the meeting only.
DeleteUnlessProcessing(m) ==
    /\ Exists(m)
    /\ meeting[m].status # "processing"
    /\ meeting' = [meeting EXCEPT ![m] = [AbsentMeeting EXCEPT !.status = "deleted"]]
    /\ job' = [j \in Jobs |-> IF job[j].meeting = m THEN NoJob ELSE job[j]]
    /\ UNCHANGED <<nextJob, wav>>

\* ON DELETE CASCADE takes the job rows with it; the file is unlinked after.
DeleteIfInactive(m) ==
    /\ Exists(m)
    /\ meeting[m].status # "processing"
    /\ ~HasActive(m)
    /\ meeting' = [meeting EXCEPT ![m] = [AbsentMeeting EXCEPT !.status = "deleted"]]
    /\ job' = [j \in Jobs |-> IF job[j].meeting = m THEN NoJob ELSE job[j]]
    /\ UNCHANGED <<nextJob, wav>>

Unlink(m) ==
    /\ wav' = [wav EXCEPT ![m] = "none"]
    /\ UNCHANGED <<meeting, job, nextJob>>

-----------------------------------------------------------------------------
(* Transactions on jobs.                                                   *)

\* What a successful enqueue_refinement requires.
CanEnqueue(m, allowLive) ==
    /\ Exists(m)
    /\ meeting[m].audio
    /\ ~HasActive(m)
    /\ allowLive \/ meeting[m].status # "processing"

EnqueueRefinement(m, allowLive) ==
    /\ CanEnqueue(m, allowLive)
    /\ nextJob \in Jobs
    /\ meeting' = [meeting EXCEPT ![m] = [@ EXCEPT !.status = "processing",
                                                   !.mode = "meeting",
                                                   !.state = "draft",
                                                   !.diar = "pending"]]
    /\ job' = [job EXCEPT ![nextJob] = NewJob(m)]
    /\ nextJob' = nextJob + 1
    /\ UNCHANGED wav

\* The finished jobs of a meeting that have KeepFinished newer finished ones.
Prunable ==
    {j \in Jobs : /\ job[j].status \in Terminal
                  /\ Cardinality({k \in Jobs : /\ k > j
                                               /\ job[k].status \in Terminal
                                               /\ job[k].meeting = job[j].meeting})
                       >= KeepFinished}

PruneFinished ==
    /\ job' = [j \in Jobs |-> IF j \in Prunable THEN NoJob ELSE job[j]]
    /\ UNCHANGED <<meeting, nextJob, wav>>

ClaimNext(j) ==
    /\ OldestClaimable(j)
    /\ job' = [job EXCEPT ![j].status = "running"]
    /\ UNCHANGED <<meeting, nextJob, wav>>

\* JobRepository.update: UPDATE ... WHERE id = j, whatever the row's status.
SetJobStatus(j, status) ==
    /\ job' = IF JobExists(j) THEN [job EXCEPT ![j].status = status] ELSE job
    /\ UNCHANGED <<meeting, nextJob, wav>>

SetCancelRequested(j) ==
    /\ job' = IF JobExists(j) THEN [job EXCEPT ![j].cancel = TRUE] ELSE job
    /\ UNCHANGED <<meeting, nextJob, wav>>

\* Mutant: UPDATE without AND status = 'queued'.
CancelWithoutStatus(j) ==
    /\ JobExists(j)
    /\ job' = [job EXCEPT ![j] = [@ EXCEPT !.status = "cancelled", !.cancel = TRUE]]
    /\ SetMeeting(job[j].meeting, [meeting[job[j].meeting] EXCEPT !.status = "failed"])
    /\ UNCHANGED <<nextJob, wav>>

\* Mutant: the request is not recorded with the status.
CancelWithoutFlag(j) ==
    /\ job[j].status = "queued"
    /\ job' = [job EXCEPT ![j].status = "cancelled"]
    /\ SetMeeting(job[j].meeting, [meeting[job[j].meeting] EXCEPT !.status = "failed"])
    /\ UNCHANGED <<nextJob, wav>>

\* request_cancel on a queued job: job and meeting in one transaction.
CancelQueued(j) ==
    /\ job[j].status = "queued"
    /\ job' = [job EXCEPT ![j] = [@ EXCEPT !.status = "cancelled", !.cancel = TRUE]]
    /\ SetMeeting(job[j].meeting, [meeting[job[j].meeting] EXCEPT !.status = "failed"])
    /\ UNCHANGED <<nextJob, wav>>

\* The UPDATE pair that retry and requeue_for_retry share.
BackToQueue(j) ==
    LET m == job[j].meeting IN
    /\ job' = [job EXCEPT ![j] = [@ EXCEPT !.status = "queued",
                                           !.cancel = FALSE,
                                           !.retries = job[j].retries + 1]]
    /\ SetMeeting(m, [meeting[m] EXCEPT !.status = "processing",
                                        !.state = "draft",
                                        !.diar = InitialDiarization(meeting[m].mode)])
    /\ UNCHANGED <<nextJob, wav>>

Retry(j) == job[j].status \in {"failed", "cancelled"} /\ BackToQueue(j)

\* Mutant: the count and the class of the error decide alone.
MayRequeueCancelled(j, retryable) ==
    /\ JobExists(j)
    /\ job[j].retries + 1 <= MaxAutoRetries
    /\ retryable

MayRequeue(j, retryable) ==
    /\ JobExists(j)
    /\ job[j].retries + 1 <= MaxAutoRetries
    /\ retryable
    /\ ~job[j].cancel

RequeueForRetry(j, retryable) == MayRequeue(j, retryable) /\ BackToQueue(j)

\* recover_interrupted: cancelled work ends, the rest is queued again, and a
\* live meeting left in processing without a job fails.
CancelledByRestart(j) == job[j].status = "running" /\ job[j].cancel

\* Mutant: only the cancelled jobs are recovered.
RecoverCancelled ==
    /\ job' = [j \in Jobs |-> IF CancelledByRestart(j)
                              THEN [job[j] EXCEPT !.status = "cancelled"] ELSE job[j]]
    /\ meeting' = [m \in Meetings |->
           IF Exists(m) /\ (\E j \in Jobs : CancelledByRestart(j) /\ job[j].meeting = m)
           THEN [meeting[m] EXCEPT !.status = "failed"] ELSE meeting[m]]
    /\ UNCHANGED <<nextJob, wav>>

\* Mutant: live meetings without a job are left as they are.
RecoverJobs ==
    /\ job' = [j \in Jobs |->
           IF CancelledByRestart(j) THEN [job[j] EXCEPT !.status = "cancelled"]
           ELSE IF job[j].status = "running" THEN [job[j] EXCEPT !.status = "queued"]
           ELSE job[j]]
    /\ meeting' = [m \in Meetings |->
           IF Exists(m) /\ (\E j \in Jobs : CancelledByRestart(j) /\ job[j].meeting = m)
           THEN [meeting[m] EXCEPT !.status = "failed"] ELSE meeting[m]]
    /\ UNCHANGED <<nextJob, wav>>

RecoverInterrupted ==
    LET recovered == [j \in Jobs |->
            IF CancelledByRestart(j) THEN [job[j] EXCEPT !.status = "cancelled"]
            ELSE IF job[j].status = "running" THEN [job[j] EXCEPT !.status = "queued"]
            ELSE job[j]]
        HasWork(m) == \E j \in Jobs : recovered[j].meeting = m /\ recovered[j].status = "queued"
        Cancelled(m) == \E j \in Jobs : CancelledByRestart(j) /\ job[j].meeting = m
        LiveOrphan(m) == /\ meeting[m].source = "live"
                         /\ meeting[m].status = "processing"
                         /\ ~HasWork(m)
    IN  /\ job' = recovered
        /\ meeting' = [m \in Meetings |->
               IF Exists(m) /\ (Cancelled(m) \/ LiveOrphan(m))
               THEN [meeting[m] EXCEPT !.status = "failed"] ELSE meeting[m]]
        /\ UNCHANGED <<nextJob, wav>>

MarkCompleted(m, j) ==
    /\ SetMeeting(m, [meeting[m] EXCEPT !.status = "ready"])
    /\ job' = IF JobExists(j) THEN [job EXCEPT ![j].status = "completed"] ELSE job
    /\ UNCHANGED <<nextJob, wav>>

-----------------------------------------------------------------------------
(* The foreign key: a job row names a meeting that exists, whatever the     *)
(* job's status.  Ids are given in order.                                   *)

JobsHaveMeetings ==
    \A j \in Jobs : JobExists(j) =>
        /\ j < nextJob
        /\ job[j].meeting \in Meetings
        /\ Exists(job[j].meeting)

StoreInv == StoreTypeOK /\ JobsHaveMeetings
=============================================================================
