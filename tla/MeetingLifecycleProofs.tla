----------------------- MODULE MeetingLifecycleProofs -----------------------
(***************************************************************************)
(* What the steps of MeetingPipeline do to the job rows, and what follows  *)
(* for the life of a job: a cancelled job is only brought back by the      *)
(* user, and without database faults the rows implement JobLifecycle.      *)
(***************************************************************************)
EXTENDS MeetingPipelineProofs

-----------------------------------------------------------------------------
(* The eleven ways in which a step changes the job table.                  *)

Inserts == \E m \in Meetings : /\ nextJob \in Jobs
                               /\ job' = [job EXCEPT ![nextJob] = NewJob(m)]
                               /\ nextJob' = nextJob + 1

Starts == runner.pc = "claim" /\ \E j \in Jobs : ClaimNext(j)

Ends == /\ runner.pc \in WorkPcs
        /\ \E s \in Terminal : job' = [job EXCEPT ![runner.job].status = s]
        /\ UNCHANGED nextJob

Requeues == runner.pc = "requeue" /\ RequeueForRetry(runner.job, runner.retryable)

Retries ==
    \E c \in Clients, j \in Jobs :
        Retry(j) /\ client'[c] = [pc |-> "notify", job |-> j, meeting |-> NoMeeting]

Cancels == \E j \in Jobs : CancelQueued(j) \/ SetCancelRequested(j)

Removes == PruneFinished \/ \E m \in Meetings : DeleteIfInactive(m)

Recovers == ~Up /\ RecoverInterrupted

JobsStay == UNCHANGED <<job, nextJob>>

JobStep == \/ Inserts \/ Starts \/ Ends \/ Requeues \/ Retries \/ Cancels \/ Removes
           \/ Recovers \/ JobsStay

LEMMA RunnerJobStep ==
    ASSUME TypeInv, ClaimInv,
           RunnerLoop \/ RunnerFault \/ ProcessorStep \/ ProcessorRaises
    PROVE  JobStep
<1>1. runner.pc \in WorkPcs => runner.job \in Jobs /\ JobExists(runner.job)
  BY DEF TypeInv, RunnerOK, ClaimInv, ClaimIsRecorded, JobExists
<1>2. CASE Claim
  BY <1>2 DEF Claim, JobStep, Starts
<1>3. CASE RecordCancelled \/ RecordFailed \/ Complete
  BY <1>1, <1>3 DEF RecordCancelled, RecordFailed, Complete, SetJobStatus, MarkCompleted,
     WorkPcs, ProcessorPcs, Terminal, JobStep, Ends
<1>4. CASE Requeue
  BY <1>4 DEF Requeue, JobStep, Requeues
<1>5. CASE UNCHANGED <<job, nextJob>>
  BY <1>5 DEF JobStep, JobsStay
<1>6. QED
  BY <1>2, <1>3, <1>4, <1>5 DEF RunnerLoop, RunnerFault, ProcessorStep, ProcessorRaises,
     ClaimNothing, ClearWake, WakeUp, CancelMeeting, GiveUp, FailTheMeeting, Backoff, Start,
     Checkpoint, Decode, Transcribe, PublishDraft, Diarize, PublishFinal, Raise,
     FailMeeting, MarkProcessing, ReplaceWithDraft, SetDiarization, ReplaceWithFinal, storeVars

LEMMA RequestJobStep ==
    ASSUME TypeInv,
           \/ \E m \in Meetings, mode \in {"quick", "meeting"} : Upload(m, mode)
           \/ \E c \in Clients : ClientStep(c) \/ ClientRequest(c)
    PROVE  JobStep
<1>1. ASSUME NEW m \in Meetings, NEW mode \in {"quick", "meeting"}, Upload(m, mode)
      PROVE  JobStep
  BY <1>1 DEF Upload, CreateWithJob, JobStep, Inserts
<1>2. ASSUME NEW c \in Clients, ClientStep(c) PROVE JobStep
  <2>1. CASE CancelWhileQueued(c) \/ CancelFlag(c)
    <3>1. client[c].job \in Jobs
      BY <2>1 DEF CancelWhileQueued, CancelFlag, TypeInv, ClientsOK, At
    <3>2. QED BY <2>1, <3>1 DEF CancelWhileQueued, CancelFlag, JobStep, Cancels
  <2>2. CASE Reprocess(c)
    <3>1. client[c].meeting \in Meetings
      BY <2>2 DEF Reprocess, TypeInv, ClientsOK, At
    <3>2. QED BY <2>2, <3>1 DEF Reprocess, EnqueueRefinement, JobStep, Inserts
  <2>3. CASE Prune(c)
    BY <2>3 DEF Prune, JobStep, Removes
  <2>4. CASE UNCHANGED <<job, nextJob>>
    BY <2>4 DEF JobStep, JobsStay
  <2>5. QED
    BY <1>2, <2>1, <2>2, <2>3, <2>4 DEF ClientStep, CancelMissed, CancelReread, Notify,
       ReprocessRefused, DeleteAudio, Unlink, storeVars
<1>3. ASSUME NEW c \in Clients, ClientRequest(c) PROVE JobStep
  <2>1. ASSUME NEW j \in Jobs, RetryJob(c, j) PROVE JobStep
    <3>1. client'[c] = [pc |-> "notify", job |-> j, meeting |-> NoMeeting]
      BY <2>1 DEF RetryJob, Begin, TypeInv, ClientsOK
    <3>2. QED BY <2>1, <3>1 DEF RetryJob, JobStep, Retries
  <2>2. ASSUME NEW m \in Meetings, Delete(c, m) PROVE JobStep
    BY <2>2 DEF Delete, JobStep, Removes
  <2>3. CASE UNCHANGED <<job, nextJob>>
    BY <2>3 DEF JobStep, JobsStay
  <2>4. QED
    BY <1>3, <2>1, <2>2, <2>3 DEF ClientRequest, CancelRead, ReprocessCheck,
       storeVars
<1>4. QED BY <1>1, <1>2, <1>3

LEMMA SessionJobStep ==
    ASSUME NEW m \in Meetings, LiveStep(m) \/ LiveFinalize(m) \/ LiveFault(m)
    PROVE  JobStep
<1>1. CASE LiveEnqueue(m)
  BY <1>1 DEF LiveEnqueue, EnqueueRefinement, storeVars, JobStep, Inserts, JobsStay
<1>2. CASE LivePrune(m)
  BY <1>2 DEF LivePrune, JobStep, Removes
<1>3. CASE UNCHANGED <<job, nextJob>>
  BY <1>3 DEF JobStep, JobsStay
<1>4. QED
  BY <1>1, <1>2, <1>3 DEF LiveStep, LiveFinalize, LiveFault, LiveStart, LiveAudio, LiveCap,
     LiveAppend, LiveClose, LiveDeferredDone, LiveGiveUp, LiveNotify, LiveManifest,
     LiveNoAudio, LiveSettle, LiveDropAudio, CreateLive, AppendLiveSegment, FinalizeLive,
     Unlink, storeVars

LEMMA EveryJobStep ==
    ASSUME TypeInv, ClaimInv, [Next]_vars
    PROVE  JobStep
<1>1. CASE Crash \/ Restart \/ UNCHANGED vars
  BY <1>1 DEF Crash, Restart, vars, JobStep, JobsStay, Recovers, Up
<1>2. QED
  BY <1>1, RunnerJobStep, RequestJobStep, SessionJobStep DEF Next

-----------------------------------------------------------------------------
(* A cancelled job comes back by the user's retry only.                    *)

Revived(j) == job[j].status = "cancelled" /\ job'[j].status # "cancelled"

LEMMA RevivedByUser ==
    ASSUME TypeInv, ClaimInv, JobStep, NEW j \in Jobs, Revived(j)
    PROVE  \/ job'[j].status = "none"
           \/ \E c \in Clients : client'[c] = [pc |-> "notify", job |-> j, meeting |-> NoMeeting]
<1> USE DEF Revived
<1>1. /\ job \in [Jobs -> JobRow] /\ job[j].cancel
      /\ runner.pc \in WorkPcs => runner.job \in Jobs /\ job[runner.job].status = "running"
  BY DEF TypeInv, StoreInv, StoreTypeOK, RunnerOK, ClaimInv, ClaimIsRecorded,
     CancelledWasRequested
<1>2. CASE Inserts
  <2>1. j # nextJob
    BY DEF TypeInv, StoreInv, JobsHaveMeetings, JobExists, StoreTypeOK, Jobs
  <2>2. QED BY <1>1, <1>2, <2>1 DEF Inserts
<1>3. CASE Starts
  BY <1>1, <1>3 DEF Starts, ClaimNext, OldestClaimable, Claimable, JobRow
<1>4. CASE Ends
  BY <1>1, <1>4 DEF Ends
<1>5. CASE Requeues
  BY <1>1, <1>5 DEF Requeues, RequeueForRetry, MayRequeue, BackToQueue
<1>6. CASE Retries
  <2>1. PICK c \in Clients, k \in Jobs :
            Retry(k) /\ client'[c] = [pc |-> "notify", job |-> k, meeting |-> NoMeeting]
    BY <1>6 DEF Retries
  <2>2. k = j
    BY <1>1, <2>1 DEF Retry, BackToQueue
  <2>3. QED BY <2>1, <2>2
<1>7. CASE Cancels
  BY <1>1, <1>7 DEF Cancels, CancelQueued, SetCancelRequested, JobRow
<1>8. CASE Removes
  BY <1>1, <1>8 DEF Removes, PruneFinished, DeleteIfInactive, NoJob
<1>9. CASE Recovers \/ JobsStay
  BY <1>1, <1>9 DEF Recovers, JobsStay, RecoverInterrupted, CancelledByRestart
<1>10. QED BY <1>2, <1>3, <1>4, <1>5, <1>6, <1>7, <1>8, <1>9 DEF JobStep

\* Cancelling is final for the runner: its automatic retry, which looks at no
\* status, does not undo it, for any number of requests and whatever faults.
THEOREM CancelIsFinal == Spec => CancelledStaysCancelled
<1>1. TypeInv /\ ClaimInv /\ [Next]_vars =>
          \A j \in Jobs : Revived(j) =>
             \/ job'[j].status = "none"
             \/ \E c \in Clients :
                    client'[c] = [pc |-> "notify", job |-> j, meeting |-> NoMeeting]
  BY EveryJobStep, RevivedByUser
<1>2. QED BY <1>1, SpecTypeInv, SpecClaimInv, PTL DEF Spec, CancelledStaysCancelled, Revived

-----------------------------------------------------------------------------
(* A job the runner is about to queue again has not completed.             *)

NotDone == runner.pc = "requeue" => job[runner.job].status # "completed"

LEMMA OnlyEndsComplete ==
    ASSUME TypeInv, JobStep, ~Ends, NEW j \in Jobs, job[j].status # "completed"
    PROVE  job'[j].status # "completed"
<1>1. job \in [Jobs -> JobRow]
  BY DEF TypeInv, StoreInv, StoreTypeOK
<1>2. CASE Inserts \/ Starts
  BY <1>1, <1>2 DEF Inserts, NewJob, Starts, ClaimNext, JobRow
<1>3. CASE Requeues \/ Retries
  BY <1>1, <1>3 DEF Requeues, RequeueForRetry, Retries, Retry, BackToQueue, JobRow
<1>4. CASE Cancels
  <2>1. PICK k \in Jobs : CancelQueued(k) \/ SetCancelRequested(k)
    BY <1>4 DEF Cancels
  <2>2. CASE CancelQueued(k)
    BY <1>1, <2>2 DEF CancelQueued, JobRow
  <2>3. CASE SetCancelRequested(k)
    BY <1>1, <2>3 DEF SetCancelRequested, JobRow
  <2>4. QED BY <2>1, <2>2, <2>3
<1>5. CASE Removes
  BY <1>1, <1>5 DEF Removes, PruneFinished, DeleteIfInactive, NoJob
<1>6. CASE Recovers
  <2>1. job'[j].status \in {"cancelled", "queued", job[j].status}
    BY <1>1, <1>6 DEF Recovers, RecoverInterrupted, CancelledByRestart, JobRow
  <2>2. QED BY <2>1
<1>7. CASE JobsStay
  BY <1>7 DEF JobsStay
<1>8. QED BY <1>2, <1>3, <1>4, <1>5, <1>6, <1>7 DEF JobStep

\* How the runner gets to "requeue": through a failure, written or not.
LEMMA EntersRequeue ==
    ASSUME TypeInv, RunnerLoop \/ RunnerFault \/ ProcessorStep \/ ProcessorRaises,
           runner'.pc = "requeue"
    PROVE  /\ runner.pc = "failed" /\ runner'.job = runner.job
           /\ RecordFailed \/ UNCHANGED job
<1>1. runner \in Runner
  BY DEF TypeInv, RunnerOK
<1>2. CASE RunnerFault
  <2>1. CASE runner.pc = "failed"
    BY <1>1, <1>2, <2>1 DEF RunnerFault, AfterFault, Goto, Runner, storeVars
  <2>2. CASE runner.pc # "failed"
    BY <1>1, <1>2, <2>2 DEF RunnerFault, AfterFault, Goto, Loop, Looping, Holding, Runner
  <2>3. QED BY <2>1, <2>2
<1>3. CASE RunnerLoop
  <2>1. CASE RecordFailed
    BY <1>1, <2>1 DEF RecordFailed, Goto, Runner
  <2>2. CASE Claim
    BY <2>2 DEF Claim, Holding
  <2>3. CASE ClaimNothing \/ ClearWake \/ WakeUp \/ RecordCancelled \/ GiveUp
    BY <1>1, <2>3 DEF ClaimNothing, ClearWake, WakeUp, RecordCancelled, GiveUp, Goto, Runner
  <2>4. CASE CancelMeeting \/ Requeue \/ FailTheMeeting \/ Backoff
    BY <2>4 DEF CancelMeeting, Requeue, FailTheMeeting, Backoff, Loop, Looping, Holding
  <2>5. QED BY <1>3, <2>1, <2>2, <2>3, <2>4 DEF RunnerLoop
<1>4. CASE ProcessorRaises
  BY <1>4 DEF ProcessorRaises, Raise, Holding
<1>5. CASE ProcessorStep
  <2>1. CASE Start
    <3>1. CASE Raise(FALSE)
      BY <3>1 DEF Raise, Holding
    <3>2. CASE runner' = [runner EXCEPT !.pc = "cpDecode", !.plan = PlanFor(runner.meeting)]
      BY <1>1, <3>2 DEF Runner
    <3>3. QED BY <2>1, <3>1, <3>2 DEF Start
  <2>2. CASE Checkpoint
    <3>1. CASE CancelSeen
      BY <2>2, <3>1 DEF Checkpoint, Holding
    <3>2. CASE ~CancelSeen
      BY <1>1, <2>2, <3>2 DEF Checkpoint, AfterCheckpoint, Goto, Runner
    <3>3. QED BY <3>1, <3>2
  <2>3. CASE Decode
    BY <1>1, <2>3 DEF Decode, Runner
  <2>4. CASE Transcribe
    BY <1>1, <2>4 DEF Transcribe, AfterAsr, Runner
  <2>5. CASE PublishDraft \/ Diarize
    BY <1>1, <2>5 DEF PublishDraft, Diarize, Goto, Runner
  <2>6. CASE PublishFinal
    BY <1>1, <2>6 DEF PublishFinal, Raise, Holding, Goto, Runner
  <2>7. CASE Complete
    BY <2>7 DEF Complete, Loop, Looping, Holding
  <2>8. QED BY <1>5, <2>1, <2>2, <2>3, <2>4, <2>5, <2>6, <2>7 DEF ProcessorStep
<1>6. QED BY <1>2, <1>3, <1>4, <1>5

LEMMA NotDoneStep ==
    ASSUME TypeInv, ClaimInv, NotDone, [Next]_vars
    PROVE  NotDone'
<1> SUFFICES ASSUME runner'.pc = "requeue" PROVE job'[runner'.job].status # "completed"
  BY DEF NotDone
<1>1. JobStep
  BY EveryJobStep
<1>2. CASE RunnerLoop \/ RunnerFault \/ ProcessorStep \/ ProcessorRaises
  <2>1. /\ runner.pc = "failed" /\ runner'.job = runner.job
        /\ RecordFailed \/ UNCHANGED job
    BY <1>2, EntersRequeue
  <2>2. runner.job \in Jobs /\ job[runner.job].status = "running"
    BY <2>1 DEF TypeInv, RunnerOK, ClaimInv, ClaimIsRecorded, WorkPcs
  <2>3. CASE RecordFailed
    BY <2>1, <2>2, <2>3 DEF RecordFailed, SetJobStatus, JobExists, TypeInv, StoreInv,
       StoreTypeOK, JobRow
  <2>4. QED BY <2>1, <2>2, <2>3
<1>3. CASE UNCHANGED runner
  <2>1. runner.job \in Jobs /\ ~Ends
    BY <1>3 DEF TypeInv, RunnerOK, Ends, WorkPcs, ProcessorPcs
  <2>2. QED BY <1>1, <1>3, <2>1, OnlyEndsComplete DEF NotDone
<1>4. CASE Crash \/ Restart
  BY <1>4 DEF Crash, Restart, Loop, Looping, Holding
<1>5. QED BY <1>2, <1>3, <1>4, RequestFrame, SessionFrame DEF Next, vars

LEMMA SpecNotDone == Spec => []NotDone
<1>1. Init => NotDone
  BY DEF Init, NotDone, Looping, Holding
<1>2. QED BY <1>1, NotDoneStep, SpecTypeInv, SpecClaimInv, PTL DEF Spec

-----------------------------------------------------------------------------
(* Without faults the job rows implement JobLifecycle.                     *)

LEMMA StatusIs ==
    ASSUME NEW j \in Jobs, NEW s, job \in [Jobs -> JobRow],
           job' \in [Jobs -> JobRow], job'[j].status = s,
           \A k \in Jobs : k # j => job'[k].status = job[k].status
    PROVE  JobStatus' = [JobStatus EXCEPT ![j] = s]
  BY DEF JobStatus

LEMMA LifeStep ==
    ASSUME TypeInv, TypeInv', ClaimInv, RunningIsWorkedOn, NotDone, faults = 0, JobStep
    PROVE  Life!LifeNext \/ UNCHANGED Life!lifeVars
<1>1. /\ job \in [Jobs -> JobRow] /\ job' \in [Jobs -> JobRow]
      /\ nextJob \in Nat \ {0}
      /\ runner.pc \in WorkPcs \cup {"requeue"} => runner.job \in Jobs
      /\ runner.pc \in WorkPcs => job[runner.job].status = "running"
  BY DEF TypeInv, StoreInv, StoreTypeOK, RunnerOK, ClaimInv, ClaimIsRecorded
<1>2. ASSUME UNCHANGED nextJob PROVE UNCHANGED JobHistory
  BY <1>2 DEF JobHistory
<1> USE DEF Life!LifeNext, Life!SetStatus
<1>3. CASE Inserts
  <2>1. PICK m \in Meetings : job' = [job EXCEPT ![nextJob] = NewJob(m)]
    BY <1>3 DEF Inserts
  <2>2. nextJob \in Jobs /\ nextJob' = nextJob + 1
    BY <1>3 DEF Inserts
  <2>3. JobStatus' = [JobStatus EXCEPT ![nextJob] = "queued"]
    BY <1>1, <2>1, <2>2, StatusIs DEF NewJob
  <2>4. nextJob \notin JobHistory /\ JobHistory' = JobHistory \cup {nextJob}
    BY <1>1, <2>2 DEF JobHistory
  <2>5. Life!Insert(nextJob)
    BY <2>3, <2>4 DEF Life!Insert
  <2>6. QED BY <2>2, <2>5
<1>4. CASE Starts
  <2>1. PICK j \in Jobs : ClaimNext(j)
    BY <1>4 DEF Starts
  <2>2. \A k \in Jobs : job[k].status # "running"
    BY <1>4 DEF Starts, RunningIsWorkedOn, Up, WorkPcs, ProcessorPcs
  <2>3. JobStatus' = [JobStatus EXCEPT ![j] = "running"] /\ UNCHANGED JobHistory
    BY <1>1, <1>2, <2>1, StatusIs DEF ClaimNext
  <2>4. Life!Run(j)
    BY <2>1, <2>2, <2>3 DEF Life!Run, Life!Idle, JobStatus, ClaimNext, OldestClaimable, Claimable
  <2>5. QED BY <2>4
<1>5. CASE Ends
  <2>1. PICK s \in Terminal : job' = [job EXCEPT ![runner.job].status = s]
    BY <1>5 DEF Ends
  <2>2. runner.job \in Jobs /\ job[runner.job].status = "running" /\ UNCHANGED nextJob
    BY <1>1, <1>5 DEF Ends
  <2>3. JobStatus' = [JobStatus EXCEPT ![runner.job] = s] /\ UNCHANGED JobHistory
    BY <1>1, <1>2, <2>1, <2>2, StatusIs
  <2>4. Life!End(runner.job)
    BY <2>2, <2>3 DEF Life!End, Life!Ended, Terminal, JobStatus
  <2>5. QED BY <2>2, <2>4
<1>6. ASSUME NEW j \in Jobs, BackToQueue(j), job[j].status \in {"failed", "cancelled", "queued"}
      PROVE  Life!LifeNext \/ UNCHANGED Life!lifeVars
  <2>1. JobStatus' = [JobStatus EXCEPT ![j] = "queued"] /\ UNCHANGED JobHistory
    BY <1>1, <1>2, <1>6, StatusIs DEF BackToQueue
  <2>2. CASE job[j].status = "queued"
    BY <2>1, <2>2 DEF JobStatus, Life!lifeVars
  <2>3. CASE job[j].status # "queued"
    BY <1>6, <2>1, <2>3 DEF Life!RunAgain, JobStatus
  <2>4. QED BY <2>2, <2>3
<1>7. CASE Requeues
  <2>1. job[runner.job].status \in {"failed", "cancelled", "queued"} /\ runner.job \in Jobs
    BY <1>1, <1>7 DEF Requeues, RequeueForRetry, MayRequeue, JobExists, NotDone,
       RunningIsWorkedOn, Up, WorkPcs, ProcessorPcs, JobRow
  <2>2. QED BY <1>6, <1>7, <2>1 DEF Requeues, RequeueForRetry
<1>8. CASE Retries
  BY <1>6, <1>8 DEF Retries, Retry
<1>9. CASE Cancels
  <2>1. PICK j \in Jobs : CancelQueued(j) \/ SetCancelRequested(j)
    BY <1>9 DEF Cancels
  <2>2. CASE CancelQueued(j)
    <3>1. JobStatus' = [JobStatus EXCEPT ![j] = "cancelled"] /\ UNCHANGED JobHistory
      BY <1>1, <1>2, <2>2, StatusIs DEF CancelQueued
    <3>2. QED BY <2>2, <3>1 DEF Life!CancelWaiting, JobStatus, CancelQueued
  <2>3. CASE SetCancelRequested(j)
    BY <1>1, <1>2, <2>3 DEF SetCancelRequested, JobStatus, Life!lifeVars
  <2>4. QED BY <2>1, <2>2, <2>3
<1>10. ASSUME NEW J \in SUBSET Jobs, \A j \in J : job[j].status \in Terminal,
              job' = [j \in Jobs |-> IF j \in J THEN NoJob ELSE job[j]], UNCHANGED nextJob
       PROVE  Life!LifeNext
  <2>1. Life!Forget(J)
    BY <1>2, <1>10 DEF Life!Forget, Life!Ended, Terminal, JobStatus, NoJob
  <2>2. QED BY <2>1
<1>11. CASE Removes
  <2>1. CASE PruneFinished
    <3>1. Prunable \in SUBSET Jobs /\ \A j \in Prunable : job[j].status \in Terminal
      BY DEF Prunable
    <3>2. QED BY <1>10, <2>1, <3>1 DEF PruneFinished
  <2>2. ASSUME NEW m \in Meetings, DeleteIfInactive(m)
        PROVE  Life!LifeNext
    <3> DEFINE J == {j \in Jobs : job[j].meeting = m /\ JobExists(j)}
    <3>1. \A j \in J : job[j].status \in Terminal
      BY <1>1, <2>2 DEF DeleteIfInactive, HasActive, Active, JobExists, Terminal, JobRow
    <3>2. JobStatus' = [j \in Jobs |-> IF j \in J THEN "none" ELSE JobStatus[j]]
      BY <1>1, <2>2 DEF DeleteIfInactive, JobStatus, NoJob, JobExists
    <3>3. Life!Forget(J)
      BY <1>2, <2>2, <3>1, <3>2 DEF Life!Forget, Life!Ended, Terminal, JobStatus,
         DeleteIfInactive
    <3>4. J \in SUBSET Jobs
      OBVIOUS
    <3> HIDE DEF J
    <3>5. QED BY <3>3, <3>4
  <2>3. QED BY <1>11, <2>1, <2>2 DEF Removes
<1>12. CASE Recovers
  <2>1. UNCHANGED nextJob
    BY <1>12 DEF Recovers, RecoverInterrupted
  <2>2. CASE \A j \in Jobs : job[j].status # "running"
    <3>1. UNCHANGED JobStatus
      BY <1>1, <1>12, <2>2 DEF Recovers, RecoverInterrupted, CancelledByRestart, JobStatus
    <3>2. QED BY <1>2, <2>1, <3>1 DEF Life!lifeVars
  <2>3. ASSUME NEW j \in Jobs, job[j].status = "running"
        PROVE  Life!LifeNext
    <3>1. \A k \in Jobs : k # j => job[k].status # "running"
      BY <1>12, <2>3 DEF Recovers, RunningIsWorkedOn
    <3>2. /\ job'[j].status \in {"queued", "cancelled"}
          /\ \A k \in Jobs : k # j => job'[k].status = job[k].status
      BY <1>1, <1>12, <2>3, <3>1 DEF Recovers, RecoverInterrupted, CancelledByRestart, JobRow
    <3>3. JobStatus' = [JobStatus EXCEPT ![j] = job'[j].status] /\ UNCHANGED JobHistory
      BY <1>1, <1>2, <2>1, <3>2, StatusIs
    <3>4. Life!Interrupt(j)
      BY <2>3, <3>2, <3>3 DEF Life!Interrupt, JobStatus
    <3>5. QED BY <3>4
  <2>4. QED BY <2>2, <2>3
<1>13. CASE JobsStay
  BY <1>2, <1>13 DEF JobsStay, JobStatus, Life!lifeVars
<1>14. QED BY <1>3, <1>4, <1>5, <1>7, <1>8, <1>9, <1>11, <1>12, <1>13 DEF JobStep

LEMMA LifeStarts == Init => Life!LifeInit
<1> SUFFICES ASSUME Init PROVE Life!LifeInit
  OBVIOUS
<1>1. JobStatus = [j \in Jobs |-> "none"]
  BY DEF Init, StoreInit, JobStatus, NoJob
<1>2. JobHistory = {}
  BY DEF Init, StoreInit, JobHistory
<1>3. QED BY <1>1, <1>2 DEF Life!LifeInit

\* As long as no database write of a handler fails, the queue keeps what
\* JobLifecycle promises, for any number of jobs, requests and crashes.
THEOREM QueueKeepsLifecycle ==
    ASSUME MaxFaults = 0
    PROVE  Spec => FollowsLifecycle
<1>1. TypeInv => faults = 0
  BY DEF TypeInv, RestOK
<1>2. TypeInv /\ TypeInv' /\ ClaimInv /\ RunningIsWorkedOn /\ NotDone /\ [Next]_vars
          => [Life!LifeNext]_(Life!lifeVars)
  BY <1>1, EveryJobStep, LifeStep
<1>3. QED
  BY <1>2, LifeStarts, SpecTypeInv, SpecClaimInv, SpecRunning, SpecNotDone, PTL
  DEF Spec, FollowsLifecycle, Life!LifeSpec
=============================================================================
