------------------------- MODULE MeetingStatusProofs -------------------------
(***************************************************************************)
(* What the status of a meeting promises its readers, for every set of     *)
(* meetings and clients and for every bound: a ready meeting has text and a *)
(* refined one the final rows of a job, a job completes over the rows it   *)
(* published, and a meeting in processing is on its way out of it.          *)
(*                                                                         *)
(* Every step is summed up once by what it does to one row of the meetings *)
(* table (EveryRowStep); the invariants are then shown from that summary   *)
(* and from the job steps of MeetingLifecycleProofs.                       *)
(***************************************************************************)
EXTENDS MeetingLifecycleProofs, FiniteSetTheorems, WellFoundedInduction

-----------------------------------------------------------------------------
(* What a step does to the row of meeting n, and what it needs for that.   *)

HasRow(n) == \E j \in Jobs : JobExists(j) /\ job[j].meeting = n

Becomes(n, status, state, text) ==
    /\ Exists(n)
    /\ meeting'[n].status = status /\ meeting'[n].state = state
    /\ meeting'[n].text = text /\ meeting'[n].source = meeting[n].source

RowStays(n) ==
    /\ meeting'[n].status = meeting[n].status /\ meeting'[n].state = meeting[n].state
    /\ meeting'[n].text = meeting[n].text /\ meeting'[n].source = meeting[n].source

\* By a handler of the runner, a cancellation or the recovery.
RowFails(n) ==
    /\ Becomes(n, "failed", meeting[n].state, meeting[n].text)
    /\ runner.meeting = n \/ HasRow(n) \/ ~Up

RowDecoded(n) ==
    /\ Decode /\ runner.meeting = n
    /\ Becomes(n, "processing", meeting[n].state, meeting[n].text)

\* By an insert of a job, a retry or the automatic one.
RowQueued(n) ==
    /\ Becomes(n, "processing", "draft", meeting[n].text)
    /\ HasActive(n)'
    /\ HasRow(n) \/ live[n] = "finalize" \/ meeting[n].status # "processing"

RowDrafted(n) ==
    /\ PublishDraft /\ runner.meeting = n
    /\ Becomes(n, meeting[n].status, meeting[n].state, {"draft"})

RowPublished(n) ==
    /\ PublishFinal /\ runner.meeting = n
    /\ Becomes(n, meeting[n].status, "refined", {"final"})

RowReady(n) ==
    /\ Complete /\ runner.meeting = n
    /\ Becomes(n, "ready", meeting[n].state, meeting[n].text)

RowHeard(n) ==
    /\ live[n] \in {"recording", "deferred"} \/ stuck[n]
    /\ Becomes(n, meeting[n].status, meeting[n].state, meeting[n].text \cup {"live"})
    /\ UNCHANGED <<runner, stuck>>

RowSettled(n) ==
    /\ live[n] = "settle"
    /\ \E s \in {"draft", "failed", "ready"} :
         /\ Becomes(n, s, meeting[n].state, meeting[n].text)
         /\ s = "ready" => meeting[n].text # {}

RowCreated(n) ==
    /\ meeting[n].status = "absent"
    /\ meeting'[n].status = "processing" /\ meeting'[n].state = "draft"
    /\ meeting'[n].text = {}
    /\ \/ HasActive(n)' /\ live' = live
       \/ LiveStart(n) /\ meeting'[n].source = "live"

RowDeleted(n) ==
    /\ meeting[n].status # "processing" /\ ~HasActive(n)
    /\ meeting'[n].status = "deleted" /\ meeting'[n].state = "draft"

RowStep(n) ==
    \/ RowStays(n) \/ RowFails(n) \/ RowDecoded(n) \/ RowQueued(n) \/ RowDrafted(n)
    \/ RowPublished(n) \/ RowReady(n) \/ RowHeard(n) \/ RowSettled(n)
    \/ RowCreated(n) \/ RowDeleted(n)

\* An UPDATE changes the row it names and no other.
LEMMA UpdateOneRow ==
    ASSUME meeting \in [Meetings -> MeetingRow], NEW m \in Meetings, NEW row \in MeetingRow,
           row.source = meeting[m].source, SetMeeting(m, row), NEW n \in Meetings
    PROVE  RowStays(n) \/ (n = m /\ Becomes(m, row.status, row.state, row.text))
<1>1. CASE ~Exists(m)
  BY <1>1 DEF SetMeeting, RowStays
<1>2. CASE Exists(m)
  BY <1>2 DEF SetMeeting, RowStays, Becomes
<1>3. QED BY <1>1, <1>2

\* The updates that only change the status.
LEMMA UpdateStatus ==
    ASSUME meeting \in [Meetings -> MeetingRow], NEW m \in Meetings,
           NEW s \in {"processing", "ready", "failed", "draft"},
           SetMeeting(m, [meeting[m] EXCEPT !.status = s]), NEW n \in Meetings
    PROVE  \/ RowStays(n)
           \/ n = m /\ Becomes(m, s, meeting[m].state, meeting[m].text)
<1> DEFINE row == [meeting[m] EXCEPT !.status = s]
<1>1. meeting[m] \in MeetingRow
  OBVIOUS
<1>2. /\ row \in MeetingRow /\ row.source = meeting[m].source
      /\ row.status = s /\ row.state = meeting[m].state /\ row.text = meeting[m].text
  BY <1>1 DEF MeetingRow
<1>3. SetMeeting(m, row)
  OBVIOUS
<1> HIDE DEF row
<1>4. QED BY <1>2, <1>3, UpdateOneRow

LEMMA FailIsRowStep ==
    ASSUME meeting \in [Meetings -> MeetingRow], NEW m \in Meetings,
           SetMeeting(m, [meeting[m] EXCEPT !.status = "failed"]),
           runner.meeting = m \/ HasRow(m), NEW n \in Meetings
    PROVE  RowStep(n)
  BY UpdateStatus DEF RowStep, RowFails

LEMMA BackToQueueIsRowStep ==
    ASSUME StoreInv, NEW j \in Jobs, JobExists(j), BackToQueue(j), NEW n \in Meetings
    PROVE  RowStep(n)
<1>1. /\ job[j].meeting \in Meetings /\ job[j] \in JobRow
      /\ meeting \in [Meetings -> MeetingRow] /\ job \in [Jobs -> JobRow]
  BY DEF StoreInv, StoreTypeOK, JobsHaveMeetings
<1>2. PICK m \in Meetings : m = job[j].meeting
  BY <1>1
<1> DEFINE row == [meeting[m] EXCEPT !.status = "processing", !.state = "draft",
                                     !.diar = InitialDiarization(meeting[m].mode)]
<1>3. InitialDiarization(meeting[m].mode) \in {"pending", "not_requested"}
  BY DEF InitialDiarization
<1>4. meeting[m] \in MeetingRow
  BY <1>1
<1>5. /\ row \in MeetingRow /\ row.source = meeting[m].source
      /\ row.status = "processing" /\ row.state = "draft" /\ row.text = meeting[m].text
  BY <1>4, <1>3 DEF MeetingRow
<1>6. SetMeeting(m, row)
  BY <1>2 DEF BackToQueue
<1>7. HasRow(m)
  BY <1>2 DEF HasRow
<1>8. job'[j].status = "queued" /\ job'[j].meeting = m
  BY <1>1, <1>2 DEF BackToQueue, JobRow
<1>9. HasActive(m)'
  BY <1>8 DEF HasActive, Active
<1> HIDE DEF row
<1>10. CASE RowStays(n)
  BY <1>10 DEF RowStep
<1>11. CASE n = m /\ Becomes(m, "processing", "draft", meeting[m].text)
  BY <1>7, <1>9, <1>11 DEF RowStep, RowQueued
<1>12. QED BY <1>1, <1>5, <1>6, <1>10, <1>11, UpdateOneRow

LEMMA EnqueueIsRowStep ==
    ASSUME StoreInv, NEW m \in Meetings, NEW allowLive \in BOOLEAN,
           EnqueueRefinement(m, allowLive), allowLive => live[m] = "finalize",
           NEW n \in Meetings
    PROVE  RowStep(n)
<1> DEFINE row == [meeting[m] EXCEPT !.status = "processing", !.mode = "meeting",
                                     !.state = "draft", !.diar = "pending"]
<1>1. /\ meeting[m] \in MeetingRow /\ job \in [Jobs -> JobRow]
      /\ meeting \in [Meetings -> MeetingRow]
  BY DEF StoreInv, StoreTypeOK
<1>2. /\ row \in MeetingRow /\ row.source = meeting[m].source
      /\ row.status = "processing" /\ row.state = "draft" /\ row.text = meeting[m].text
  BY <1>1 DEF MeetingRow
<1>3. SetMeeting(m, row)
  BY DEF EnqueueRefinement, CanEnqueue, SetMeeting
<1>4. live[m] = "finalize" \/ meeting[m].status # "processing"
  BY DEF EnqueueRefinement, CanEnqueue
<1>5. HasActive(m)'
  BY <1>1 DEF EnqueueRefinement, NewJob, HasActive, Active
<1> HIDE DEF row
<1>6. CASE RowStays(n)
  BY <1>6 DEF RowStep
<1>7. CASE n = m /\ Becomes(m, "processing", "draft", meeting[m].text)
  BY <1>4, <1>5, <1>7 DEF RowStep, RowQueued
<1>8. QED BY <1>1, <1>2, <1>3, <1>6, <1>7, UpdateOneRow

LEMMA DeleteIsRowStep ==
    ASSUME meeting \in [Meetings -> MeetingRow], NEW m \in Meetings, DeleteIfInactive(m),
           NEW n \in Meetings
    PROVE  RowStep(n)
<1>1. CASE n = m
  BY <1>1 DEF DeleteIfInactive, AbsentMeeting, RowStep, RowDeleted
<1>2. CASE n # m
  BY <1>2 DEF DeleteIfInactive, RowStep, RowStays
<1>3. QED BY <1>1, <1>2

LEMMA RunnerRowStep ==
    ASSUME TypeInv, ClaimInv, NEW n \in Meetings,
           RunnerLoop \/ RunnerFault \/ ProcessorStep \/ ProcessorRaises
    PROVE  RowStep(n)
<1>1. /\ StoreInv /\ meeting \in [Meetings -> MeetingRow]
      /\ runner.pc \in WorkPcs \cup {"requeue", "failMeeting", "cancelMeeting"} =>
             runner.job \in Jobs /\ runner.meeting \in Meetings
      /\ ProcessorPcs \subseteq WorkPcs
  BY DEF TypeInv, StoreInv, StoreTypeOK, RunnerOK, WorkPcs
<1>2. CASE UNCHANGED meeting
  BY <1>2 DEF RowStep, RowStays
<1>3. CASE CancelMeeting \/ FailTheMeeting
  <2>1. runner.meeting \in Meetings
    BY <1>1, <1>3 DEF CancelMeeting, FailTheMeeting
  <2>2. SetMeeting(runner.meeting, [meeting[runner.meeting] EXCEPT !.status = "failed"])
    BY <1>3 DEF CancelMeeting, FailTheMeeting, FailMeeting
  <2>3. PICK m \in Meetings : m = runner.meeting
    BY <2>1
  <2>4. QED BY <1>1, <2>2, <2>3, FailIsRowStep
<1>4. CASE Requeue
  BY <1>1, <1>4, BackToQueueIsRowStep DEF Requeue, RequeueForRetry, MayRequeue
<1>5. CASE Decode
  <2>1. PICK m \in Meetings : m = runner.meeting
    BY <1>1, <1>5 DEF Decode, ProcessorPcs
  <2>2. SetMeeting(m, [meeting[m] EXCEPT !.status = "processing"])
    BY <1>5, <2>1 DEF Decode, MarkProcessing
  <2>3. RowStays(n) \/ (n = m /\ Becomes(m, "processing", meeting[m].state, meeting[m].text))
    BY <1>1, <2>2, UpdateStatus
  <2>4. QED BY <1>5, <2>1, <2>3 DEF RowStep, RowDecoded, Decode
<1>6. CASE Complete
  <2>1. PICK m \in Meetings : m = runner.meeting
    BY <1>1, <1>6 DEF Complete, ProcessorPcs
  <2>2. SetMeeting(m, [meeting[m] EXCEPT !.status = "ready"])
    BY <1>6, <2>1 DEF Complete, MarkCompleted
  <2>3. RowStays(n) \/ (n = m /\ Becomes(m, "ready", meeting[m].state, meeting[m].text))
    BY <1>1, <2>2, UpdateStatus
  <2>4. QED BY <1>6, <2>1, <2>3 DEF RowStep, RowReady, Complete
<1>7. CASE Diarize
  <2>1. PICK m \in Meetings : m = runner.meeting
    BY <1>1, <1>7 DEF Diarize, ProcessorPcs
  <2>2. PICK result \in {"completed", "unavailable"} :
            SetMeeting(m, [meeting[m] EXCEPT !.diar = result])
    BY <1>7, <2>1 DEF Diarize, SetDiarization
  <2> DEFINE row == [meeting[m] EXCEPT !.diar = result]
  <2>3. /\ row \in MeetingRow /\ row.source = meeting[m].source
        /\ row.status = meeting[m].status /\ row.state = meeting[m].state
        /\ row.text = meeting[m].text
    BY <1>1 DEF MeetingRow
  <2>4. SetMeeting(m, row)
    BY <2>2
  <2> HIDE DEF row
  <2>5. RowStays(n)
    BY <1>1, <2>3, <2>4, UpdateOneRow DEF Becomes, RowStays
  <2>6. QED BY <2>5 DEF RowStep
<1>8. CASE PublishDraft
  <2>1. PICK m \in Meetings : m = runner.meeting
    BY <1>1, <1>8 DEF PublishDraft, ProcessorPcs
  <2> DEFINE row == [meeting[m] EXCEPT !.text = {"draft"}]
  <2>2. /\ row \in MeetingRow /\ row.source = meeting[m].source
        /\ row.status = meeting[m].status /\ row.state = meeting[m].state
        /\ row.text = {"draft"}
    BY <1>1 DEF MeetingRow, Origins
  <2>3. SetMeeting(m, row)
    BY <1>8, <2>1 DEF PublishDraft, ReplaceWithDraft
  <2> HIDE DEF row
  <2>4. RowStays(n) \/ (n = m /\ Becomes(m, meeting[m].status, meeting[m].state, {"draft"}))
    BY <1>1, <2>2, <2>3, UpdateOneRow DEF Becomes
  <2>5. QED BY <1>8, <2>1, <2>4 DEF RowStep, RowDrafted, PublishDraft
<1>9. CASE PublishFinal
  <2>0. CASE UNCHANGED storeVars
    BY <1>2, <2>0 DEF storeVars
  <2>1. CASE ReplaceWithFinal(runner.meeting)
    <3>1. PICK m \in Meetings : m = runner.meeting
      BY <1>1, <1>9 DEF PublishFinal, ProcessorPcs
    <3> DEFINE row == [meeting[m] EXCEPT !.text = {"final"}, !.state = "refined",
                                         !.truncated = FALSE]
    <3>2. /\ row \in MeetingRow /\ row.source = meeting[m].source
          /\ row.status = meeting[m].status /\ row.state = "refined"
          /\ row.text = {"final"}
      <4>1. meeting[m] \in MeetingRow
        BY <1>1
      <4>2. QED BY <4>1 DEF MeetingRow, Origins
    <3>3. SetMeeting(m, row)
      BY <2>1, <3>1 DEF ReplaceWithFinal
    <3> HIDE DEF row
    <3>4. RowStays(n) \/ (n = m /\ Becomes(m, meeting[m].status, "refined", {"final"}))
      BY <1>1, <3>2, <3>3, UpdateOneRow
    <3>5. QED BY <1>9, <3>1, <3>4 DEF RowStep, RowPublished, PublishFinal
  <2>2. QED BY <1>9, <2>0, <2>1 DEF PublishFinal, Raise
<1>10. QED
  BY <1>2, <1>3, <1>4, <1>5, <1>6, <1>7, <1>8, <1>9 DEF RunnerLoop, RunnerFault,
     ProcessorStep, ProcessorRaises, Claim, ClaimNext, ClaimNothing, ClearWake, WakeUp,
     RecordCancelled, RecordFailed, SetJobStatus, GiveUp, Backoff, Start, Checkpoint,
     Transcribe, Raise, storeVars

LEMMA RequestRowStep ==
    ASSUME TypeInv, NEW n \in Meetings,
           \/ \E m \in Meetings, mode \in {"quick", "meeting"} : Upload(m, mode)
           \/ \E c \in Clients : ClientStep(c) \/ ClientRequest(c)
    PROVE  RowStep(n)
<1>1. /\ StoreInv /\ meeting \in [Meetings -> MeetingRow] /\ job \in [Jobs -> JobRow]
  BY DEF TypeInv, StoreInv, StoreTypeOK
<1>2. CASE UNCHANGED meeting
  BY <1>2 DEF RowStep, RowStays
<1>3. ASSUME NEW m \in Meetings, NEW mode \in {"quick", "meeting"}, Upload(m, mode)
      PROVE  RowStep(n)
  <2>1. CASE n = m
    <3>1. /\ meeting[n].status = "absent" /\ live' = live
          /\ meeting'[n] = NewMeeting("upload", mode, TRUE)
          /\ nextJob \in Jobs /\ job'[nextJob] = NewJob(n)
      BY <1>1, <1>3, <2>1 DEF Upload, CreateWithJob
    <3>2. HasActive(n)'
      BY <3>1 DEF HasActive, Active, NewJob
    <3>3. QED BY <3>1, <3>2 DEF RowStep, RowCreated, NewMeeting
  <2>2. CASE n # m
    BY <1>1, <1>3, <2>2 DEF Upload, CreateWithJob, RowStep, RowStays
  <2>3. QED BY <2>1, <2>2
<1>4. ASSUME NEW c \in Clients, CancelWhileQueued(c) PROVE RowStep(n)
  <2>1. client[c].job \in Jobs /\ CancelQueued(client[c].job)
    BY <1>4 DEF TypeInv, ClientsOK, CancelWhileQueued, At
  <2>2. PICK j \in Jobs : CancelQueued(j)
    BY <2>1
  <2>3. JobExists(j) /\ job[j].meeting \in Meetings
    BY <1>1, <2>2 DEF CancelQueued, JobExists, StoreInv, JobsHaveMeetings
  <2>4. PICK m \in Meetings : m = job[j].meeting
    BY <2>3
  <2>5. HasRow(m) /\ SetMeeting(m, [meeting[m] EXCEPT !.status = "failed"])
    BY <2>2, <2>3, <2>4 DEF HasRow, CancelQueued
  <2>6. QED BY <1>1, <2>5, FailIsRowStep
<1>5. ASSUME NEW c \in Clients, Reprocess(c) PROVE RowStep(n)
  <2>1. client[c].meeting \in Meetings /\ EnqueueRefinement(client[c].meeting, FALSE)
    BY <1>5 DEF TypeInv, ClientsOK, Reprocess, At
  <2>2. PICK m \in Meetings : EnqueueRefinement(m, FALSE)
    BY <2>1
  <2>3. QED BY <1>1, <2>2, EnqueueIsRowStep
<1>6. ASSUME NEW c \in Clients, NEW j \in Jobs, RetryJob(c, j) PROVE RowStep(n)
  BY <1>1, <1>6, BackToQueueIsRowStep DEF RetryJob, Retry, JobExists
<1>7. ASSUME NEW c \in Clients, NEW m \in Meetings, Delete(c, m) PROVE RowStep(n)
  BY <1>1, <1>7, DeleteIsRowStep DEF Delete
<1>8. QED
  BY <1>2, <1>3, <1>4, <1>5, <1>6, <1>7 DEF ClientStep, ClientRequest, CancelMissed,
     CancelReread, CancelFlag, SetCancelRequested, Notify, ReprocessRefused, Prune,
     PruneFinished, DeleteAudio, Unlink, CancelRead, ReprocessCheck, storeVars

\* The session's updates of its own row other than those RowStep names.
LEMMA FileUpdateIsRowStep ==
    ASSUME meeting \in [Meetings -> MeetingRow], NEW m \in Meetings,
           NEW b \in BOOLEAN,
           \/ SetMeeting(m, [meeting[m] EXCEPT !.audio = b])
           \/ SetMeeting(m, [meeting[m] EXCEPT !.truncated = b]),
           NEW n \in Meetings
    PROVE  RowStep(n)
<1>1. PICK row \in {[meeting[m] EXCEPT !.audio = b], [meeting[m] EXCEPT !.truncated = b]} :
          SetMeeting(m, row)
  OBVIOUS
<1>2. meeting[m] \in MeetingRow
  OBVIOUS
<1>3. /\ row \in MeetingRow /\ row.source = meeting[m].source
      /\ row.status = meeting[m].status /\ row.state = meeting[m].state
      /\ row.text = meeting[m].text
  BY <1>2 DEF MeetingRow
<1>4. RowStays(n)
  BY <1>1, <1>3, UpdateOneRow DEF RowStays, Becomes
<1>5. QED BY <1>4 DEF RowStep

LEMMA SessionRowStep ==
    ASSUME TypeInv, NEW m \in Meetings, LiveStep(m) \/ LiveFinalize(m) \/ LiveFault(m),
           NEW n \in Meetings
    PROVE  RowStep(n)
<1>1. StoreInv /\ meeting \in [Meetings -> MeetingRow] /\ meeting[m] \in MeetingRow
  BY DEF TypeInv, StoreInv, StoreTypeOK
<1>2. CASE UNCHANGED meeting
  BY <1>2 DEF RowStep, RowStays
<1>3. CASE LiveStart(m)
  BY <1>1, <1>3 DEF LiveStart, CreateLive, NewMeeting, RowStep, RowStays, RowCreated
<1>4. CASE LiveAudio(m) \/ LiveManifest(m) \/ LiveDropAudio(m)
  BY <1>1, <1>4, FileUpdateIsRowStep DEF LiveAudio, LiveManifest, LiveDropAudio
<1>5. CASE LiveAppend(m)
  <2> DEFINE row == [meeting[m] EXCEPT !.text = @ \cup {"live"}]
  <2>1. /\ row \in MeetingRow /\ row.source = meeting[m].source
        /\ row.status = meeting[m].status /\ row.state = meeting[m].state
        /\ row.text = meeting[m].text \cup {"live"}
    BY <1>1 DEF MeetingRow, Origins
  <2>2. SetMeeting(m, row)
    BY <1>5 DEF LiveAppend, AppendLiveSegment
  <2> HIDE DEF row
  <2>3. \/ RowStays(n)
        \/ n = m /\ Becomes(m, meeting[m].status, meeting[m].state, meeting[m].text \cup {"live"})
    BY <1>1, <2>1, <2>2, UpdateOneRow DEF Becomes
  <2>4. QED BY <1>5, <2>3 DEF RowStep, RowHeard, LiveAppend, procVars
<1>6. CASE LiveEnqueue(m)
  BY <1>1, <1>2, <1>6, EnqueueIsRowStep DEF LiveEnqueue, storeVars
<1>7. CASE LiveSettle(m)
  <2>1. CASE meeting[m].source = "live"
    <3>1. PICK s \in {"draft", "failed", "ready"} :
              /\ SetMeeting(m, [meeting[m] EXCEPT !.status = s])
              /\ s = "ready" => meeting[m].text # {}
      BY <1>7, <2>1 DEF LiveSettle, FinalizeLive
    <3>2. \/ RowStays(n)
          \/ n = m /\ Becomes(m, s, meeting[m].state, meeting[m].text)
      BY <1>1, <3>1, UpdateStatus
    <3>3. QED BY <1>7, <3>1, <3>2 DEF RowStep, RowSettled, LiveSettle
  <2>2. CASE meeting[m].source # "live"
    BY <1>2, <1>7, <2>2 DEF LiveSettle, FinalizeLive
  <2>3. QED BY <2>1, <2>2
<1>8. QED
  BY <1>2, <1>3, <1>4, <1>5, <1>6, <1>7 DEF LiveStep, LiveFinalize, LiveFault, LiveCap,
     LiveClose, LiveDeferredDone, LiveGiveUp, LivePrune, PruneFinished, LiveNotify,
     LiveNoAudio, Unlink, storeVars

LEMMA EveryRowStep ==
    ASSUME TypeInv, ClaimInv, [Next]_vars, NEW n \in Meetings
    PROVE  RowStep(n)
<1>1. meeting \in [Meetings -> MeetingRow]
  BY DEF TypeInv, StoreInv, StoreTypeOK
<1>2. CASE Crash \/ UNCHANGED vars
  BY <1>2 DEF Crash, vars, RowStep, RowStays
<1>3. CASE Restart
  <2>1. \/ meeting'[n] = meeting[n]
        \/ Exists(n) /\ meeting'[n] = [meeting[n] EXCEPT !.status = "failed"]
    BY <1>1, <1>3 DEF Restart, RecoverInterrupted
  <2>2. ~Up /\ meeting[n] \in MeetingRow
    BY <1>1, <1>3 DEF Restart
  <2>3. QED BY <2>1, <2>2 DEF RowStep, RowStays, RowFails, Becomes, MeetingRow
<1>4. QED
  BY <1>2, <1>3, RunnerRowStep, RequestRowStep, SessionRowStep DEF Next

-----------------------------------------------------------------------------
(* Where a job row, the runner and a session come from.                    *)

\* A row that was not there is the next one, for a meeting being created or one
\* somebody enqueues.
NewRow(j) ==
    /\ j = nextJob
    /\ \E m \in Meetings :
         /\ job'[j] = NewJob(m)
         /\ \/ meeting[m].status = "absent" /\ live' = live
            \/ meeting[m].status # "processing" /\ live' = live
            \/ live[m] = "finalize"

LEMMA RowsComeFrom ==
    ASSUME TypeInv, Next, NEW j \in Jobs, JobExists(j)'
    PROVE  NewRow(j) \/ (JobExists(j) /\ job'[j].meeting = job[j].meeting)
<1>1. /\ job \in [Jobs -> JobRow]
      /\ Quiet \/ Structural
  BY StoreStepOK DEF TypeInv, StoreInv, StoreTypeOK, KeepsStore
<1> DEFINE Goal == NewRow(j) \/ (JobExists(j) /\ job'[j].meeting = job[j].meeting)
<1>2. CASE Quiet
  BY <1>1, <1>2 DEF Quiet, SameJobs, JobExists
<1>3. CASE UNCHANGED <<job, nextJob>>
  BY <1>1, <1>3 DEF JobExists
<1>4. ASSUME NEW m \in Meetings, NEW mode \in {"quick", "meeting"}, Upload(m, mode)
      PROVE  Goal
  BY <1>1, <1>4 DEF Upload, CreateWithJob, NewRow, JobExists
<1>5. ASSUME NEW m \in Meetings, NEW allowLive \in BOOLEAN, EnqueueRefinement(m, allowLive),
             live[m] = "finalize" \/ (~allowLive /\ live' = live)
      PROVE  Goal
  BY <1>1, <1>5 DEF EnqueueRefinement, CanEnqueue, NewRow, JobExists
<1>6. CASE PruneFinished
  BY <1>1, <1>6 DEF PruneFinished, NoJob, JobExists
<1>7. ASSUME NEW m \in Meetings, DeleteIfInactive(m) PROVE Goal
  BY <1>1, <1>7 DEF DeleteIfInactive, NoJob, JobExists
<1>8. ASSUME NEW c \in Clients, Reprocess(c) PROVE Goal
  <2>1. client[c].meeting \in Meetings /\ EnqueueRefinement(client[c].meeting, FALSE)
        /\ live' = live
    BY <1>8 DEF TypeInv, ClientsOK, Reprocess, At, OnlyClient
  <2>2. PICK m \in Meetings : EnqueueRefinement(m, FALSE)
    BY <2>1
  <2>3. QED BY <1>5, <2>1, <2>2
<1>9. ASSUME NEW m \in Meetings, LiveEnqueue(m) PROVE Goal
  BY <1>3, <1>5, <1>9 DEF LiveEnqueue, storeVars
<1>10. CASE Structural
  BY <1>3, <1>4, <1>6, <1>7, <1>8, <1>9, <1>10 DEF Structural, Prune, DeleteAudio, Delete,
     Unlink, LiveStart, CreateLive, LiveAudio, LiveClose, LivePrune, LiveManifest,
     LiveDropAudio, LiveFault, Crash, storeVars
<1>11. QED BY <1>1, <1>2, <1>10

LEMMA NextJobGrows ==
    ASSUME TypeInv, Next
    PROVE  nextJob <= nextJob'
<1>1. nextJob \in Nat /\ (Quiet \/ Structural)
  BY StoreStepOK, StoreAssumption DEF TypeInv, StoreInv, StoreTypeOK, KeepsStore
<1>2. nextJob' \in {nextJob, nextJob + 1}
  BY <1>1 DEF Quiet, Structural, Upload, CreateWithJob, Reprocess, EnqueueRefinement, Prune,
     PruneFinished, DeleteAudio, Delete, DeleteIfInactive, Unlink, LiveStart, CreateLive,
     LiveAudio, LiveClose, LiveEnqueue, LivePrune, LiveManifest, LiveDropAudio, LiveFault,
     Crash, storeVars
<1>3. QED BY <1>1, <1>2

\* The runner keeps its job and its meeting, drops both, or takes a job.
RunnerKeeps == runner'.job = runner.job /\ runner'.meeting = runner.meeting

RunnerDrops == \E pc \in RunnerPcs \ (WorkPcs \cup {"requeue", "failMeeting", "cancelMeeting"}) :
                   Loop(pc)

RunnerTakes ==
    \E j \in Jobs : ClaimNext(j) /\ runner' = Holding("start", j, job[j].meeting, FALSE)

LEMMA RunnerGoes ==
    ASSUME TypeInv, Next
    PROVE  RunnerKeeps \/ RunnerDrops \/ RunnerTakes
<1>1. runner \in Runner
  BY DEF TypeInv, RunnerOK
<1>2. {"claim", "dead", "down", "backoff"} \subseteq
          RunnerPcs \ (WorkPcs \cup {"requeue", "failMeeting", "cancelMeeting"})
  BY DEF RunnerPcs, WorkPcs, ProcessorPcs
<1>3. CASE \E pc \in RunnerPcs : Goto(pc)
  BY <1>1, <1>3 DEF Goto, Runner, RunnerKeeps
<1>4. CASE \E pc \in {"claim", "dead", "down", "backoff"} : Loop(pc)
  BY <1>2, <1>4 DEF RunnerDrops
<1>5. CASE \E pc \in RunnerPcs, b \in BOOLEAN : runner' = Holding(pc, runner.job, runner.meeting, b)
  BY <1>5 DEF Holding, RunnerKeeps
<1>6. CASE UNCHANGED runner
  BY <1>6 DEF RunnerKeeps
<1>7. CASE Claim
  BY <1>7 DEF Claim, RunnerTakes
<1>8. CASE Start \/ Decode \/ Transcribe
  <2>1. \/ \E pc \in RunnerPcs, b \in BOOLEAN : runner' = Holding(pc, runner.job, runner.meeting, b)
        \/ RunnerKeeps
    BY <1>1, <1>8 DEF Start, Decode, Transcribe, Raise, Runner, RunnerKeeps, RunnerPcs
  <2>2. QED BY <1>5, <2>1
<1>9. CASE Checkpoint \/ PublishFinal \/ ProcessorRaises
  <2>1. \/ \E pc \in RunnerPcs, b \in BOOLEAN : runner' = Holding(pc, runner.job, runner.meeting, b)
        \/ \E pc \in RunnerPcs : Goto(pc)
    <3>1. ASSUME Checkpoint PROVE AfterCheckpoint[runner.pc] \in RunnerPcs
      BY <3>1 DEF Checkpoint, AfterCheckpoint, RunnerPcs, ProcessorPcs
    <3>2. {"failed", "cancelled", "complete"} \subseteq RunnerPcs /\ runner.heard \in BOOLEAN
      BY <1>1 DEF RunnerPcs, ProcessorPcs, Runner
    <3>3. QED BY <1>9, <3>1, <3>2 DEF Checkpoint, PublishFinal, ProcessorRaises, Raise
  <2>2. QED BY <1>3, <1>5, <2>1
<1>10. CASE RunnerFault
  <2>1. AfterFault[runner.pc] \in {"requeue", "failMeeting", "claim", "dead"}
    BY <1>10 DEF RunnerFault, AfterFault
  <2>2. {"requeue", "failMeeting"} \subseteq RunnerPcs
    BY DEF RunnerPcs
  <2>3. QED BY <1>3, <1>4, <1>10, <2>1, <2>2 DEF RunnerFault
<1>11. CASE \/ ClaimNothing \/ ClearWake \/ WakeUp \/ RecordCancelled \/ RecordFailed \/ GiveUp
            \/ PublishDraft \/ Diarize
  <2>1. {"clear", "wait", "claim", "cancelMeeting", "requeue", "failMeeting", "cpDiarize",
         "cpSave"} \subseteq RunnerPcs
    BY DEF RunnerPcs, ProcessorPcs
  <2>2. \E pc \in RunnerPcs : Goto(pc)
    BY <1>11, <2>1 DEF ClaimNothing, ClearWake, WakeUp, RecordCancelled, RecordFailed, GiveUp,
       PublishDraft, Diarize
  <2>3. QED BY <1>3, <2>2
<1>12. CASE CancelMeeting \/ Requeue \/ FailTheMeeting \/ Backoff \/ Complete \/ Crash \/ Restart
  BY <1>4, <1>12 DEF CancelMeeting, Requeue, FailTheMeeting, Backoff, Complete, Crash, Restart
<1>13. QED
  BY <1>6, <1>7, <1>8, <1>9, <1>10, <1>11, <1>12, RequestFrame, SessionFrame
     DEF Next, RunnerLoop, ProcessorStep

\* A session starts with its meeting and only moves on.
LiveMoves(n) ==
    \/ live'[n] = live[n]
    \/ LiveStart(n) /\ live'[n] = "recording"
    \/ live'[n] = "off"
    \/ live[n] # "off" /\ live'[n] \notin {"recording", "deferred"}
    \/ live[n] = "recording" /\ live'[n] = "deferred"

LEMMA SessionMoves ==
    ASSUME TypeInv, Next, NEW n \in Meetings
    PROVE  LiveMoves(n)
<1>1. live \in [Meetings -> LivePcs]
  BY DEF TypeInv, RestOK
<1>2. CASE UNCHANGED live \/ Crash
  BY <1>2 DEF Crash, LiveMoves
<1>3. ASSUME NEW m \in Meetings, LiveStep(m) \/ LiveFinalize(m) \/ LiveFault(m)
      PROVE  LiveMoves(n)
  <2>1. CASE LiveStart(m)
    BY <1>1, <2>1 DEF LiveStart, SessionGoto, LiveMoves
  <2>2. CASE UNCHANGED live
    BY <1>2, <2>2
  <2>3. CASE LiveClose(m) \/ LiveDeferredDone(m) \/ LiveGiveUp(m) \/ LiveEnqueue(m)
             \/ LivePrune(m) \/ LiveNotify(m) \/ LiveManifest(m) \/ LiveNoAudio(m)
             \/ LiveSettle(m) \/ LiveDropAudio(m) \/ LiveFault(m)
    <3>1. /\ live[m] # "off"
          /\ \E pc \in LivePcs \ {"recording"} :
               SessionGoto(m, pc) /\ (pc = "deferred" => live[m] = "recording")
      <4>1. CASE LiveFault(m)
        BY <4>1 DEF LiveFault, LivePcs
      <4>2. CASE LiveEnqueue(m)
        <5>1. CASE SessionGoto(m, "prune")
          BY <4>2, <5>1 DEF LiveEnqueue, LivePcs
        <5>2. CASE SessionGoto(m, "off")
          BY <4>2, <5>2 DEF LiveEnqueue, LivePcs
        <5>3. QED BY <4>2, <5>1, <5>2 DEF LiveEnqueue
      <4>3. CASE LiveClose(m)
        BY <4>3 DEF LiveClose, LivePcs
      <4>4. QED
        BY <2>3, <4>1, <4>2, <4>3 DEF LiveDeferredDone, LiveGiveUp, LivePrune, LiveNotify,
           LiveManifest, LiveNoAudio, LiveSettle, LiveDropAudio, LivePcs
    <3>2. QED BY <1>1, <3>1 DEF SessionGoto, LiveMoves
  <2>4. QED BY <1>3, <2>1, <2>2, <2>3 DEF LiveStep, LiveFinalize, LiveAudio, LiveCap,
               LiveAppend, procVars
<1>4. QED BY <1>2, <1>3, RunnerFrame, RequestFrame DEF Next, Restart

-----------------------------------------------------------------------------
(* A session has its meeting to itself.                                    *)

SessionInv == SessionOwnsMeeting /\ HandlerNamesItsRow

LEMMA NeverAbsentAgain ==
    ASSUME NEW n \in Meetings, RowStep(n), meeting[n].status # "absent"
    PROVE  /\ meeting'[n].status # "absent"
           /\ meeting'[n].status # "deleted" => meeting'[n].source = meeting[n].source
  BY DEF RowStep, RowStays, RowFails, RowDecoded, RowQueued, RowDrafted, RowPublished,
     RowReady, RowHeard, RowSettled, RowCreated, RowDeleted, Becomes, Exists

\* The runner goes down in a crash and comes up in a restart, and there is no
\* session in between.
LEMMA DownStep ==
    ASSUME TypeInv, SessionOwnsMeeting, Next, ~Up'
    PROVE  \A m \in Meetings : live'[m] = "off" /\ ~stuck'[m]
<1>1. CASE Crash
  BY <1>1 DEF Crash
<1>2. CASE UNCHANGED <<runner, live, stuck>>
  BY <1>2 DEF SessionOwnsMeeting, Up
<1>3. ASSUME NEW m \in Meetings, LiveStep(m) \/ LiveFinalize(m) \/ LiveFault(m)
      PROVE  Up'
  <2>1. Up
    BY <1>3 DEF SessionOwnsMeeting, LiveStep, LiveFinalize, LiveFault, LiveStart, LiveAudio,
       LiveCap, LiveAppend, LiveClose, LiveDeferredDone, LiveGiveUp, LiveEnqueue, LivePrune,
       LiveNotify, LiveManifest, LiveNoAudio, LiveSettle, LiveDropAudio
  <2>2. QED BY <1>3, <2>1, SessionFrame DEF Up
<1>4. CASE RunnerFault
  BY <1>4 DEF RunnerFault, AfterFault, Loop, Looping, Holding, Goto, Up, TypeInv, RunnerOK, Runner
<1>5. CASE Restart
  BY <1>5 DEF Restart, Loop, Looping, Holding, Up
<1>6. QED
  BY <1>1, <1>2, <1>3, <1>4, <1>5, RunnerStaysUp, RequestFrame DEF Next, Up

LEMMA SessionInvStep ==
    ASSUME TypeInv, TypeInv', ClaimInv, ClaimInv', SessionInv, [Next]_vars
    PROVE  SessionInv'
<1> USE DEF SessionInv
<1>0. NoMeeting \notin Meetings /\ nextJob \in Nat /\ nextJob' \in Nat
  BY StoreAssumption DEF TypeInv, StoreInv, StoreTypeOK
<1>1. CASE UNCHANGED vars
  BY <1>1 DEF vars, SessionOwnsMeeting, HandlerNamesItsRow, Up, JobExists, Exists
<1>2. CASE Next
  <2>1. \A n \in Meetings : RowStep(n) /\ LiveMoves(n)
    BY <1>2, EveryRowStep, SessionMoves
  <2>2. RunnerKeeps \/ RunnerDrops \/ RunnerTakes
    BY <1>2, RunnerGoes
  <2>3. \A j \in Jobs : JobExists(j) =>
            job[j].meeting \in Meetings /\ Exists(job[j].meeting) /\ j < nextJob
    BY DEF TypeInv, StoreInv, JobsHaveMeetings
  <2>4. ASSUME runner'.meeting \in Meetings
        PROVE  \/ runner.meeting = runner'.meeting
               \/ \E j \in Jobs : JobExists(j) /\ runner'.meeting = job[j].meeting
    BY <1>0, <2>2, <2>4 DEF RunnerKeeps, RunnerDrops, RunnerTakes, Loop, Looping, Holding,
       ClaimNext, OldestClaimable, Claimable, JobExists
  <2>5. ASSUME runner'.meeting \in Meetings
        PROVE  meeting'[runner'.meeting].status # "absent"
    <3>1. meeting[runner'.meeting].status # "absent"
      BY <2>3, <2>4, <2>5 DEF SessionOwnsMeeting, Exists
    <3>2. QED BY <2>1, <2>5, <3>1, NeverAbsentAgain
  <2>6. ASSUME NEW m \in Meetings, live'[m] # "off"
        PROVE  /\ meeting'[m].status # "absent"
               /\ Exists(m)' => meeting'[m].source = "live"
    <3>1. CASE LiveStart(m)
      BY <3>1 DEF LiveStart, CreateLive, NewMeeting, TypeInv, StoreInv, StoreTypeOK
    <3>2. CASE ~LiveStart(m)
      <4>1. live[m] # "off"
        BY <2>1, <2>6, <3>2 DEF LiveMoves
      <4>2. /\ meeting[m].status # "absent"
            /\ Exists(m) => meeting[m].source = "live"
        BY <4>1 DEF SessionOwnsMeeting
      <4>3. meeting[m].status = "deleted" => meeting'[m].status = "deleted"
        BY <2>1 DEF RowStep, RowStays, RowFails, RowDecoded, RowQueued, RowDrafted,
           RowPublished, RowReady, RowHeard, RowSettled, RowCreated, RowDeleted, Becomes, Exists
      <4>4. QED BY <2>1, <4>2, <4>3, NeverAbsentAgain DEF Exists
    <3>3. QED BY <3>1, <3>2
  <2>7. ASSUME NEW m \in Meetings, live'[m] \in {"recording", "deferred"}
        PROVE  /\ meeting'[m].status = "processing"
               /\ runner'.meeting # m
               /\ \A j \in Jobs : JobExists(j)' => job'[j].meeting # m
    <3>1. CASE LiveStart(m)
      <4>1. /\ UNCHANGED <<runner, job>> /\ meeting[m].status = "absent"
            /\ meeting'[m].status = "processing"
        BY <3>1 DEF LiveStart, CreateLive, NewMeeting, OnlySession, TypeInv, StoreInv, StoreTypeOK
      <4>2. runner.meeting # m
        BY <4>1 DEF SessionOwnsMeeting
      <4>3. ASSUME NEW j \in Jobs, JobExists(j) PROVE job[j].meeting # m
        BY <2>3, <4>1, <4>3 DEF Exists
      <4>4. QED BY <4>1, <4>2, <4>3 DEF JobExists
    <3>2. CASE ~LiveStart(m)
      <4>1. live[m] \in {"recording", "deferred"}
        BY <2>1, <2>7, <3>2 DEF LiveMoves
      <4>2. /\ meeting[m].status = "processing" /\ runner.meeting # m /\ ~HasRow(m) /\ Up
        BY <4>1 DEF SessionOwnsMeeting, HasRow
      <4>3. meeting'[m].status = "processing"
        BY <2>1, <4>1, <4>2 DEF RowStep, RowStays, RowFails, RowDecoded, RowQueued, RowDrafted,
           RowPublished, RowReady, RowHeard, RowSettled, RowCreated, RowDeleted, Becomes, Exists
      <4>4. runner'.meeting # m
        BY <2>4, <4>2 DEF HasRow
      <4>5. ASSUME NEW j \in Jobs, JobExists(j)', job'[j].meeting = m PROVE FALSE
        <5>1. NewRow(j)
          BY <1>2, <4>2, <4>5, RowsComeFrom DEF HasRow
        <5>2. PICK x \in Meetings :
                  /\ job'[j] = NewJob(x)
                  /\ \/ meeting[x].status = "absent" /\ live' = live
                     \/ meeting[x].status # "processing" /\ live' = live
                     \/ live[x] = "finalize"
          BY <5>1 DEF NewRow
        <5>3. x = m
          BY <4>5, <5>2 DEF NewJob
        <5>4. QED BY <4>1, <4>2, <5>2, <5>3
      <4>6. QED BY <4>3, <4>4, <4>5
    <3>3. QED BY <3>1, <3>2
  <2>8. SessionOwnsMeeting'
    BY <1>2, <2>5, <2>6, <2>7, DownStep DEF SessionOwnsMeeting
  <2>9. HandlerNamesItsRow'
    <3>1. CASE runner'.pc \in WorkPcs
      <4>1. runner'.job \in Jobs
        BY <3>1 DEF TypeInv, RunnerOK
      <4>2. job'[runner'.job].status = "running" /\ job'[runner'.job].meeting = runner'.meeting
        BY <3>1 DEF ClaimInv, ClaimIsRecorded
      <4>3. runner'.job < nextJob'
        BY <4>1, <4>2 DEF TypeInv, StoreInv, JobsHaveMeetings, JobExists
      <4>4. QED BY <4>2, <4>3 DEF HandlerNamesItsRow
    <3>2. CASE runner'.pc = "requeue"
      <4>1. /\ runner.pc \in WorkPcs \cup {"requeue"}
            /\ runner'.job = runner.job /\ runner'.meeting = runner.meeting
        <5>1. CASE RunnerLoop \/ RunnerFault \/ ProcessorStep \/ ProcessorRaises
          <6>1. runner.pc = "failed" /\ runner'.job = runner.job
            BY <3>2, <5>1, EntersRequeue
          <6>2. RunnerKeeps
            BY <2>2, <3>2 DEF RunnerDrops, RunnerTakes, Loop, Looping, Holding
          <6>3. QED BY <6>1, <6>2 DEF RunnerKeeps, WorkPcs
        <5>2. CASE UNCHANGED runner
          BY <3>2, <5>2
        <5>3. CASE Crash \/ Restart
          BY <3>2, <5>3 DEF Crash, Restart, Loop, Looping, Holding
        <5>4. QED BY <1>2, <5>1, <5>2, <5>3, RequestFrame, SessionFrame DEF Next
      <4>2. /\ runner.job < nextJob /\ runner.job \in Jobs
            /\ JobExists(runner.job) => job[runner.job].meeting = runner.meeting
        BY <4>1 DEF HandlerNamesItsRow, TypeInv, RunnerOK
      <4>3. nextJob <= nextJob'
        BY <1>2, NextJobGrows
      <4>4. runner.job # nextJob
        BY <1>0, <4>2 DEF Jobs
      <4>5. runner.job < nextJob'
        BY <1>0, <4>2, <4>3 DEF Jobs
      <4>6. QED BY <1>2, <4>1, <4>2, <4>4, <4>5, RowsComeFrom DEF HandlerNamesItsRow, NewRow, JobExists
    <3>3. QED BY <3>1, <3>2 DEF HandlerNamesItsRow
  <2>10. QED BY <2>8, <2>9
<1>3. QED BY <1>1, <1>2

LEMMA SpecSessionInv == Spec => []SessionInv
<1>1. Init => SessionInv
  <2> SUFFICES ASSUME Init PROVE SessionInv
    OBVIOUS
  <2>1. runner.pc = "claim" /\ runner.meeting = NoMeeting
    BY DEF Init, Looping, Holding
  <2>2. \A m \in Meetings : live[m] = "off"
    BY DEF Init
  <2>3. QED BY <2>1, <2>2, StoreAssumption DEF SessionInv, SessionOwnsMeeting, HandlerNamesItsRow,
               Up, WorkPcs, ProcessorPcs
<1>2. TypeInv /\ TypeInv' /\ ClaimInv /\ ClaimInv' /\ SessionInv /\ [Next]_vars => SessionInv'
  BY SessionInvStep
<1>3. QED BY <1>1, <1>2, SpecTypeInv, SpecClaimInv, PTL DEF Spec

-----------------------------------------------------------------------------
(* The rows of a transcript and what is said of them.                      *)

\* The meeting the runner works on is there and no session is recording it.
LEMMA WorkedOnMeeting ==
    ASSUME TypeInv, ClaimInv, SessionInv, runner.pc \in WorkPcs
    PROVE  /\ runner.meeting \in Meetings /\ Exists(runner.meeting)
           /\ HasActive(runner.meeting) /\ HasRow(runner.meeting)
           /\ live[runner.meeting] \notin {"recording", "deferred"}
<1>1. runner.job \in Jobs /\ runner.meeting \in Meetings
  BY DEF TypeInv, RunnerOK
<1>2. job[runner.job].status = "running" /\ job[runner.job].meeting = runner.meeting
  BY DEF ClaimInv, ClaimIsRecorded
<1>3. Exists(runner.meeting)
  BY <1>1, <1>2 DEF TypeInv, StoreInv, JobsHaveMeetings, JobExists
<1>4. QED BY <1>1, <1>2, <1>3 DEF HasActive, Active, HasRow, JobExists, SessionInv, SessionOwnsMeeting

\* What stays of a transcript while the runner works on it and publishes nothing.
LEMMA TranscriptStays ==
    ASSUME TypeInv, ClaimInv, SessionInv, Next, runner.pc \in WorkPcs, ~PublishDraft,
           ~PublishFinal, ~Crash
    PROVE  LET m == runner.meeting IN
           /\ meeting[m].state = "draft" => meeting'[m].state = "draft"
           /\ "final" \in meeting[m].text => "final" \in meeting'[m].text
           /\ (meeting[m].text # {"final"} => stuck[m]) =>
                  (meeting'[m].text # {"final"} => stuck'[m])
<1>1. PICK m \in Meetings : m = runner.meeting
  BY WorkedOnMeeting
<1>2. /\ Exists(m) /\ HasActive(m) /\ live[m] \notin {"recording", "deferred"}
  BY <1>1, WorkedOnMeeting
<1>3. RowStep(m)
  BY EveryRowStep
<1>4. stuck[m] => stuck'[m]
  <2>1. stuck \in [Meetings -> BOOLEAN]
    BY DEF TypeInv, RestOK
  <2>2. QED BY <2>1, RunnerFrame, RequestFrame, SessionFrame DEF Next, Restart
<1>5. /\ meeting[m].state = "draft" => meeting'[m].state = "draft"
      /\ \/ meeting'[m].text = meeting[m].text
         \/ meeting'[m].text = meeting[m].text \cup {"live"} /\ stuck[m]
  BY <1>2, <1>3 DEF RowStep, RowStays, RowFails, RowDecoded, RowQueued, RowDrafted, RowPublished,
     RowReady, RowHeard, RowSettled, RowCreated, RowDeleted, Becomes, Exists
<1>6. QED BY <1>1, <1>4, <1>5

LEMMA PublishesStep ==
    ASSUME TypeInv, TypeInv', ClaimInv, SessionInv, PublishesInOrder, [Next]_vars
    PROVE  PublishesInOrder'
<1>0. /\ runner \in Runner /\ meeting \in [Meetings -> MeetingRow] /\ ProcessorPcs \subseteq WorkPcs
      /\ {"cpDraft", "draft", "complete"} \subseteq ProcessorPcs
  BY DEF TypeInv, RunnerOK, StoreInv, StoreTypeOK, WorkPcs, ProcessorPcs
<1>1. CASE UNCHANGED vars
  BY <1>1 DEF vars, PublishesInOrder
<1>2. ASSUME runner'.plan = "none", runner'.pc \notin {"cpDraft", "draft", "complete"}
      PROVE  PublishesInOrder'
  BY <1>2 DEF PublishesInOrder
<1>3. CASE \E pc : Loop(pc) /\ pc \notin {"cpDraft", "draft", "complete"}
  BY <1>2, <1>3 DEF Loop, Looping, Holding
<1>4. CASE \E b \in BOOLEAN, pc \in {"failed", "cancelled"} :
               runner' = Holding(pc, runner.job, runner.meeting, b)
  BY <1>2, <1>4 DEF Holding
<1>5. CASE Next /\ UNCHANGED runner
  <2>1. CASE runner.pc \in WorkPcs
    <3>1. ~PublishDraft /\ ~PublishFinal /\ ~Crash
      BY <1>0, <1>5 DEF PublishDraft, PublishFinal, Raise, Holding, Goto, Runner, Crash, Loop,
         Looping, Up
    <3>2. QED BY <1>5, <2>1, <3>1, TranscriptStays DEF PublishesInOrder
  <2>2. CASE runner.pc \notin WorkPcs
    BY <1>0, <1>5, <2>2 DEF PublishesInOrder
  <2>3. QED BY <2>1, <2>2
<1>6. CASE ClaimNothing \/ ClearWake \/ WakeUp \/ RecordCancelled \/ RecordFailed \/ GiveUp
  <2>1. runner.plan # "draftFirst"
    BY <1>6 DEF PublishesInOrder, ClaimNothing, ClearWake, WakeUp, RecordCancelled, RecordFailed,
       GiveUp, ProcessorPcs
  <2>2. runner'.plan = runner.plan /\ runner'.pc \notin {"cpDraft", "draft", "complete"}
    BY <1>0, <1>6 DEF ClaimNothing, ClearWake, WakeUp, RecordCancelled, RecordFailed, GiveUp,
       Goto, Runner
  <2>3. QED BY <2>1, <2>2 DEF PublishesInOrder
<1>7. CASE Claim
  BY <1>2, <1>7 DEF Claim, Holding
<1>8. CASE RunnerFault
  <2>1. CASE AfterFault[runner.pc] \in {"claim", "dead"}
    BY <1>3, <1>8, <2>1 DEF RunnerFault
  <2>2. CASE AfterFault[runner.pc] \notin {"claim", "dead"}
    <3>1. /\ runner.plan # "draftFirst" /\ Goto(AfterFault[runner.pc])
          /\ AfterFault[runner.pc] \in {"requeue", "failMeeting"}
      BY <1>8, <2>2 DEF RunnerFault, AfterFault, PublishesInOrder, ProcessorPcs
    <3>2. QED BY <1>0, <3>1 DEF Goto, Runner, PublishesInOrder
  <2>3. QED BY <2>1, <2>2
<1>9. CASE Start
  <2>1. CASE runner' = [runner EXCEPT !.pc = "cpDecode", !.plan = PlanFor(runner.meeting)]
             /\ UNCHANGED storeVars
    <3>1. /\ runner'.pc = "cpDecode" /\ runner'.plan = PlanFor(runner.meeting)
          /\ runner'.meeting = runner.meeting /\ meeting' = meeting
      BY <1>0, <2>1 DEF Runner, storeVars
    <3>2. PlanFor(runner.meeting) = "draftFirst" => meeting[runner.meeting].state = "draft"
      BY DEF PlanFor
    <3>3. QED BY <3>1, <3>2 DEF PublishesInOrder, ProcessorPcs
  <2>2. CASE Raise(FALSE)
    BY <1>4, <2>2 DEF Raise
  <2>3. QED BY <1>9, <2>1, <2>2 DEF Start
<1>10. CASE Checkpoint
  <2>1. CASE CancelSeen
    BY <1>4, <1>10, <2>1 DEF Checkpoint
  <2>2. CASE ~CancelSeen
    <3>1. /\ runner'.plan = runner.plan /\ runner'.meeting = runner.meeting
          /\ runner'.pc = AfterCheckpoint[runner.pc] /\ meeting' = meeting
          /\ runner.pc \in {"cpDecode", "cpAsr", "cpDraft", "cpDiarize", "cpSave"}
      BY <1>0, <1>10, <2>2 DEF Checkpoint, AfterCheckpoint, Goto, Runner, storeVars
    <3>2. /\ runner'.pc \in ProcessorPcs \ {"cpDraft", "complete"}
          /\ runner'.pc = "draft" => runner.pc = "cpDraft"
          /\ runner.pc # "complete"
      BY <3>1 DEF AfterCheckpoint, ProcessorPcs
    <3>3. QED BY <3>1, <3>2 DEF PublishesInOrder
  <2>3. QED BY <2>1, <2>2
<1>11. CASE Next /\ (Decode \/ Diarize)
  <2>1. /\ runner'.plan = runner.plan /\ runner'.meeting = runner.meeting
        /\ runner'.pc \in {"cpAsr", "cpSave"} /\ runner.pc \in {"decode", "diarize"}
    BY <1>0, <1>11 DEF Decode, Diarize, Goto, Runner
  <2>2. runner.pc \in WorkPcs /\ ~PublishDraft /\ ~PublishFinal /\ ~Crash
    BY <1>0, <1>11, <2>1 DEF PublishDraft, PublishFinal, Crash, Loop, Looping, Holding, WorkPcs,
       ProcessorPcs
  <2>3. meeting[runner.meeting].state = "draft" => meeting'[runner.meeting].state = "draft"
    BY <1>11, <2>2, TranscriptStays
  <2>4. QED BY <2>1, <2>3 DEF PublishesInOrder, ProcessorPcs
<1>12. CASE Transcribe
  <2>1. PICK text \in BOOLEAN : runner' =
            [runner EXCEPT
               !.pc = IF runner.left > 1 THEN "cpAsr" ELSE AfterAsr(runner.heard \/ text),
               !.left = runner.left - 1,
               !.heard = (runner.heard \/ text)]
    BY <1>12 DEF Transcribe
  <2>2. /\ runner'.plan = runner.plan /\ runner'.meeting = runner.meeting
        /\ runner'.pc \in {"cpAsr", AfterAsr(runner.heard \/ text)}
        /\ meeting' = meeting /\ runner.pc = "asr"
    BY <1>0, <1>12, <2>1 DEF Transcribe, Runner, storeVars
  <2>3. /\ AfterAsr(runner.heard \/ text) \in {"cpSave", "cpDraft", "cpDiarize"}
        /\ AfterAsr(runner.heard \/ text) = "cpDraft" => runner.plan = "draftFirst"
    BY DEF AfterAsr
  <2>4. runner'.pc \in ProcessorPcs \ {"draft", "complete"}
    BY <2>2, <2>3 DEF ProcessorPcs
  <2>5. runner'.pc = "cpDraft" => runner.plan = "draftFirst"
    BY <2>2, <2>3
  <2>6. QED BY <2>2, <2>4, <2>5 DEF PublishesInOrder
<1>13. CASE PublishDraft
  <2>1. /\ runner'.plan = runner.plan /\ runner'.meeting = runner.meeting
        /\ runner'.pc = "cpDiarize" /\ runner.pc = "draft" /\ runner.pc \in WorkPcs
    BY <1>0, <1>13 DEF PublishDraft, Goto, Runner
  <2>2. PICK m \in Meetings : m = runner.meeting
    BY <2>1, WorkedOnMeeting
  <2>3. meeting'[m].state = meeting[m].state
    BY <1>0, <1>13, <2>2 DEF PublishDraft, ReplaceWithDraft, SetMeeting, MeetingRow
  <2>4. QED BY <2>1, <2>2, <2>3 DEF PublishesInOrder, ProcessorPcs
<1>14. CASE PublishFinal
  <2>1. CASE ReplaceWithFinal(runner.meeting) /\ Goto("complete")
    <3>1. /\ runner'.plan = runner.plan /\ runner'.meeting = runner.meeting
          /\ runner'.pc = "complete" /\ runner.pc \in WorkPcs
      BY <1>0, <1>14, <2>1 DEF PublishFinal, Goto, Runner, ProcessorPcs
    <3>2. PICK m \in Meetings : m = runner.meeting /\ Exists(m)
      BY <3>1, WorkedOnMeeting
    <3>3. meeting'[m].text = {"final"}
      BY <1>0, <2>1, <3>2 DEF ReplaceWithFinal, SetMeeting, MeetingRow
    <3>4. QED BY <3>1, <3>2, <3>3 DEF PublishesInOrder, ProcessorPcs
  <2>2. CASE \E b \in BOOLEAN : Raise(b)
    BY <1>4, <2>2 DEF Raise
  <2>3. runner.heard \in BOOLEAN
    BY <1>0 DEF Runner
  <2>4. QED BY <1>14, <2>1, <2>2, <2>3 DEF PublishFinal
<1>15. CASE ProcessorRaises
  BY <1>4, <1>15 DEF ProcessorRaises, Raise
<1>16. CASE CancelMeeting \/ Requeue \/ FailTheMeeting \/ Backoff \/ Complete \/ Crash \/ Restart
  BY <1>3, <1>16 DEF CancelMeeting, Requeue, FailTheMeeting, Backoff, Complete, Crash, Restart
<1>17. QED
  BY <1>1, <1>5, <1>6, <1>7, <1>8, <1>9, <1>10, <1>11, <1>12, <1>13, <1>14, <1>15, <1>16,
     RequestFrame, SessionFrame DEF Next, RunnerLoop, ProcessorStep

LEMMA SpecPublishes == Spec => []PublishesInOrder
<1>1. Init => PublishesInOrder
  BY DEF Init, Looping, Holding, PublishesInOrder
<1>2. TypeInv /\ TypeInv' /\ ClaimInv /\ SessionInv /\ PublishesInOrder /\ [Next]_vars
          => PublishesInOrder'
  BY PublishesStep
<1>3. QED BY <1>1, <1>2, SpecTypeInv, SpecClaimInv, SpecSessionInv, PTL DEF Spec

\* The whole inductive invariant, in one piece.
THEOREM InvariantHolds == Spec => []IInv
<1>1. RowsInv /\ SessionInv /\ PublishesInOrder => IInv
  BY DEF IInv, SessionInv
<1>2. QED BY <1>1, RowsHold, SpecSessionInv, SpecPublishes, PTL

\* A ready meeting has text, and a refined one the final rows of a job.
THEOREM StatusAgreesWithText == Spec => []StatusMatchesText
<1>1. Init => StatusMatchesText
  BY DEF Init, StoreInit, AbsentMeeting, StatusMatchesText
<1>2. ASSUME TypeInv, ClaimInv, SessionInv, PublishesInOrder, StatusMatchesText, [Next]_vars
      PROVE  StatusMatchesText'
  <2>1. SUFFICES ASSUME NEW n \in Meetings
                 PROVE  /\ meeting'[n].status = "ready" => meeting'[n].text # {}
                        /\ meeting'[n].state = "refined" => "final" \in meeting'[n].text
    BY DEF StatusMatchesText
  <2>2. /\ meeting[n].status = "ready" => meeting[n].text # {}
        /\ meeting[n].state = "refined" => "final" \in meeting[n].text
    BY <1>2 DEF StatusMatchesText
  <2>3. CASE RowDrafted(n)
    <3>1. meeting[n].state = "draft"
      BY <1>2, <2>3 DEF PublishesInOrder, RowDrafted, PublishDraft
    <3>2. QED BY <2>3, <3>1 DEF RowDrafted, Becomes
  <2>4. CASE RowReady(n)
    <3>1. "final" \in meeting[n].text
      BY <1>2, <2>4 DEF PublishesInOrder, RowReady, Complete
    <3>2. QED BY <2>4, <3>1 DEF RowReady, Becomes
  <2>5. CASE RowStays(n) \/ RowFails(n) \/ RowDecoded(n) \/ RowQueued(n) \/ RowPublished(n)
             \/ RowHeard(n) \/ RowSettled(n) \/ RowCreated(n) \/ RowDeleted(n)
    BY <2>2, <2>5 DEF RowStays, RowFails, RowDecoded, RowQueued, RowPublished, RowHeard,
       RowSettled, RowCreated, RowDeleted, Becomes
  <2>6. QED BY <1>2, <2>3, <2>4, <2>5, EveryRowStep DEF RowStep
<1>3. QED
  BY <1>1, <1>2, SpecTypeInv, SpecClaimInv, SpecSessionInv, SpecPublishes, PTL DEF Spec

\* Only the processor completes a job: the one it works on.
LEMMA OnlyProcessorCompletes ==
    ASSUME TypeInv, ClaimInv, [Next]_vars, NEW j \in Jobs,
           job[j].status # "completed", job'[j].status = "completed"
    PROVE  Complete /\ j = runner.job
<1>1. Ends
  BY EveryJobStep, OnlyEndsComplete
<1>2. job \in [Jobs -> JobRow] /\ runner.job \in Jobs /\ job[runner.job].status = "running"
  BY <1>1 DEF Ends, TypeInv, StoreInv, StoreTypeOK, RunnerOK, ClaimInv, ClaimIsRecorded
<1>3. j = runner.job
  BY <1>1, <1>2 DEF Ends, JobRow
<1>4. CASE UNCHANGED job
  BY <1>4
<1>5. CASE RecordCancelled \/ RecordFailed
  BY <1>2, <1>3, <1>5 DEF RecordCancelled, RecordFailed, SetJobStatus, JobExists, JobRow
<1>6. CASE RespectsClaim
  BY <1>2, <1>3, <1>6 DEF RespectsClaim
<1>7. CASE Restart
  BY <1>1, <1>7 DEF Restart, Up, Ends, WorkPcs, ProcessorPcs
<1>8. CASE Claim \/ Requeue
  BY <1>1, <1>8 DEF Claim, Requeue, Ends, WorkPcs, ProcessorPcs
<1>9. CASE Complete
  BY <1>3, <1>9
<1>10. CASE RunnerLoop \/ RunnerFault \/ ProcessorStep \/ ProcessorRaises
  BY <1>4, <1>5, <1>8, <1>9, <1>10 DEF RunnerLoop, RunnerFault, ProcessorStep, ProcessorRaises,
     ClaimNothing, ClearWake, WakeUp, CancelMeeting, GiveUp, FailTheMeeting, Backoff, FailMeeting,
     Start, Checkpoint, Decode, MarkProcessing, Transcribe, PublishDraft, ReplaceWithDraft,
     Diarize, SetDiarization, PublishFinal, ReplaceWithFinal, Raise, storeVars
<1>11. QED
  BY <1>4, <1>6, <1>7, <1>10, ClientsRespectClaim DEF Next, Crash, vars

\* A job completes only over the transcript it just published.
THEOREM CompletesPublished == Spec => CompletedIsPublished
<1> DEFINE Step == \A j \in Jobs : job[j].status # "completed" /\ job'[j].status = "completed" =>
                     LET m == job[j].meeting IN
                     /\ "final" \in meeting'[m].text
                     /\ meeting'[m].text # {"final"} => stuck[m]
<1>1. ASSUME TypeInv, ClaimInv, SessionInv, PublishesInOrder, [Next]_vars
      PROVE  Step
  <2>1. SUFFICES ASSUME NEW j \in Jobs, job[j].status # "completed",
                        job'[j].status = "completed"
                 PROVE  /\ "final" \in meeting'[job[j].meeting].text
                        /\ meeting'[job[j].meeting].text # {"final"} => stuck[job[j].meeting]
    OBVIOUS
  <2>2. Complete /\ j = runner.job
    BY <1>1, <2>1, OnlyProcessorCompletes
  <2>3. runner.pc = "complete" /\ runner.pc \in WorkPcs
    BY <2>2 DEF Complete, WorkPcs, ProcessorPcs
  <2>4. PICK m \in Meetings : m = runner.meeting
    BY <1>1, <2>3, WorkedOnMeeting
  <2>5. job[j].meeting = m
    BY <1>1, <2>2, <2>3, <2>4 DEF ClaimInv, ClaimIsRecorded
  <2>6. meeting'[m].text = meeting[m].text
    BY <1>1, <2>2, <2>4 DEF Complete, MarkCompleted, SetMeeting, TypeInv, StoreInv, StoreTypeOK,
       MeetingRow
  <2>7. /\ "final" \in meeting[m].text
        /\ meeting[m].text # {"final"} => stuck[m]
    BY <1>1, <2>3, <2>4 DEF PublishesInOrder
  <2>8. QED BY <2>5, <2>6, <2>7
<1>2. QED
  BY <1>1, SpecTypeInv, SpecClaimInv, SpecSessionInv, SpecPublishes, PTL
     DEF Spec, CompletedIsPublished

-----------------------------------------------------------------------------
(* Processing is no dead end.                                              *)

\* A set of numbers up to n has a largest.
LEMMA LargestExists ==
    ASSUME NEW n \in Nat, NEW X, X \subseteq 1..n, X # {}
    PROVE  \E x \in X : \A y \in X : y <= x
<1> DEFINE D == {n - x : x \in X}
<1>1. \A x \in X : x \in Nat /\ x <= n /\ n - x \in Nat
  OBVIOUS
<1>2. D \subseteq Nat /\ D # {}
  BY <1>1
<1>3. PICK d \in D : \A e \in D : ~ (<<e, d>> \in OpToRel(<, Nat))
  <2> HIDE DEF D
  <2>1. QED BY <1>2, WFMin, NatLessThanWellFounded
<1>4. ASSUME NEW e \in D PROVE d <= e
  <2>1. e \in Nat /\ d \in Nat
    BY <1>2
  <2>2. ~ (<<e, d>> \in {ss \in Nat \X Nat : ss[1] < ss[2]})
    BY <1>3 DEF OpToRel
  <2>3. ~ (e < d)
    BY <2>1, <2>2
  <2>4. QED BY <2>1, <2>3
<1>5. PICK x \in X : d = n - x
  OBVIOUS
<1>6. ASSUME NEW y \in X PROVE y <= x
  <2>1. n - x <= n - y
    BY <1>4, <1>5
  <2>2. x \in Nat /\ y \in Nat
    BY <1>1
  <2>3. QED BY <2>1, <2>2
<1>7. QED BY <1>6

\* What a meeting in processing may count on among its jobs.
Retriable(m) == CanRetry(m) \/ Cardinality(Finished(m)) >= KeepFinished

JobsOnward(m) ==
    /\ HasActive(m) => HasActive(m)'
    /\ Retriable(m) => Retriable(m)'

LEMMA FinishedIsFinite ==
    ASSUME NEW X, X \subseteq Jobs
    PROVE  IsFiniteSet(X) /\ Cardinality(X) \in Nat
<1>1. IsFiniteSet(Jobs)
  BY StoreAssumption, FS_Interval DEF Jobs
<1>2. QED BY <1>1, FS_Subset, FS_CardinalityType

\* Rows that stay as they are, as far as a meeting is concerned.
LEMMA SameRowsOnward ==
    ASSUME NEW m \in Meetings,
           \A j \in Jobs : job[j].meeting = m =>
               /\ job'[j].meeting = m
               /\ Active(j) => Active(j)'
               /\ job[j].status \in Terminal => job'[j].status = job[j].status
    PROVE  JobsOnward(m)
<1>1. HasActive(m) => HasActive(m)'
  BY DEF HasActive
<1>2. CanRetry(m) => CanRetry(m)'
  BY DEF CanRetry, Terminal
<1>3. ASSUME Cardinality(Finished(m)) >= KeepFinished
      PROVE  Cardinality(Finished(m)') >= KeepFinished
  <2>1. Finished(m) \subseteq Finished(m)' /\ Finished(m) \subseteq Jobs /\ Finished(m)' \subseteq Jobs
    BY DEF Finished, Jobs
  <2>2. Cardinality(Finished(m)) <= Cardinality(Finished(m)')
    BY <2>1, FinishedIsFinite, FS_Subset
  <2>3. /\ Cardinality(Finished(m)) \in Nat /\ Cardinality(Finished(m)') \in Nat
        /\ KeepFinished \in Nat
    BY <2>1, FinishedIsFinite, StoreAssumption
  <2>4. QED BY <1>3, <2>2, <2>3
<1>4. QED BY <1>1, <1>2, <1>3 DEF JobsOnward, Retriable

\* A prune that takes a finished job of a meeting leaves KeepFinished of them.
LEMMA PruneOnward ==
    ASSUME StoreTypeOK, NEW m \in Meetings, PruneFinished
    PROVE  JobsOnward(m)
<1>1. \A j \in Jobs : j \notin Prunable => job'[j] = job[j]
  BY DEF PruneFinished
<1>2. CASE Finished(m) \cap Prunable = {}
  <2>1. ASSUME NEW j \in Jobs, job[j].meeting = m
        PROVE  job'[j] = job[j]
    BY <1>1, <1>2, <2>1 DEF Finished, Prunable
  <2>2. QED BY <2>1, SameRowsOnward DEF Active
<1>3. CASE Finished(m) \cap Prunable # {}
  <2>1. PICK j \in Finished(m) \cap Prunable : \A k \in Finished(m) \cap Prunable : k <= j
    BY <1>3, LargestExists, StoreAssumption DEF Finished, Jobs
  <2> DEFINE newer == {k \in Jobs : /\ k > j
                                    /\ job[k].status \in Terminal
                                    /\ job[k].meeting = job[j].meeting}
  <2>2. Cardinality(newer) >= KeepFinished
    BY <2>1 DEF Prunable
  <2>3. newer \subseteq Finished(m)'
    <3>1. SUFFICES ASSUME NEW k \in newer PROVE k \in Finished(m)'
      OBVIOUS
    <3>2. k \in Finished(m) /\ k \in Jobs /\ k > j /\ j \in Jobs
      BY <2>1 DEF Finished
    <3>3. k \notin Prunable
      BY <2>1, <3>2 DEF Jobs
    <3>4. job'[k] = job[k]
      BY <1>1, <3>2, <3>3
    <3>5. QED BY <3>2, <3>4 DEF Finished, Jobs
  <2>4. Finished(m)' \subseteq Jobs
    BY DEF Finished, Jobs
  <2> HIDE DEF newer
  <2>5. Cardinality(newer) <= Cardinality(Finished(m)') /\ Cardinality(newer) \in Nat
    BY <2>3, <2>4, FinishedIsFinite, FS_Subset
  <2>6. Cardinality(Finished(m)') \in Nat /\ KeepFinished \in Nat
    BY <2>4, FinishedIsFinite, StoreAssumption
  <2>7. Cardinality(Finished(m)') >= KeepFinished
    BY <2>2, <2>5, <2>6
  <2>8. HasActive(m) => HasActive(m)'
    BY <1>1 DEF HasActive, Active, Prunable, Terminal
  <2>9. QED BY <2>7, <2>8 DEF JobsOnward, Retriable
<1>4. QED BY <1>2, <1>3

LEMMA InsertOnward ==
    ASSUME StoreInv, NEW m \in Meetings, NEW x \in Meetings, nextJob \in Jobs,
           job' = [job EXCEPT ![nextJob] = NewJob(x)]
    PROVE  JobsOnward(m) /\ HasActive(x)'
<1>1. job \in [Jobs -> JobRow]
  BY DEF StoreInv, StoreTypeOK
<1>2. \A j \in Jobs : j # nextJob => job'[j] = job[j]
  BY <1>1
<1>3. job[nextJob].status = "none"
  <2>1. ASSUME JobExists(nextJob) PROVE FALSE
    <3>1. nextJob < nextJob /\ nextJob \in Nat
      BY <2>1, StoreAssumption DEF StoreInv, JobsHaveMeetings, Jobs
    <3>2. QED BY <3>1
  <2>2. QED BY <2>1 DEF JobExists
<1>4. HasActive(m) => HasActive(m)'
  BY <1>2, <1>3 DEF HasActive, Active
<1>5. CanRetry(m) => CanRetry(m)'
  BY <1>2, <1>3 DEF CanRetry
<1>6. Finished(m) \subseteq Finished(m)' /\ Finished(m) \subseteq Jobs /\ Finished(m)' \subseteq Jobs
  BY <1>2, <1>3 DEF Finished, Jobs, Terminal
<1>7. Cardinality(Finished(m)) <= Cardinality(Finished(m)')
  BY <1>6, FinishedIsFinite, FS_Subset
<1>8. /\ Cardinality(Finished(m)) \in Nat /\ Cardinality(Finished(m)') \in Nat
      /\ KeepFinished \in Nat
  BY <1>6, FinishedIsFinite, StoreAssumption
<1>9. Retriable(m) => Retriable(m)'
  BY <1>5, <1>7, <1>8 DEF Retriable
<1>10. HasActive(x)'
  BY <1>1 DEF HasActive, Active, NewJob
<1>11. QED BY <1>4, <1>9, <1>10 DEF JobsOnward

\* One row changed: the others of the meeting are as they were.
LEMMA OtherRowOnward ==
    ASSUME job \in [Jobs -> JobRow], NEW m \in Meetings, NEW j \in Jobs, job[j].meeting # m,
           \A k \in Jobs : k # j => job'[k] = job[k]
    PROVE  JobsOnward(m)
  BY SameRowsOnward DEF Active

LEMMA BackToQueueOnward ==
    ASSUME StoreInv, NEW m \in Meetings, NEW j \in Jobs, BackToQueue(j)
    PROVE  IF job[j].meeting = m THEN HasActive(m)' ELSE JobsOnward(m)
<1>1. job \in [Jobs -> JobRow] /\ job[j] \in JobRow
  BY DEF StoreInv, StoreTypeOK
<1>2. CASE job[j].meeting = m
  BY <1>1, <1>2 DEF BackToQueue, JobRow, HasActive, Active
<1>3. CASE job[j].meeting # m
  BY <1>1, <1>3, OtherRowOnward DEF BackToQueue
<1>4. QED BY <1>2, <1>3

\* The runner ends a job in its own row only.
LEMMA RunnerJobsOnward ==
    ASSUME TypeInv, ClaimInv, SessionInv, NEW m \in Meetings, Exists(m),
           meeting'[m].status = "processing",
           RunnerLoop \/ ProcessorStep \/ ProcessorRaises
    PROVE  JobsOnward(m) \/ HasActive(m)' \/ (HandlingFailure(m)' /\ CanRetry(m)')
<1>1. /\ StoreInv /\ job \in [Jobs -> JobRow] /\ meeting \in [Meetings -> MeetingRow]
      /\ runner \in Runner
      /\ {"requeue"} \cup WorkPcs \subseteq WorkPcs \cup {"requeue", "failMeeting", "cancelMeeting"}
  BY DEF TypeInv, StoreInv, StoreTypeOK, RunnerOK
<1>2. CASE UNCHANGED job
  BY <1>2, SameRowsOnward DEF Active
<1>3. CASE Claim
  <2>1. PICK j \in Jobs : ClaimNext(j)
    BY <1>3 DEF Claim
  <2>2. \A k \in Jobs : job[k].meeting = m =>
            /\ job'[k].meeting = m
            /\ Active(k) => Active(k)'
            /\ job[k].status \in Terminal => job'[k].status = job[k].status
    BY <1>1, <2>1 DEF ClaimNext, OldestClaimable, Claimable, Active, Terminal, JobRow
  <2>3. QED BY <2>2, SameRowsOnward
<1>4. CASE RecordCancelled \/ RecordFailed
  <2>1. runner.pc \in WorkPcs
    BY <1>4 DEF RecordCancelled, RecordFailed, WorkPcs
  <2>2. PICK j \in Jobs : j = runner.job
    BY <2>1, <1>1 DEF TypeInv, RunnerOK
  <2>3. job[j].status = "running" /\ job[j].meeting = runner.meeting
    BY <2>1, <2>2 DEF ClaimInv, ClaimIsRecorded
  <2>4. PICK s \in {"failed", "cancelled"} : job' = [job EXCEPT ![j].status = s]
    BY <1>4, <2>2, <2>3 DEF RecordCancelled, RecordFailed, SetJobStatus, JobExists
  <2>5. CASE runner.meeting = m
    <3>1. job'[j].meeting = m /\ job'[j].status = s
      BY <1>1, <2>3, <2>4, <2>5 DEF JobRow
    <3>2. CanRetry(m)'
      BY <3>1 DEF CanRetry, Jobs
    <3>3. runner'.meeting = m /\ runner'.pc \in {"requeue", "cancelMeeting"}
      BY <1>1, <1>4, <2>5 DEF RecordCancelled, RecordFailed, Goto, Runner
    <3>4. QED BY <3>2, <3>3 DEF HandlingFailure
  <2>6. CASE runner.meeting # m
    BY <1>1, <2>3, <2>4, <2>6, OtherRowOnward
  <2>7. QED BY <2>5, <2>6
<1>5. CASE Requeue
  <2>1. PICK j \in Jobs : BackToQueue(j)
    BY <1>1, <1>5 DEF Requeue, RequeueForRetry, TypeInv, RunnerOK
  <2>2. QED BY <1>1, <2>1, BackToQueueOnward
<1>6. CASE Complete
  <2>1. runner.pc \in WorkPcs
    BY <1>6 DEF Complete, WorkPcs, ProcessorPcs
  <2>2. PICK j \in Jobs : j = runner.job
    BY <2>1, <1>1 DEF TypeInv, RunnerOK
  <2>3. job[j].status = "running" /\ job[j].meeting = runner.meeting
    BY <2>1, <2>2 DEF ClaimInv, ClaimIsRecorded
  <2>4. runner.meeting # m
    BY <1>1, <1>6 DEF Complete, MarkCompleted, SetMeeting, MeetingRow
  <2>5. \A k \in Jobs : k # j => job'[k] = job[k]
    BY <1>1, <1>6, <2>2 DEF Complete, MarkCompleted
  <2>6. QED BY <1>1, <2>3, <2>4, <2>5, OtherRowOnward
<1>7. QED
  BY <1>2, <1>3, <1>4, <1>5, <1>6 DEF RunnerLoop, ProcessorStep, ProcessorRaises,
     ClaimNothing, ClearWake, WakeUp, CancelMeeting, GiveUp, FailTheMeeting, Backoff, FailMeeting,
     Start, Checkpoint, Decode, MarkProcessing, Transcribe, PublishDraft, ReplaceWithDraft,
     Diarize, SetDiarization, PublishFinal, ReplaceWithFinal, Raise, storeVars

\* A request ends a queued job together with the processing of its meeting.
LEMMA RequestJobsOnward ==
    ASSUME TypeInv, NEW m \in Meetings, Exists(m), meeting'[m].status = "processing",
           \/ \E x \in Meetings, mode \in {"quick", "meeting"} : Upload(x, mode)
           \/ \E c \in Clients : ClientStep(c) \/ ClientRequest(c)
    PROVE  JobsOnward(m) \/ HasActive(m)'
<1>1. /\ StoreInv /\ StoreTypeOK /\ job \in [Jobs -> JobRow]
      /\ meeting \in [Meetings -> MeetingRow]
  BY DEF TypeInv, StoreInv, StoreTypeOK
<1>2. CASE UNCHANGED job
  BY <1>2, SameRowsOnward DEF Active
<1>3. ASSUME NEW x \in Meetings, NEW mode \in {"quick", "meeting"}, Upload(x, mode)
      PROVE  JobsOnward(m)
  BY <1>1, <1>3, InsertOnward DEF Upload, CreateWithJob
<1>4. ASSUME NEW c \in Clients, Reprocess(c)
      PROVE  JobsOnward(m)
  <2>1. PICK x \in Meetings : x = client[c].meeting
    BY <1>4 DEF TypeInv, ClientsOK, Reprocess, At
  <2>2. QED BY <1>1, <1>4, <2>1, InsertOnward DEF Reprocess, EnqueueRefinement
<1>5. ASSUME NEW c \in Clients, CancelWhileQueued(c)
      PROVE  JobsOnward(m)
  <2>1. PICK j \in Jobs : CancelQueued(j)
    BY <1>5 DEF TypeInv, ClientsOK, CancelWhileQueued, At
  <2>2. job[j].meeting # m
    BY <1>1, <2>1 DEF CancelQueued, SetMeeting, MeetingRow
  <2>3. \A k \in Jobs : k # j => job'[k] = job[k]
    BY <1>1, <2>1 DEF CancelQueued
  <2>4. QED BY <1>1, <2>2, <2>3, OtherRowOnward
<1>6. ASSUME NEW c \in Clients, CancelFlag(c)
      PROVE  JobsOnward(m)
  <2>1. PICK j \in Jobs : SetCancelRequested(j)
    BY <1>6 DEF TypeInv, ClientsOK, CancelFlag, At
  <2>2. \A k \in Jobs : job'[k].meeting = job[k].meeting /\ job'[k].status = job[k].status
    BY <1>1, <2>1 DEF SetCancelRequested, JobRow
  <2>3. QED BY <2>2, SameRowsOnward DEF Active
<1>7. ASSUME NEW c \in Clients, NEW j \in Jobs, RetryJob(c, j)
      PROVE  JobsOnward(m) \/ HasActive(m)'
  BY <1>1, <1>7, BackToQueueOnward DEF RetryJob, Retry
<1>8. ASSUME NEW c \in Clients, Prune(c)
      PROVE  JobsOnward(m)
  BY <1>1, <1>8, PruneOnward DEF Prune
<1>9. ASSUME NEW c \in Clients, NEW x \in Meetings, Delete(c, x)
      PROVE  JobsOnward(m)
  <2>1. x # m
    BY <1>1, <1>9 DEF Delete, DeleteIfInactive, AbsentMeeting
  <2>2. \A k \in Jobs : job[k].meeting = m => job'[k] = job[k]
    BY <1>9, <2>1 DEF Delete, DeleteIfInactive
  <2>3. QED BY <2>2, SameRowsOnward DEF Active
<1>10. QED
  BY <1>2, <1>3, <1>4, <1>5, <1>6, <1>7, <1>8, <1>9 DEF ClientStep, ClientRequest,
     CancelMissed, CancelReread, Notify, ReprocessRefused, DeleteAudio, Unlink, CancelRead,
     ReprocessCheck, storeVars

LEMMA SessionJobsOnward ==
    ASSUME TypeInv, NEW m \in Meetings, NEW x \in Meetings, LiveStep(x) \/ LiveFinalize(x)
    PROVE  JobsOnward(m)
<1>1. StoreInv /\ StoreTypeOK
  BY DEF TypeInv, StoreInv
<1>2. CASE UNCHANGED job
  BY <1>2, SameRowsOnward DEF Active
<1>3. CASE LiveEnqueue(x)
  BY <1>1, <1>2, <1>3, InsertOnward DEF LiveEnqueue, EnqueueRefinement, storeVars
<1>4. CASE LivePrune(x)
  BY <1>1, <1>4, PruneOnward DEF LivePrune
<1>5. QED
  BY <1>2, <1>3, <1>4 DEF LiveStep, LiveFinalize, LiveStart, CreateLive, LiveAudio, LiveCap,
     LiveAppend, AppendLiveSegment, LiveClose, LiveDeferredDone, LiveGiveUp, LiveNotify,
     LiveManifest, LiveNoAudio, LiveSettle, FinalizeLive, LiveDropAudio, storeVars

\* The recovery queues what was running, or fails its meeting with it.
LEMMA RestartJobsOnward ==
    ASSUME TypeInv, NEW m \in Meetings, Exists(m), meeting'[m].status = "processing", Restart
    PROVE  /\ JobsOnward(m)
           /\ meeting[m].source = "live" => HasActive(m)'
<1>1. job \in [Jobs -> JobRow] /\ meeting \in [Meetings -> MeetingRow]
  BY DEF TypeInv, StoreInv, StoreTypeOK
<1>2. /\ job' = [j \in Jobs |->
              IF CancelledByRestart(j) THEN [job[j] EXCEPT !.status = "cancelled"]
              ELSE IF job[j].status = "running" THEN [job[j] EXCEPT !.status = "queued"]
              ELSE job[j]]
      /\ \A j \in Jobs : ~ (CancelledByRestart(j) /\ job[j].meeting = m)
      /\ \/ meeting[m].source # "live"
         \/ meeting[m].status # "processing"
         \/ \E j \in Jobs : job'[j].meeting = m /\ job'[j].status = "queued"
      /\ meeting'[m] = meeting[m]
  <2>1. meeting[m] \in MeetingRow
    BY <1>1
  <2>2. [meeting[m] EXCEPT !.status = "failed"].status = "failed"
    BY <2>1 DEF MeetingRow
  <2>3. RecoverInterrupted
    BY DEF Restart
  <2>4. meeting'[m] # [meeting[m] EXCEPT !.status = "failed"]
    BY <2>2
  <2>5. QED BY <2>3, <2>4 DEF RecoverInterrupted
<1>3. \A k \in Jobs : job[k].meeting = m =>
          /\ job'[k].meeting = m
          /\ Active(k) => Active(k)'
          /\ job[k].status \in Terminal => job'[k].status = job[k].status
  BY <1>1, <1>2 DEF Active, Terminal, JobRow
<1>4. JobsOnward(m)
  BY <1>3, SameRowsOnward
<1>5. meeting[m].source = "live" => HasActive(m)'
  BY <1>2 DEF HasActive, Active
<1>6. QED BY <1>4, <1>5

\* Every step, in one lemma.
LEMMA EveryStepOnward ==
    ASSUME TypeInv, ClaimInv, SessionInv, Next, faults' = 0, NEW m \in Meetings, Exists(m),
           meeting'[m].status = "processing"
    PROVE  JobsOnward(m) \/ HasActive(m)' \/ (HandlingFailure(m)' /\ CanRetry(m)')
<1>1. CASE Crash
  BY <1>1, SameRowsOnward DEF Crash, Active
<1>2. QED
  BY <1>1, FaultsGrow, RunnerJobsOnward, RequestJobsOnward, SessionJobsOnward,
     RestartJobsOnward DEF Next

\* Whoever turns a meeting to processing sees to it.
LEMMA EntersWithRecourse ==
    ASSUME TypeInv, ClaimInv, SessionInv, Next, NEW m \in Meetings,
           meeting[m].status # "processing", meeting'[m].status = "processing"
    PROVE  HasRecourse(m)'
<1>1. RowStep(m)
  BY EveryRowStep
<1>2. CASE RowDecoded(m)
  <2>1. runner.pc \in WorkPcs /\ runner.meeting = m /\ job' = job
    BY <1>2 DEF RowDecoded, Decode, MarkProcessing, WorkPcs, ProcessorPcs
  <2>2. HasActive(m)
    BY <2>1, WorkedOnMeeting
  <2>3. HasActive(m)'
    BY <2>1, <2>2 DEF HasActive, Active
  <2>4. QED BY <2>3 DEF HasRecourse
<1>3. CASE RowCreated(m)
  <2>1. CASE LiveStart(m)
    <3>1. live'[m] = "recording"
      BY <2>1 DEF LiveStart, SessionGoto, TypeInv, RestOK
    <3>2. live'[m] \in LivePcs \ {"off", "prune", "notify"}
      BY <3>1 DEF LivePcs
    <3>3. QED BY <3>2 DEF HasRecourse
  <2>2. CASE HasActive(m)'
    BY <2>2 DEF HasRecourse
  <2>3. QED BY <1>3, <2>1, <2>2 DEF RowCreated
<1>4. CASE RowQueued(m)
  BY <1>4 DEF RowQueued, HasRecourse
<1>5. QED
  BY <1>1, <1>2, <1>3, <1>4 DEF RowStep, RowStays, RowFails, RowDrafted, RowPublished, RowReady,
     RowHeard, RowSettled, RowDeleted, Becomes

\* A session that leaves its meeting to a job has queued one; the others settle
\* the status or die with the process.
LEMMA SessionRecourse ==
    ASSUME TypeInv, TypeInv', PathsInv, SessionInv, Next, faults' = 0, NEW m \in Meetings,
           meeting[m].status = "processing", meeting'[m].status = "processing",
           live[m] \in LivePcs \ {"off", "prune", "notify"}, meeting'[m].source = meeting[m].source
    PROVE  HasRecourse(m)'
<1>1. /\ live \in [Meetings -> LivePcs] /\ live' \in [Meetings -> LivePcs]
      /\ job \in [Jobs -> JobRow] /\ StoreInv /\ meeting \in [Meetings -> MeetingRow]
  BY DEF TypeInv, RestOK, StoreInv, StoreTypeOK
<1>2. meeting[m].source = "live" /\ live[m] # "dropAudio"
  <2>1. faults = 0
    BY FaultsGrow
  <2>2. QED BY <2>1 DEF SessionInv, SessionOwnsMeeting, PathsInv, PathsResolve, Exists
<1>3. CASE live'[m] \in LivePcs \ {"off", "prune", "notify"}
  BY <1>3 DEF HasRecourse
<1>4. CASE Crash
  BY <1>2, <1>4 DEF HasRecourse, Up, Crash, Looping, Holding, Loop
<1>5. ASSUME NEW x \in Meetings, LiveStep(x) \/ LiveFinalize(x)
      PROVE  HasRecourse(m)'
  <2>1. CASE LiveEnqueue(x)
    <3>1. CASE x = m
      <4>1. CASE EnqueueRefinement(m, TRUE)
        <5>1. HasActive(m)'
          BY <1>1, <4>1, InsertOnward DEF EnqueueRefinement
        <5>2. QED BY <5>1 DEF HasRecourse
      <4>2. CASE HasActive(m) /\ UNCHANGED storeVars
        <5>1. HasActive(m)'
          BY <4>2 DEF HasActive, Active, storeVars
        <5>2. QED BY <5>1 DEF HasRecourse
      <4>3. QED BY <2>1, <3>1, <4>1, <4>2 DEF LiveEnqueue
    <3>2. CASE x # m
      BY <1>1, <1>3, <2>1, <3>2 DEF LiveEnqueue, SessionGoto
    <3>3. QED BY <3>1, <3>2
  <2>2. CASE LiveSettle(x)
    <3>1. CASE x = m
      <4>1. meeting'[m].status \in {"draft", "failed", "ready"}
        BY <1>1, <1>2, <2>2, <3>1 DEF LiveSettle, FinalizeLive, SetMeeting, Exists, MeetingRow
      <4>2. QED BY <4>1
    <3>2. CASE x # m
      BY <1>1, <1>3, <2>2, <3>2 DEF LiveSettle, SessionGoto
    <3>3. QED BY <3>1, <3>2
  <2>3. CASE LiveStep(x) \/ LivePrune(x) \/ LiveNotify(x) \/ LiveManifest(x) \/ LiveNoAudio(x)
               \/ LiveDropAudio(x)
    <3>1. live'[m] \in LivePcs \ {"off", "prune", "notify"}
      BY <1>1, <1>2, <2>3 DEF LiveStep, LiveStart, LiveAudio, LiveCap, LiveAppend, LiveClose,
         LiveDeferredDone, LiveGiveUp, LivePrune, LiveNotify, LiveManifest, LiveNoAudio,
         LiveDropAudio, SessionGoto, procVars, LivePcs
    <3>2. QED BY <1>3, <3>1
  <2>4. QED BY <1>5, <2>1, <2>2, <2>3 DEF LiveFinalize
<1>6. CASE Restart
  BY <1>1, <1>3, <1>6 DEF Restart
<1>7. QED
  BY <1>3, <1>4, <1>5, <1>6, RunnerFrame, RequestFrame, FaultsGrow DEF Next

\* While the handlers of a failure are at it, they fail the meeting or queue the
\* job again, unless the process dies.
LEMMA HandlersGoOn ==
    ASSUME TypeInv, ClaimInv, SessionInv, Next, faults' = 0, NEW m \in Meetings, Exists(m),
           meeting'[m].status = "processing", HandlingFailure(m)
    PROVE  HandlingFailure(m)' \/ HasActive(m)' \/ crashes' > 0
<1>1. /\ runner \in Runner /\ StoreInv /\ meeting \in [Meetings -> MeetingRow] /\ crashes \in Nat
      /\ runner.pc \in {"requeue", "failMeeting", "cancelMeeting"} /\ runner.meeting = m
  BY PipelineAssumption DEF TypeInv, RunnerOK, StoreInv, StoreTypeOK, RestOK, HandlingFailure
<1>2. CASE UNCHANGED runner
  BY <1>2 DEF HandlingFailure
<1>3. CASE Crash
  BY <1>1, <1>3 DEF Crash
<1>4. CASE Requeue
  <2>1. PICK j \in Jobs : j = runner.job
    BY <1>4 DEF Requeue, TypeInv, RunnerOK
  <2>2. JobExists(j) /\ BackToQueue(j)
    BY <1>4, <2>1 DEF Requeue, RequeueForRetry, MayRequeue
  <2>3. job[j].meeting = m
    BY <1>1, <1>4, <2>1, <2>2 DEF SessionInv, HandlerNamesItsRow, Requeue
  <2>4. QED BY <1>1, <2>2, <2>3, BackToQueueOnward
<1>5. CASE GiveUp
  BY <1>1, <1>5 DEF GiveUp, Goto, Runner, HandlingFailure
<1>6. CASE CancelMeeting \/ FailTheMeeting
  <2>1. FailMeeting(m)
    BY <1>1, <1>6 DEF CancelMeeting, FailTheMeeting
  <2>2. meeting'[m].status = "failed"
    BY <1>1, <2>1 DEF FailMeeting, SetMeeting, MeetingRow
  <2>3. QED BY <2>2
<1>7. CASE ProcessorStep \/ ProcessorRaises
  BY <1>1, <1>7 DEF ProcessorStep, ProcessorRaises, Start, Checkpoint, AfterCheckpoint, Decode,
     Transcribe, PublishDraft, Diarize, PublishFinal, Complete, ProcessorPcs
<1>8. CASE RunnerLoop
  BY <1>1, <1>4, <1>5, <1>6, <1>8 DEF RunnerLoop, Claim, ClaimNothing, ClearWake, WakeUp,
     RecordCancelled, RecordFailed, Backoff
<1>9. CASE Restart
  BY <1>1, <1>9 DEF Restart, Up
<1>10. QED
  BY <1>2, <1>3, <1>7, <1>8, <1>9, RequestFrame, SessionFrame, FaultsGrow DEF Next

\* Nobody but a restart brings the process up, and nothing else moves until then.
LEMMA OnlyRestartComesUp ==
    ASSUME Next, ~Up, Up'
    PROVE  Restart
<1>1. ~ (RunnerLoop \/ RunnerFault \/ ProcessorStep \/ ProcessorRaises)
  BY DEF Up, RunnerLoop, RunnerFault, AfterFault, ProcessorStep, ProcessorRaises, Claim,
     ClaimNothing, ClearWake, WakeUp, RecordCancelled, CancelMeeting, RecordFailed, Requeue,
     GiveUp, FailTheMeeting, Backoff, Start, Checkpoint, AfterCheckpoint, Decode, Transcribe,
     PublishDraft, Diarize, PublishFinal, Complete, ProcessorPcs
<1>2. ~Crash
  BY DEF Crash
<1>3. ~ UNCHANGED runner
  BY DEF Up
<1>4. QED BY <1>1, <1>2, <1>3, RequestFrame, SessionFrame DEF Next

LEMMA RecourseStep ==
    ASSUME TypeInv, TypeInv', ClaimInv, PathsInv, SessionInv, ProcessingHasRecourse, [Next]_vars
    PROVE  ProcessingHasRecourse'
<1>1. CASE UNCHANGED vars
  BY <1>1 DEF vars, ProcessingHasRecourse, HasRecourse, HasActive, Active, HandlingFailure,
     CanRetry, Finished, Up
<1>2. CASE Next
  <2>1. SUFFICES ASSUME faults' = 0, NEW m \in Meetings, meeting'[m].status = "processing",
                        meeting[m].status = "processing"
                 PROVE  HasRecourse(m)'
    BY <1>2, EntersWithRecourse DEF ProcessingHasRecourse
  <2>2. HasRecourse(m) /\ Exists(m)
    BY <1>2, <2>1, FaultsGrow DEF ProcessingHasRecourse, Exists
  <2>3. meeting'[m].source = meeting[m].source
    BY <1>2, <2>1, EveryRowStep, NeverAbsentAgain
  <2>4. JobsOnward(m) \/ HasActive(m)' \/ (HandlingFailure(m)' /\ CanRetry(m)')
    BY <1>2, <2>1, <2>2, EveryStepOnward
  <2>5. CASE live[m] \in LivePcs \ {"off", "prune", "notify"}
    BY <1>2, <2>1, <2>3, <2>5, SessionRecourse
  <2>6. CASE HasActive(m)
    BY <2>4, <2>6 DEF JobsOnward, HasRecourse
  <2>7. CASE ~Up /\ meeting[m].source = "live"
    <3>1. CASE ~Up'
      BY <2>3, <2>7, <3>1 DEF HasRecourse
    <3>2. CASE Up'
      BY <1>2, <2>1, <2>2, <2>7, <3>2, OnlyRestartComesUp, RestartJobsOnward DEF HasRecourse
    <3>3. QED BY <3>1, <3>2
  <2>8. CASE (HandlingFailure(m) \/ crashes > 0) /\ Retriable(m)
    <3>1. HandlingFailure(m)' \/ HasActive(m)' \/ crashes' > 0
      <4>1. CASE HandlingFailure(m)
        BY <1>2, <2>1, <2>2, <4>1, HandlersGoOn
      <4>2. CASE crashes > 0
        <5>1. crashes \in Nat
          BY PipelineAssumption DEF TypeInv, RestOK
        <5>2. CASE Crash \/ Restart
          BY <4>2, <5>1, <5>2 DEF Crash, Restart, auxVars
        <5>3. CASE ~Crash /\ ~Restart
          BY <1>2, <4>2, <5>3, RunnerFrame, RequestFrame, SessionFrame DEF Next
        <5>4. QED BY <5>2, <5>3
      <4>3. QED BY <2>8, <4>1, <4>2
    <3>2. Retriable(m)' \/ HasActive(m)'
      BY <2>4, <2>8 DEF JobsOnward, Retriable
    <3>3. QED BY <3>1, <3>2 DEF HasRecourse, Retriable
  <2>9. QED BY <2>2, <2>5, <2>6, <2>7, <2>8 DEF HasRecourse, Retriable
<1>3. QED BY <1>1, <1>2

\* A meeting in processing is on its way out, or has a job to retry.
THEOREM ProcessingIsNoDeadEnd == Spec => []ProcessingHasRecourse
<1>1. Init => ProcessingHasRecourse
  BY DEF Init, StoreInit, AbsentMeeting, ProcessingHasRecourse
<1>2. QED
  BY <1>1, RecourseStep, SpecTypeInv, SpecClaimInv, SpecPathsInv, SpecSessionInv, PTL DEF Spec
=============================================================================
