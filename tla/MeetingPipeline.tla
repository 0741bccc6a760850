--------------------------- MODULE MeetingPipeline ---------------------------
(***************************************************************************)
(* The processes that share MeetingStore:                                  *)
(*                                                                         *)
(*   - the job runner, one coroutine on the event loop, with the meeting   *)
(*     processor it awaits;                                                *)
(*   - the API requests: synchronous endpoints run in a thread pool, so    *)
(*     each of their transactions may fall between any two steps of the    *)
(*     runner; the upload is a coroutine and cannot;                       *)
(*   - the live sessions, reduced to what they do to their meeting;        *)
(*   - the operating system, which may kill the process between any two    *)
(*     steps and start it again.                                           *)
(***************************************************************************)
EXTENDS MeetingStore

CONSTANTS
    Clients,       \* API requests that may be in flight together
    ApiOps,        \* which operations they are: SUBSET AllOps
    MaxChunks,     \* bound: audio chunks per recording
    RetryBound,    \* bound: retry_count at which users stop retrying by hand
    MaxCrashes,    \* bound: how often the process is killed
    MaxFaults,     \* bound: how many database writes of a handler fail
    StuckModels    \* whether a model call may outlive every timeout

AllOps == {"upload", "live", "cancel", "retry", "reprocess", "delete"}

ASSUME PipelineAssumption ==
    /\ ApiOps \subseteq AllOps
    /\ MaxChunks \in Nat \ {0}
    /\ RetryBound \in Nat
    /\ MaxCrashes \in Nat
    /\ MaxFaults \in Nat
    /\ StuckModels \in BOOLEAN

VARIABLES
    runner,     \* the runner's program counter and locals
    wake,       \* the asyncio.Event the runner sleeps on
    client,     \* program counter and locals of each API request
    live,       \* program counter of each meeting's live session
    capped,     \* the session stopped writing audio at the size cap
    stuck,      \* the session's processor still owns a model call nobody awaits
    crashes, faults

procVars == <<runner, wake, client, live, capped, stuck>>
auxVars  == <<crashes, faults>>
vars     == <<meeting, job, nextJob, wav, runner, wake, client, live, capped,
              stuck, crashes, faults>>

-----------------------------------------------------------------------------
(* Program counters.                                                       *)

\* Inside processor(job); a "cp" is a checkpoint, the rest is named for the
\* work that follows it.
ProcessorPcs == {"start", "cpDecode", "decode", "cpAsr", "asr", "cpDraft", "draft",
                 "cpDiarize", "diarize", "cpSave", "publish", "complete"}

RunnerPcs == ProcessorPcs \cup
    {"down", "dead", "claim", "clear", "wait",          \* the loop itself
     "failed", "requeue", "failMeeting", "backoff",     \* except Exception
     "cancelled", "cancelMeeting"}                      \* except JobCancelled

ClientPcs == {"idle", "cancelQueued", "reread", "flag", "enqueue", "prune",
              "notify", "unlink"}

LivePcs == {"off", "recording", "deferred", "finalize", "prune", "notify",
            "settle", "dropAudio"}

\* What the processor does with the chunks once transcribed, from the meeting
\* as it was read at the start: nothing, diarize, or publish a draft first.
Plans == {"none", "diarize", "draftFirst"}

Runner == [pc        : RunnerPcs,
           job       : 0..MaxJobs,                       \* 0: no claimed job
           meeting   : Meetings \cup {NoMeeting},
           plan      : Plans,
           left      : 0..MaxChunks,                     \* chunks to transcribe
           heard     : BOOLEAN,                          \* some chunk gave text
           retryable : BOOLEAN]                          \* the exception's class

\* The runner outside the body of the processor, whose locals are dead there,
\* and between two jobs.
Holding(pc, j, m, retryable) ==
    [pc |-> pc, job |-> j, meeting |-> m, plan |-> "none", left |-> 0,
     heard |-> FALSE, retryable |-> retryable]

Looping(pc) == Holding(pc, 0, NoMeeting, FALSE)

Client == [pc : ClientPcs, job : 0..MaxJobs, meeting : Meetings \cup {NoMeeting}]

IdleClient == [pc |-> "idle", job |-> 0, meeting |-> NoMeeting]

TypeOK ==
    /\ StoreTypeOK
    /\ runner \in Runner
    /\ wake \in BOOLEAN
    /\ client \in [Clients -> Client]
    /\ live \in [Meetings -> LivePcs]
    /\ capped \in [Meetings -> BOOLEAN]
    /\ stuck \in [Meetings -> BOOLEAN]
    /\ crashes \in 0..MaxCrashes
    /\ faults \in 0..MaxFaults

Init ==
    /\ StoreInit
    /\ runner = Looping("claim")
    /\ wake = TRUE
    /\ client = [c \in Clients |-> IdleClient]
    /\ live = [m \in Meetings |-> "off"]
    /\ capped = [m \in Meetings |-> FALSE]
    /\ stuck = [m \in Meetings |-> FALSE]
    /\ crashes = 0
    /\ faults = 0

Up == runner.pc # "down"

\* Between two awaits of the runner no other coroutine does anything, while a
\* thread of the pool may.  These are the steps that begin at an await.
LoopHeld == runner.pc \notin {"down", "dead", "claim", "decode", "asr", "diarize",
                              "complete", "wait", "backoff"}

-----------------------------------------------------------------------------
(* JobRunner._run                                                          *)

Goto(pc) == runner' = [runner EXCEPT !.pc = pc]
Loop(pc) == runner' = Looping(pc)

OnlyRunner == UNCHANGED <<wake, client, live, capped, stuck, auxVars>>

Claim ==
    /\ runner.pc = "claim"
    /\ \E j \in Jobs :
         /\ ClaimNext(j)
         /\ runner' = Holding("start", j, job[j].meeting, FALSE)
    /\ OnlyRunner

ClaimNothing ==
    /\ runner.pc = "claim"
    /\ \A j \in Jobs : ~Claimable(j)
    /\ Goto("clear")
    /\ UNCHANGED storeVars /\ OnlyRunner

ClearWake ==
    /\ runner.pc = "clear"
    /\ wake' = FALSE
    /\ Goto("wait")
    /\ UNCHANGED <<storeVars, client, live, capped, stuck, auxVars>>

WakeUp ==
    /\ runner.pc = "wait"
    /\ wake
    /\ Goto("claim")
    /\ UNCHANGED storeVars /\ OnlyRunner

\* except JobCancelled: two transactions.
RecordCancelled ==
    /\ runner.pc = "cancelled"
    /\ SetJobStatus(runner.job, "cancelled")
    /\ Goto("cancelMeeting")
    /\ OnlyRunner

CancelMeeting ==
    /\ runner.pc = "cancelMeeting"
    /\ FailMeeting(runner.meeting)
    /\ Loop("claim")
    /\ OnlyRunner

\* except Exception: three transactions, each in a try of its own.
RecordFailed ==
    /\ runner.pc = "failed"
    /\ SetJobStatus(runner.job, "failed")
    /\ Goto("requeue")
    /\ OnlyRunner

Requeue ==
    /\ runner.pc = "requeue"
    /\ RequeueForRetry(runner.job, runner.retryable)
    /\ Loop("backoff")
    /\ OnlyRunner

GiveUp ==
    /\ runner.pc = "requeue"
    /\ ~MayRequeue(runner.job, runner.retryable)
    /\ Goto("failMeeting")
    /\ UNCHANGED storeVars /\ OnlyRunner

\* Mutant: the job's failure is not carried over to its meeting.
ForgetTheMeeting ==
    /\ runner.pc = "failMeeting"
    /\ Loop("claim")
    /\ UNCHANGED storeVars /\ OnlyRunner

FailTheMeeting ==
    /\ runner.pc = "failMeeting"
    /\ FailMeeting(runner.meeting)
    /\ Loop("claim")
    /\ OnlyRunner

Backoff ==
    /\ runner.pc = "backoff"
    /\ Loop("claim")
    /\ UNCHANGED storeVars /\ OnlyRunner

\* A write of the handlers raises: logged, and the handler goes on.  The claim
\* has no handler around it, so the exception ends the task.
AfterFault == [failed |-> "requeue", requeue |-> "failMeeting", failMeeting |-> "claim",
               cancelled |-> "claim", cancelMeeting |-> "claim", claim |-> "dead"]

RunnerFault ==
    /\ runner.pc \in DOMAIN AfterFault
    /\ faults < MaxFaults
    /\ faults' = faults + 1
    /\ LET pc == AfterFault[runner.pc] IN
       IF pc \in {"claim", "dead"} THEN Loop(pc) ELSE Goto(pc)
    /\ UNCHANGED <<storeVars, wake, client, live, capped, stuck, crashes>>

RunnerLoop ==
    \/ Claim \/ ClaimNothing \/ ClearWake \/ WakeUp
    \/ RecordCancelled \/ CancelMeeting
    \/ RecordFailed \/ Requeue \/ GiveUp \/ FailTheMeeting \/ Backoff

-----------------------------------------------------------------------------
(* MeetingProcessor.__call__                                               *)

Raise(retryable) ==
    /\ runner' = Holding("failed", runner.job, runner.meeting, retryable)
    /\ UNCHANGED storeVars

PlanFor(m) ==
    IF meeting[m].mode = "quick" THEN "none"
    ELSE IF meeting[m].source = "upload" /\ meeting[m].state = "draft" THEN "draftFirst"
    ELSE "diarize"

Start ==
    /\ runner.pc = "start"
    /\ LET m == runner.meeting IN
       IF m \in Meetings /\ Exists(m) /\ AudioOnDisk(m)
         THEN /\ runner' = [runner EXCEPT !.pc = "cpDecode", !.plan = PlanFor(m)]
              /\ UNCHANGED storeVars
         ELSE Raise(FALSE)
    /\ OnlyRunner

\* _checkpoint: reads the row, then either raises JobCancelled or goes on.
AfterCheckpoint == [cpDecode |-> "decode", cpAsr |-> "asr", cpDraft |-> "draft",
                    cpDiarize |-> "diarize", cpSave |-> "publish"]

CancelSeen == ~JobExists(runner.job) \/ job[runner.job].cancel

Checkpoint ==
    /\ runner.pc \in DOMAIN AfterCheckpoint
    /\ IF CancelSeen
         THEN runner' = Holding("cancelled", runner.job, runner.meeting, FALSE)
         ELSE Goto(AfterCheckpoint[runner.pc])
    /\ UNCHANGED storeVars /\ OnlyRunner

Decode ==
    /\ runner.pc = "decode"
    /\ MarkProcessing(runner.meeting)
    /\ \E n \in 1..MaxChunks :
         runner' = [runner EXCEPT !.pc = "cpAsr", !.left = n]
    /\ OnlyRunner

\* Where the transcribed chunks go next.
AfterAsr(heard) ==
    CASE runner.plan = "none" -> "cpSave"
      [] runner.plan = "draftFirst" /\ heard -> "cpDraft"
      [] OTHER -> "cpDiarize"

Transcribe ==
    /\ runner.pc = "asr"
    /\ \E text \in BOOLEAN :
         LET heard == runner.heard \/ text IN
         runner' = [runner EXCEPT
                      !.pc = IF runner.left > 1 THEN "cpAsr" ELSE AfterAsr(heard),
                      !.left = runner.left - 1,
                      !.heard = heard]
    /\ UNCHANGED storeVars /\ OnlyRunner

PublishDraft ==
    /\ runner.pc = "draft"
    /\ ReplaceWithDraft(runner.meeting)
    /\ Goto("cpDiarize")
    /\ OnlyRunner

\* Diarization never raises: without a model or turns it is "unavailable".
Diarize ==
    /\ runner.pc = "diarize"
    /\ \E result \in {"completed", "unavailable"} : SetDiarization(runner.meeting, result)
    /\ Goto("cpSave")
    /\ OnlyRunner

PublishFinal ==
    /\ runner.pc = "publish"
    /\ IF runner.heard /\ Exists(runner.meeting)
         THEN ReplaceWithFinal(runner.meeting) /\ Goto("complete")
         ELSE Raise(runner.heard)
    /\ OnlyRunner

\* Before it, the matching of known people is awaited: it writes to speakers
\* only and its exceptions are swallowed.
Complete ==
    /\ runner.pc = "complete"
    /\ MarkCompleted(runner.meeting, runner.job)
    /\ Loop("claim")
    /\ OnlyRunner

\* Any step may raise something transient; an empty file and a non-final ASR
\* result raise PermanentJobError.
ProcessorRaises ==
    /\ \/ runner.pc \in ProcessorPcs /\ Raise(TRUE)
       \/ runner.pc \in {"decode", "asr"} /\ Raise(FALSE)
    /\ OnlyRunner

ProcessorStep ==
    \/ Start \/ Checkpoint \/ Decode \/ Transcribe \/ PublishDraft \/ Diarize
    \/ PublishFinal \/ Complete

-----------------------------------------------------------------------------
(* API requests.                                                           *)

Begin(c, pc, j, m) == client' = [client EXCEPT ![c] = [pc |-> pc, job |-> j, meeting |-> m]]
Advance(c, pc) == client' = [client EXCEPT ![c].pc = pc]
Done(c) == client' = [client EXCEPT ![c] = IdleClient]

Requests(c, op) == Up /\ op \in ApiOps /\ client[c].pc = "idle"
At(c, pc) == Up /\ client[c].pc = pc

OnlyClient == UNCHANGED <<runner, wake, live, capped, stuck, auxVars>>

\* Mutant: the runner is not notified of the new job.
UploadQuietly(m, mode) ==
    /\ Up /\ "upload" \in ApiOps /\ ~LoopHeld
    /\ CreateWithJob(m, mode)
    /\ UNCHANGED <<runner, wake, client, live, capped, stuck, auxVars>>

\* create_upload_meeting is a coroutine: commit and notify in one go.
Upload(m, mode) ==
    /\ Up /\ "upload" \in ApiOps /\ ~LoopHeld
    /\ CreateWithJob(m, mode)
    /\ wake' = TRUE
    /\ UNCHANGED <<runner, client, live, capped, stuck, auxVars>>

\* request_cancel reads the row, then acts on what it read.
CancelRead(c, j) ==
    /\ Requests(c, "cancel")
    /\ Active(j)
    /\ Begin(c, IF job[j].status = "queued" THEN "cancelQueued" ELSE "flag", j, NoMeeting)
    /\ UNCHANGED storeVars /\ OnlyClient

CancelWhileQueued(c) ==
    /\ At(c, "cancelQueued")
    /\ CancelQueued(client[c].job)
    /\ Done(c)
    /\ OnlyClient

\* rowcount 0: no longer queued.
CancelMissed(c) ==
    /\ At(c, "cancelQueued")
    /\ job[client[c].job].status # "queued"
    /\ Advance(c, "reread")
    /\ UNCHANGED storeVars /\ OnlyClient

CancelReread(c) ==
    /\ At(c, "reread")
    /\ IF Active(client[c].job) THEN Advance(c, "flag") ELSE Done(c)
    /\ UNCHANGED storeVars /\ OnlyClient

CancelFlag(c) ==
    /\ At(c, "flag")
    /\ SetCancelRequested(client[c].job)
    /\ Done(c)
    /\ OnlyClient

RetryJob(c, j) ==
    /\ Requests(c, "retry")
    /\ job[j].retries < RetryBound
    /\ Retry(j)
    /\ Begin(c, "notify", j, NoMeeting)
    /\ OnlyClient

Notify(c) ==
    /\ At(c, "notify")
    /\ wake' = TRUE
    /\ Done(c)
    /\ UNCHANGED <<storeVars, runner, live, capped, stuck, auxVars>>

\* The checks of reprocess_meeting: a live recording whose WAV header counts
\* fewer seconds than the transcript is taken to be truncated.
MayReprocess(m) ==
    /\ Exists(m)
    /\ meeting[m].status # "processing"
    /\ AudioOnDisk(m)
    /\ ~meeting[m].truncated
    /\ ~(/\ meeting[m].source = "live"
         /\ meeting[m].text # {}
         /\ wav[m] \in {"cut", "unpatched"})

ReprocessCheck(c, m) ==
    /\ Requests(c, "reprocess")
    /\ MayReprocess(m)
    /\ Begin(c, "enqueue", 0, m)
    /\ UNCHANGED storeVars /\ OnlyClient

Reprocess(c) ==
    /\ At(c, "enqueue")
    /\ EnqueueRefinement(client[c].meeting, FALSE)
    /\ Begin(c, "prune", 0, NoMeeting)
    /\ OnlyClient

\* Also where the bound on job rows is met.
ReprocessRefused(c) ==
    /\ At(c, "enqueue")
    /\ ~CanEnqueue(client[c].meeting, FALSE) \/ nextJob \notin Jobs
    /\ Done(c)
    /\ UNCHANGED storeVars /\ OnlyClient

Prune(c) ==
    /\ At(c, "prune")
    /\ PruneFinished
    /\ Advance(c, "notify")
    /\ OnlyClient

Delete(c, m) ==
    /\ Requests(c, "delete")
    /\ DeleteIfInactive(m)
    /\ Begin(c, "unlink", 0, m)
    /\ OnlyClient

DeleteAudio(c) ==
    /\ At(c, "unlink")
    /\ Unlink(client[c].meeting)
    /\ Done(c)
    /\ OnlyClient

ClientStep(c) ==
    \/ CancelWhileQueued(c) \/ CancelMissed(c) \/ CancelReread(c) \/ CancelFlag(c)
    \/ Notify(c) \/ Reprocess(c) \/ ReprocessRefused(c) \/ Prune(c)
    \/ DeleteAudio(c)

ClientRequest(c) ==
    \/ \E j \in Jobs : CancelRead(c, j) \/ RetryJob(c, j)
    \/ \E m \in Meetings : ReprocessCheck(c, m) \/ Delete(c, m)

-----------------------------------------------------------------------------
(* Live sessions: what a WebSocket connection does to its meeting.  The    *)
(* repository calls run in threads the handler awaits, so each is a step.  *)

SessionGoto(m, pc) == live' = [live EXCEPT ![m] = pc]

OnlySession == UNCHANGED <<runner, wake, client, capped, stuck, auxVars>>

LiveStart(m) ==
    /\ Up /\ "live" \in ApiOps
    /\ CreateLive(m)
    /\ SessionGoto(m, "recording")
    /\ OnlySession

\* The first frame opens the WAV file and stores its path.
LiveAudio(m) ==
    /\ live[m] = "recording"
    /\ ~meeting[m].audio
    /\ SetMeeting(m, [meeting[m] EXCEPT !.audio = TRUE])
    /\ wav' = [wav EXCEPT ![m] = "open"]
    /\ UNCHANGED <<job, nextJob, runner, wake, client, live, capped, stuck, auxVars>>

LiveCap(m) ==
    /\ live[m] = "recording"
    /\ wav[m] = "open"
    /\ capped' = [capped EXCEPT ![m] = TRUE]
    /\ UNCHANGED <<storeVars, runner, wake, client, live, stuck, auxVars>>

\* The processor's segments: while recording, while its owner waits for it in
\* the background, and for as long as it is stuck.
LiveAppend(m) ==
    /\ \/ live[m] = "recording" /\ meeting[m].audio
       \/ live[m] = "deferred"
       \/ stuck[m]
    /\ AppendLiveSegment(m)
    /\ UNCHANGED procVars /\ UNCHANGED auxVars

CloseWav(m) ==
    wav' = [wav EXCEPT ![m] = IF @ # "open" THEN @ ELSE IF capped[m] THEN "cut" ELSE "whole"]

\* The connection ends: with the processor drained, or with one that is still
\* inside a model call after PROCESSOR_DRAIN_TIMEOUT_SECONDS.
LiveClose(m) ==
    /\ live[m] = "recording"
    /\ CloseWav(m)
    /\ \E pc \in {"finalize", "deferred"} : SessionGoto(m, pc)
    /\ UNCHANGED <<meeting, job, nextJob>> /\ OnlySession

LiveDeferredDone(m) ==
    /\ live[m] = "deferred"
    /\ SessionGoto(m, "finalize")
    /\ UNCHANGED storeVars /\ OnlySession

\* DEFERRED_PROCESSOR_TIMEOUT_SECONDS: finalize although the processor still
\* owns its call.
LiveGiveUp(m) ==
    /\ StuckModels
    /\ live[m] = "deferred"
    /\ SessionGoto(m, "finalize")
    /\ stuck' = [stuck EXCEPT ![m] = TRUE]
    /\ UNCHANGED <<storeVars, runner, wake, client, capped, auxVars>>

\* _finalize_live_session with a complete recording: queue the refinement ...
LiveEnqueue(m) ==
    /\ live[m] = "finalize"
    /\ AudioOnDisk(m) /\ ~capped[m]
    /\ \/ EnqueueRefinement(m, TRUE) /\ SessionGoto(m, "prune")
       \/ HasActive(m) /\ UNCHANGED storeVars /\ SessionGoto(m, "off")
    /\ OnlySession

LivePrune(m) ==
    /\ live[m] = "prune"
    /\ PruneFinished
    /\ SessionGoto(m, "notify")
    /\ OnlySession

LiveNotify(m) ==
    /\ live[m] = "notify" /\ ~LoopHeld
    /\ wake' = TRUE
    /\ SessionGoto(m, "off")
    /\ UNCHANGED <<storeVars, runner, client, capped, stuck, auxVars>>

\* ... with a capped one: mark it truncated before it becomes ready ...
LiveManifest(m) ==
    /\ live[m] = "finalize"
    /\ capped[m]
    /\ SetMeeting(m, [meeting[m] EXCEPT !.truncated = TRUE])
    /\ SessionGoto(m, "settle")
    /\ UNCHANGED <<job, nextJob, wav>> /\ OnlySession

\* ... with no recording, or after any of this failed: settle the status.
LiveNoAudio(m) ==
    /\ live[m] = "finalize"
    /\ ~capped[m] /\ ~AudioOnDisk(m)
    /\ SessionGoto(m, "settle")
    /\ UNCHANGED storeVars /\ OnlySession

LiveSettle(m) ==
    /\ live[m] = "settle"
    /\ FinalizeLive(m)
    /\ SessionGoto(m, "off")
    /\ OnlySession

\* The manifest could not be written: the cut file goes, then its path.
LiveDropAudio(m) ==
    /\ live[m] = "dropAudio"
    /\ SetMeeting(m, [meeting[m] EXCEPT !.audio = FALSE])
    /\ SessionGoto(m, "off")
    /\ UNCHANGED <<job, nextJob, wav>> /\ OnlySession

LiveFault(m) ==
    /\ faults < MaxFaults
    /\ faults' = faults + 1
    /\ \/ /\ live[m] = "finalize" /\ capped[m]
          /\ Unlink(m)
          /\ SessionGoto(m, "dropAudio")
       \/ /\ \/ live[m] = "finalize" /\ ~capped[m] /\ AudioOnDisk(m)
             \/ live[m] = "prune"
          /\ UNCHANGED storeVars
          /\ SessionGoto(m, "settle")
       \/ /\ live[m] \in {"settle", "dropAudio"}
          /\ UNCHANGED storeVars
          /\ SessionGoto(m, "off")
    /\ UNCHANGED <<runner, wake, client, capped, stuck, crashes>>

LiveFinalize(m) ==
    \/ LiveEnqueue(m) \/ LivePrune(m) \/ LiveNotify(m)
    \/ LiveManifest(m) \/ LiveNoAudio(m) \/ LiveSettle(m) \/ LiveDropAudio(m)

LiveStep(m) ==
    \/ LiveStart(m) \/ LiveAudio(m) \/ LiveCap(m) \/ LiveAppend(m)
    \/ LiveClose(m) \/ LiveDeferredDone(m) \/ LiveGiveUp(m)

-----------------------------------------------------------------------------
(* The process dies: what is not in the store is gone, and an open WAV     *)
(* keeps the frame count of its first write.  start() recovers the store.  *)

Crash ==
    /\ Up
    /\ crashes < MaxCrashes
    /\ crashes' = crashes + 1
    /\ Loop("down")
    /\ wake' = FALSE
    /\ client' = [c \in Clients |-> IdleClient]
    /\ live' = [m \in Meetings |-> "off"]
    /\ capped' = [m \in Meetings |-> FALSE]
    /\ stuck' = [m \in Meetings |-> FALSE]
    /\ wav' = [m \in Meetings |-> IF wav[m] = "open" THEN "unpatched" ELSE wav[m]]
    /\ UNCHANGED <<meeting, job, nextJob, faults>>

Restart ==
    /\ ~Up
    /\ RecoverInterrupted
    /\ Loop("claim")
    /\ wake' = TRUE
    /\ UNCHANGED <<client, live, capped, stuck, auxVars>>

Next ==
    \/ RunnerLoop \/ RunnerFault
    \/ ProcessorStep \/ ProcessorRaises
    \/ \E m \in Meetings, mode \in {"quick", "meeting"} : Upload(m, mode)
    \/ \E c \in Clients : ClientStep(c) \/ ClientRequest(c)
    \/ \E m \in Meetings : LiveStep(m) \/ LiveFinalize(m) \/ LiveFault(m)
    \/ Crash \/ Restart

(***************************************************************************)
(* Fairness: the event loop and the pool keep running what is ready, and a *)
(* killed process is started again.  Nothing makes users act, sessions     *)
(* end, or anything fail.                                                  *)
(***************************************************************************)
Fairness ==
    /\ WF_vars(RunnerLoop)
    /\ WF_vars(ProcessorStep)
    /\ \A c \in Clients : WF_vars(ClientStep(c))
    /\ \A m \in Meetings : WF_vars(LiveFinalize(m))
    /\ WF_vars(Restart)

Spec == Init /\ [][Next]_vars

FairSpec == Spec /\ Fairness

-----------------------------------------------------------------------------
(* Safety.                                                                 *)

\* Steps during which the row of the claimed job says running.
WorkPcs == ProcessorPcs \cup {"failed", "cancelled"}

\* At most one job is running, and it is the one the runner works on: no exit
\* from the processor, no crash and no restart leaves another one behind.
\* (A fault may: RecordFailed and RecordCancelled can fail to be written.)
SingleWorker ==
    Up /\ faults = 0 =>
        \A j \in Jobs : job[j].status = "running" <=>
                            runner.pc \in WorkPcs /\ runner.job = j

\* Nobody takes the meeting or its audio away from the processor: deleting is
\* refused while a job is active, whatever status the meeting shows.
WorkIsProtected ==
    runner.pc \in WorkPcs /\ faults = 0 =>
        /\ JobExists(runner.job)
        /\ job[runner.job].meeting = runner.meeting
        /\ Exists(runner.meeting)
        /\ AudioOnDisk(runner.meeting)

\* Between the transactions that end a job and the one that fails its meeting.
HandlingFailure(m) ==
    runner.pc \in {"requeue", "failMeeting", "cancelMeeting"} /\ runner.meeting = m

CanRetry(m) == \E j \in Jobs : job[j].meeting = m /\ job[j].status \in {"failed", "cancelled"}

Finished(m) == {j \in Jobs : job[j].meeting = m /\ job[j].status \in Terminal}

\* What readers are told of a transcript agrees with its rows: a ready meeting
\* has text, and a refined one has the final rows of a job, whatever drafts,
\* retries and reprocessings came before or after.
StatusMatchesText ==
    \A m \in Meetings :
        /\ meeting[m].status = "ready" => meeting[m].text # {}
        /\ meeting[m].state = "refined" => "final" \in meeting[m].text

\* A meeting that shows processing is on its way out of it: its session is
\* alive or a job of it is active, or the handlers of the runner are about to
\* fail it.  If the process dies under them, there is still a job the user can
\* retry, unless a prune took that job for having KeepFinished newer ones.
\* (While the process is down a live meeting waits for the restart.)
HasRecourse(m) ==
    \/ live[m] \in LivePcs \ {"off", "prune", "notify"}
    \/ HasActive(m)
    \/ ~Up /\ meeting[m].source = "live"
    \/ /\ HandlingFailure(m) \/ crashes > 0
       /\ CanRetry(m) \/ Cardinality(Finished(m)) >= KeepFinished

ProcessingHasRecourse ==
    faults = 0 => \A m \in Meetings : meeting[m].status = "processing" => HasRecourse(m)

\* Only the user takes a job out of cancelled; the automatic retry, which looks
\* at no status, does not, whatever happened since the job failed.
CancelledStaysCancelled ==
    [][\A j \in Jobs : job[j].status = "cancelled" /\ job'[j].status # "cancelled" =>
         \/ job'[j].status = "none"
         \/ \E c \in Clients : client'[c] = [pc |-> "notify", job |-> j, meeting |-> NoMeeting]
      ]_vars

\* A job completes only over the transcript it just published, to which nothing
\* but a model call its own session gave up on has added.
CompletedIsPublished ==
    [][\A j \in Jobs : job[j].status # "completed" /\ job'[j].status = "completed" =>
         LET m == job[j].meeting IN
         /\ "final" \in meeting'[m].text
         /\ meeting'[m].text # {"final"} => stuck[m]
      ]_vars

\* Without database faults the job rows go through the life cycle of
\* JobLifecycle and no other.
JobStatus == [j \in Jobs |-> job[j].status]
JobHistory == 1..(nextJob - 1)

Life == INSTANCE JobLifecycle
            WITH JobIds <- Jobs, status <- JobStatus, history <- JobHistory

FollowsLifecycle == Life!LifeSpec

-----------------------------------------------------------------------------
(* The inductive invariant behind the safety properties.                   *)

\* The locals of each process name rows whenever it uses them, and there is a
\* chunk to transcribe whenever one is.
LocalsNameRows ==
    /\ runner.pc \in {"cpAsr", "asr"} => runner.left # 0
    /\ runner.pc \in WorkPcs \cup {"requeue", "failMeeting", "cancelMeeting"} =>
           runner.job \in Jobs /\ runner.meeting \in Meetings
    /\ \A c \in Clients :
         /\ client[c].pc \in {"cancelQueued", "reread", "flag"} => client[c].job \in Jobs
         /\ client[c].pc \in {"enqueue", "unlink"} => client[c].meeting \in Meetings

\* The runner's claim is in the table for as long as it works on it.
ClaimIsRecorded ==
    runner.pc \in WorkPcs =>
        /\ job[runner.job].status = "running"
        /\ job[runner.job].meeting = runner.meeting

\* Cancelled jobs keep the request that cancelled them.
CancelledWasRequested ==
    /\ \A j \in Jobs : job[j].status = "cancelled" => job[j].cancel
    /\ runner.pc = "cancelled" => job[runner.job].cancel

\* Files are unlinked only for meetings that are gone for good.
UnlinkAfterDelete ==
    \A c \in Clients : client[c].pc = "unlink" => meeting[client[c].meeting].status = "deleted"

\* Without faults no running row is left behind.
RunningIsWorkedOn ==
    faults = 0 =>
        /\ Up => \A j \in Jobs : job[j].status = "running" =>
                       runner.pc \in WorkPcs /\ runner.job = j
        /\ ~Up => \A j, k \in Jobs :
                       job[j].status = "running" /\ job[k].status = "running" => j = k

\* Without faults no audio path dangles, and every job has one to work on.
PathsResolve ==
    /\ \A m \in Meetings : meeting[m].audio => Exists(m)
    /\ faults = 0 =>
         /\ \A m \in Meetings : meeting[m].audio => wav[m] # "none"
         /\ \A j \in Jobs : JobExists(j) => meeting[job[j].meeting].audio
         /\ \A m \in Meetings : live[m] # "dropAudio"

RowsInv ==
    /\ TypeOK /\ JobsHaveMeetings /\ LocalsNameRows
    /\ ClaimIsRecorded /\ CancelledWasRequested
    /\ RunningIsWorkedOn /\ PathsResolve /\ UnlinkAfterDelete

\* A session has its meeting to itself until it is finalized: no job of it
\* exists, the runner is not at work on it, and nobody has settled its status.
\* It ends with the process.
SessionOwnsMeeting ==
    /\ ~Up => \A m \in Meetings : live[m] = "off" /\ ~stuck[m]
    /\ runner.meeting \in Meetings => meeting[runner.meeting].status # "absent"
    /\ \A m \in Meetings :
         /\ live[m] # "off" =>
                /\ meeting[m].status # "absent"
                /\ Exists(m) => meeting[m].source = "live"
         /\ live[m] \in {"recording", "deferred"} =>
                /\ meeting[m].status = "processing"
                /\ runner.meeting # m
                /\ \A j \in Jobs : JobExists(j) => job[j].meeting # m

\* The row the handlers of a failure would queue again is the one they work on.
HandlerNamesItsRow ==
    runner.pc \in WorkPcs \cup {"requeue"} =>
        /\ runner.job < nextJob
        /\ JobExists(runner.job) => job[runner.job].meeting = runner.meeting

\* The processor decides on a draft once, when it starts; the rows it would
\* replace stay unrefined until it publishes its own, and those stay until the
\* job completes.
PublishesInOrder ==
    /\ runner.pc \in {"cpDraft", "draft"} => runner.plan = "draftFirst"
    /\ runner.plan = "draftFirst" =>
           /\ runner.pc \in ProcessorPcs
           /\ runner.pc # "complete" => meeting[runner.meeting].state = "draft"
    /\ runner.pc = "complete" =>
           /\ "final" \in meeting[runner.meeting].text
           /\ meeting[runner.meeting].text # {"final"} => stuck[runner.meeting]

IInv ==
    /\ RowsInv
    /\ SessionOwnsMeeting /\ HandlerNamesItsRow /\ PublishesInOrder

-----------------------------------------------------------------------------
(* Liveness, under FairSpec and without database faults.                   *)

\* A cancelled job nobody will ever claim (see CancelledNeverStranded).
Stranded(j) == job[j].status = "queued" /\ job[j].cancel

\* Every queued or running job ends, through retries, crashes and restarts:
\* the runner is woken for each job that is inserted and leaves none running.
EveryJobEnds == \A j \in Jobs : Active(j) ~> ~Active(j) \/ Stranded(j)

\* A meeting does not stay in processing once its session is over: some path
\* through the handlers of the runner or of the session settles its status.
\* (A crash between the failure of a job and that of its meeting leaves it to
\* the user, who can retry the job.)
ProcessingEnds ==
    \A m \in Meetings :
        meeting[m].status = "processing" /\ live[m] # "recording" ~>
            \/ meeting[m].status # "processing"
            \/ live[m] = "deferred"
            \/ \E j \in Jobs :
                 /\ job[j].meeting = m
                 /\ \/ Stranded(j)
                    \/ crashes > 0 /\ job[j].status \in {"failed", "cancelled"}

-----------------------------------------------------------------------------
(* What comments and messages of the source say and the code does not do.  *)

\* request_cancel: a cancelled job is never left queued, where claim_next skips
\* it and its meeting stays in processing.
CancelledNeverStranded == \A j \in Jobs : ~Stranded(j)

\* The wake-up of a retried or reprocessed job is never lost: notify() from a
\* thread wakes the runner.
QueuedIsClaimed == \A j \in Jobs : Claimable(j) ~> ~Claimable(j)

\* A live meeting the restart fails for lack of a job can be processed again.
InterruptedLiveCanBeReprocessed ==
    [][~Up /\ Up' =>
         \A m \in Meetings :
            (/\ meeting[m].source = "live" /\ meeting[m].status = "processing"
             /\ meeting'[m].status = "failed" /\ meeting'[m].audio)
                => MayReprocess(m)']_vars
=============================================================================
