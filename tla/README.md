# matrix-live-diarizer: a TLA+ verification project

The repository is a single-process FastAPI service that records or receives
meetings, transcribes them, separates the speakers and keeps the result in
SQLite. This directory holds TLA+ modules translated from its source, the TLC
configurations that check them, and TLAPS proofs about them. Paths are relative
to `src/`.

## 1. The system

| component | source | state it keeps | operations |
|---|---|---|---|
| job queue | `app/repositories/jobs.py` | `processing_jobs` rows: status, `cancel_requested`, `retry_count`, meeting | create, enqueue_refinement (with pruning), claim_next, update, request_cancel, retry, requeue_for_retry, recover_interrupted |
| job runner | `app/services/job_runner.py` | one task, the `asyncio.Event` it sleeps on | the loop of `_run`, start (recovery), stop, notify |
| meeting processor | `app/services/meeting_processor.py` | locals of one `__call__` | decode, transcribe chunk by chunk, publish a draft, diarize, publish, complete; a checkpoint before each |
| meeting repository | `app/repositories/meetings.py` | `meetings`, `transcript_segments`, `speakers`, WAV files | create, update, delete, replace rows, append a live row, finalize, edit speakers and text |
| HTTP endpoints | `app/api/*.py` | none of their own | synchronous ones in a thread pool, uploads and WebSockets on the loop |
| live session | `app/api/websocket.py` | audio queue, speech state machine, WAV writer, processor task | receive, segment, transcribe, append, close, defer, finalize |
| inference coordinator | `app/runtime.py` | `_active`, `_live_waiters`, `_offline_starving`, a condition; the watchdog's holder and leak flag | `live()`, `offline()`, `_release`, the probe of `/ready` |
| engines | `engine/`, `app/api/engines.py` | singleton factories, the runtime's two engine pointers, speaker clusters per session | load, switch, extract, transcribe |
| people | `app/api/people.py`, `app/repositories/people.py` | people, voice samples, their files | enrol, delete, match |
| transcript editing | `app/api/meetings.py`, `app/repositories/meetings.py` | rows and speakers of a meeting | edit, assign, confirm, merge, split |
| texts | `meeting_processor.py`, `session.py`, `speaker_alignment.py` | the text of a job or a session | join chunks, remove what was shown, give words to speakers |
| authentication | `app/api/auth.py`, `app/services/auth.py`, `realtime_auth.py` | users row, signed tokens, revoked set | log in and out, change password, revalidate sockets |
| rate limits | `app/middleware/rate_limit.py`, `realtime_auth.py` | sliding windows and locks per address | admit, lock, sweep |
| LLM gateway | `app/services/llm_gateway.py`, `app/api/llm.py` | settings, the patched resolver and its lock | save, test, call |
| schema | `app/repositories/database.py` | the database's own version and columns | bootstrap, upgrade, repair |
| web client | `web/src` | placeholders, socket | record, reconnect, show |

How they interact. Endpoints and live sessions insert jobs and call `notify()`;
the runner claims the oldest one and awaits the processor; processor, live
sessions and enrolments share the models through the inference coordinator; all
of them write the same rows. Only the event loop serialises anything: everything
between two `await`s is atomic for coroutines, but synchronous endpoints run in
threads, and each of their transactions may fall between any two statements of
the runner. The process may be killed anywhere, and the next start repairs the
tables.

What makes it hard: transactions of threads between the runner's steps, reads
used after the row changed, two commits where one is meant, a kill between them,
model calls that cannot be interrupted, one flag shared by several waiters, and
time-outs that fire while somebody else is the cause. `PROJECT.json` lists each
hazard at its line.

What correctness means, per component:

- queue and runner: one job at a time; a job runs until it ended; a cancelled
  job stays so; every job ends; the work of a job is not deleted under it;
- meeting: its status agrees with its rows; *processing* is never a dead end; a
  completed job has published what it computed;
- coordinator: one model call at a time, live work first, no offline work
  starved, no wake-up lost, the watchdog's record true;
- session: text and time stay aligned, a result meets its placeholder, nothing
  accepted is left behind, the end comes;
- transcript: an edit changes the rows the user saw or none, a confirmed name
  follows its voice, and names, confirmations and people agree;
- texts: nothing lost, doubled or given to somebody else at a seam;
- people: no row without its file, no recording twice;
- engines: the runtime ends with the manager's engine, an ended session leaves
  nothing behind, a label shown keeps its speaker;
- access: it ends with the password, the sign-in and the account; limits hold
  whatever is in flight, and nobody is locked out who did not fail;
- gateway: a strict endpoint is reached at the address it was checked with;
- schema: every start completes what an earlier one left.

## 2. Modules

| module | what it is |
|---|---|
| `MeetingStore` | the two tables and the WAV files; one operator per committed transaction |
| `MeetingPipeline` | the processes over the store: runner and processor, API requests, live sessions, kill and restart, failing writes |
| `JobLifecycle` | abstract specification of the queue, which `MeetingPipeline` implements (`FollowsLifecycle`) |
| `InferenceSlot` | `InferenceCoordinator` and the watchdog, one program counter per task |
| `PrioritySlot` | abstract specification of the slot, which `InferenceSlot` implements (`FollowsPriority`) |
| `LiveSession` | one WebSocket session: receiver, bounded queue, processor, recording, end |
| `VoiceSamples` | people, their samples and the files of the samples |
| `Transcript` | rows and speakers of meetings, edits, new transcripts; extends `VoiceSamples`, whose people it names |
| `ChunkText` | one text out of overlapping chunks |
| `LiveText` | the increments of a live session's text |
| `SpeakerAlignment` | segments and words given to the turns of speakers |
| `RateLimits` | request, login and connection windows |
| `AuthSessions` | the account, its tokens, and the sockets that rest on them |
| `LlmGateway` | settings, requests and the patched resolver |
| `SchemaUpgrade` | `init_schema`, statement by statement |
| `EngineSwitch` | the two engine managers, the endpoints that switch, the sessions' snapshots |
| `SpeakerClusters` | the anonymous speakers of one session |
| `MCMeetingPipeline`, `MCInferenceSlot`, `MCLiveSession`, `MCTranscript`, `MCServices` | instances for TLC |
| `MeetingPipelineProofs`, `MeetingLifecycleProofs`, `MeetingStatusProofs` | theorems about `MeetingPipeline`: rows and claims (with the lemmas about the store's transactions), the life cycle, status and text |
| `InferenceSlotProofs`, `LiveSessionProofs` | theorems about the slot and the session |
| `TranscriptProofs` | theorems about `VoiceSamples` and `Transcript` |
| `TextProofs` | theorems about `SpeakerAlignment`, `LiveText` and `ChunkText` |
| `ServicesProofs` | theorems about `EngineSwitch`, `LlmGateway`, `AuthSessions`, `SchemaUpgrade`, `SpeakerClusters` and `RateLimits`, and the types of all in `MCServices` |

`MCTranscript` and `MCServices` hold several components in one instance: a
variable `part`, chosen at the start, says which one a behaviour is about, and
the others keep their first state. Their states are therefore the sum of the
parts' states and not the product. Where components share state they are
composed instead: `Transcript` acts on the people of `VoiceSamples`
(`DeleteNamedPerson`, `Restart`), and the part `edit` runs both.

### MeetingStore and MeetingPipeline

`meeting` and `job` are the tables, `nextJob` numbers inserted rows, `wav` is
the file of each meeting. Job ids stand for creation order. (`created_at` has a
resolution of a second; rows inserted in the same second are claimed in the
order SQLite finds them, which is insertion order.) Text is abstracted to where
its rows come from: `live`, `draft`, `final`. Error messages, progress numbers,
titles and durations are left out; the comparison of WAV length and duration
that guards reprocessing is modelled by the state of the file: closed whole, cut
at the size cap, or left `unpatched` by a killed process, whose header counts
only the frames of the first write.

`runner` is the program counter and the locals of `JobRunner._run` and of the
`MeetingProcessor.__call__` it awaits. A `cp...` value is a checkpoint, at which
`cancel_requested` is read. `LoopHeld` lists the points with no `await` behind
them: there the runner holds the event loop, and only threads act. `client`
holds a synchronous request between its transactions: `request_cancel` has four
of them. `live` is the phase of a session; `deferred` is a session whose
processor still owns a model call, `stuck` one that was given up by
`_finish_deferred_processor` and may append a late row. `wake` is the event.

`Crash` keeps the tables and files and drops the rest. `RunnerFault` and
`LiveFault` are writes that raise, one per exception handler.

`Upload` is one step: the coroutine saves the file, inserts both rows and
notifies; the row is not visible before. `Reprocess` reads in one step and
enqueues in another, and prunes and notifies after the commit.

### InferenceSlot

`pc` says where each task is: not there, asleep in the condition, woken and
still to run, inside. The lock of the condition is never held across a
suspension, so what a task does from waking to sleeping is one action. The order
in which woken tasks run is open. `calling` is the set of worker threads inside
a model: it outlives the coroutine where the code does not shield it. A
time-out is `late` when it fires and `starved` when the task has noticed it,
since it raises the flag only then.

### LiveSession

One session from the first frame to its finalization, as the two coroutines see
it: `receiver` says what `websocket_endpoint` awaits, `proc` what
`audio_processor` and the `_process_speech_segment` it calls await, and each
action is what one of them does from one `await` to the next. `send_json` is
taken not to suspend between two reads that matter. `voice` holds the
processor's locals: the state, `speech_buffer`, the offset where it starts, the
count of silence and `last_processed_end_sample`. `why` remembers from which of
the five places the segment was handed over, since each goes on differently
(`Resume`); what follows a classification is one operator (`Hear`) because the
gap branch falls through to it after its call.

Frames have one length, which is the unit of all offsets; the samples of a frame
are its number, so that a buffer shows what was joined and a recording what was
written where. Speech or not, text or none, are choices. A row keeps the frames
it was heard in, the number it was sent with and the last placeholder announced.
`receiver = "create"` and `"path"` are the two awaits inside
`_append_live_audio`; `"draining"` is the wait of the `finally` clause,
`"deferred"` the background task that takes it over, and `outcome.early` says
that the session was finalized while the processor still had work, by the second
time-out or by a shut-down. `MeetingPipeline` has the tables' side of the same
session (`LiveStart` to `LiveNotify`); `InferenceSlot` has the inside of
`proc.pc = "model"`.

Left out: merging of incremental text (`LiveText`), word times (a row spans its
buffer), the speaker's name, the credentials checked between frames (they can only end the
session: `Leave`), and a failure to open or write the file once it was created.

### VoiceSamples and Transcript

`samples` and `files` are the rows and the voice directories; an enrolment is
`received` when its upload is on disk, `hashed` once `has_sample_hash` found no
equal recording, and then waits for the model. `Enroll` is the insert with what
the foreign key and the unique index refuse. A deletion reads its paths before
its transaction and unlinks after the commit, file by file, each of which may
fail. A cancelled request leaves its file: `CancelledError` is no `Exception`.

`rows` and `speakers` are the transcript of every meeting. Time is a few slots,
each of which has one segment in every transcript; `Voice` says who really
speaks in a slot, which no code knows and `NamesFollowVoices` needs. `Replace`
is `replace_generated_transcript` with `_confirmed_identity_mapping` (its shares
and margins compared as integers), `Decide` and `Suggest` the matching of people
after it. An `edit` is a request between `_require_mutable_meeting` and its
transaction; it names rows and speakers of the page the user saw, of any
meeting. Users say the truth about the voices they hear (`Truthful`): without
that no name could be right.

### ChunkText, LiveText, SpeakerAlignment

The three algorithms run over everything small that can come in, one chunk, one
frame or one segment list at a time. What an engine hears is a choice wherever
the code cannot know it: halves of words at the edge of a chunk, a point within
a text, the turns of speakers. Tokens are sequences of characters, since
overlaps are removed character by character.

In `ChunkText` a chunk is as long as the code's arithmetic makes it, and an
engine either times its words, or gives one text per chunk, or several segments
without words (`results`). `LiveText` follows `last_full_text` through the
places where the context is kept (a segment cut at its limit, no frame for a
second) and where it is forgotten (a pause, a gap). `SpeakerAlignment` follows
words from `_absolute_words` to `_merge_adjacent`: any number of segments, each
with or without times, and the turns sorted as `_valid_turns` sorts them. The
loops of all three are recursive functions over the position in their list, as
`groups` in `ByWords` or `kept` in `Kept`.

### RateLimits and AuthSessions

`log` is the list of requests of each address and `tracked` its keys. A login is
two steps: what happens before `call_next`, and what its response adds; in
between it is counted by `InFlight`. `failures`, `admitted` and `dialled` are
histories: what was let through or has failed, whether or not a list still has
it. Entries are numbered, so that two of the same second are two. Capacity sweeps
drop the least recently seen addresses with their lists, and the history of such
an address begins anew (`KeepHistory`): of an address the server has forgotten
nothing can be claimed. `_ws_rate_limited` has a list of its own.

A token is its number, with the password, the stamp `pwd_iat`, the expiry and
the key it was signed with. Login, logout and change of password are as many
steps as they have transactions. A socket checks its token at the top of its
loop, at most once per interval (`Due`), and then waits for a message no longer
than the receive time-out, which is what bounds `SocketsFollow`; a check that
could not read the database costs an interval and a receive more. A change of
password that was overtaken by a later one sets the stamp back, and what the
later one had ended counts again: `dead` says since when a token is worth
nothing, and `ChangeCommit` takes it back. A restart drops
the revoked set, and the key as well unless `JWT_SECRET` is set.

### LlmGateway and SchemaUpgrade

A caller is one request: it reads the two settings in two transactions, is built
(`BuildGateway` validates the endpoint and keeps the address), and makes its
calls one after another. `dns` may change at any time, and the host is one of
three kinds: a name, a name that is in `allowed_hosts`, an address.
`patchLock`, `pins` and `patched` are the process's. Cancellation may fall on
every `await`.

`disk` is what is committed and `view` what the connection sees. The Python
driver opens a transaction before an `INSERT` or `UPDATE` and not before DDL, so
an `ALTER TABLE` commits at once unless an `UPDATE` went before; `executescript`
commits first. `Legacy` lists the databases older versions left.

### EngineSwitch and SpeakerClusters

`kind` chooses between the two managers, which differ in locking (the ASR
manager refuses a second switch, the speaker manager waits), in cache size and
in the moment of eviction. `switch` is a PUT request: `switch_engine` runs in a
thread, and `tail` is the rest of its handler on the event loop. `served` is
what the runtime gives to new sessions, `live` a session with its snapshot, and
`kept` what an engine holds for it.

`clusters`, `pending` and `edges` are what `compare_and_identify` keeps for a
session; `flavor` chooses CamPlus or the code ERes2Net and Wespeaker share. How
far an utterance is from each cluster is chosen anew each time.

## 3. What is checked

| run | question | bounds | distinct states, time with four workers |
|---|---|---|---|
| `pipeline_races` | every interleaving of two API requests with the runner, against the life cycle | 1 meeting, 2 requests, 2 jobs, 2 automatic retries | 1,716,327, 53 s |
| `pipeline_recovery` | a kill or one failing write at any step, with uploads, a live session and every request | 1 meeting, 1 request, 2 jobs, one finished job kept, 1 trouble | 3,477,622, 73 s |
| `pipeline_liveness` | jobs end and meetings leave processing, under fairness | 1 meeting, 1 job, 2 chunks, 1 kill | 19,615, 4 s |
| `slot` | the coordinator's safety, its refinement, and that offline work runs | 3 live tasks, 1 job, 2 enrolments | 69,788, 23 s |
| `live_session` | one session's order, time line, placeholders and end | 5 frames, queue of 3, recording capped at 3 frames, segments of 3, 2 failed calls | 293,684, 17 s |
| `transcript` | people, samples, edits and new transcripts; the three text algorithms | 2 meetings, 2 people, 2 enrolments, 1 edit at a time, 2 edits, 2 new transcripts; 4 words in chunks of 5 quarters; 4 live words; 3 words in up to 3 segments and 2 turns | 771,390, 58 s |
| `services` | the seven services, each on its own | 2 addresses, 2 logins, 3 ticks; 2 tokens, 1 socket, 1 change, 1 restart; 2 LLM requests of up to 2 calls, 1 save; 2 stops of an upgrade; 3 engine types, 3 loads, 2 switches, 1 session; 6 utterances | 911,102, 65 s |
| `cancel_strands`, `retry_unclaimed`, `interrupted_live`, `slot_false_leak`, `identity_majority` | disagreements of section 6 | smallest that show them | |

Properties:

- `SingleWorker`: without failed writes, a job is *running* exactly while the
  runner works on it.
- `WorkIsProtected`: nothing takes the meeting or the audio from the processor.
- `StatusMatchesText`: a ready meeting has rows, a refined one final rows.
- `ProcessingHasRecourse`: a meeting in processing has a live session, an active
  job, or handlers about to fail it; if the process dies under those, a failed or
  cancelled job the user can retry, unless a prune took it (section 6).
- `CancelledStaysCancelled`, `CompletedIsPublished`: action properties of the
  automatic retry and of completion, over the rows the job published and, at
  most, what a given-up session's late call added to them.
- `FollowsLifecycle`, `FollowsPriority`: refinement.
- `EveryJobEnds`, `ProcessingEnds`, `OfflineRuns`, `SlotGetsUsed`: liveness.
- `NoLostWakeup`, `OneModelCall`: the coordinator against its tasks.
- `IInv` in the pipeline and in the slot: the inductive invariants of the proofs.
- `RowsOnTimeline`: a row claims no time outside the speech it was heard in, and
  rows are in order, with gaps, pauses and carried context between them.
- `NoJoinAcrossGap`: frames on both sides of a dropped one are never one segment.
- `PairedOnce`: a result bears its own utterance's placeholder number, once.
- `RefinementHearsAll`: a refinement, which replaces all rows, is queued only
  over a recording with everything they were heard in, frame n at position n.
- `OneMeeting`: receiver and processor create one meeting between them.
- `NothingLeftBehind`, `SessionIsFinalized`: a session in order is finalized after
  its last row and an emptied queue, and every stopped session is finalized.
- `SamplesSound`: every sample has its file and its person, and a person has a
  recording once, whatever fails between a check, a commit and an unlink.
- `EditsLandWhereAimed`: a late edit hits the row the user saw, or none.
- `SpeakersAgree`: speakers, rows, names, confirmations and people agree.
- `NamesFollowVoices`: a confirmed name stays with its voice through new
  transcripts, when the diarization never mixes two voices.
- `TextComesOut`, `ShownOnce`, `AlignmentSound`: nothing lost, doubled, moved or
  given to somebody else, within the limits their comments name.
- `Budgets`: an address has no more logins in a window that failed or are still
  undecided than its limit, no more requests in a minute or an hour (except what a
  login that succeeded cleared from the hour), and no more connections.
- `LocksAreEarned`: failures the server has seen, not attempts in flight, lock an
  address.
- `AccessEnds`: a token ends with its password and its logout, and a socket within
  an interval and a receive of that, and as much again per check that failed.
- `PinnedCalls`: the resolver's patch belongs to one call, and a strict call goes
  to the address it was validated with.
- `UpgradesComplete`: a start refuses only unknown versions, and a server that is
  up has every column, name, index and account.
- `SettledOnCurrent`, `EnginesReleased`: the runtime ends with the manager's
  engine; engines are loaded once, kept while current, and forget ended sessions.
- `SpeakersCounted`: a label shown has one speaker, whose count is the number of
  utterances shown with it.

Why the bounds are enough. Rows of different meetings meet only in the queue
order and in the single runner, and the two-job runs have a second job waiting
behind a running one already for one meeting; two requests are what it takes for
a read and a write of one to enclose another. One kill between any two steps,
with its restart, reaches every state recovery can see, since recovery empties
the runner; a kill and a failing write are not combined in one execution
(`OneTrouble`). `KeepFinished` is 5 in the code and 1 in `pipeline_recovery`:
the second job may end between its insertion and the pruning that follows, and
the first is then dropped. `RetryBound` only limits how often a user retries by
hand. Three live tasks give one inside, one woken and one asleep; two
enrolments give an abandoned call beside a waiting one.

In `live_session` the lengths keep the order of the defaults where it matters
(context shorter than a segment, a shortest segment shorter than the context),
and five frames are enough to fill the queue and drop one while a model runs, to
cut a segment, carry its context over and meet a gap, and to pass the cap. Two
calls fail, since the processor creates the meeting only after the receiver
failed to, and may fail as well. The
skip inside the processor's loop needs `KeepRecent` below the queue size, which
the defaults (25 and 8) do not have and the comment at `websocket.py:498-501`
foresees; the run has it.

In `transcript` three slots give a label a majority and a rest, so a share can
lie on either side of 60 percent; a second meeting gives requests something
foreign to name; two runs are a transcript and another one after it was edited.
Four words of two quarters in chunks of five overlapping by two put a word
whole, cut and missing on each side of a seam, and one of the tokens begins like
another. `MaxChars` (80) is never reached by texts that small. Four live words
with segments of three and a context of two pass the limit twice. Three words of
one unit in four make one to three segments, wider than their words by up to
`MaxMargin` on each side, with and without times, under two turns that may overlap.

In `services` the limits are the smallest with something below them: two logins
in flight are one too many beside a failure, a window of two ticks and an hour
of three both end by the clock's last tick, the third, with entries still kept,
and `MaxTracked` of one makes every second address a sweep, in which either may be
dropped. `FewEvents` leaves out combinations that add states and no case: the
address that never logs in has at most one entry, a restart is not combined with failing reads
or password changes (a stamp is in the database and survives it), one test of
the settings runs at a time, no settings are saved while names do not resolve.
Symmetry is used for login requests and LLM callers, which are compared for
equality only, in properties that are invariants or concern single steps. Three
engine types fill the larger cache and evict. Six utterances confirm one pending
speaker and overflow the pending list, of three in place of five; distances lie
on each side of each limit.

Deadlock is not checked: once the bounds are used up the system may rest, and a
runner asleep over an empty queue is a legitimate end. `WorkIsProtected`,
`SingleWorker` and `ProcessingHasRecourse` are stated for executions in which no
write has failed; what the failing writes of `pipeline_recovery` test is
`StatusMatchesText`, `CompletedIsPublished` and the rest of `IInv`.

Fairness. The event loop and the thread pool run what is ready, so the runner's
loop, the processor, requests in flight and the finalization of a session are
weakly fair; a killed process is started again by its supervisor
(`docker-compose.yml`, `restart: unless-stopped`). Nothing makes a user act, a
session end or a write fail. In `InferenceSlot`, woken tasks run, model calls
return and clocks tick; no task is obliged to arrive. A model call that never
returns is the watchdog's business and outside these liveness claims.

In `LiveSession` threads return and armed time-outs fire, on both sides, and a
receiver whose session was stopped hears something or times out; a model may
never answer, and nobody has to speak or leave. `SessionIsFinalized` rests on
the two time-outs of the end, not on the processor.

`OfflineRuns` is claimed while no other offline task is about. With several it
does not hold: the first one served clears the shared `_offline_starving`, and a
second starved task never raises it again (`runtime.py:206`), so it waits for a
moment with no live waiter.

The other modules state no liveness: their requests end by themselves, and what
could be wrong with them is what they leave behind.

## 4. What is proved

TLAPS proves, for every value of the constants allowed by the assumptions:

| theorem | module | states |
|---|---|---|
| `TypesHold`, `RowsHold` | `MeetingPipelineProofs` | `TypeOK`, `RowsInv` |
| `OneWorker`, `WorkProtected` | `MeetingPipelineProofs` | `SingleWorker`, `WorkIsProtected` |
| `CancelIsFinal` | `MeetingLifecycleProofs` | `CancelledStaysCancelled` |
| `QueueKeepsLifecycle` | `MeetingLifecycleProofs` | `FollowsLifecycle`, for `MaxFaults = 0` |
| `InvariantHolds` | `MeetingStatusProofs` | `IInv` |
| `StatusAgreesWithText`, `CompletesPublished`, `ProcessingIsNoDeadEnd` | `MeetingStatusProofs` | `StatusMatchesText`, `CompletedIsPublished`, `ProcessingHasRecourse` |
| `SlotInvariant`, `WakeupsArrive`, `CallsExclude`, `KeepsPriority` | `InferenceSlotProofs` | `IInv`, `NoLostWakeup`, `OneModelCall`, `FollowsPriority` |
| `SessionTypes`, `SessionHasOneMeeting`, `ResultsPaired` | `LiveSessionProofs` | `TypeOK`, `OneMeeting`, `PairedOnce` |
| `RowsAreOnTimeline`, `GapsSeparate` | `LiveSessionProofs` | `RowsOnTimeline`, `NoJoinAcrossGap` |
| `RefinementHears`, `EndsClean` | `LiveSessionProofs` | `RefinementHearsAll`, `NothingLeftBehind` |
| `SamplesStaySound` | `TranscriptProofs` | `SamplesSound` |
| `TablesAgree`, `EditsAreNotMisplaced` | `TranscriptProofs` | `SpeakersAgree`, `EditsLandWhereAimed` |
| `NamesStayWithVoices` | `TranscriptProofs` | `NamesFollowVoices`, under `OneEditor` and `UnmixedVoices` |
| `SettlesOnCurrent`, `EnginesAreReleased` | `ServicesProofs` | `SettledOnCurrent`, `EnginesReleased` (by way of `EndedSessionsLeaveNothing`) |
| `CallsStayPinned` | `ServicesProofs` | `PinnedCalls` |
| `AccessDoesEnd` | `ServicesProofs` | `AccessEnds` |
| `UpgradeCompletes` | `ServicesProofs` | `UpgradesComplete` |
| `LabelsAreCounted` | `ServicesProofs` | `SpeakersCounted` |
| `LimitsTyped`, `BudgetsAreKept`, `LocksFollowFailures` | `ServicesProofs` | `LimitTypes`, `Budgets`, `LocksAreEarned` |
| `ServicesTyped` | `ServicesProofs` | `TypesOK`, for every part of `MCServices` |
| `AlignmentKeepsText` | `TextProofs` | `AlignmentSound` |
| `LiveTextIsShownOnce` | `TextProofs` | `ShownOnce` |
| `ChunksComeOut` | `TextProofs` | `TextComesOut`, under `OverlapsAreShort` |

`MeetingPipelineProofs` begins with what each transaction does to the tables,
stated once and cited per action. The invariant of the pipeline is needed because neither
`SingleWorker` nor `WorkIsProtected` is inductive: that no row is left running
needs `ClaimIsRecorded` (the claim is in the table wherever the runner works on
it) and, across a kill, that at most one row says running; that the audio stays
needs `PathsResolve` (a path names a file, and every job's meeting has one) and
`UnlinkAfterDelete`. `faults = 0` appears inside the invariant because a failed
write does leave such rows behind. The refinement to `JobLifecycle` is by cases
over the actions: each maps to one abstract step or to a stutter, given the
invariant for `Run`, which needs the worker to be idle.

All of that is `RowsInv`. What a meeting shows needs three more parts of `IInv`.
`SessionOwnsMeeting`: until a session is finalized its meeting is in processing,
no job has it and the runner is not at work on it, so nobody else settles its
status. `HandlerNamesItsRow`: the row the handlers of a failure would queue again
is that of the meeting they fail. `PublishesInOrder`: the processor decides on a
draft once, and what it published stays until the job completes, since everything
that could replace it waits for a job of the meeting to end. `MeetingStatusProofs`
first says of every action which of a dozen changes it makes to a meeting's row
(`RowStep`), and then argues by the kind of change. For `ProcessingIsNoDeadEnd`
a meeting's jobs move forward only (`JobsOnward`), and a prune that removes a
finished job leaves `KeepFinished` newer ones, of which the largest number is
one; this is the only place where the numbering of jobs matters.

For the slot, `ActiveMatches` (the flag is up exactly while one task is inside)
carries mutual exclusion; the waiter count is a cardinality, so each action's
change of it is an added or a removed element; `NoLostWakeup` is inductive
because every action that makes a condition true also wakes the sleepers.

For the session, `Owned` says what the order of `_append_live_audio` and
`put_nowait` brings about: until the meeting exists the processor has had
nothing to hear (`Untouched`), so it cannot be the second to create one.
`Numbered` adds to `PairedOnce` that the pending number is the last announced
and not yet on a row. `Timeline` carries both theorems about rows: the queue
holds the last frames without a hole (`Ordered`), so a gap is always between
the buffer and the queue's head; frame numbers rise by at least one along a
buffer, so the context kept by `CarryOver` is never given a start before its
first frame; and a row starts where its buffer does. `RefinementHearsAll` adds
the recording (`Recorded`): without failed calls frame n is at position n, the
file stops at the cap and the session is marked before the next frame is
written; and what was recognised had been received (`RowsHeard`).
`NothingLeftBehind` is carried by the order of the end (`EndsInOrder`): the
processor flushes only after the receiver stopped and the queue was drained.

For the engines, `SwitchInv` adds to `SettledOnCurrent` that the runtime has no
engine while the manager has none, since a handler publishes what it finds
current; `ScopeInv` adds that an engine keeps something of a session only if it
is the one of the session's snapshot, which is why the snapshot's engine is the
one to clean up. `CacheInv` adds what keeps the engine in use cached: an engine is
found by its type, one for each type (`OnePerType`); the request between lock and
handler is the one that holds the lock; and what the speaker manager evicts is
never of the current type, nor the engine just loaded (`Trimming`).

For the samples, `VoiceInv` adds who owns a file: one row, or one enrolment, or
one deletion (`FilesHaveOneOwner`, `EnrolmentsHaveFiles`, `DeletionsOwnPaths`).
The paths a deletion read stay its own because no other row can get them.

For the transcript, `TablesInv` adds to `SpeakersAgree` that a label a split made
has its speaker's number (`LabelsNumbered`), what a match under way may still
write (`MatchesTyped`), and that the rows an edit names were
there before: once a new transcript is in, none of its rows has a number a late
edit could name (`EditsKnowTheirPage`). `NamesStayWithVoices` has two hypotheses.
`OneEditor`: of two edits admitted together each may be true of the page it saw
and the second wrong of what the first left, so that nothing can be said of names
then. `UnmixedVoices`: a label on two voices has no right name. With them
`NamesInv` says that an edit which is not late is still true when it is written,
and that a label that inherits a person shares a slot with a confirmed one, which
has the voice. The instance TLC checks satisfies both.

For the gateway, `LlmInv` adds that a call which is sending to a pinned target
holds the lock (`TargetsAreNamed`), that the holder has such a target, and that
what was validated as private is what is pinned (`StrictIsPinned`): the address
is kept in the gateway and never resolved again.

For access, `AuthInv` says why a token is accepted or not: the stamp in the table
is that of the password in it (`StampsOrdered`), a token
whose login no change overlapped has the password of its stamp (`SureTokens`), a
token that was signed out is in the revoked set or would not decode
(`OutsRemembered`), and a token counts as dead only for one of these reasons
(`DeadForAReason`). `SocketsChecked` measures a socket's delay check by check:
each that could not read the database adds an interval and a receive. Two
statements were corrected by the proof, both held in the instance and not in
general: the socket bound had one receive for all failed reads together, and a
token a change had ended stayed dead although an overtaken change set the stamp
back.

For upgrades, `SchemaInv` says what a database is at each statement (`Reached`):
fresh, of an old version with the columns added so far, or complete, and that a
cut leaves only databases that are one of these again, so that the next start
finds what it expects; `NamesKept` says where the names of confirmed speakers may
be missing. A version to come is left as it is.

For speakers, `ClusterInv` says that clusters and pending ones account for the
labels that went out (`Accounts`); each of the four things an utterance may do to
the lists is a lemma, and confirming or overflowing is a second step over the
first (`PendingJoins`).

For the rate limits, `LimitInv` says that a list still has all of its history that
can count (`Counted`): a filter or a sweep drops an entry only when it is too old
for every limit, forgiven, or dropped from the history with it. The numbers of a
list are unique and bounded (`ListOK`), so its new entry is one more, and the
limits are comparisons of cardinalities of finite sets. A login in flight is
counted by `InFlight` and becomes one failure, so the sum of the two does not grow
when it fails. `ServicesTyped` composes an invariant of bounds for each of the
services, which `MCNext` runs one at a time (`ServicesInv`).

For the alignment, what each loop returns is described from its first round to
its last: the texts of the items read on from one word to the next (`Reads`), and
an item's words spell its text (`Sound`). Joining two items keeps this because the
right one begins where the left one ends. That a loop has a value at all, a
recursive function over an interval, is `LoopRuns`; and what holds of every round
is shown by looking at the least round at which it would fail.

For the live text, `LiveInv` says what lies between the rows and what was spoken.
The last text that was shown ends with what the buffer had before (`ContextKnown`),
so the overlap that is found is at least these `again` words, and nothing of them
is shown twice. Where no word is said twice the words after them are not in the
last text (`WordsAreNew`), so the overlap is exactly those, and all of the rest is
shown. What is not yet on a row is then the rest of the buffer (`AllWritten`).

For the chunks, `ChunksFollow` says what the segments are after `done` chunks, one
statement for each kind of result. `HeardTo(done)` is the time the chunks have
reached, and the words that end by then are complete (`Completes`).

- Timed words (`WordsIn`): the segments are a `Chain`, cut after cut of what was
  said from the first word to at least the last complete one. The middle of a
  complete word is its own; that of a cut one lies halfway between its begin and
  the end of the chunk. The boundary between two chunks then splits left and right
  at the same word (`BoundarySplits`), whatever either heard of the words at its
  edge, so that what is kept of the two chains joins into one.
- One text per chunk (`TextsIn`): the segments are a chain up to the last complete
  word, and the last text has all the words that the next chunk hears again. What
  the two share is then an overlap, and where nothing is said twice in a row it is
  the longest (`OverlapIsShared`: a longer one would be a repetition), so exactly
  this is removed (`SharedIsRemoved`).
- Segments without words (`SegmentsIn`): words at the edge may be heard twice. What
  is removed is at most what the last text shares with the next (`SharedAtMost`),
  so the complete words are found, in their order, in what is written (`Found`).

`AllChunksHearAll` closes the argument: when no chunk is left, the last one has
reached the end. `OverlapsAreShort` is what the code is configured for: an overlap
of 1.0 s in chunks of 30 s (`config.py:111-112`), at most half of a chunk, so that
the text before a seam still holds all of it; words of it that fit in the 80
characters of `merge_overlapping_text`; and a recording of half a second, below
which the code makes no chunk at all. Outside of these the property is not
claimed. TLC evaluates the condition for its instance (`ShortOverlaps`).

Assumptions are the named `ASSUME`s of the modules: disjoint task sets, natural
bounds, `NoMeeting`, `NoTask`, `Nothing` and `Nobody` outside their sets, a
context of at least one frame and shorter than a segment, finitely many addresses,
a full stop that is no letter. TLC evaluates them in every run.

Only model-checked:

- `EveryJobEnds`, `ProcessingEnds`, `OfflineRuns`, `SlotGetsUsed`,
  `SessionIsFinalized`: liveness, and `ENABLED` with it, is out of TLAPS' reach
  with the provers at hand.

## 5. Not modelled, and why

Neural models, audio arithmetic, the speaker segmentation by voice prints,
formatting and export, prompts and the parsing of answers, configuration and
health reports have no state of their own worth a state machine, or none a model
checker reaches. The web client presents what it receives; no property of the
server rests on it. Notes (their generation awaits between the read and the
save, `api/meetings.py:313-341`), titles, and search with its FTS triggers are
left out of `Transcript`; the fall-back chain of `engine/asr_engine.py` and
failures of the vector store (an identifier taken from the pending list is lost
if adding it raises) are left out of the engines; colliding `Spk_` identifiers,
signatures, hashes, origins and tickets of the handshake are taken to work. Time
is abstracted to time-outs that may fire whenever they are armed, or to ticks
where a window is the point. SQLite is taken to serialise transactions and to
keep commits across a kill. A graceful `stop()` is seen as the kill that follows
it.

## 6. Disagreements between code and comments

Each has a run whose counterexample shows it.

1. `cancel_strands`: `request_cancel` ends in an unconditional update
   (`jobs.py:207`). If the runner fails and requeues the job after it was read,
   the row is queued with `cancel_requested`, which `claim_next` skips: the state
   the comment at `jobs.py:177-180` describes and means to avoid.
2. `retry_unclaimed`: `claim_next` returning nothing and `clear()`
   (`job_runner.py:64-66`) are two steps; a retry from a thread that commits and
   notifies between them is not seen until something else notifies.
3. `interrupted_live`: recovery fails an interrupted live meeting "so that the
   user can reprocess" (`jobs.py:357-359`), and `reprocess_meeting` refuses it
   because the WAV header was never patched (`meetings.py:237-246`).
4. `slot_false_leak`: long offline work is said not to count as a leak
   (`runtime.py:267`), and the deferral time-out sets the flag whoever holds the
   slot (`websocket.py:980`).
5. `identity_majority`: a person is said to be inherited when it "clearly owns
   most of the new label's speech" (`repositories/meetings.py:53-55`), and the
   share tested is that of the shorter of the two durations (line 84): one
   confirmed slot of three carries its name to all three.

Seen while modelling, without a run of their own: an edit may pass its status
check and be committed after a job was claimed, and is then replaced
(`api/meetings.py:83`); a deferred session that was given up can append a row
after its refinement was published (`websocket.py:971-988`; the model contains
it, see the exception in `CompletedIsPublished`); a cancelled enrolment leaves
its model call running without the slot (`people.py:225`); a fault in pruning
after a job was queued returns an error and skips `notify()`.
In a live session: the idle time-out leaves the loop without draining
(`websocket.py:614-615`, against the comment at line 496); an exception while
the processor creates the meeting ends it silently, and the session goes on
unheard (`websocket.py:755`); a frame that could not be written shifts all later
positions of the file against the offsets, which count it
(`websocket.py:139-143`); pauses shorter than 0.8 s are not buffered, so the
words after one are timed too early by its length, still within the segment's
speech (`websocket.py:644-648`).

Two more paths end in a state that only a later notify or restart settles: the
same fault in `reprocess`, after its job was committed (`api/meetings.py:254`),
and a capped session whose manifest, removal of audio and status all fail to be
written (`websocket.py:901`).

A kill between the two writes of a failure leaves the meeting in processing with a
failed job, which the user may retry. If that job had been retried by hand before
and five newer ones of its meeting have completed since it was created, the next
`enqueue_refinement` of any meeting deletes it (`prune_finished`, `jobs.py:88`,
goes by creation and not by what ran last): retry has no job then, and reprocess
and delete refuse a meeting in processing (`meetings.py:218`,
`repositories/meetings.py:301`). `ProcessingHasRecourse` excepts this, and its
proof needs the exception.

Of the modules added later:

- An edit that names a speaker, and is late, may change another voice's speaker,
  since a label used again keeps its identifier (`misled`; rows do not have this).
- A kill between `ALTER TABLE ... ADD COLUMN identity_status` and the commit of
  its update leaves confirmed speakers anonymous: the column is then there, and
  the branch that fills it is not entered again (`database.py:239-256`), the
  very loss the comment in it is about.
- A login or a change that overlaps another change of password may get a token
  for a password that is no longer, since the stamp is read in a later
  transaction than the password and taken before it is written; a logout that
  falls into a running prune of the revoked set is lost with the old set; after a
  restart with `JWT_SECRET` set, tokens that were only logged out are good again.
  `api/llm.py:151-178` does not look at the revoked set.
- A successful login drops every entry of its address older than a minute, those
  that count for the hour included.
- `get_incremental_text` ends in a test against `last_output_text` that never
  holds; a word said twice within a stretch may be swallowed, which
  `ShownOnce` allows.
- `_absolute_words` moves the times of a segment that look relative, although
  `segments_from_asr_result` has made them absolute; groups of words are joined
  without a space.
- The thresholds of `_get_dynamic_threshold` loosen as the count grows, where its
  comment says they tighten (a test holds the code's way); a pending speaker is
  the first that is close, not the nearest.

## 7. What could come next

Notes and search in `Transcript`; the fall-back chain of the ASR engines.
