---------------------------- MODULE VoiceSamples ----------------------------
(***************************************************************************)
(* People and their registered voice samples: app/repositories/people.py,  *)
(* app/api/people.py.  An enrolment keeps the uploaded audio in a file,    *)
(* awaits its decoding and, in the inference slot, its voice print, and    *)
(* then inserts the row.  Deleting a sample or a person commits first and  *)
(* unlinks the files afterwards.  The endpoints that only touch the        *)
(* database run in threads of their own, the enrolment in the event loop.  *)
(***************************************************************************)
EXTENDS Naturals, FiniteSets

CONSTANTS Person,      \* the identifiers people get (a UUID each)
          Upload,      \* enrolment requests; each names the file it writes
          Voiceprint   \* the decoded contents an upload may have (audio_sha256)

VARIABLES people,      \* person -> "unborn", "known" (a row of people), "deleted"
          samples,     \* rows of voice_samples
          files,       \* the files in the voice directories
          enrol,       \* upload -> where its request is
          deleting,    \* the person being deleted and the paths read for it
          unlinking    \* files of committed deletions, still to be unlinked

voiceVars == <<people, samples, files, enrol, deleting, unlinking>>

Sample == [file : Upload, person : Person, print : Voiceprint]
Known == {p \in Person : people[p] = "known"}
OfPerson(p) == {s \in samples : s.person = p}
Idle == [pc |-> "idle"]
Over == [pc |-> "over"]
Nobody == [person |-> {}, paths |-> {}]

VoiceTypes ==
  /\ people \in [Person -> {"unborn", "known", "deleted"}]
  /\ samples \subseteq Sample
  /\ files \subseteq Upload /\ unlinking \subseteq Upload
  /\ \A u \in Upload :
       enrol[u] \in {Idle, Over}
            \cup [pc : {"received", "hashed"}, person : Person, print : Voiceprint]
  /\ deleting \in [person : {{}} \cup {{p} : p \in Person}, paths : SUBSET Upload]

VoiceInit ==
  /\ people = [p \in Person |-> "unborn"]
  /\ samples = {} /\ files = {} /\ unlinking = {}
  /\ enrol = [u \in Upload |-> Idle]
  /\ deleting = Nobody

CreatePerson(p) ==
  /\ people[p] = "unborn"
  /\ people' = [people EXCEPT ![p] = "known"]
  /\ UNCHANGED <<samples, files, enrol, deleting, unlinking>>

(* add_voice_sample: the person exists, and the upload is on disk.         *)
Receive(u, p, h) ==
  /\ enrol[u] = Idle /\ p \in Known
  /\ enrol' = [enrol EXCEPT ![u] = [pc |-> "received", person |-> p, print |-> h]]
  /\ files' = files \cup {u}
  /\ UNCHANGED <<people, samples, deleting, unlinking>>

Registered(p, h) == \E s \in samples : s.person = p /\ s.print = h

(* Size, length, quality and has_sample_hash: what is refused is unlinked. *)
Assess(u) ==
  /\ enrol[u].pc = "received"
  /\ ~Registered(enrol[u].person, enrol[u].print)
  /\ enrol' = [enrol EXCEPT ![u].pc = "hashed"]
  /\ UNCHANGED <<people, samples, files, deleting, unlinking>>

(* Any Exception of the handler: a refusal, a model that fails.            *)
Refuse(u) ==
  /\ enrol[u].pc \in {"received", "hashed"}
  /\ enrol' = [enrol EXCEPT ![u] = Over]
  /\ files' = files \ {u}
  /\ UNCHANGED <<people, samples, deleting, unlinking>>

(* A cancelled request: CancelledError is no Exception, the file stays.    *)
Disconnect(u) ==
  /\ enrol[u].pc \in {"received", "hashed"}
  /\ enrol' = [enrol EXCEPT ![u] = Over]
  /\ UNCHANGED <<people, samples, files, deleting, unlinking>>

(* add_sample's insert: the foreign key and the unique index.              *)
Insertable(e) == e.person \in Known /\ ~Registered(e.person, e.print)

(* add_sample, once the voice print is there.  What it refuses raises.     *)
Enroll(u) ==
  /\ enrol[u].pc = "hashed"
  /\ enrol' = [enrol EXCEPT ![u] = Over]
  /\ IF Insertable(enrol[u])
       THEN /\ samples' = samples \cup
                 {[file |-> u, person |-> enrol[u].person, print |-> enrol[u].print]}
            /\ UNCHANGED files
       ELSE files' = files \ {u} /\ UNCHANGED samples
  /\ UNCHANGED <<people, deleting, unlinking>>

DeleteSample(s) ==
  /\ s \in samples
  /\ samples' = samples \ {s}
  /\ unlinking' = unlinking \cup {s.file}
  /\ UNCHANGED <<people, files, enrol, deleting>>

\* Mutant: the files go first, the rows with the transaction that follows.
ReadPathsUnlinking(p) ==
  /\ deleting = Nobody /\ p \in Known
  /\ deleting' = [person |-> {p}, paths |-> {s.file : s \in OfPerson(p)}]
  /\ files' = files \ {s.file : s \in OfPerson(p)}
  /\ UNCHANGED <<people, samples, enrol, unlinking>>

(* PeopleRepository.delete reads the paths before its transaction starts.  *)
ReadPaths(p) ==
  /\ deleting = Nobody /\ p \in Known
  /\ deleting' = [person |-> {p}, paths |-> {s.file : s \in OfPerson(p)}]
  /\ UNCHANGED <<people, samples, files, enrol, unlinking>>

(* Its transaction, as far as people and samples go (ON DELETE CASCADE).   *)
DeletePerson(p) ==
  /\ deleting.person = {p}
  /\ people' = [people EXCEPT ![p] = "deleted"]
  /\ samples' = samples \ OfPerson(p)
  /\ unlinking' = unlinking \cup deleting.paths
  /\ deleting' = Nobody
  /\ UNCHANGED <<files, enrol>>

Unlink(u) ==
  /\ u \in unlinking
  /\ unlinking' = unlinking \ {u}
  /\ files' = files \ {u}
  /\ UNCHANGED <<people, samples, enrol, deleting>>

(* unlink raises: a warning, and the file stays.                           *)
UnlinkFails(u) ==
  /\ u \in unlinking
  /\ unlinking' = unlinking \ {u}
  /\ UNCHANGED <<people, samples, files, enrol, deleting>>

(* The process ends: requests and deletions under way are forgotten.       *)
StopServer ==
  /\ enrol' = [u \in Upload |-> IF enrol[u] = Idle THEN Idle ELSE Over]
  /\ deleting' = Nobody /\ unlinking' = {}
  /\ UNCHANGED <<people, samples, files>>

VoiceStep ==
  \/ \E p \in Person : CreatePerson(p) \/ ReadPaths(p)
  \/ \E u \in Upload, p \in Person, h \in Voiceprint : Receive(u, p, h)
  \/ \E u \in Upload : Assess(u) \/ Refuse(u) \/ Disconnect(u) \/ Enroll(u)
                          \/ Unlink(u) \/ UnlinkFails(u)
  \/ \E s \in samples : DeleteSample(s)

VoiceNext == VoiceStep \/ StopServer \/ \E p \in Person : DeletePerson(p)
VoiceSpec == VoiceInit /\ [][VoiceNext]_voiceVars

-----------------------------------------------------------------------------
(* No row points at a file that is gone, whatever fails or stops between a *)
(* commit and its unlink: people.py deletes files after the commit for     *)
(* this, accepting files without a row instead (lines 96-99).              *)
SamplesHaveFiles == \A s \in samples : s.file \in files

(* One person has a recording once, although two enrolments of it may both *)
(* pass has_sample_hash before either inserts its row; and nobody unknown  *)
(* has samples, although a person may be deleted during an enrolment.      *)
SamplesAreOwned ==
  \A s, t \in samples :
    s.person \in Known /\ (s # t => s.person # t.person \/ s.print # t.print)

(* Rows, files and people agree.                                            *)
SamplesSound == VoiceTypes /\ SamplesHaveFiles /\ SamplesAreOwned
=============================================================================
