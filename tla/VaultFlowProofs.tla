---------------------------- MODULE VaultFlowProofs ----------------------------
(* Theorems about VaultFlow, for every number of processes, notes,         *)
(* references, media and facts.                                            *)
EXTENDS VaultFlow, FiniteSetTheorems, TLAPS

-----------------------------------------------------------------------------
(* The inductive invariant.                                                *)

(* Files are numbered one after the other, so that a fresh id is new.      *)
Numbered ==
  /\ \E n \in 0..MaxNotes : DOMAIN notes = 1..n
  /\ \E n \in 0..MaxRefs : DOMAIN secrefs = 1..n

(* Which command a process can be running where it is.                     *)
OnTask(p) ==
  /\ pc[p] = "idle" => job[p] = NoJob
  /\ pc[p] \in {"scan", "record", "secref"} => job[p].kind = "ingest"
  /\ pc[p] = "secref" => job[p].pointer \in Private
  /\ pc[p] = "source" => job[p].kind = "promote"
  /\ pc[p] = "resolve" => job[p].kind = "output"
  /\ pc[p] = "event" => job[p].kind # "promote"
  /\ job[p].kind = "ingest" =>
       job[p].media \in Media /\ job[p].text \in Text /\ job[p].pointer \in Pointer

(* A handle that leads to a pointer.                                       *)
LeadsTo(h, pointer) ==
  \/ pointer \in Public /\ h = [ref |-> pointer]
  \/ \E r \in DOMAIN secrefs : h = [secref |-> r] /\ secrefs[r] = pointer

(* The reference file a process is about to write is its own and unwritten.*)
OwnSecref ==
  \A p \in Proc : pc[p] = "secref" =>
    /\ file[p] \in DOMAIN secrefs
    /\ secrefs[file[p]] = None
    /\ \A q \in Proc : pc[q] = "secref" /\ file[q] = file[p] => q = p

(* An intake has its handle before it opens its note, and no other command *)
(* has one.                                                                *)
HasHandle(p) ==
  /\ handle[p] # None => job[p].kind = "ingest" /\ LeadsTo(handle[p], job[p].pointer)
  /\ pc[p] \in {"open", "fill", "event"} /\ job[p].kind = "ingest" => handle[p] # None

(* What a command cites has been looked up when it opens its note.         *)
Looked(p) ==
  pc[p] = "open" =>
    /\ job[p].kind = "promote" =>
         \E s \in job[p].sources : s \in DOMAIN notes /\ notes[s].layer = "raw"
    /\ job[p].kind = "output" =>
         \A s \in job[p].sources : IsUlid(s) => s \in DOMAIN notes \cup Fact

(* The note a process writes is the one it was asked for.                  *)
InHand(p) ==
  /\ pc[p] \in {"fill", "event"} =>
       /\ file[p] \in DOMAIN notes
       /\ notes[file[p]].layer = LayerOf(job[p].kind)
       /\ notes[file[p]].tag = TagOf(p)
  /\ pc[p] = "event" => notes[file[p]].part = "whole"

(* As long as intakes have not run beside each other or blindly, there is  *)
(* one at most, and what it is about to list is not listed yet.            *)
OneIntake ==
  ~blind => \A p, q \in Proc : job[p].kind = "ingest" /\ job[q].kind = "ingest" => p = q

About(i, m) == i \in Listed /\ notes[i].tag # None /\ notes[i].tag.media = m
NotListed(p) ==
  ~blind /\ job[p].kind = "ingest" =>
    /\ pc[p] \in {"record", "secref", "open"} => \A i \in DOMAIN notes : ~About(i, job[p].media)
    /\ pc[p] = "fill" /\ notes[file[p]].part = "empty" =>
         \A i \in DOMAIN notes : ~About(i, job[p].media)
Once == ~blind => \A i, k \in DOMAIN notes : \A m \in Media : About(i, m) /\ About(k, m) => i = k

(* HandlesResolve, note by note.                                           *)
Led == \A i \in DOMAIN notes : notes[i].tag # None => LeadsTo(notes[i].tag.handle, notes[i].tag.fp)

IInv ==
  /\ TypeOK
  /\ Numbered
  /\ \A p \in Proc : OnTask(p)
  /\ OwnSecref
  /\ \A p \in Proc : HasHandle(p)
  /\ \A p \in Proc : Looked(p)
  /\ \A p \in Proc : InHand(p)
  /\ EventsGrounded
  /\ WorkingFromRaw /\ OutputsCite
  /\ Led
  /\ IngestTruth
  /\ OneIntake
  /\ \A p \in Proc : NotListed(p)
  /\ Once

-----------------------------------------------------------------------------
(* Facts about the operators.                                              *)

LEMMA FreshIsNew ==
  ASSUME NEW Id, NEW f, NEW n \in Nat, DOMAIN f = 1..n, NEW i \in Fresh(Id, f)
  PROVE  i = n + 1 /\ i \in Id /\ i \notin DOMAIN f /\ DOMAIN f \cup {i} = 1..n + 1
<1>1. Cardinality(1..n) = n
  BY FS_Interval
<1>2. i = n + 1 /\ i \in Id
  BY <1>1 DEF Fresh
<1> QED
  BY <1>2

LEMMA NoJobIsJob == NoJob \in Job /\ NoJob.kind = "capture" /\ NoJob.review = FALSE
BY DEF NoJob, Job, Kinds

(* The task of a command that cites some ids.                              *)
Asked(kind, T) == [NoJob EXCEPT !.kind = kind, !.sources = T]

LEMMA CitingIs ==
  ASSUME NEW kind, NEW S, NEW j \in Citing(kind, S)
  PROVE  \E T \in S : j = Asked(kind, T)
<1>1. j \in {Asked(kind, T) : T \in S}
  BY Zenon DEF Citing, Asked
<1> QED
  BY <1>1

LEMMA AskedIsJob ==
  ASSUME NEW kind \in {"promote", "accept", "output"}, NEW T \in SUBSET Source
  PROVE  /\ Asked(kind, T) \in Job
         /\ Asked(kind, T).kind = kind /\ Asked(kind, T).sources = T
BY DEF Asked, NoJob, Job, Kinds

(* What a command is asked to do is well formed, and an intake has what it *)
(* is to take in.                                                          *)
LEMMA JobsSound ==
  ASSUME TypeOK, NEW j \in Jobs
  PROVE  /\ j \in Job
         /\ j.kind = "ingest" => j.media \in Media /\ j.text \in Text /\ j.pointer \in Pointer
<1>1. Citable \subseteq Source
  BY DEF TypeOK, IsPartial, Citable, Source
<1>2. CASE j = NoJob
  BY <1>2, NoJobIsJob
<1>3. CASE j \in IngestJobs
  BY <1>3 DEF IngestJobs, Job, Kinds
<1>4. ASSUME NEW kind \in {"promote", "accept", "output"}, NEW T \in SUBSET Source, j = Asked(kind, T)
      PROVE  j \in Job /\ j.kind # "ingest"
  BY <1>4, AskedIsJob
<1>5. CASE j \in Citing("promote", {{s} : s \in Citable})
  <2> DEFINE S == {{s} : s \in Citable}
  <2>1. S \subseteq SUBSET Source
    BY <1>1
  <2> HIDE DEF S
  <2>2. PICK T \in S : j = Asked("promote", T)
    BY <1>5, CitingIs DEF S
  <2> QED
    BY <1>4, <2>1, <2>2
<1>6. CASE j \in Citing("accept", {{}})
  <2> DEFINE S == {{}}
  <2>1. S \subseteq SUBSET Source
    OBVIOUS
  <2> HIDE DEF S
  <2>2. j \in Citing("accept", S)
    BY <1>6 DEF S
  <2>3. PICK T \in S : j = Asked("accept", T)
    BY <2>2, CitingIs
  <2> QED
    BY <1>4, <2>1, <2>3
<1>7. CASE j \in Citing("output", {{s, t} : s \in Citable, t \in {Ghost, Link}})
  <2> DEFINE S == {{s, t} : s \in Citable, t \in {Ghost, Link}}
  <2>1. S \subseteq SUBSET Source
    BY <1>1 DEF Source
  <2> HIDE DEF S
  <2>2. PICK T \in S : j = Asked("output", T)
    BY <1>7, CitingIs DEF S
  <2> QED
    BY <1>4, <2>1, <2>2
<1> QED
  BY <1>2, <1>3, <1>5, <1>6, <1>7 DEF Jobs, CaptureJob

LEMMA FirstStepIs ==
  ASSUME NEW kind \in Kinds
  PROVE  /\ FirstStep(kind) \in {"open", "scan", "source", "resolve"}
         /\ FirstStep(kind) = "scan" => kind = "ingest"
         /\ FirstStep(kind) = "source" => kind = "promote"
         /\ FirstStep(kind) = "resolve" => kind = "output"
         /\ FirstStep(kind) = "open" => kind \in {"capture", "accept"}
BY DEF FirstStep, Kinds

LEMMA LayerOfIs ==
  ASSUME NEW kind \in Kinds
  PROVE  /\ LayerOf(kind) \in Layers
         /\ LayerOf(kind) = "raw" <=> kind \in {"capture", "ingest"}
         /\ LayerOf(kind) = "working" <=> kind = "promote"
         /\ LayerOf(kind) = "output" <=> kind = "output"
         /\ LayerOf(kind) = "distilled" <=> kind = "accept"
BY DEF LayerOf, Kinds, Layers

(* The tag of a new note tells what its process was given.                 *)
LEMMA TagIs ==
  ASSUME TypeOK, NEW p \in Proc, OnTask(p), HasHandle(p)
  PROVE  /\ TagOf(p) \in Tag \cup {None}
         /\ TagOf(p) # None <=> handle[p] # None
         /\ TagOf(p) # None =>
              /\ job[p].kind = "ingest"
              /\ TagOf(p).media = job[p].media /\ TagOf(p).text = job[p].text
              /\ TagOf(p).fp = job[p].pointer /\ TagOf(p).handle = handle[p]
<1>1. CASE handle[p] = None
  BY <1>1 DEF TagOf
<1>2. CASE handle[p] # None
  <2>1. handle[p] \in Handle /\ job[p].kind = "ingest"
    BY <1>2 DEF TypeOK, HasHandle
  <2>2. job[p].media \in Media /\ job[p].text \in Text /\ job[p].pointer \in Pointer
    BY <2>1 DEF OnTask
  <2> DEFINE t == [media |-> job[p].media, text |-> job[p].text, fp |-> job[p].pointer,
                   handle |-> handle[p]]
  <2>3. TagOf(p) = t
    BY <1>2 DEF TagOf
  <2>4. t \in Tag
    BY <2>1, <2>2 DEF Tag
  <2> QED
    BY <1>2, <2>1, <2>3, <2>4, RecordAssumption
<1> QED
  BY <1>1, <1>2

(* A process that answers is idle, and nothing of its task is left.        *)
LEMMA AnswersIs ==
  ASSUME TypeOK, \A q \in Proc : OnTask(q), NEW p \in Proc,
         NEW a \in [job : Job, note : NoteId] \cup {None}, Answers(p, a)
  PROVE  /\ pc' \in [Proc -> Locations] /\ job' \in [Proc -> Job]
         /\ handle' \in [Proc -> Handle \cup {None}]
         /\ file' \in [Proc -> NoteId \cup RefId \cup {None}]
         /\ answer' \in [Proc -> [job : Job, note : NoteId] \cup {None}]
         /\ pc'[p] = "idle" /\ job'[p] = NoJob /\ handle'[p] = None /\ answer'[p] = a
         /\ \A q \in Proc : q # p =>
              /\ pc'[q] = pc[q] /\ job'[q] = job[q] /\ handle'[q] = handle[q]
              /\ file'[q] = file[q] /\ answer'[q] = answer[q]
         /\ \A q \in Proc : OnTask(q)'
<1>1. pc' \in [Proc -> Locations] /\ handle' \in [Proc -> Handle \cup {None}]
  BY DEF Answers, TypeOK, Locations
<1>2. job' \in [Proc -> Job]
  BY NoJobIsJob DEF Answers, TypeOK
<1>3. /\ file' \in [Proc -> NoteId \cup RefId \cup {None}]
      /\ answer' \in [Proc -> [job : Job, note : NoteId] \cup {None}]
  BY DEF Answers, TypeOK
<1>4. pc'[p] = "idle" /\ job'[p] = NoJob /\ handle'[p] = None /\ answer'[p] = a
  BY DEF Answers, TypeOK
<1>5. \A q \in Proc : q # p =>
        /\ pc'[q] = pc[q] /\ job'[q] = job[q] /\ handle'[q] = handle[q]
        /\ file'[q] = file[q] /\ answer'[q] = answer[q]
  BY DEF Answers, TypeOK
<1>6. \A q \in Proc : OnTask(q)'
  BY <1>4, <1>5, NoJobIsJob DEF OnTask
<1> QED
  BY <1>1, <1>2, <1>3, <1>4, <1>5, <1>6

LEMMA ReportIs ==
  ASSUME TypeOK, NEW p \in Proc, NEW i \in NoteId
  PROVE  /\ Report(p, i) \in [job : Job, note : NoteId] \cup {None}
         /\ Report(p, i) # None =>
              job[p].kind = "ingest" /\ Report(p, i).job = job[p] /\ Report(p, i).note = i
BY DEF Report, TypeOK

LEMMA GoesIs ==
  ASSUME TypeOK, NEW p \in Proc, NEW here, NEW there \in Locations, Goes(p, here, there)
  PROVE  /\ pc' \in [Proc -> Locations]
         /\ pc[p] = here /\ pc'[p] = there
         /\ \A q \in Proc : q # p => pc'[q] = pc[q]
BY DEF Goes, TypeOK

(* What leads to a pointer still does when reference files are added or    *)
(* written.                                                                *)
LEMMA LeadsStay ==
  ASSUME DOMAIN secrefs \subseteq DOMAIN secrefs',
         \A r \in DOMAIN secrefs : secrefs[r] # None => secrefs'[r] = secrefs[r],
         NEW h, NEW pointer \in Pointer, LeadsTo(h, pointer)
  PROVE  \/ pointer \in Public /\ h = [ref |-> pointer]
         \/ \E r \in DOMAIN secrefs' : h = [secref |-> r] /\ secrefs'[r] = pointer
BY NameAssumption DEF LeadsTo

(* The pointer of a note is one.                                           *)
LEMMA TagPointer ==
  ASSUME TypeOK, NEW i \in DOMAIN notes, notes[i].tag # None
  PROVE  notes[i].tag.fp \in Pointer /\ notes[i].tag.media \in Media
BY DEF TypeOK, IsPartial, Note, Tag

(* A command ends, with an answer or with none.                            *)
LEMMA AnsweredStep ==
  ASSUME IInv, NEW p \in Proc, NEW a \in [job : Job, note : NoteId] \cup {None},
         Answers(p, a), UNCHANGED <<files, facts, blind>>,
         captured' \subseteq NoteId, accepted' \subseteq NoteId, EventsGrounded',
         a # None =>
           /\ a.note \in DOMAIN notes /\ notes[a.note].layer = "raw" /\ notes[a.note].tag # None
           /\ notes[a.note].tag.media = a.job.media /\ notes[a.note].tag.text = a.job.text
           /\ notes[a.note].tag.fp = a.job.pointer
  PROVE  IInv'
<1>0. /\ pc'[p] = "idle" /\ job'[p] = NoJob /\ handle'[p] = None /\ answer'[p] = a
      /\ \A q \in Proc : q # p =>
           /\ pc'[q] = pc[q] /\ job'[q] = job[q] /\ handle'[q] = handle[q]
           /\ file'[q] = file[q] /\ answer'[q] = answer[q]
      /\ \A q \in Proc : OnTask(q)'
  BY AnswersIs DEF IInv
<1>1. TypeOK'
  BY AnswersIs DEF IInv, TypeOK, files
<1>2. Numbered'
  BY <1>0 DEF IInv, Numbered, files
<1>3. \A q \in Proc : OnTask(q)'
  BY <1>0
<1>4. OwnSecref'
  BY <1>0 DEF IInv, OwnSecref, files
<1>5. \A q \in Proc : HasHandle(q)'
  BY <1>0 DEF IInv, TypeOK, HasHandle, LeadsTo, files
<1>6. \A q \in Proc : Looked(q)'
  BY <1>0 DEF IInv, Looked, files
<1>7. \A q \in Proc : InHand(q)'
  BY <1>0 DEF IInv, InHand, TagOf, files
<1>8. EventsGrounded'
  OBVIOUS
<1>9. (WorkingFromRaw /\ OutputsCite)'
  BY <1>0 DEF IInv, WorkingFromRaw, OutputsCite, files
<1>10. Led'
  BY <1>0 DEF IInv, Led, LeadsTo, files
<1>11. IngestTruth'
  BY <1>0 DEF IInv, IngestTruth, Ingested, files
<1>12. OneIntake'
  BY <1>0, NoJobIsJob DEF IInv, OneIntake, files
<1>13. \A q \in Proc : NotListed(q)'
  BY <1>0 DEF IInv, NotListed, About, Listed, files
<1>14. Once'
  BY <1>0 DEF IInv, Once, About, Listed, files
<1> QED
  BY <1>1, <1>2, <1>3, <1>4, <1>5, <1>6, <1>7, <1>8, <1>9, <1>10, <1>11, <1>12, <1>13, <1>14
  DEF IInv

(* A fact is superseded.                                                   *)
LEMMA SupersedeStep ==
  ASSUME IInv, Supersede
  PROVE  IInv'
<1>1. TypeOK'
  BY DEF IInv, TypeOK, Supersede, files, events, mine
<1>2. Numbered'
  BY DEF IInv, Numbered, Supersede, files
<1>3. \A q \in Proc : OnTask(q)'
  BY DEF IInv, OnTask, Supersede, files, mine
<1>4. OwnSecref'
  BY DEF IInv, OwnSecref, Supersede, files, mine
<1>5. \A q \in Proc : HasHandle(q)'
  BY DEF IInv, HasHandle, LeadsTo, Supersede, files, mine
<1>6. \A q \in Proc : Looked(q)'
  BY DEF IInv, Looked, Supersede, files, mine
<1>7. \A q \in Proc : InHand(q)'
  BY DEF IInv, InHand, TagOf, Supersede, files, mine
<1>8. EventsGrounded'
  BY DEF IInv, EventsGrounded, Supersede, files, events
<1>9. (WorkingFromRaw /\ OutputsCite)'
  BY DEF IInv, WorkingFromRaw, OutputsCite, Supersede, files
<1>10. Led'
  BY DEF IInv, Led, LeadsTo, Supersede, files
<1>11. IngestTruth'
  BY DEF IInv, IngestTruth, Ingested, Supersede, files, mine
<1>12. OneIntake'
  BY DEF IInv, OneIntake, Supersede, files, mine
<1>13. \A q \in Proc : NotListed(q)'
  BY DEF IInv, NotListed, About, Listed, Supersede, files, mine
<1>14. Once'
  BY DEF IInv, Once, About, Listed, Supersede, files
<1> QED
  BY <1>1, <1>2, <1>3, <1>4, <1>5, <1>6, <1>7, <1>8, <1>9, <1>10, <1>11, <1>12, <1>13, <1>14
  DEF IInv

(* A command begins.                                                       *)
LEMMA StartStep ==
  ASSUME IInv, NEW p \in Proc, Start(p)
  PROVE  IInv'
<1>0. PICK j \in Jobs :
        /\ Goes(p, "idle", FirstStep(j.kind))
        /\ job' = [job EXCEPT ![p] = j]
        /\ blind' = (blind \/ (j.kind = "ingest" /\ \E q \in Proc : job[q].kind = "ingest"))
        /\ answer' = [answer EXCEPT ![p] = None]
        /\ UNCHANGED <<files, events, facts, handle, file>>
        /\ j \in Job /\ j.kind \in Kinds
        /\ j.kind = "ingest" => j.media \in Media /\ j.text \in Text /\ j.pointer \in Pointer
  BY JobsSound DEF Start, IInv, Job
<1>1. TypeOK'
  BY <1>0, FirstStepIs DEF IInv, TypeOK, Locations, Goes, files, events
<1>2. Numbered'
  BY <1>0 DEF IInv, Numbered, files
<1>3. \A q \in Proc : OnTask(q)'
  BY <1>0, FirstStepIs DEF IInv, TypeOK, OnTask, Goes, files
<1>4. OwnSecref'
  BY <1>0, FirstStepIs DEF IInv, OwnSecref, Goes, files
<1>5. \A q \in Proc : HasHandle(q)'
  BY <1>0, FirstStepIs, NoJobIsJob
  DEF IInv, TypeOK, OnTask, HasHandle, LeadsTo, Goes, files
<1>6. \A q \in Proc : Looked(q)'
  BY <1>0, FirstStepIs DEF IInv, Looked, TypeOK, Goes, files
<1>7. \A q \in Proc : InHand(q)'
  BY <1>0, FirstStepIs DEF IInv, InHand, TagOf, Goes, files
<1>8. EventsGrounded'
  BY <1>0 DEF IInv, EventsGrounded, files, events
<1>9. (WorkingFromRaw /\ OutputsCite)'
  BY <1>0 DEF IInv, WorkingFromRaw, OutputsCite, files
<1>10. Led'
  BY <1>0 DEF IInv, Led, LeadsTo, files
<1>11. IngestTruth'
  BY <1>0 DEF IInv, IngestTruth, Ingested, files
<1>12. OneIntake'
  BY <1>0 DEF IInv, OneIntake, TypeOK, files
<1>13. \A q \in Proc : NotListed(q)'
  BY <1>0, FirstStepIs DEF IInv, NotListed, About, Listed, TypeOK, Goes, files
<1>14. Once'
  BY <1>0 DEF IInv, Once, About, Listed, TypeOK, files
<1> QED
  BY <1>1, <1>2, <1>3, <1>4, <1>5, <1>6, <1>7, <1>8, <1>9, <1>10, <1>11, <1>12, <1>13, <1>14
  DEF IInv

(* An intake finds nothing, or looks at nothing.                           *)
LEMMA ScanStep ==
  ASSUME IInv, NEW p \in Proc, ScanFindsNothing(p)
  PROVE  IInv'
<1>1. TypeOK'
  BY DEF IInv, TypeOK, Locations, ScanFindsNothing, Goes, files, events, mine
<1>2. Numbered'
  BY DEF IInv, Numbered, ScanFindsNothing, files
<1>3. \A q \in Proc : OnTask(q)'
  BY DEF IInv, OnTask, ScanFindsNothing, Goes, files, mine
<1>4. OwnSecref'
  BY DEF IInv, OwnSecref, ScanFindsNothing, Goes, files, mine
<1>5. \A q \in Proc : HasHandle(q)'
  BY DEF IInv, HasHandle, LeadsTo, ScanFindsNothing, Goes, files, mine
<1>6. \A q \in Proc : Looked(q)'
  BY DEF IInv, Looked, ScanFindsNothing, Goes, files, mine
<1>7. \A q \in Proc : InHand(q)'
  BY DEF IInv, InHand, TagOf, ScanFindsNothing, Goes, files, mine
<1>8. EventsGrounded'
  BY DEF IInv, EventsGrounded, ScanFindsNothing, files, events
<1>9. (WorkingFromRaw /\ OutputsCite)'
  BY DEF IInv, WorkingFromRaw, OutputsCite, ScanFindsNothing, files
<1>10. Led'
  BY DEF IInv, Led, LeadsTo, ScanFindsNothing, files
<1>11. IngestTruth'
  BY DEF IInv, IngestTruth, Ingested, ScanFindsNothing, files, mine
<1>12. OneIntake'
  BY DEF IInv, OneIntake, ScanFindsNothing, files, mine
<1>13. \A q \in Proc : NotListed(q)'
  BY DEF IInv, NotListed, About, Listed, Matches, Found, TypeOK, ScanFindsNothing,
         Goes, files, mine
<1>14. Once'
  BY DEF IInv, Once, About, Listed, ScanFindsNothing, files
<1> QED
  BY <1>1, <1>2, <1>3, <1>4, <1>5, <1>6, <1>7, <1>8, <1>9, <1>10, <1>11, <1>12, <1>13, <1>14
  DEF IInv

(* A pointer is its own handle.                                            *)
LEMMA RecordPublicStep ==
  ASSUME IInv, NEW p \in Proc, RecordPublic(p)
  PROVE  IInv'
<1>0. /\ job[p].pointer \in Public /\ pc[p] = "record" /\ pc'[p] = "open"
      /\ pc' \in [Proc -> Locations]
      /\ \A q \in Proc : q # p => pc'[q] = pc[q]
      /\ handle' = [handle EXCEPT ![p] = [ref |-> job[p].pointer]]
      /\ [ref |-> job[p].pointer] \in Handle
      /\ UNCHANGED <<files, events, others, job, file, answer>>
  BY GoesIs DEF IInv, RecordPublic, Locations, Handle, Pointer
<1>1. TypeOK'
  BY <1>0 DEF IInv, TypeOK, files, events, others
<1>2. Numbered'
  BY <1>0 DEF IInv, Numbered, files
<1>3. \A q \in Proc : OnTask(q)'
  BY <1>0 DEF IInv, OnTask, files
<1>4. OwnSecref'
  BY <1>0 DEF IInv, OwnSecref, files
<1>5. \A q \in Proc : HasHandle(q)'
  BY <1>0, RecordAssumption DEF IInv, TypeOK, OnTask, HasHandle, LeadsTo, files
<1>6. \A q \in Proc : Looked(q)'
  BY <1>0 DEF IInv, Looked, OnTask, files
<1>7. \A q \in Proc : InHand(q)'
  BY <1>0 DEF IInv, InHand, TagOf, files
<1>8. EventsGrounded'
  BY <1>0 DEF IInv, EventsGrounded, files, events
<1>9. (WorkingFromRaw /\ OutputsCite)'
  BY <1>0 DEF IInv, WorkingFromRaw, OutputsCite, files
<1>10. Led'
  BY <1>0 DEF IInv, Led, LeadsTo, files
<1>11. IngestTruth'
  BY <1>0 DEF IInv, IngestTruth, Ingested, files
<1>12. OneIntake'
  BY <1>0 DEF IInv, OneIntake, files, others
<1>13. \A q \in Proc : NotListed(q)'
  BY <1>0 DEF IInv, NotListed, About, Listed, files, others
<1>14. Once'
  BY <1>0 DEF IInv, Once, About, Listed, files, others
<1> QED
  BY <1>1, <1>2, <1>3, <1>4, <1>5, <1>6, <1>7, <1>8, <1>9, <1>10, <1>11, <1>12, <1>13, <1>14
  DEF IInv

(* A reference file is created.                                            *)
LEMMA OpenSecrefStep ==
  ASSUME IInv, NEW p \in Proc, OpenSecref(p)
  PROVE  IInv'
<1>0. PICK r \in RefId \ DOMAIN secrefs :
        /\ DOMAIN secrefs' = DOMAIN secrefs \cup {r}
        /\ \A x \in DOMAIN secrefs : secrefs'[x] = secrefs[x]
        /\ secrefs'[r] = None
        /\ file' = [file EXCEPT ![p] = r]
        /\ \E n \in 0..MaxRefs : DOMAIN secrefs' = 1..n
  <2>1. PICK n \in 0..MaxRefs : DOMAIN secrefs = 1..n
    BY DEF IInv, Numbered
  <2>2. PICK r \in Fresh(RefId, secrefs) :
          /\ secrefs' = [x \in DOMAIN secrefs \cup {r} |-> IF x = r THEN None ELSE secrefs[x]]
          /\ file' = [file EXCEPT ![p] = r]
    BY DEF OpenSecref
  <2>3. r = n + 1 /\ r \in RefId /\ r \notin DOMAIN secrefs /\ DOMAIN secrefs \cup {r} = 1..n + 1
    BY <2>1, FreshIsNew
  <2>4. n + 1 \in 0..MaxRefs
    BY <2>3 DEF RefId
  <2> QED
    BY <2>2, <2>3, <2>4
<1>a. /\ job[p].pointer \in Private /\ pc[p] = "record" /\ pc'[p] = "secref"
      /\ pc' \in [Proc -> Locations]
      /\ \A q \in Proc : q # p => pc'[q] = pc[q]
      /\ UNCHANGED <<notes, events, others, job, handle, answer>>
  BY GoesIs DEF IInv, OpenSecref, Locations
<1>1. TypeOK'
  BY <1>0, <1>a DEF IInv, TypeOK, IsPartial, events, others
<1>2. Numbered'
  BY <1>0, <1>a DEF IInv, Numbered
<1>3. \A q \in Proc : OnTask(q)'
  BY <1>0, <1>a DEF IInv, OnTask
<1>4. OwnSecref'
  <2>1. file'[p] = r /\ \A q \in Proc : q # p => file'[q] = file[q]
    BY <1>0 DEF IInv, TypeOK
  <2> QED
    <3>1. ASSUME NEW q \in Proc, q # p, pc[q] = "secref"
          PROVE  /\ file[q] \in DOMAIN secrefs /\ file[q] # r /\ secrefs'[file[q]] = None
                 /\ \A s \in Proc : pc[s] = "secref" /\ file[s] = file[q] => s = q
      BY <1>0, <3>1 DEF IInv, OwnSecref
    <3>2. ASSUME NEW q \in Proc, pc'[q] = "secref"
          PROVE  /\ file'[q] \in DOMAIN secrefs' /\ secrefs'[file'[q]] = None
                 /\ \A s \in Proc : pc'[s] = "secref" /\ file'[s] = file'[q] => s = q
      <4>1. CASE q = p
        BY <1>0, <1>a, <2>1, <3>1, <4>1
      <4>2. CASE q # p
        BY <1>0, <1>a, <2>1, <3>1, <3>2, <4>2
      <4> QED
        BY <4>1, <4>2
    <3> QED
      BY <3>2 DEF OwnSecref
<1>5. \A q \in Proc : HasHandle(q)'
  <2>1. \A x \in DOMAIN secrefs : secrefs[x] # None => secrefs'[x] = secrefs[x]
    BY <1>0
  <2>2. DOMAIN secrefs \subseteq DOMAIN secrefs'
    BY <1>0
  <2>3. ASSUME NEW q \in Proc, handle[q] # None
        PROVE  LeadsTo(handle[q], job[q].pointer)'
    <3>1. job[q].kind = "ingest" /\ LeadsTo(handle[q], job[q].pointer)
      BY <2>3 DEF IInv, HasHandle
    <3>2. job[q].pointer \in Pointer
      BY <3>1 DEF IInv, OnTask
    <3> QED
      BY <1>a, <2>1, <2>2, <3>1, <3>2, NameAssumption DEF LeadsTo
  <2> QED
    BY <1>a, <2>3 DEF IInv, HasHandle
<1>6. \A q \in Proc : Looked(q)'
  BY <1>0, <1>a DEF IInv, Looked
<1>7. \A q \in Proc : InHand(q)'
  BY <1>0, <1>a DEF IInv, InHand, TagOf
<1>8. EventsGrounded'
  BY <1>0, <1>a DEF IInv, EventsGrounded, events
<1>9. (WorkingFromRaw /\ OutputsCite)'
  BY <1>0, <1>a DEF IInv, WorkingFromRaw, OutputsCite
<1>10. Led'
  <2>1. \A x \in DOMAIN secrefs : secrefs[x] # None => secrefs'[x] = secrefs[x]
    BY <1>0
  <2>2. DOMAIN secrefs \subseteq DOMAIN secrefs'
    BY <1>0
  <2>3. ASSUME NEW x \in DOMAIN notes, notes[x].tag # None
        PROVE  LeadsTo(notes[x].tag.handle, notes[x].tag.fp)'
    <3>1. LeadsTo(notes[x].tag.handle, notes[x].tag.fp) /\ notes[x].tag.fp # None
      BY <2>3, TagPointer, NameAssumption DEF IInv, Led
    <3> QED
      BY <1>a, <2>1, <2>2, <3>1 DEF LeadsTo
  <2> QED
    BY <1>a, <2>3 DEF Led
<1>11. IngestTruth'
  BY <1>0, <1>a DEF IInv, IngestTruth, Ingested
<1>12. OneIntake'
  BY <1>0, <1>a DEF IInv, OneIntake, others
<1>13. \A q \in Proc : NotListed(q)'
  BY <1>0, <1>a DEF IInv, NotListed, About, Listed, others
<1>14. Once'
  BY <1>0, <1>a DEF IInv, Once, About, Listed, others
<1> QED
  BY <1>1, <1>2, <1>3, <1>4, <1>5, <1>6, <1>7, <1>8, <1>9, <1>10, <1>11, <1>12, <1>13, <1>14
  DEF IInv

(* A reference file is written.                                            *)
LEMMA WriteSecrefStep ==
  ASSUME IInv, NEW p \in Proc, WriteSecref(p)
  PROVE  IInv'
<1>a. job[p].kind = "ingest" /\ job[p].pointer \in Private
  BY DEF IInv, WriteSecref, Goes, OnTask
<1>0. /\ pc[p] = "secref" /\ pc'[p] = "open"
      /\ pc' \in [Proc -> Locations]
      /\ \A q \in Proc : q # p => pc'[q] = pc[q]
      /\ file[p] \in DOMAIN secrefs /\ file[p] \in RefId /\ secrefs[file[p]] = None
      /\ secrefs' = [secrefs EXCEPT ![file[p]] = job[p].pointer]
      /\ handle' = [handle EXCEPT ![p] = [secref |-> file[p]]]
      /\ [secref |-> file[p]] \in Handle
      /\ file' = [file EXCEPT ![p] = None]
      /\ job[p].kind = "ingest" /\ job[p].pointer \in Private
      /\ UNCHANGED <<notes, events, others, job, answer>>
  BY GoesIs
  DEF IInv, WriteSecref, Locations, Handle, OwnSecref, OnTask, TypeOK, IsPartial
<1>1. TypeOK'
  BY <1>0 DEF IInv, TypeOK, IsPartial, events, others
<1>2. Numbered'
  BY <1>0 DEF IInv, Numbered
<1>3. \A q \in Proc : OnTask(q)'
  BY <1>0 DEF IInv, OnTask
<1>4. OwnSecref'
  BY <1>0 DEF IInv, OwnSecref
<1>5. \A q \in Proc : HasHandle(q)'
  BY <1>0, NameAssumption, RecordAssumption DEF IInv, TypeOK, OnTask, HasHandle, LeadsTo
<1>6. \A q \in Proc : Looked(q)'
  BY <1>0 DEF IInv, Looked
<1>7. \A q \in Proc : InHand(q)'
  BY <1>0 DEF IInv, InHand, TagOf
<1>8. EventsGrounded'
  BY <1>0 DEF IInv, EventsGrounded, events
<1>9. (WorkingFromRaw /\ OutputsCite)'
  BY <1>0 DEF IInv, WorkingFromRaw, OutputsCite
<1>10. Led'
  <2>1. \A x \in DOMAIN secrefs : secrefs[x] # None => secrefs'[x] = secrefs[x]
    BY <1>0
  <2>2. DOMAIN secrefs \subseteq DOMAIN secrefs'
    BY <1>0
  <2>3. ASSUME NEW x \in DOMAIN notes, notes[x].tag # None
        PROVE  LeadsTo(notes[x].tag.handle, notes[x].tag.fp)'
    <3>1. LeadsTo(notes[x].tag.handle, notes[x].tag.fp) /\ notes[x].tag.fp # None
      BY <2>3, TagPointer, NameAssumption DEF IInv, Led
    <3> QED
      BY <1>0, <2>1, <2>2, <3>1 DEF LeadsTo
  <2> QED
    BY <1>0, <2>3 DEF Led
<1>11. IngestTruth'
  BY <1>0 DEF IInv, IngestTruth, Ingested
<1>12. OneIntake'
  BY <1>0 DEF IInv, OneIntake, others
<1>13. \A q \in Proc : NotListed(q)'
  BY <1>0 DEF IInv, NotListed, About, Listed, others
<1>14. Once'
  BY <1>0 DEF IInv, Once, About, Listed, others
<1> QED
  BY <1>1, <1>2, <1>3, <1>4, <1>5, <1>6, <1>7, <1>8, <1>9, <1>10, <1>11, <1>12, <1>13, <1>14
  DEF IInv

(* What a command cites is looked up.                                      *)
LEMMA ReadStep ==
  ASSUME IInv, NEW p \in Proc, ReadSource(p) \/ ResolveSources(p)
  PROVE  IInv'
<1>1. TypeOK'
  BY DEF IInv, TypeOK, Locations, ReadSource, ResolveSources, Goes, files, events,
         others, mine
<1>2. Numbered'
  BY DEF IInv, Numbered, ReadSource, ResolveSources, files
<1>3. \A q \in Proc : OnTask(q)'
  BY DEF IInv, TypeOK, OnTask, ReadSource, ResolveSources, Goes, files, mine
<1>4. OwnSecref'
  BY DEF IInv, OwnSecref, TypeOK, ReadSource, ResolveSources, Goes, files, mine
<1>5. \A q \in Proc : HasHandle(q)'
  BY DEF IInv, TypeOK, OnTask, HasHandle, LeadsTo, ReadSource, ResolveSources, Goes,
         files, mine
<1>6. \A q \in Proc : Looked(q)'
  BY DEF IInv, Looked, TypeOK, OnTask, Listed, ReadSource, ResolveSources, Resolves,
         Goes, files, mine
<1>7. \A q \in Proc : InHand(q)'
  BY DEF IInv, InHand, TypeOK, TagOf, ReadSource, ResolveSources, Goes, files, mine
<1>8. EventsGrounded'
  BY DEF IInv, EventsGrounded, ReadSource, ResolveSources, files, events
<1>9. (WorkingFromRaw /\ OutputsCite)'
  BY DEF IInv, WorkingFromRaw, OutputsCite, ReadSource, ResolveSources, files
<1>10. Led'
  BY DEF IInv, Led, LeadsTo, ReadSource, ResolveSources, files
<1>11. IngestTruth'
  BY DEF IInv, IngestTruth, Ingested, ReadSource, ResolveSources, files, mine
<1>12. OneIntake'
  BY DEF IInv, OneIntake, ReadSource, ResolveSources, files, others, mine
<1>13. \A q \in Proc : NotListed(q)'
  BY DEF IInv, NotListed, About, Listed, TypeOK, OnTask, ReadSource, ResolveSources,
         Goes, files, others, mine
<1>14. Once'
  BY DEF IInv, Once, About, Listed, ReadSource, ResolveSources, files, others
<1> QED
  BY <1>1, <1>2, <1>3, <1>4, <1>5, <1>6, <1>7, <1>8, <1>9, <1>10, <1>11, <1>12, <1>13, <1>14
  DEF IInv

(* A note is created.                                                      *)
LEMMA OpenStep ==
  ASSUME IInv, NEW p \in Proc, OpenNote(p)
  PROVE  IInv'
<1>0. PICK i \in NoteId \ DOMAIN notes :
        /\ DOMAIN notes' = DOMAIN notes \cup {i}
        /\ \A x \in DOMAIN notes : notes'[x] = notes[x]
        /\ notes'[i] = [layer |-> LayerOf(job[p].kind), part |-> "empty",
                        sources |-> job[p].sources, tag |-> TagOf(p)]
        /\ file' = [file EXCEPT ![p] = i]
        /\ \E n \in 0..MaxNotes : DOMAIN notes' = 1..n
  <2>1. PICK n \in 0..MaxNotes : DOMAIN notes = 1..n
    BY DEF IInv, Numbered
  <2>2. PICK i \in Fresh(NoteId, notes) :
          /\ notes' = [x \in DOMAIN notes \cup {i} |->
                         IF x = i
                         THEN [layer |-> LayerOf(job[p].kind), part |-> "empty",
                               sources |-> job[p].sources, tag |-> TagOf(p)]
                         ELSE notes[x]]
          /\ file' = [file EXCEPT ![p] = i]
    BY DEF OpenNote
  <2>3. i = n + 1 /\ i \in NoteId /\ i \notin DOMAIN notes /\ DOMAIN notes \cup {i} = 1..n + 1
    BY <2>1, FreshIsNew
  <2>4. n + 1 \in 0..MaxNotes
    BY <2>3 DEF NoteId
  <2> QED
    BY <2>2, <2>3, <2>4
<1>a. /\ pc' \in [Proc -> Locations] /\ pc[p] = "open" /\ pc'[p] = "fill"
      /\ \A q \in Proc : q # p => pc'[q] = pc[q]
      /\ UNCHANGED <<secrefs, events, others, job, handle, answer>>
  BY GoesIs DEF IInv, OpenNote, Locations
<1>b. job[p] \in Job /\ job[p].kind \in Kinds
  BY DEF IInv, TypeOK, Job
<1>c. /\ TagOf(p) \in Tag \cup {None}
      /\ TagOf(p) # None =>
           /\ job[p].kind = "ingest" /\ handle[p] # None
           /\ TagOf(p).media = job[p].media /\ TagOf(p).fp = job[p].pointer
           /\ TagOf(p).handle = handle[p]
  BY TagIs DEF IInv
<1>d. LayerOf(job[p].kind) \in Layers
  BY <1>b, LayerOfIs
<1>e. /\ notes'[i].layer = LayerOf(job[p].kind) /\ notes'[i].part = "empty"
      /\ notes'[i].sources = job[p].sources /\ notes'[i].tag = TagOf(p)
      /\ notes'[i] \in Note
  BY <1>0, <1>b, <1>c, <1>d DEF Note, Parts, Job
<1>f. /\ file' = [file EXCEPT ![p] = i] /\ file'[p] = i
      /\ \A q \in Proc : q # p => file'[q] = file[q]
      /\ file' \in [Proc -> NoteId \cup RefId \cup {None}]
      /\ i \in NoteId /\ i \notin DOMAIN notes
      /\ DOMAIN notes' = DOMAIN notes \cup {i}
      /\ \A x \in DOMAIN notes : notes'[x] = notes[x]
  BY <1>0 DEF IInv, TypeOK
<1>1. TypeOK'
  BY <1>a, <1>e, <1>f DEF IInv, TypeOK, IsPartial, events, others
<1>2. Numbered'
  BY <1>0, <1>a DEF IInv, Numbered
<1>3. \A q \in Proc : OnTask(q)'
  BY <1>a, <1>b, <1>c, <1>e, <1>f DEF IInv, OnTask
<1>4. OwnSecref'
  BY <1>a, <1>b, <1>c, <1>e, <1>f DEF IInv, OwnSecref
<1>5. \A q \in Proc : HasHandle(q)'
  BY <1>a, <1>b, <1>c, <1>e, <1>f DEF IInv, HasHandle, LeadsTo
<1>6. \A q \in Proc : Looked(q)'
  BY <1>a, <1>f DEF IInv, Looked
<1>7. \A q \in Proc : InHand(q)'
  <2>1. \A q \in Proc : TagOf(q)' = TagOf(q)
    BY <1>a DEF TagOf
  <2> QED
    BY <1>a, <1>e, <1>f, <2>1 DEF IInv, InHand
<1>8. EventsGrounded'
  BY <1>a, <1>f DEF IInv, EventsGrounded, events
<1>9. (WorkingFromRaw /\ OutputsCite)'
  <2>1. WorkingFromRaw'
    BY <1>a, <1>b, <1>e, <1>f, LayerOfIs DEF IInv, WorkingFromRaw, Looked
  <2>2. OutputsCite'
    BY <1>a, <1>b, <1>e, <1>f, LayerOfIs DEF IInv, OutputsCite, Looked
  <2> QED
    BY <2>1, <2>2
<1>10. Led'
  <2>1. \A h, pointer : LeadsTo(h, pointer)' <=> LeadsTo(h, pointer)
    BY <1>a DEF LeadsTo
  <2>2. TagOf(p) # None => LeadsTo(handle[p], job[p].pointer)
    BY <1>c DEF IInv, HasHandle
  <2> QED
    BY <1>a, <1>c, <1>e, <1>f, <2>1, <2>2 DEF IInv, Led
<1>11. IngestTruth'
  BY <1>a, <1>f DEF IInv, IngestTruth, Ingested
<1>12. OneIntake'
  BY <1>a, <1>b, <1>c, <1>e, <1>f DEF IInv, OneIntake, others
<1>13. \A q \in Proc : NotListed(q)'
  <2>1. \A x \in DOMAIN notes' : \A m : About(x, m)' => x \in DOMAIN notes /\ About(x, m)
    BY <1>e, <1>f DEF About, Listed
  <2>2. \A q \in Proc : pc[q] \in {"fill", "event"} => file[q] \in DOMAIN notes
    BY DEF IInv, InHand
  <2> QED
    BY <1>a, <1>e, <1>f, <2>1, <2>2 DEF IInv, NotListed, others
<1>14. Once'
  <2>1. \A x \in DOMAIN notes' : \A m : About(x, m)' => x \in DOMAIN notes /\ About(x, m)
    BY <1>e, <1>f DEF About, Listed
  <2> QED
    BY <1>a, <2>1 DEF IInv, Once, others
<1> QED
  BY <1>1, <1>2, <1>3, <1>4, <1>5, <1>6, <1>7, <1>8, <1>9, <1>10, <1>11, <1>12, <1>13, <1>14
  DEF IInv

(* A part of a note is written.                                            *)
LEMMA FillStep ==
  ASSUME IInv, NEW p \in Proc, FillNote(p)
  PROVE  IInv'
<1>0. /\ pc[p] = "fill" /\ file[p] \in DOMAIN notes /\ notes[file[p]].part # "whole"
      /\ DOMAIN notes' = DOMAIN notes
      /\ \A x \in DOMAIN notes :
           /\ notes'[x].layer = notes[x].layer /\ notes'[x].sources = notes[x].sources
           /\ notes'[x].tag = notes[x].tag
           /\ x # file[p] => notes'[x] = notes[x]
      /\ notes'[file[p]].part = IF notes[file[p]].part = "empty" THEN "head" ELSE "whole"
      /\ \A x \in DOMAIN notes : notes'[x] \in Note
      /\ UNCHANGED <<secrefs, events, others, pc, mine>>
  BY DEF IInv, TypeOK, IsPartial, InHand, FillNote, Note, Parts
<1>1. TypeOK'
  BY <1>0 DEF IInv, TypeOK, IsPartial, events, others, mine
<1>2. Numbered'
  BY <1>0 DEF IInv, Numbered
<1>3. \A q \in Proc : OnTask(q)'
  BY <1>0 DEF IInv, OnTask, mine
<1>4. OwnSecref'
  BY <1>0 DEF IInv, OwnSecref, mine
<1>5. \A q \in Proc : HasHandle(q)'
  BY <1>0 DEF IInv, HasHandle, LeadsTo, mine
<1>6. \A q \in Proc : Looked(q)'
  BY <1>0 DEF IInv, Looked, mine
<1>7. \A q \in Proc : InHand(q)'
  BY <1>0 DEF IInv, InHand, TagOf, mine
<1>8. EventsGrounded'
  BY <1>0 DEF IInv, EventsGrounded, events
<1>9. (WorkingFromRaw /\ OutputsCite)'
  BY <1>0 DEF IInv, WorkingFromRaw, OutputsCite
<1>10. Led'
  <2> SUFFICES ASSUME NEW i \in DOMAIN notes', notes'[i].tag # None
               PROVE  LeadsTo(notes[i].tag.handle, notes[i].tag.fp)'
    BY DEF Led
  <2>1. /\ i \in DOMAIN notes /\ notes'[i].tag = notes[i].tag
        /\ LeadsTo(notes[i].tag.handle, notes[i].tag.fp)
    BY <1>0 DEF IInv, Led
  <2> QED
    BY <1>0, <2>1 DEF LeadsTo
<1>11. IngestTruth'
  BY <1>0 DEF IInv, IngestTruth, Ingested, mine
<1>12. OneIntake'
  BY <1>0 DEF IInv, OneIntake, others, mine
<1>13. \A q \in Proc : NotListed(q)'
  <2>1. \A q \in Proc : pc[q] = "fill" /\ notes'[file[q]].part = "empty" =>
          file[q] # file[p] /\ notes[file[q]].part = "empty"
    BY <1>0 DEF IInv, InHand
  <2>2. \A x \in DOMAIN notes : \A m : About(x, m)' => About(x, m) \/ x = file[p]
    BY <1>0 DEF About, Listed
  <2>3. \A m : About(file[p], m)' => job[p].kind = "ingest" /\ m = job[p].media
    BY <1>0, TagIs DEF IInv, InHand, About, mine
  <2> QED
    BY <1>0, <2>1, <2>2, <2>3 DEF IInv, NotListed, OneIntake, others, mine
<1>14. Once'
  <2>1. \A x \in DOMAIN notes : \A m : About(x, m)' => About(x, m) \/ x = file[p]
    BY <1>0 DEF About, Listed
  <2>2. \A m : About(file[p], m)' => job[p].kind = "ingest" /\ m = job[p].media
    BY <1>0, TagIs DEF IInv, InHand, About, mine
  <2>3. notes[file[p]].part # "empty" => \A m : About(file[p], m)' => About(file[p], m)
    BY <1>0 DEF About, Listed, mine
  <2> QED
    BY <1>0, <2>1, <2>2, <2>3 DEF IInv, NotListed, Once, others, mine
<1> QED
  BY <1>1, <1>2, <1>3, <1>4, <1>5, <1>6, <1>7, <1>8, <1>9, <1>10, <1>11, <1>12, <1>13, <1>14
  DEF IInv

(* A note is whole.                                                        *)
LEMMA FinishStep ==
  ASSUME IInv, NEW p \in Proc, FinishNote(p)
  PROVE  IInv'
<1>1. TypeOK'
  BY DEF IInv, TypeOK, Locations, FinishNote, Goes, files, events, others, mine
<1>2. Numbered'
  BY DEF IInv, Numbered, FinishNote, files
<1>3. \A q \in Proc : OnTask(q)'
  BY DEF IInv, OnTask, FinishNote, Goes, files, mine
<1>4. OwnSecref'
  BY DEF IInv, OwnSecref, FinishNote, Goes, files, mine
<1>5. \A q \in Proc : HasHandle(q)'
  BY DEF IInv, HasHandle, LeadsTo, FinishNote, Goes, files, mine
<1>6. \A q \in Proc : Looked(q)'
  BY DEF IInv, Looked, FinishNote, Goes, files, mine
<1>7. \A q \in Proc : InHand(q)'
  BY DEF IInv, InHand, TagOf, FinishNote, Goes, files, mine
<1>8. EventsGrounded'
  BY DEF IInv, EventsGrounded, FinishNote, files, events
<1>9. (WorkingFromRaw /\ OutputsCite)'
  BY DEF IInv, WorkingFromRaw, OutputsCite, FinishNote, files
<1>10. Led'
  BY DEF IInv, Led, LeadsTo, FinishNote, files
<1>11. IngestTruth'
  BY DEF IInv, IngestTruth, Ingested, FinishNote, files, mine
<1>12. OneIntake'
  BY DEF IInv, OneIntake, FinishNote, files, others, mine
<1>13. \A q \in Proc : NotListed(q)'
  BY DEF IInv, NotListed, About, Listed, FinishNote, Goes, files, others, mine
<1>14. Once'
  BY DEF IInv, Once, About, Listed, FinishNote, files, others
<1> QED
  BY <1>1, <1>2, <1>3, <1>4, <1>5, <1>6, <1>7, <1>8, <1>9, <1>10, <1>11, <1>12, <1>13, <1>14
  DEF IInv

(* A reviewed intake goes on to its promotion.                             *)
LEMMA PromotingStep ==
  ASSUME IInv, NEW p \in Proc, EventThenPromote(p)
  PROVE  IInv'
<1>0. /\ job[p].kind # "promote" /\ file[p] \in NoteId
      /\ pc' \in [Proc -> Locations]
      /\ job' = [job EXCEPT ![p] = Asked("promote", {file[p]})]
      /\ Asked("promote", {file[p]}) \in Job
  <2>1. pc[p] = "event" /\ pc' \in [Proc -> Locations]
    BY GoesIs DEF IInv, EventThenPromote, Locations
  <2>2. job[p].kind # "promote" /\ file[p] \in NoteId
    BY <2>1 DEF IInv, OnTask, InHand, TypeOK, IsPartial
  <2>3. {file[p]} \in SUBSET Source
    BY <2>2 DEF Source
  <2>4. Asked("promote", {file[p]}) \in Job
    BY <2>3, AskedIsJob
  <2> QED
    BY <2>1, <2>2, <2>4 DEF EventThenPromote, Asked
<1>1. TypeOK'
  BY <1>0
  DEF IInv, TypeOK, EventThenPromote, AppendEvent, AppendCaptured, AppendAccepted,
      files, others
<1>2. Numbered'
  BY DEF IInv, Numbered, EventThenPromote, files
<1>3. \A q \in Proc : OnTask(q)'
  BY DEF IInv, TypeOK, OnTask, EventThenPromote, Goes, files
<1>4. OwnSecref'
  BY DEF IInv, OwnSecref, EventThenPromote, Goes, files
<1>5. \A q \in Proc : HasHandle(q)'
  BY DEF IInv, TypeOK, HasHandle, LeadsTo, EventThenPromote, Goes, files
<1>6. \A q \in Proc : Looked(q)'
  BY DEF IInv, Looked, EventThenPromote, Goes, files
<1>7. \A q \in Proc : InHand(q)'
  BY DEF IInv, InHand, TypeOK, TagOf, EventThenPromote, Goes, files
<1>8. EventsGrounded'
  BY DEF IInv, EventsGrounded, InHand, LayerOf, EventThenPromote, AppendEvent,
         AppendCaptured, AppendAccepted, Goes, files
<1>9. (WorkingFromRaw /\ OutputsCite)'
  BY DEF IInv, WorkingFromRaw, OutputsCite, EventThenPromote, files
<1>10. Led'
  BY DEF IInv, Led, LeadsTo, EventThenPromote, files
<1>11. IngestTruth'
  BY DEF IInv, IngestTruth, Ingested, EventThenPromote, files
<1>12. OneIntake'
  BY DEF IInv, OneIntake, EventThenPromote, files, others
<1>13. \A q \in Proc : NotListed(q)'
  BY DEF IInv, NotListed, About, Listed, EventThenPromote, Goes, files, others
<1>14. Once'
  BY DEF IInv, Once, About, Listed, EventThenPromote, files, others
<1> QED
  BY <1>1, <1>2, <1>3, <1>4, <1>5, <1>6, <1>7, <1>8, <1>9, <1>10, <1>11, <1>12, <1>13, <1>14
  DEF IInv

-----------------------------------------------------------------------------
(* All steps.                                                              *)

LEMMA InitHolds == Init => IInv
<1> SUFFICES ASSUME Init
             PROVE  IInv
  OBVIOUS
<1>1. DOMAIN notes = {} /\ DOMAIN secrefs = {}
  BY DEF Init
<1>2. Numbered
  <2>1. 0 \in 0..MaxNotes /\ 0 \in 0..MaxRefs /\ 1..0 = {}
    BY BoundAssumption
  <2> QED
    BY <1>1, <2>1 DEF Numbered
<1>3. TypeOK
  BY <1>1, NoJobIsJob DEF Init, TypeOK, IsPartial, Locations
<1>4. \A p \in Proc : pc[p] = "idle" /\ job[p] = NoJob /\ handle[p] = None /\ answer[p] = None
  BY DEF Init
<1>5. \A p \in Proc : OnTask(p) /\ HasHandle(p) /\ Looked(p) /\ InHand(p) /\ NotListed(p)
  BY <1>4, NoJobIsJob DEF OnTask, HasHandle, Looked, InHand, NotListed
<1>6. OwnSecref /\ IngestTruth /\ OneIntake
  BY <1>4, NoJobIsJob DEF OwnSecref, IngestTruth, Ingested, OneIntake
<1>7. EventsGrounded /\ WorkingFromRaw /\ OutputsCite /\ Led /\ Once
  BY <1>1 DEF Init, EventsGrounded, WorkingFromRaw, OutputsCite, Led, Once
<1> QED
  BY <1>2, <1>3, <1>5, <1>6, <1>7 DEF IInv

(* Commands that end.                                                      *)
LEMMA EndStep ==
  ASSUME IInv, NEW p \in Proc,
         Abandon(p) \/ ScanFindsSame(p) \/ ScanConflicts(p) \/ FinishPromote(p) \/ EventThenAnswer(p)
  PROVE  IInv'
<1>1. CASE Abandon(p) \/ ScanConflicts(p)
  <2>1. Answers(p, None) /\ UNCHANGED <<files, events, others>>
    BY <1>1 DEF Abandon, ScanConflicts
  <2>2. EventsGrounded' /\ captured' \subseteq NoteId /\ accepted' \subseteq NoteId
    BY <2>1 DEF IInv, TypeOK, EventsGrounded, files, events
  <2> QED
    BY <2>1, <2>2, AnsweredStep DEF others
<1>2. CASE ScanFindsSame(p)
  <2>1. PICK i \in Found(job[p], {}) : Agrees(notes[i].tag, job[p]) /\ Answers(p, Report(p, i))
    BY <1>2 DEF ScanFindsSame
  <2>2. UNCHANGED <<files, events, others>>
    BY <1>2 DEF ScanFindsSame
  <2>3. /\ i \in DOMAIN notes /\ i \in NoteId /\ notes[i].layer = "raw" /\ notes[i].tag # None
        /\ notes[i].tag.media = job[p].media /\ notes[i].tag.text = job[p].text
        /\ notes[i].tag.fp = job[p].pointer
    BY <2>1 DEF Found, Listed, Matches, Agrees, IInv, TypeOK, IsPartial
  <2>4. EventsGrounded' /\ captured' \subseteq NoteId /\ accepted' \subseteq NoteId
    BY <2>2 DEF IInv, TypeOK, EventsGrounded, files, events
  <2>5. /\ Report(p, i) \in [job : Job, note : NoteId] \cup {None}
        /\ Report(p, i) # None => Report(p, i).job = job[p] /\ Report(p, i).note = i
    BY <2>3, ReportIs DEF IInv
  <2> QED
    BY <2>1, <2>2, <2>3, <2>4, <2>5, AnsweredStep DEF others
<1>3. CASE FinishPromote(p)
  <2>1. /\ job[p].kind = "promote" /\ Answers(p, Report(p, file[p]))
        /\ UNCHANGED <<files, events, others>>
    BY <1>3 DEF FinishPromote
  <2>2. Report(p, file[p]) = None
    BY <2>1 DEF Report
  <2>3. EventsGrounded' /\ captured' \subseteq NoteId /\ accepted' \subseteq NoteId
    BY <2>1 DEF IInv, TypeOK, EventsGrounded, files, events
  <2> QED
    BY <2>1, <2>2, <2>3, AnsweredStep DEF others
<1>4. CASE EventThenAnswer(p)
  <2>1. /\ pc[p] = "event" /\ AppendEvent(p) /\ Answers(p, Report(p, file[p]))
        /\ UNCHANGED <<files, others>>
    BY <1>4 DEF EventThenAnswer
  <2>2. /\ file[p] \in DOMAIN notes /\ file[p] \in NoteId
        /\ notes[file[p]].part = "whole" /\ notes[file[p]].tag = TagOf(p)
        /\ notes[file[p]].layer = LayerOf(job[p].kind) /\ job[p].kind \in Kinds
    BY <2>1 DEF IInv, InHand, TypeOK, IsPartial, Job
  <2>3. EventsGrounded' /\ captured' \subseteq NoteId /\ accepted' \subseteq NoteId
    BY <2>1, <2>2, LayerOfIs
    DEF IInv, TypeOK, EventsGrounded, AppendEvent, AppendCaptured, AppendAccepted, files
  <2>4. /\ Report(p, file[p]) \in [job : Job, note : NoteId] \cup {None}
        /\ Report(p, file[p]) # None =>
             /\ job[p].kind = "ingest"
             /\ Report(p, file[p]).job = job[p] /\ Report(p, file[p]).note = file[p]
    BY <2>2, ReportIs DEF IInv
  <2>5. job[p].kind = "ingest" =>
          /\ notes[file[p]].layer = "raw" /\ notes[file[p]].tag # None
          /\ notes[file[p]].tag.media = job[p].media /\ notes[file[p]].tag.text = job[p].text
          /\ notes[file[p]].tag.fp = job[p].pointer
    BY <2>1, <2>2, TagIs, LayerOfIs DEF IInv, HasHandle
  <2> QED
    BY <2>1, <2>2, <2>3, <2>4, <2>5, AnsweredStep DEF others
<1> QED
  BY <1>1, <1>2, <1>3, <1>4

LEMMA Inductive == IInv /\ [Next]_vars => IInv'
<1> SUFFICES ASSUME IInv, [Next]_vars
             PROVE  IInv'
  OBVIOUS
<1>1. CASE UNCHANGED vars
  <2>1. TypeOK' /\ Numbered' /\ OwnSecref' /\ EventsGrounded' /\ WorkingFromRaw' /\ OutputsCite'
    BY <1>1 DEF IInv, vars, TypeOK, IsPartial, Numbered, OwnSecref, EventsGrounded, WorkingFromRaw,
         OutputsCite
  <2>2. Led' /\ IngestTruth' /\ OneIntake' /\ Once'
    BY <1>1 DEF IInv, vars, Led, LeadsTo, IngestTruth, Ingested, OneIntake, Once, About, Listed
  <2>3. \A p \in Proc : OnTask(p)' /\ HasHandle(p)' /\ Looked(p)' /\ InHand(p)' /\ NotListed(p)'
    BY <1>1 DEF IInv, vars, OnTask, HasHandle, LeadsTo, Looked, InHand, TagOf, NotListed, About, Listed
  <2> QED
    BY <2>1, <2>2, <2>3 DEF IInv
<1>2. CASE Supersede
  BY <1>2, SupersedeStep
<1>3. ASSUME NEW p \in Proc, Start(p) \/ ScanFindsNothing(p)
      PROVE  IInv'
  BY <1>3, StartStep, ScanStep
<1>4. ASSUME NEW p \in Proc, RecordPublic(p) \/ OpenSecref(p) \/ WriteSecref(p)
      PROVE  IInv'
  BY <1>4, RecordPublicStep, OpenSecrefStep, WriteSecrefStep
<1>5. ASSUME NEW p \in Proc, ReadSource(p) \/ ResolveSources(p)
      PROVE  IInv'
  BY <1>5, ReadStep
<1>6. ASSUME NEW p \in Proc, OpenNote(p) \/ FillNote(p) \/ FinishNote(p) \/ EventThenPromote(p)
      PROVE  IInv'
  BY <1>6, OpenStep, FillStep, FinishStep, PromotingStep
<1>7. ASSUME NEW p \in Proc,
             Abandon(p) \/ ScanFindsSame(p) \/ ScanConflicts(p) \/ FinishPromote(p) \/ EventThenAnswer(p)
      PROVE  IInv'
  BY <1>7, EndStep
<1> QED
  BY <1>1, <1>2, <1>3, <1>4, <1>5, <1>6, <1>7 DEF Next

LEMMA Invariant == Spec => []IInv
<1>1. Init => IInv
  BY InitHolds
<1>2. IInv /\ [Next]_vars => IInv'
  BY Inductive
<1> QED
  BY <1>1, <1>2, PTL DEF Spec

-----------------------------------------------------------------------------
(* The theorems.                                                           *)

(* Whatever fails or dies, and however many commands run, an event names a *)
(* note of its layer that is all there (capture.ts, distill.ts, output.ts: *)
(* the note is written before its event is appended).                      *)
THEOREM EventsAreGrounded == Spec => []EventsGrounded
<1>1. IInv => EventsGrounded
  BY DEF IInv
<1> QED
  BY <1>1, Invariant, PTL

(* A working note leads back to a raw one, the ULIDs an output cites were  *)
(* there (its links and titles nobody looks up), and the handle of a       *)
(* medium leads to its pointer.                                            *)
THEOREM SourcesAreFound == Spec => []SourcesFound
<1>1. IInv => HandlesResolve
  BY DEF IInv, Led, LeadsTo, HandlesResolve
<1>2. IInv => SourcesFound
  BY <1>1 DEF IInv, SourcesFound
<1> QED
  BY <1>2, Invariant, PTL

(* An intake that reports a note, new or found again, reports one with the *)
(* media, transcript and reference it was given (ingest.ts, runIngest).    *)
THEOREM IntakesTellTruth == Spec => []IngestTruth
<1>1. IInv => IngestTruth
  BY DEF IInv
<1> QED
  BY <1>1, Invariant, PTL

(* Intakes that run one after the other and can read what they look at     *)
(* keep one raw note for each medium (ingest.ts, findExistingByMediaId).   *)
THEOREM OneNotePerMedia == Spec => []OncePerMedia
<1>1. IInv => OncePerMedia
  <2> SUFFICES ASSUME IInv, ~blind, NEW i \in Listed, NEW k \in Listed,
                      notes[i].tag # None, notes[k].tag # None,
                      notes[i].tag.media = notes[k].tag.media
               PROVE  i = k
    BY DEF OncePerMedia
  <2>1. i \in DOMAIN notes /\ k \in DOMAIN notes
    BY DEF Listed
  <2>2. notes[i].tag.media \in Media
    BY <2>1, TagPointer DEF IInv
  <2> QED
    BY <2>1, <2>2 DEF IInv, Once, About
<1> QED
  BY <1>1, Invariant, PTL

=============================================================================
