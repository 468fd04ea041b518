------------------------------ MODULE VaultFlow ------------------------------
(***************************************************************************)
(* The commands that write notes and the events about them: capture, note  *)
(* promote, distill accept, output create, and the media intake, which     *)
(* strings a scan of the vault, secref add, capture and note promote       *)
(* together.  Each runs as an operating system process of its own, next to *)
(* the others, and may fail or die at any step; the dashboard's concurrent *)
(* requests are processes like the rest.                                   *)
(*                                                                         *)
(* A note is created with the flag wx and then filled, so that a process   *)
(* that dies may leave it empty or cut off.  Its id is a fresh ULID.       *)
(***************************************************************************)
EXTENDS Naturals, FiniteSets

CONSTANTS
  Proc,           \* processes
  MaxNotes,       \* bound: note files
  MaxRefs,        \* bound: secure reference files
  Media,          \* ids of media artifacts
  Text,           \* transcripts, by hash
  Public,         \* pointers that classify as public
  Private,        \* pointers that classify as private
  Fact,           \* fact ids
  Ghost,          \* an id that names nothing
  Link,           \* a source that is no ULID: a link, a title
  None

Pointer == Public \cup Private
NoteId == 1..MaxNotes
RefId == 1..MaxRefs
Source == NoteId \cup Fact \cup {Ghost, Link}

ASSUME BoundAssumption == MaxNotes \in Nat /\ MaxRefs \in Nat
ASSUME NameAssumption == /\ Public \cap Private = {}
                         /\ Ghost \notin NoteId \cup Fact
                         /\ Link \notin NoteId \cup Fact \cup {Ghost}
                         /\ Fact \cap NoteId = {}
                         /\ None \notin Source \cup Pointer \cup Media \cup Text

(* How much of a file has been written; its frontmatter parses from "head" *)
(* on.                                                                     *)
Parts == {"empty", "head", "whole"}
Layers == {"raw", "working", "distilled", "output"}

(* The media section of a raw note: the handle is the pointer itself or a  *)
(* reference to a secure_ref.                                              *)
Handle == [ref : Pointer] \cup [secref : RefId]
Tag == [media : Media, text : Text, fp : Pointer, handle : Handle]
Note == [layer : Layers, part : Parts, sources : SUBSET Source, tag : Tag \cup {None}]

ASSUME RecordAssumption == None \notin Handle \cup Tag

(* What a process is asked to do.                                          *)
Kinds == {"capture", "ingest", "promote", "accept", "output"}
Job == [kind : Kinds, media : Media \cup {None}, text : Text \cup {None},
        pointer : Pointer \cup {None}, review : BOOLEAN, sources : SUBSET Source]
NoJob == [kind |-> "capture", media |-> None, text |-> None, pointer |-> None,
          review |-> FALSE, sources |-> {}]

VARIABLES
  notes,     \* the note files, by id
  secrefs,   \* the secure reference files: the pointer, None while unwritten
  captured,  \* subjects of the captured events
  accepted,  \* subjects of the distillation_accepted and note_created events
  facts,     \* the current facts
  pc,        \* where each process is
  job,       \* its task
  handle,    \* the handle it has recorded for a media reference
  file,      \* the note or reference file it is writing
  (* history *)
  answer,    \* what a process's intake reported, a job and a note
  blind      \* an intake ran beside another, or could not read a note of its media

files == <<notes, secrefs>>
events == <<captured, accepted>>
others == <<facts, blind>>
mine == <<job, handle, file, answer>>
vars == <<notes, secrefs, captured, accepted, facts, pc, job, handle, file, answer, blind>>

Init ==
  /\ notes = [i \in {} |-> None]
  /\ secrefs = [r \in {} |-> None]
  /\ captured = {}
  /\ accepted = {}
  /\ facts = Fact
  /\ pc = [p \in Proc |-> "idle"]
  /\ job = [p \in Proc |-> NoJob]
  /\ handle = [p \in Proc |-> None]
  /\ file = [p \in Proc |-> None]
  /\ answer = [p \in Proc |-> None]
  /\ blind = FALSE

-----------------------------------------------------------------------------
Goes(p, here, there) == pc[p] = here /\ pc' = [pc EXCEPT ![p] = there]

(* A new id: files are numbered in the order of their creation.            *)
Fresh(Id, f) == {i \in Id : i = Cardinality(DOMAIN f) + 1}

(* The command ends with an answer about a note, or with none.             *)
Answers(p, a) ==
  /\ pc' = [pc EXCEPT ![p] = "idle"]
  /\ answer' = [answer EXCEPT ![p] = a]
  /\ job' = [job EXCEPT ![p] = NoJob]
  /\ handle' = [handle EXCEPT ![p] = None]
  /\ file' = [file EXCEPT ![p] = None]

(* An intake's answer is kept, for the properties.                         *)
Report(p, i) == IF job[p].kind = "ingest" THEN [job |-> job[p], note |-> i] ELSE None

(* A step throws or the process dies; files and events stay as they are:   *)
(* the note is kept when its event cannot be appended.                     *)
Abandon(p) ==
  /\ pc[p] # "idle"
  /\ Answers(p, None)
  /\ UNCHANGED <<files, events, others>>

(* Somebody supersedes a fact.                                             *)
Supersede ==
  /\ \E f \in facts : facts' = facts \ {f}
  /\ UNCHANGED <<files, events, pc, mine, blind>>

-----------------------------------------------------------------------------
(* A command begins, and its process checks its arguments.                 *)

CaptureJob == NoJob
IngestJobs == [kind : {"ingest"}, media : Media, text : Text, pointer : Pointer,
               review : BOOLEAN, sources : {{}}]
Citing(kind, S) == {[NoJob EXCEPT !.kind = kind, !.sources = C] : C \in S}
Citable == DOMAIN notes \cup facts \cup {Ghost, Link}

(* A person promotes one note; an output cites a source and, beside it, a  *)
(* link or an id that names nothing; what a distillation cites nobody      *)
(* looks up, and is left out.                                              *)
Jobs ==
  {CaptureJob} \cup IngestJobs
    \cup Citing("promote", {{s} : s \in Citable})
    \cup Citing("accept", {{}})
    \cup Citing("output", {{s, t} : s \in Citable, t \in {Ghost, Link}})

FirstStep(kind) ==
  CASE kind = "capture" -> "open"
    [] kind = "ingest" -> "scan"
    [] kind = "promote" -> "source"
    [] kind = "accept" -> "open"
    [] kind = "output" -> "resolve"

Start(p) ==
  /\ \E j \in Jobs :
       /\ Goes(p, "idle", FirstStep(j.kind))
       /\ job' = [job EXCEPT ![p] = j]
       /\ blind' = (blind \/ (j.kind = "ingest" /\ \E q \in Proc : job[q].kind = "ingest"))
  /\ answer' = [answer EXCEPT ![p] = None]
  /\ UNCHANGED <<files, events, facts, handle, file>>

-----------------------------------------------------------------------------
(* The media intake, up to its capture.                                    *)

(* note list --type raw shows the raw notes whose frontmatter parses.      *)
Listed == {i \in DOMAIN notes : notes[i].layer = "raw" /\ notes[i].part # "empty"}

(* The notes of this media that a scan can read: it stops at the first in  *)
(* the order of the ULIDs, which may be any.                               *)
Matches_Pointer(i, j) == notes[i].tag # None /\ notes[i].tag.fp = j.pointer
Matches(i, j) == notes[i].tag # None /\ notes[i].tag.media = j.media
Found(j, unread) == {i \in Listed \ unread : Matches(i, j)}

Agrees_Text(tag, j) == tag.text = j.text
Agrees(tag, j) == tag.text = j.text /\ tag.fp = j.pointer

(* Nothing known of this media, or no note get that would tell succeeds:   *)
(* go on to record its reference.                                          *)
ScanFindsNothing(p) ==
  /\ \E unread \in SUBSET Listed : Found(job[p], unread) = {}
  /\ Goes(p, "scan", "record")
  /\ blind' = (blind \/ Found(job[p], {}) # {})
  /\ UNCHANGED <<files, events, facts, mine>>

(* The same transcript and reference: report the note that is there.       *)
ScanFindsSame(p) ==
  /\ pc[p] = "scan"
  /\ \E i \in Found(job[p], {}) :
       /\ Agrees(notes[i].tag, job[p])
       /\ Answers(p, Report(p, i))
  /\ UNCHANGED <<files, events, others>>

(* Another transcript or reference: media_id_conflict.                     *)
ScanConflicts(p) ==
  /\ pc[p] = "scan"
  /\ \E i \in Found(job[p], {}) : ~Agrees(notes[i].tag, job[p])
  /\ Answers(p, None)
  /\ UNCHANGED <<files, events, others>>

(* recordMediaReference: a public pointer is its own handle; a private one *)
(* is written to a secure_ref first.                                       *)
RecordPublic(p) ==
  /\ job[p].pointer \in Public
  /\ Goes(p, "record", "open")
  /\ handle' = [handle EXCEPT ![p] = [ref |-> job[p].pointer]]
  /\ UNCHANGED <<files, events, others, job, file, answer>>

OpenSecref(p) ==
  /\ job[p].pointer \in Private
  /\ Goes(p, "record", "secref")
  /\ \E r \in Fresh(RefId, secrefs) :
       /\ secrefs' = [x \in DOMAIN secrefs \cup {r} |-> IF x = r THEN None ELSE secrefs[x]]
       /\ file' = [file EXCEPT ![p] = r]
  /\ UNCHANGED <<notes, events, others, job, handle, answer>>

WriteSecref(p) ==
  /\ Goes(p, "secref", "open")
  /\ secrefs' = [secrefs EXCEPT ![file[p]] = job[p].pointer]
  /\ handle' = [handle EXCEPT ![p] = [secref |-> file[p]]]
  /\ file' = [file EXCEPT ![p] = None]
  /\ UNCHANGED <<notes, events, others, job, answer>>

-----------------------------------------------------------------------------
(* Reads that a command makes before it writes.                            *)

(* runNotePromote copies a raw note, and only a raw note.                  *)
ReadSource_AnyNote(p) ==
  /\ \E s \in job[p].sources : s \in DOMAIN notes
  /\ Goes(p, "source", "open")
  /\ UNCHANGED <<files, events, others, mine>>
ReadSource(p) ==
  /\ \E s \in job[p].sources : s \in Listed
  /\ Goes(p, "source", "open")
  /\ UNCHANGED <<files, events, others, mine>>

(* assertSourcesResolve: a cited ULID names a note file or a current fact; *)
(* any other source is accepted as it is.                                  *)
IsUlid(s) == s # Link
Resolves(s) == IsUlid(s) => s \in DOMAIN notes \cup facts

ResolveSources(p) ==
  /\ \A s \in job[p].sources : Resolves(s)
  /\ Goes(p, "resolve", "open")
  /\ UNCHANGED <<files, events, others, mine>>

-----------------------------------------------------------------------------
(* Writing a note.                                                         *)

LayerOf(kind) ==
  CASE kind = "capture" -> "raw"
    [] kind = "ingest" -> "raw"
    [] kind = "promote" -> "working"
    [] kind = "accept" -> "distilled"
    [] kind = "output" -> "output"

TagOf(p) ==
  IF handle[p] = None THEN None
  ELSE [media |-> job[p].media, text |-> job[p].text, fp |-> job[p].pointer,
        handle |-> handle[p]]

(* Exclusive creation under a fresh id.                                    *)
OpenNote(p) ==
  /\ Goes(p, "open", "fill")
  /\ \E i \in Fresh(NoteId, notes) :
       /\ notes' = [x \in DOMAIN notes \cup {i} |->
                      IF x = i
                      THEN [layer |-> LayerOf(job[p].kind), part |-> "empty",
                            sources |-> job[p].sources, tag |-> TagOf(p)]
                      ELSE notes[x]]
       /\ file' = [file EXCEPT ![p] = i]
  /\ UNCHANGED <<secrefs, events, others, job, handle, answer>>

FillNote(p) ==
  /\ pc[p] = "fill"
  /\ notes[file[p]].part # "whole"
  /\ notes' = [notes EXCEPT ![file[p]].part = IF @ = "empty" THEN "head" ELSE "whole"]
  /\ UNCHANGED <<secrefs, events, others, pc, mine>>

(* The note is written; a working note has no event.                       *)
FinishNote_Early(p) ==
  /\ Goes(p, "fill", "event")
  /\ job[p].kind # "promote"
  /\ UNCHANGED <<files, events, others, mine>>
FinishNote(p) ==
  /\ Goes(p, "fill", "event")
  /\ notes[file[p]].part = "whole"
  /\ job[p].kind # "promote"
  /\ UNCHANGED <<files, events, others, mine>>

FinishPromote(p) ==
  /\ pc[p] = "fill"
  /\ notes[file[p]].part = "whole"
  /\ job[p].kind = "promote"
  /\ Answers(p, Report(p, file[p]))
  /\ UNCHANGED <<files, events, others>>

-----------------------------------------------------------------------------
(* Appending the event, and what follows.                                  *)

AppendCaptured(p) ==
  /\ job[p].kind \in {"capture", "ingest"}
  /\ captured' = captured \cup {file[p]}
  /\ UNCHANGED accepted
AppendAccepted(p) ==
  /\ job[p].kind \in {"accept", "output"}
  /\ accepted' = accepted \cup {file[p]}
  /\ UNCHANGED captured
AppendEvent(p) == AppendCaptured(p) \/ AppendAccepted(p)

EventThenAnswer(p) ==
  /\ pc[p] = "event"
  /\ ~job[p].review
  /\ AppendEvent(p)
  /\ Answers(p, Report(p, file[p]))
  /\ UNCHANGED <<files, others>>

(* A reviewed intake goes on to promote the note it has captured.          *)
EventThenPromote(p) ==
  /\ Goes(p, "event", "source")
  /\ job[p].review
  /\ AppendEvent(p)
  /\ job' = [job EXCEPT ![p] = [NoJob EXCEPT !.kind = "promote", !.sources = {file[p]}]]
  /\ handle' = [handle EXCEPT ![p] = None]
  /\ file' = [file EXCEPT ![p] = None]
  /\ UNCHANGED <<files, others, answer>>

-----------------------------------------------------------------------------
Next ==
  \/ Supersede
  \/ \E p \in Proc :
       \/ Start(p)
       \/ ScanFindsNothing(p) \/ ScanFindsSame(p) \/ ScanConflicts(p)
       \/ RecordPublic(p) \/ OpenSecref(p) \/ WriteSecref(p)
       \/ ReadSource(p) \/ ResolveSources(p)
       \/ OpenNote(p) \/ FillNote(p) \/ FinishNote(p) \/ FinishPromote(p)
       \/ EventThenAnswer(p) \/ EventThenPromote(p)
       \/ Abandon(p)

Spec == Init /\ [][Next]_vars

-----------------------------------------------------------------------------
(* Properties.                                                             *)

Locations == {"idle", "scan", "record", "secref", "source", "resolve", "open", "fill", "event"}
IsPartial(f, D, R) == DOMAIN f \subseteq D /\ \A x \in DOMAIN f : f[x] \in R

(* Every variable has its type.                                            *)
TypeOK ==
  /\ IsPartial(notes, NoteId, Note)
  /\ IsPartial(secrefs, RefId, Private \cup {None})
  /\ captured \subseteq NoteId
  /\ accepted \subseteq NoteId
  /\ facts \subseteq Fact
  /\ pc \in [Proc -> Locations]
  /\ job \in [Proc -> Job]
  /\ handle \in [Proc -> Handle \cup {None}]
  /\ file \in [Proc -> NoteId \cup RefId \cup {None}]
  /\ answer \in [Proc -> [job : Job, note : NoteId] \cup {None}]
  /\ blind \in BOOLEAN

(* An event never speaks of a note that is missing or cut off: whatever    *)
(* fails or dies, a captured event names a raw note, and an acceptance a   *)
(* distilled note or an output, whose text is all there.                   *)
EventsGrounded ==
  /\ \A i \in captured : i \in DOMAIN notes /\ notes[i].layer = "raw" /\ notes[i].part = "whole"
  /\ \A i \in accepted : /\ i \in DOMAIN notes /\ notes[i].part = "whole"
                         /\ notes[i].layer \in {"distilled", "output"}

(* The handle of a note's media leads to the pointer it was ingested with: *)
(* a public one directly, a private one only through a secure_ref that is  *)
(* already written.                                                        *)
HandlesResolve ==
  \A i \in DOMAIN notes : notes[i].tag # None =>
    LET h == notes[i].tag.handle
    IN \/ notes[i].tag.fp \in Public /\ h = [ref |-> notes[i].tag.fp]
       \/ \E r \in DOMAIN secrefs : h = [secref |-> r] /\ secrefs[r] = notes[i].tag.fp

(* A working note leads back to a raw note, whatever id it was asked to    *)
(* promote.                                                                *)
WorkingFromRaw ==
  \A i \in DOMAIN notes : notes[i].layer = "working" =>
    \E s \in notes[i].sources : s \in DOMAIN notes /\ notes[s].layer = "raw"

(* Every ULID an output cites is that of a note or a fact that is there    *)
(* or, for a fact superseded since it was looked up, was there.  Nobody    *)
(* looks up its other sources, links and titles.                           *)
OutputsCite ==
  \A i \in DOMAIN notes : notes[i].layer = "output" =>
    \A s \in notes[i].sources : IsUlid(s) => s \in DOMAIN notes \cup Fact

(* No dangling identifier: what a working note, an output or the record of *)
(* a medium refers to by an identifier is there (promote and output create *)
(* look before they write, an intake writes its secure_ref before the      *)
(* note).  The links and titles an output may cite are not looked up.      *)
SourcesFound == TypeOK /\ WorkingFromRaw /\ OutputsCite /\ HandlesResolve

Ingested(p) == answer[p] # None

(* An intake that reports a note, be it new or found again, reports one    *)
(* with the media, transcript and reference it was given.                  *)
IngestTruth ==
  \A p \in Proc : Ingested(p) =>
    LET i == answer[p].note
        j == answer[p].job
    IN /\ i \in DOMAIN notes /\ notes[i].layer = "raw" /\ notes[i].tag # None
       /\ notes[i].tag.media = j.media /\ notes[i].tag.text = j.text /\ notes[i].tag.fp = j.pointer

(* "Re-ingesting the same media_id writes nothing": intakes that run one   *)
(* after the other and read the notes they look at keep one raw note per   *)
(* media, whatever died before them and whatever they are given.           *)
OncePerMedia ==
  ~blind => \A i, k \in Listed :
    (notes[i].tag # None /\ notes[k].tag # None /\ notes[i].tag.media = notes[k].tag.media) => i = k
=============================================================================
