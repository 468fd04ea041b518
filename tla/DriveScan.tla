------------------------------- MODULE DriveScan -------------------------------
(***************************************************************************)
(* The media scanner (scripts/media_drive_scan.sh).                        *)
(*                                                                         *)
(* Every fifteen minutes, or when a person starts it, it goes through the  *)
(* media files of an inbox folder: it hashes each, prepares an artifact    *)
(* directory named after the hash, skips what a visual-intake.json marks   *)
(* as done, and hands the file to the media intake once a transcript.md is *)
(* there.  Meanwhile people and other programs put files into the inbox    *)
(* and the artifact directories.  A content is known by its hash, and its  *)
(* transcript by the content that was transcribed.  One scan runs at a     *)
(* time; intakes at the same time are VaultFlow's.                         *)
(***************************************************************************)
EXTENDS Naturals

CONSTANTS
  Name,         \* file names in the inbox
  Media,        \* contents, by their hash
  None,
  Flags,        \* the flags scans are started with
  MaxChanges    \* bound: changes that people and other programs make

ASSUME BoundAssumption == MaxChanges \in Nat
ASSUME FlagAssumption == Flags \subseteq [dry : BOOLEAN, transcribe : BOOLEAN, review : BOOLEAN]

Transcript == [of : Media, whole : BOOLEAN]
Entry == [text : Transcript, pointer : Name]

ASSUME NoneAssumption == None \notin Media \cup Name \cup Transcript \cup Entry

VARIABLES
  inbox,      \* the content of each file of the inbox, None if it is missing
  dirs,       \* the artifact directories
  transcript, \* transcript.md of each directory
  captions,   \* the directories with a transcript in another format
  marker,     \* the media_id in each directory's visual-intake.json
  raw,        \* what is ingested of each content: transcript and pointer
  working,    \* the contents with a working note
  pc,         \* where the scan is
  flags,      \* its flags
  todo,       \* the files it has left
  name,       \* the file it is at
  id,         \* the hash it has computed for it
  fine,       \* history: the files reported as ingested or idempotent
  tours,      \* history: the contents marked as done when the scan began
  changes     \* how many changes there have been

store == <<inbox, dirs, transcript, captions, marker>>
ledger == <<raw, working>>
scan == <<flags, todo, name, id, fine, tours>>
vars == <<store, ledger, pc, scan, changes>>

Init ==
  /\ inbox = [n \in Name |-> None]
  /\ dirs = {}
  /\ transcript = [m \in Media |-> None]
  /\ captions = {}
  /\ marker = [m \in Media |-> None]
  /\ raw = [m \in Media |-> None]
  /\ working = {}
  /\ pc = "off"
  /\ flags \in Flags
  /\ todo = {}
  /\ name = None
  /\ id = None
  /\ fine = {}
  /\ tours = {}
  /\ changes = 0

-----------------------------------------------------------------------------
(* People, the sync program and the transcriber.                           *)

Change ==
  /\ changes < MaxChanges
  /\ changes' = changes + 1
  /\ UNCHANGED <<ledger, pc, scan>>

(* A file arrives, goes, or gets other bytes while it is synced.           *)
Sync ==
  /\ Change
  /\ \E n \in Name : \E m \in Media \cup {None} : inbox' = [inbox EXCEPT ![n] = m]
  /\ inbox' # inbox
  /\ UNCHANGED <<dirs, transcript, captions, marker>>

Rename ==
  /\ Change
  /\ \E a, b \in Name :
       /\ inbox[a] # None /\ inbox[b] = None
       /\ inbox' = [inbox EXCEPT ![a] = None, ![b] = inbox[a]]
  /\ UNCHANGED <<dirs, transcript, captions, marker>>

(* The transcriber computes the same hash and puts its transcript into the *)
(* same directory, byte by byte.                                           *)
Deliver ==
  /\ Change
  /\ \E m \in Media : \E whole \in BOOLEAN :
       /\ transcript' = [transcript EXCEPT ![m] = [of |-> m, whole |-> whole]]
       /\ transcript' # transcript
       /\ dirs' = dirs \cup {m}
  /\ UNCHANGED <<inbox, captions, marker>>

DeliverCaptions ==
  /\ Change
  /\ \E m \in dirs \ captions : captions' = captions \cup {m}
  /\ UNCHANGED <<inbox, dirs, transcript, marker>>

(* The intake agent marks a room tour as done; a marker may also have been *)
(* copied from another directory.                                          *)
Mark ==
  /\ Change
  /\ \E m \in dirs : \E k \in Media : marker[m] # m /\ marker' = [marker EXCEPT ![m] = k]
  /\ UNCHANGED <<inbox, dirs, transcript, captions>>

-----------------------------------------------------------------------------
(* A scan.                                                                 *)

Goes(here, there) == pc = here /\ pc' = there

Present == {n \in Name : inbox[n] # None}

StartScan ==
  /\ Goes("off", "next")
  /\ flags' \in Flags
  /\ todo' = Present
  /\ fine' = {}
  /\ tours' = {m \in Media : marker[m] = m}
  /\ UNCHANGED <<store, ledger, name, id, changes>>

NextFile ==
  /\ Goes("next", "hash")
  /\ \E n \in todo : name' = n /\ todo' = todo \ {n}
  /\ UNCHANGED <<store, ledger, flags, id, fine, tours, changes>>

(* The file is done with, and reported.                                    *)
Leave(outcome) ==
  /\ pc' = "next"
  /\ fine' = IF outcome \in {"ingested", "idempotent"} THEN fine \cup {name} ELSE fine
  /\ name' = None
  /\ id' = None
  /\ UNCHANGED <<store, flags, todo, tours, changes>>

(* compute_media_id, and the directory of that hash.                       *)
Hash ==
  /\ Goes("hash", "marker")
  /\ inbox[name] # None
  /\ id' = inbox[name]
  /\ dirs' = dirs \cup {inbox[name]}
  /\ UNCHANGED <<inbox, transcript, captions, marker, ledger, flags, todo, name, fine, tours, changes>>

HashFails ==
  /\ pc = "hash"
  /\ Leave("failed")
  /\ UNCHANGED ledger

(* A marker counts only if it names this content.                          *)
Marked_AnyId == marker[id] # None
Marked == marker[id] = id

SkipVisual ==
  /\ pc = "marker"
  /\ Marked
  /\ Leave("visual")
  /\ UNCHANGED ledger

NotVisual ==
  /\ Goes("marker", "look")
  /\ ~Marked
  /\ UNCHANGED <<store, ledger, scan, changes>>

HasTranscript == transcript[id] # None

(* transcript.md is there.                                                 *)
Ready ==
  /\ Goes("look", "go")
  /\ HasTranscript
  /\ UNCHANGED <<store, ledger, scan, changes>>

(* whisper transcribes what the file holds by now.  Its exit status is not *)
(* looked at: it may have left part of a text, or none.                    *)
Transcribes == flags.transcribe /\ ~flags.dry

Transcribe ==
  /\ Goes("look", "go")
  /\ ~HasTranscript /\ Transcribes
  /\ \/ UNCHANGED transcript
     \/ /\ inbox[name] # None
        /\ \E whole \in BOOLEAN :
             transcript' = [transcript EXCEPT ![id] = [of |-> inbox[name], whole |-> whole]]
  /\ UNCHANGED <<inbox, dirs, captions, marker, ledger, scan, changes>>

NoTranscribing ==
  /\ Goes("look", "go")
  /\ ~HasTranscript /\ ~Transcribes
  /\ UNCHANGED <<store, ledger, scan, changes>>

Pending ==
  /\ pc = "go"
  /\ ~HasTranscript
  /\ Leave("pending")
  /\ UNCHANGED ledger

(* A dry run goes no further.                                              *)
DryRun ==
  /\ pc = "go"
  /\ HasTranscript /\ flags.dry
  /\ Leave("ready")
  /\ UNCHANGED ledger

-----------------------------------------------------------------------------
(* media-intake ingest, in brief.                                          *)

Ingests == pc = "go" /\ HasTranscript /\ ~flags.dry

Given == [text |-> transcript[id], pointer |-> name]

(* The raw note is captured, and promoted when a review is asked for.      *)
Known_SamePointer == raw[id] # None /\ raw[id].pointer = name
Known == raw[id] # None

IngestFresh ==
  /\ Ingests
  /\ ~Known
  /\ raw' = [raw EXCEPT ![id] = Given]
  /\ IF flags.review
     THEN pc' = "promote" /\ UNCHANGED <<store, scan, changes>>
     ELSE Leave("ingested")
  /\ UNCHANGED working

Promote ==
  /\ pc = "promote"
  /\ working' = working \cup {id}
  /\ Leave("ingested")
  /\ UNCHANGED raw

PromoteFails ==
  /\ pc = "promote"
  /\ Leave("failed")
  /\ UNCHANGED ledger

Same_Text == raw[id].text = transcript[id]
Same == raw[id] = Given

IngestSame ==
  /\ Ingests
  /\ Known
  /\ Same
  /\ Leave("idempotent")
  /\ UNCHANGED ledger

(* media_id_conflict.                                                      *)
IngestConflicts ==
  /\ Ingests
  /\ Known
  /\ ~Same
  /\ Leave("failed")
  /\ UNCHANGED ledger

(* The intake fails before it has written anything.                        *)
IngestFails ==
  /\ Ingests
  /\ Leave("failed")
  /\ UNCHANGED ledger

-----------------------------------------------------------------------------
EndScan ==
  /\ Goes("next", "off")
  /\ todo = {}
  /\ UNCHANGED <<store, ledger, scan, changes>>

(* Somebody kills the scanner.                                             *)
Kill ==
  /\ changes < MaxChanges
  /\ changes' = changes + 1
  /\ pc # "off"
  /\ pc' = "off"
  /\ name' = None
  /\ id' = None
  /\ todo' = {}
  /\ UNCHANGED <<store, ledger, flags, fine, tours>>

Step ==
  \/ NextFile \/ Hash \/ HashFails \/ SkipVisual \/ NotVisual \/ Ready
  \/ Transcribe \/ NoTranscribing \/ Pending \/ DryRun
  \/ IngestFresh \/ Promote \/ PromoteFails \/ IngestSame \/ IngestConflicts \/ IngestFails
  \/ EndScan

Environment == Sync \/ Rename \/ Deliver \/ DeliverCaptions \/ Mark

Next == StartScan \/ Step \/ Environment \/ Kill

Spec == Init /\ [][Next]_vars

(* The LaunchAgent starts scan after scan, and a scan goes on.  Not every  *)
(* scan is a dry run, and outside of dry runs the hashing and the intake   *)
(* of a file do not fail for ever.                                         *)
Fairness ==
  /\ WF_vars(StartScan)
  /\ SF_vars(StartScan /\ ~flags'.dry)
  /\ WF_vars(Step)
  /\ \A n \in Name : /\ SF_vars(name = n /\ ~flags.dry /\ Hash)
                     /\ SF_vars(name = n /\ IngestFresh)

FairSpec == Spec /\ Fairness

-----------------------------------------------------------------------------
(* Properties.                                                             *)

Locations == {"off", "next", "hash", "marker", "look", "go", "promote"}

(* Every variable has its type.                                            *)
TypeOK ==
  /\ inbox \in [Name -> Media \cup {None}]
  /\ dirs \subseteq Media
  /\ transcript \in [Media -> Transcript \cup {None}]
  /\ captions \subseteq Media
  /\ marker \in [Media -> Media \cup {None}]
  /\ raw \in [Media -> Entry \cup {None}]
  /\ working \subseteq Media
  /\ pc \in Locations
  /\ flags \in Flags
  /\ todo \subseteq Name
  /\ name \in Name \cup {None}
  /\ id \in Media \cup {None}
  /\ fine \subseteq Name
  /\ tours \subseteq Media
  /\ changes \in 0..MaxChanges

(* "A changed transcript or pointer for the same media_id fails closed":   *)
(* however files are renamed, changed or transcribed anew, what has been   *)
(* ingested of a content stays as it is.                                   *)
LedgerKept == [][\A m \in Media : raw[m] # None => raw'[m] = raw[m]]_vars

(* A file reported as ingested, or as ingested before, is the pointer of a *)
(* raw note.                                                               *)
FineIsIngested == \A n \in fine : \E m \in Media : raw[m] # None /\ raw[m].pointer = n

(* The scanner's summary counts a file as fine only if it is.              *)
SummaryTrue == TypeOK /\ FineIsIngested

(* Room tours are left alone: a scan does not ingest a content that was    *)
(* marked as done before it began.                                         *)
ToursLeftAlone == [][\A m \in tours : raw'[m] = raw[m]]_vars

(* No scan changes what was settled before it, by an intake or by hand.    *)
SettledStays == LedgerKept /\ ToursLeftAlone

(* A file that stays in the inbox, with a transcript and without a marker  *)
(* of its own, has its content ingested in the end: a marker of another    *)
(* content does not suppress it, and no number of failed scans does.       *)
DropsIngested ==
  \A n \in Name : \A m \in Media :
    <>[](inbox[n] = m /\ transcript[m] # None /\ marker[m] # m) => <>(raw[m] # None)
=============================================================================
