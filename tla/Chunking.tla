------------------------------- MODULE Chunking -------------------------------
(***************************************************************************)
(* Cutting a note into the chunks of the retrieval index                   *)
(* (sidecars/retrieval/src/retrieval_sidecar/chunking.py).                 *)
(*                                                                         *)
(* A text is told by its characters: line breaks, the mark of a heading,   *)
(* and everything else, so that every string of the algorithm is a span of *)
(* the body.  Space other than line breaks is left out.                    *)
(***************************************************************************)
EXTENDS Naturals, Sequences

CONSTANTS
  Bodies,   \* bodies of notes
  Target    \* _TARGET_CHARS

Char == {"text", "hash", "break"}

ASSUME TargetAssumption == Target \in Nat \ {0}
ASSUME BodiesAssumption == Bodies \subseteq Seq(Char)

VARIABLES
  body,       \* the body of the note
  titled,     \* whether it has a title
  pc,         \* where the algorithm is
  at,         \* the body is done up to this position
  section,    \* the section at hand
  paragraph,  \* the paragraph at hand
  pieces,     \* the pieces found so far
  taken,      \* how many of them have been packed
  gathered,   \* buffer: pieces of the chunk being packed
  buffered,   \* their size
  chunks      \* the chunks: their pieces, and whether the title comes first

input == <<body, titled>>
cut == <<at, section, paragraph, pieces>>
pack == <<taken, gathered, buffered, chunks>>
chunkVars ==
  <<body, titled, pc, at, section, paragraph, pieces, taken, gathered, buffered, chunks>>

Position == 1..Len(body)
Span == [from : Nat, to : Nat]
NoSpan == [from |-> 1, to |-> 0]
Size(s) == (s.to + 1) - s.from
Within(s) == s.from..s.to

ChunkInit ==
  /\ body \in Bodies
  /\ titled \in BOOLEAN
  /\ pc = "sections"
  /\ at = 0
  /\ section = NoSpan
  /\ paragraph = NoSpan
  /\ pieces = <<>>
  /\ taken = 0
  /\ gathered = <<>>
  /\ buffered = 0
  /\ chunks = <<>>

-----------------------------------------------------------------------------
Ink(p) == body[p] # "break"
Least(S) == CHOOSE p \in S : \A q \in S : p <= q
Greatest(S) == CHOOSE p \in S : \A q \in S : q <= p

(* strip()                                                                 *)
Trimmed(from, to) ==
  LET inked == {p \in from..to : Ink(p)}
  IN IF inked = {} THEN NoSpan ELSE [from |-> Least(inked), to |-> Greatest(inked)]

(* A line that begins with a heading mark.                                 *)
Heading(p) == body[p] = "hash" /\ (p = 1 \/ body[p - 1] = "break")

(* The last position before the first of S, or before the end.             *)
Before(S, end) == IF S = {} THEN end ELSE Least(S) - 1

(* _split_sections: up to the next heading; a blank section is dropped.    *)
SectionEnd == Before({p \in Position : p > at + 1 /\ Heading(p)}, Len(body))

TakeSection ==
  /\ pc = "sections"
  /\ at < Len(body)
  /\ section' = Trimmed(at + 1, SectionEnd)
  /\ at' = IF section' = NoSpan THEN SectionEnd ELSE section'.from - 1
  /\ pc' = IF section' = NoSpan THEN "sections" ELSE "section"
  /\ UNCHANGED <<input, paragraph, pieces, pack>>

Keep_Open(s) == pieces' = Append(pieces, s) /\ at' = IF s.to < Len(body) THEN s.to + 1 ELSE s.to
Keep(s) == pieces' = Append(pieces, s) /\ at' = s.to

(* _split_oversized: a section that fits is one piece ...                  *)
KeepSection ==
  /\ pc = "section"
  /\ Size(section) <= Target
  /\ Keep(section)
  /\ pc' = "sections"
  /\ UNCHANGED <<input, section, paragraph, pack>>

(* ... any other is split at its blank lines ...                           *)
BlankLine(p) == p + 1 <= section.to /\ ~Ink(p) /\ ~Ink(p + 1)

TakeParagraph ==
  /\ pc \in {"section", "paragraphs"}
  /\ pc = "section" => Size(section) > Target
  /\ at < section.to
  /\ paragraph' = Trimmed(at + 1, Before({p \in at + 1 .. section.to : BlankLine(p) /\ \E q \in at + 1 .. p : Ink(q)},
                                         section.to))
  /\ at' = paragraph'.from - 1
  /\ pc' = "paragraph"
  /\ UNCHANGED <<input, section, pieces, pack>>

SectionDone ==
  /\ pc = "paragraphs"
  /\ at = section.to
  /\ pc' = "sections"
  /\ UNCHANGED <<input, cut, pack>>

(* ... and a paragraph that does not fit is cut by force.                  *)
CutParagraph ==
  /\ pc = "paragraph"
  /\ Keep([from |-> at + 1,
           to |-> IF at + Target < paragraph.to THEN at + Target ELSE paragraph.to])
  /\ pc' = IF at' = paragraph.to THEN "paragraphs" ELSE "paragraph"
  /\ UNCHANGED <<input, section, paragraph, pack>>

SectionsDone ==
  /\ pc = "sections"
  /\ at = Len(body)
  /\ pc' = "pack"
  /\ UNCHANGED <<input, cut, pack>>

-----------------------------------------------------------------------------
(* _pack.                                                                  *)

Chunk(ps) == [title |-> FALSE, pieces |-> ps]

Overflows(s) == gathered # <<>> /\ buffered + Size(s) > Target

PackNext ==
  /\ pc = "pack"
  /\ taken < Len(pieces)
  /\ LET s == pieces[taken + 1]
     IN IF Overflows(s)
        THEN /\ chunks' = Append(chunks, Chunk(gathered))
             /\ gathered' = <<s>>
             /\ buffered' = Size(s)
        ELSE /\ gathered' = Append(gathered, s)
             /\ buffered' = buffered + Size(s)
             /\ UNCHANGED chunks
  /\ taken' = taken + 1
  /\ UNCHANGED <<input, cut, pc>>

Flushed == IF gathered = <<>> THEN chunks ELSE Append(chunks, Chunk(gathered))

(* chunk_note: the title goes before the first text, if need be an empty   *)
(* one.                                                                    *)
Titled(cs) ==
  IF ~titled THEN cs
  ELSE IF cs = <<>> THEN <<[title |-> TRUE, pieces |-> <<>>]>>
  ELSE [cs EXCEPT ![1].title = TRUE]

Finish ==
  /\ pc = "pack"
  /\ taken = Len(pieces)
  /\ chunks' = Titled(Flushed)
  /\ gathered' = <<>>
  /\ buffered' = 0
  /\ pc' = "done"
  /\ UNCHANGED <<input, cut, taken>>

ChunkNext ==
  \/ TakeSection \/ KeepSection \/ TakeParagraph \/ CutParagraph \/ SectionDone
  \/ SectionsDone \/ PackNext \/ Finish

ChunkSpec == ChunkInit /\ [][ChunkNext]_chunkVars

-----------------------------------------------------------------------------
(* Properties.                                                             *)

Places == {"sections", "section", "paragraphs", "paragraph", "pack", "done"}

(* Every variable has its type.                                            *)
ChunkTypeOK ==
  /\ body \in Seq(Char)
  /\ titled \in BOOLEAN
  /\ pc \in Places
  /\ at \in 0..Len(body)
  /\ section \in Span
  /\ paragraph \in Span
  /\ pieces \in Seq(Span)
  /\ taken \in 0..Len(pieces)
  /\ gathered \in Seq(Span)
  /\ buffered \in Nat
  /\ chunks \in Seq([title : BOOLEAN, pieces : Seq(Span)])

(* Nothing of a note is lost or indexed twice: the pieces follow each      *)
(* other in the order of the body, and only line breaks are left out of    *)
(* what has been done, between two pieces and at either end.               *)
PiecesCover ==
  /\ \A i \in DOMAIN pieces : Size(pieces[i]) > 0 /\ Within(pieces[i]) \subseteq 1..at
  /\ \A i, j \in DOMAIN pieces : i < j => pieces[i].to < pieces[j].from
  /\ \A p \in 1..at : Ink(p) => \E i \in DOMAIN pieces : p \in Within(pieces[i])

(* Packing keeps the pieces and their order: chunk by chunk, then the      *)
(* buffer, they are the pieces taken so far.                               *)
Unpacked[n \in 0..Len(chunks)] ==
  IF n = 0 THEN <<>> ELSE Unpacked[n - 1] \o chunks[n].pieces
PackingKeeps == Unpacked[Len(chunks)] \o gathered = SubSeq(pieces, 1, taken)

(* From body to pieces to chunks, nothing is lost, doubled or reordered.   *)
NothingLost == ChunkTypeOK /\ PiecesCover /\ PackingKeeps

(* A heading is never severed from what it heads by being in the middle or *)
(* at the end of a longer piece.                                           *)
HeadingsLead ==
  \A i \in DOMAIN pieces : \A p \in Within(pieces[i]) : Heading(p) => p = pieces[i].from

(* "Packed into chunks up to the target": neither a piece nor the pieces   *)
(* of a chunk exceed it, and no chunk could have taken the next one's      *)
(* first piece as well.  (Title and the separators do not count.)          *)
Total(ps) ==
  LET sum[n \in 0..Len(ps)] == IF n = 0 THEN 0 ELSE sum[n - 1] + Size(ps[n])
  IN sum[Len(ps)]
FilledToTarget ==
  /\ \A k \in DOMAIN chunks : Total(chunks[k].pieces) <= Target
  /\ \A k \in 1..Len(chunks) - 1 :
       Total(chunks[k].pieces) + Size(chunks[k + 1].pieces[1]) > Target

(* A title stays searchable: exactly one chunk of a titled note has it,    *)
(* the first, even if the note has no text at all.                         *)
TitleSearchable ==
  pc = "done" =>
    /\ titled => chunks # <<>>
    /\ \A k \in DOMAIN chunks : chunks[k].title <=> (titled /\ k = 1)

(* How a note is cut is of use for a search: headings lead what they head, *)
(* chunks are as full as may be, and the title is in the first.            *)
WellCut == HeadingsLead /\ FilledToTarget /\ TitleSearchable
=============================================================================
