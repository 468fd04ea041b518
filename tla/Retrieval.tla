------------------------------ MODULE Retrieval ------------------------------
(***************************************************************************)
(* From a note to a hit: a note is cut into chunks (Chunking), the vault   *)
(* it belongs to is indexed, and the index is queried (Ranking), in one    *)
(* sidecar that does one thing at a time.  Builds and queries that overlap *)
(* are IndexSwap's.                                                        *)
(***************************************************************************)
EXTENDS Chunking, Ranking

CONSTANTS
  Vaults,          \* vaults: notes by path, events, and bodies of the first note
  Titles,          \* titles of notes
  Questions(_),    \* requests, with the scores of an index's chunks
  Models,          \* embedding models
  IndexModels,     \* those an index is built with
  DefaultWeight,   \* DEFAULT_VECTOR_WEIGHT
  Blank,           \* an argument of blanks
  NoIndex,
  NoReply

(* What notes.py reads of a note and of an event; a date may not cast.     *)
NoteRecord ==
  [id : Int, size : Nat, title : Titles \cup {NoTitle}, entities : SUBSET Int,
   wikilinks : SUBSET Titles, dates : SUBSET (Int \cup {Unparseable})]
EventRecord == [subject : Int, at : Int \cup {Unparseable}]
VaultRecord ==
  [notes : Seq(NoteRecord) \ {<<>>}, events : SUBSET EventRecord, bodies : SUBSET Bodies]

ASSUME VaultsAssumption == Vaults \subseteq VaultRecord
ASSUME ModelsAssumption == IndexModels \subseteq Models /\ DefaultWeight \in Int

VARIABLES
  vault,   \* the vault
  index,   \* retrieval.duckdb
  asked,   \* the question at hand, with its scores
  reply    \* the answer to the last operation

retrieval == <<vault, index, asked, reply>>
all == <<chunkVars, retrieval>>

RInit ==
  /\ \E v \in Vaults :
       /\ vault = [notes |-> v.notes, events |-> v.events]
       /\ body \in v.bodies
       /\ titled = (v.notes[1].title # NoTitle)
  /\ ChunkInit
  /\ index = NoIndex
  /\ asked = NoReply
  /\ reply = NoReply

Replies(code, hits) == reply' = [code |-> code, hits |-> hits]

(* The vault's notes, the first one with the chunks it has been cut into.  *)
Notes == [vault.notes EXCEPT ![1].size = Len(chunks)]

(* What was cut is not looked at again once it is in the index.            *)
PutAway ==
  /\ body' = <<>> /\ titled' = FALSE /\ at' = 0
  /\ section' = NoSpan /\ paragraph' = NoSpan
  /\ pieces' = <<>> /\ taken' = 0 /\ chunks' = <<>>
  /\ UNCHANGED <<pc, gathered, buffered>>

(* op_index_vault, with one of the models.                                 *)
Build ==
  /\ pc = "done"
  /\ index = NoIndex
  /\ reply = NoReply
  /\ IF Indexable(Notes)
     THEN /\ \E model \in IndexModels : index' = Index(Notes, vault.events, model)
          /\ vault' = [vault EXCEPT !.notes = Notes]
          /\ PutAway
          /\ Replies("built", <<>>)
     ELSE /\ UNCHANGED <<chunkVars, vault, index>>
          /\ Replies("index_build_failed", <<>>)
  /\ UNCHANGED asked

(* A request with arguments of their types, and the scores that DuckDB     *)
(* gives the chunks of an index for it.                                    *)
QueryRequest ==
  [by : {"cli", "client"}, q : STRING \cup {Blank}, k : Int, mode : STRING, weight : Int,
   near : Int \cup {Absent, Blank}, from : Int \cup {Absent, Blank, Unparseable},
   to : Int \cup {Absent, Blank, Unparseable}, model : Models]
Scored(ix) ==
  LET ids == IF ix = NoIndex THEN {} ELSE ix.chunks
  IN [ask : QueryRequest, bm25 : [ids -> Nat], cosine : [ids -> Int]]

(* Neither runQuery nor queryMemory passes a weight on, and runQuery has   *)
(* no filters.                                                             *)
Sent(ask) ==
  IF ask.by = "cli"
  THEN [ask EXCEPT !.weight = DefaultWeight, !.near = Absent, !.from = Absent, !.to = Absent]
  ELSE ask

Untold(ask) == ask.q = Blank \/ ask.k < 1
ModeUnknown(ask) == ask.mode \notin {"lexical", "vector", "hybrid"}

(* runQuery's own checks.                                                  *)
Refused(ask) == ask.by = "cli" /\ (Untold(ask) \/ ModeUnknown(ask))

(* _validate and _validate_filters, in order.                              *)
Malformed(ask) ==
  IF Untold(ask) THEN "invalid_args"
  ELSE IF ModeUnknown(ask) THEN "unsupported_mode"
  ELSE IF ask.weight \notin 0..WholeWeight \/ Blank \in {ask.near, ask.from, ask.to}
  THEN "invalid_args"
  ELSE "no"

(* Looking for chunks by meaning takes the model the index was built with, *)
(* unless the filters have left nothing to look for.                       *)
Mismatched(ask) ==
  ask.mode # "lexical" /\ AllowedNotes(index, ask) # Only({}) /\ ask.model # index.model

(* `query', from the command line or by a client of the sidecar: op_query. *)
Query ==
  /\ pc = "done"
  /\ reply = NoReply
  /\ \E question \in Questions(index) \cap Scored(index) :
       LET ask == Sent(question.ask)
       IN /\ asked' = [question EXCEPT !.ask = ask]
          /\ IF Refused(ask) THEN Replies("bad_arguments", <<>>)
             ELSE IF Malformed(ask) # "no" THEN Replies(Malformed(ask), <<>>)
             ELSE IF index = NoIndex THEN Replies("index_missing", <<>>)
             ELSE IF Unparseable \in {ask.from, ask.to} THEN Replies("invalid_args", <<>>)
             ELSE IF Mismatched(ask) THEN Replies("index_model_mismatch", <<>>)
             ELSE Replies("ok", Rows(index, ask, question.bm25, question.cosine,
                                     AllowedNotes(index, ask)))
  /\ UNCHANGED <<chunkVars, vault, index>>

(* The hits are handed over.                                               *)
Deliver ==
  /\ reply # NoReply
  /\ asked' = NoReply
  /\ reply' = NoReply
  /\ UNCHANGED <<chunkVars, vault, index>>

(* The chunker has the first note.                                         *)
Cut == ChunkNext /\ UNCHANGED retrieval

RNext == Cut \/ Build \/ Query \/ Deliver

RSpec == RInit /\ [][RNext]_all
-----------------------------------------------------------------------------
(* Properties.                                                             *)

Codes == {"built", "index_build_failed", "bad_arguments", "invalid_args", "unsupported_mode",
          "index_missing", "index_model_mismatch", "ok"}

(* From body to pieces to chunks nothing of a note is lost, doubled or     *)
(* reordered, and the chunks are of use for a search.                      *)
ChunksSound == NothingLost /\ WellCut

Answered == asked # NoReply /\ reply.code = "ok"

(* What a filter means, said of the notes: linked is either way, by an     *)
(* entity reference or by the title of the other note.                     *)
Refers(i, id) ==
  LET n == vault.notes[i]
  IN /\ n.id # id
     /\ \/ id \in n.entities
        \/ \E j \in DOMAIN vault.notes :
             /\ vault.notes[j].id = id
             /\ vault.notes[j].title \in n.wikilinks
             /\ \A h \in 1..j - 1 : vault.notes[h].title # vault.notes[j].title
Linked(a, b) ==
  \E i \in DOMAIN vault.notes :
    (vault.notes[i].id = a /\ Refers(i, b)) \/ (vault.notes[i].id = b /\ Refers(i, a))
Dates(id) ==
  LET named == {i \in DOMAIN vault.notes : vault.notes[i].id = id}
      about == {e \in vault.events : e.subject = id}
  IN ((UNION {vault.notes[i].dates : i \in named}) \cup {e.at : e \in about}) \ {Unparseable}
Meant(id) ==
  LET ask == asked.ask
  IN /\ ask.near \notin {Absent, id} => Linked(ask.near, id)
     /\ (ask.from # Absent \/ ask.to # Absent) =>
          \E t \in Dates(id) : /\ ask.from # Absent => ask.from <= t
                               /\ ask.to # Absent => t <= ask.to

(* Chunks the question may find.                                           *)
Candidates ==
  {c \in index.chunks : Meant(c.note) /\ (asked.ask.mode = "lexical" => asked.bm25[c] # 0)}

Rank(c) == CHOOSE i \in DOMAIN reply.hits : reply.hits[i].id = c
Found == {reply.hits[i].id : i \in DOMAIN reply.hits}

(* A filtered query answers as an unfiltered one would if the vault were   *)
(* nothing but the notes the filters mean: they act before the ranking,    *)
(* its limits and its normalisation.                                       *)
FiltersFirst ==
  Answered =>
    reply.hits =
      Rows([index EXCEPT !.chunks = {c \in index.chunks : Meant(c.note)}],
           [asked.ask EXCEPT !.near = Absent, !.from = Absent, !.to = Absent],
           asked.bm25, asked.cosine, Unfiltered)

(* A page is full as long as there is something to show, shows nothing     *)
(* twice, is in the order of the scores and, among equals, of the ids, and *)
(* compares only embeddings of one model.                                  *)
PageComplete ==
  Answered =>
    /\ Len(reply.hits) = Smaller(asked.ask.k, Cardinality(Candidates))
    /\ Cardinality(Found) = Len(reply.hits)
    /\ \A i, j \in DOMAIN reply.hits : i < j =>
         LET x == reply.hits[i]  y == reply.hits[j]
         IN x.score > y.score \/ (x.score = y.score /\ EarlierId(x.id, y.id))
    /\ Found # {} /\ asked.ask.mode # "lexical" => asked.ask.model = index.model

(* The better of two chunks, by what the mode looks at, is never shown     *)
(* after or instead of the other, whatever the limits of the pool and the  *)
(* normalisation of the two rankings make of them; a chunk without a       *)
(* lexical score counts as the worst.  (With a weight of 0 or 1 a chunk    *)
(* outside the pool may tie with the last one in it.)                      *)
Beats(c, d) ==
  LET ask == asked.ask
      moreWords == asked.bm25[c] > asked.bm25[d]
      closer == asked.cosine[c] > asked.cosine[d]
  IN CASE ask.mode = "lexical" -> moreWords
       [] ask.mode = "vector" -> closer
       [] ask.mode = "hybrid" -> moreWords /\ closer /\ ask.weight \in 1..WholeWeight - 1
ParetoOrder ==
  Answered =>
    \A d \in Found, c \in Candidates :
      Beats(c, d) => c \in Found /\ Rank(c) < Rank(d)

=============================================================================
