------------------------------- MODULE Ranking -------------------------------
(***************************************************************************)
(* What the retrieval index holds of a vault, and what a query finds in    *)
(* it: the tables indexer.py fills, and querying.py's filters, lexical,    *)
(* vector and hybrid orders.  Pure operators, no state.                    *)
(*                                                                         *)
(* Ids of notes are numbers in the order of their ULIDs; a chunk is its    *)
(* note and its place in it.  Timestamps are numbers too.  How well a      *)
(* chunk matches a text is external (DuckDB's BM25, the cosine of two      *)
(* embeddings): a table of small numbers, 0 where BM25 has no score.       *)
(***************************************************************************)
EXTENDS Integers, FiniteSets, Sequences

CONSTANTS
  PoolFactor,    \* candidates of each ranker per requested hit (4)
  PoolFloor,     \* _POOL_FLOOR (20)
  WholeWeight,   \* the weight 1.0
  Absent,        \* an argument that is not given
  Unparseable,   \* a timestamp that does not cast
  NoTitle

ASSUME PoolAssumption == PoolFactor \in Nat \ {0} /\ PoolFloor \in Nat
ASSUME WeightAssumption == WholeWeight \in Nat \ {0}
ASSUME AbsentAssumption == Absent \notin Int

Smaller(a, b) == IF a < b THEN a ELSE b
Larger(a, b) == IF a < b THEN b ELSE a
Lowest(S) == CHOOSE x \in S : \A y \in S : x <= y
Highest(S) == CHOOSE x \in S : \A y \in S : y <= x

-----------------------------------------------------------------------------
(* The tables.  A vault is the sequence of its notes in the order of their *)
(* paths, each with its id, title, number of chunks, entity references,    *)
(* wikilinks and dates, and the set of events about notes.                 *)

(* chunk_id is "<note>#<seq>" (seq below 10, for the order of strings).    *)
ChunkIds(notes) ==
  UNION {{[note |-> notes[i].id, seq |-> s] : s \in 0..notes[i].size - 1} : i \in DOMAIN notes}
EarlierId(c, d) == c.note < d.note \/ (c.note = d.note /\ c.seq < d.seq)

(* chunk_id is a primary key: two files with one id and text in both make  *)
(* a vault that cannot be indexed.                                         *)
Indexable(notes) ==
  \A i, j \in DOMAIN notes :
    i # j /\ notes[i].id = notes[j].id => notes[i].size = 0 \/ notes[j].size = 0

(* title_to_id: the first note by path has the title.                      *)
TitleToId(notes, title) ==
  LET named == {i \in DOMAIN notes : notes[i].title = title}
  IN IF named = {} THEN Absent ELSE notes[Lowest(named)].id

GraphEdges(notes) ==
  LET targets(n) == n.entities \cup ({TitleToId(notes, t) : t \in n.wikilinks} \ {Absent})
  IN UNION {{[from |-> notes[i].id, to |-> t] : t \in targets(notes[i]) \ {notes[i].id}}
              : i \in DOMAIN notes}

(* A timestamp that does not cast is NULL in its row.                      *)
TemporalRows(notes, events) ==
  (UNION {{[note |-> notes[i].id, ts |-> t] : t \in notes[i].dates} : i \in DOMAIN notes})
    \cup {[note |-> e.subject, ts |-> e.at] :
            e \in {e \in events : \E i \in DOMAIN notes : notes[i].id = e.subject}}

Index(notes, events, model) ==
  [chunks |-> ChunkIds(notes), edges |-> GraphEdges(notes),
   temporal |-> TemporalRows(notes, events), model |-> model]

-----------------------------------------------------------------------------
(* Filters.                                                                *)

Neighbourhood(index, note) ==
  {note} \cup {e.to : e \in {e \in index.edges : e.from = note}}
         \cup {e.from : e \in {e \in index.edges : e.to = note}}

(* Both bounds are about one row.                                          *)
InRange(index, lower, upper) ==
  {r.note : r \in {r \in index.temporal : /\ r.ts # Unparseable
                                          /\ lower # Absent => r.ts >= lower
                                          /\ upper # Absent => r.ts <= upper}}

(* None, when there is no filter, or the set of the notes that pass.       *)
Unfiltered == [filtered |-> FALSE, notes |-> {}]
Only(notes) == [filtered |-> TRUE, notes |-> notes]

(* Filters intersect.                                                      *)
AllowedNotes(index, ask) ==
  LET dated == ask.from # Absent \/ ask.to # Absent
  IN IF ask.near = Absent /\ ~dated THEN Unfiltered
     ELSE IF ~dated THEN Only(Neighbourhood(index, ask.near))
     ELSE IF ask.near = Absent THEN Only(InRange(index, ask.from, ask.to))
     ELSE Only(Neighbourhood(index, ask.near) \cap InRange(index, ask.from, ask.to))

-----------------------------------------------------------------------------
(* Orders.                                                                 *)

(* ORDER BY score DESC, chunk_id ASC LIMIT n: a chunk's rank is the number *)
(* of chunks before it.                                                    *)
Ranked(chunks, score, n) ==
  LET precedes(c, d) == score[c] > score[d] \/ (score[c] = score[d] /\ EarlierId(c, d))
  IN [i \in 1..Smaller(n, Cardinality(chunks)) |->
        LET c == CHOOSE c \in chunks : Cardinality({d \in chunks : precedes(d, c)}) = i - 1
        IN [id |-> c, score |-> score[c]]]

Admitted(index, allowed) ==
  {c \in index.chunks : allowed.filtered => c.note \in allowed.notes}

(* The filters are part of the WHERE clause, before ORDER BY and LIMIT.    *)
LexicalRows_FilteredLast(index, bm25, n, allowed) ==
  SelectSeq(Ranked({c \in index.chunks : bm25[c] # 0}, bm25, n),
            LAMBDA row : row.id \in Admitted(index, allowed))
LexicalRows(index, bm25, n, allowed) ==
  Ranked({c \in Admitted(index, allowed) : bm25[c] # 0}, bm25, n)

VectorRows(index, cosine, n, allowed) == Ranked(Admitted(index, allowed), cosine, n)

IdsOf(rows) == {rows[i].id : i \in DOMAIN rows}

(* _normalized, without the division: a score above the lowest one, in     *)
(* parts of the spread, everything when the list is flat, and 0 for a      *)
(* chunk that is not in it.                                                *)
Spread(rows) ==
  LET scores == {rows[i].score : i \in DOMAIN rows}
  IN IF Cardinality(scores) < 2 THEN 1 ELSE Highest(scores) - Lowest(scores)
Normalized_FromTheTop(rows, c) ==
  LET scores == {rows[i].score : i \in DOMAIN rows}
  IN IF c \notin IdsOf(rows) THEN 0
     ELSE IF Cardinality(scores) < 2 THEN 1
     ELSE Highest(scores) - (CHOOSE r \in {rows[i] : i \in DOMAIN rows} : r.id = c).score
Normalized(rows, c) ==
  LET scores == {rows[i].score : i \in DOMAIN rows}
  IN IF c \notin IdsOf(rows) THEN 0
     ELSE IF Cardinality(scores) < 2 THEN 1
     ELSE (CHOOSE r \in {rows[i] : i \in DOMAIN rows} : r.id = c).score - Lowest(scores)

Pool(k) == Larger(k * PoolFactor, PoolFloor)

(* by_id: a chunk found by either ranker is a candidate.                   *)
Merged_InBoth(vector, lexical) == IdsOf(vector) \cap IdsOf(lexical)
Merged(vector, lexical) == IdsOf(vector) \cup IdsOf(lexical)

(* The sum of the weighted scores, times both spreads.                     *)
HybridRows(index, bm25, cosine, k, weight, allowed) ==
  LET lexical == LexicalRows(index, bm25, Pool(k), allowed)
      vector == VectorRows(index, cosine, Pool(k), allowed)
      found == Merged(vector, lexical)
      combined == [c \in found |->
                     weight * Normalized(vector, c) * Spread(lexical)
                       + (WholeWeight - weight) * Normalized(lexical, c) * Spread(vector)]
  IN Ranked(found, combined, k)

(* The rows of a query; an empty set of allowed notes has none.            *)
Rows(index, ask, bm25, cosine, allowed) ==
  CASE allowed = Only({}) -> <<>>
    [] allowed # Only({}) /\ ask.mode = "lexical" -> LexicalRows(index, bm25, ask.k, allowed)
    [] allowed # Only({}) /\ ask.mode = "vector" -> VectorRows(index, cosine, ask.k, allowed)
    [] allowed # Only({}) /\ ask.mode = "hybrid" ->
         HybridRows(index, bm25, cosine, ask.k, ask.weight, allowed)
=============================================================================
