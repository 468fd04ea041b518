----------------------------- MODULE MCRetrieval -----------------------------
(***************************************************************************)
(* Retrieval for TLC: every body of up to MaxLength characters in a small  *)
(* vault, and one body in every vault of a few kinds, with questions that  *)
(* fit the vault.                                                          *)
(***************************************************************************)
EXTENDS Retrieval

CONSTANTS MaxLength, Title, ModelA, ModelB

AllBodies == UNION {[1..n -> Char] : n \in 0..MaxLength}

Note(id, size, title, entities, wikilinks, dates) ==
  [id |-> id, size |-> size, title |-> title, entities |-> entities,
   wikilinks |-> wikilinks, dates |-> dates]
Alone(id, title) == Note(id, 0, title, {}, {}, {})

Vault(notes, events, bodies) == [notes |-> notes, events |-> events, bodies |-> bodies]

OneBody == {<<"text">>}

(* Every body, beside a second note of one chunk.                          *)
ChunkedVaults ==
  {Vault(<<Alone(1, t), Note(2, 1, NoTitle, {}, {}, {})>>, {}, AllBodies) :
     t \in {NoTitle, Title}}

(* Three notes, their paths in another order than their ids, that link to  *)
(* each other in every way, by reference (also to what is no note) and by  *)
(* title.                                                                  *)
References(id) == SUBSET ({1, 2, 3} \ {id})
LinkedVaults ==
  {Vault(<<Note(2, 0, ts[1], {9}, ls[1], {1}),
           Note(3, 1, ts[2], es[1], ls[2], {2}),
           Note(1, 1, ts[3], es[2], ls[3], {})>>, {}, OneBody) :
     ts \in [1..3 -> {NoTitle, Title}], ls \in [1..3 -> {{}, {Title}}],
     es \in References(3) \X References(1)}

(* Three notes with every set of dates, and events of two of them.         *)
Times == {1, 2, Unparseable}
DatedVaults ==
  {Vault(<<Note(1, 0, NoTitle, {2}, {}, d1), Note(2, 1, NoTitle, {}, {}, d2),
           Note(3, 1, NoTitle, {}, {}, {})>>, events, OneBody) :
     d1 \in SUBSET Times, d2 \in SUBSET Times,
     events \in SUBSET [subject : {3, 9}, at : {1, Unparseable}]}

(* Two files with one id.                                                  *)
DoubledVaults ==
  {Vault(<<Alone(1, NoTitle), Note(1, n, NoTitle, {}, {}, {2})>>, {}, {<<>>, <<"text">>}) :
     n \in {0, 1}}

MCVaults == ChunkedVaults \cup LinkedVaults \cup DatedVaults \cup DoubledVaults

-----------------------------------------------------------------------------
Plain == [by |-> "client", q |-> "words", k |-> 1, mode |-> "hybrid", weight |-> DefaultWeight,
          near |-> Absent, from |-> Absent, to |-> Absent, model |-> ModelA]

(* Every table of scores for every kind of unfiltered question ...         *)
Orders ==
  {[Plain EXCEPT !.by = "cli", !.k = k, !.mode = m] : k \in 1..2, m \in {"lexical", "vector"}}
    \cup {[Plain EXCEPT !.k = k, !.weight = w] : k \in 1..2, w \in {0, DefaultWeight, WholeWeight}}
Score == 0..2
AnyScores(ids) == [ids -> Score] \X [ids -> Score]

(* ... two tables for every filter, one where it matters that a note the   *)
(* filter rules out comes first ...                                        *)
Filters ==
  {[Plain EXCEPT !.near = n, !.from = f, !.to = t, !.mode = m] :
     n \in {Absent, 1, 2, 9}, f \in {Absent, 1, 2}, t \in {Absent, 1}, m \in {"lexical", "hybrid"}}
SomeScores(ids) ==
  {<<[c \in ids |-> 1], [c \in ids |-> 1]>>,
   <<[c \in ids |-> 3 - c.note], [c \in ids |-> c.note]>>}

(* ... and what is refused.                                                *)
Faulty ==
  {[Plain EXCEPT !.by = b, !.q = q, !.k = k, !.mode = m] :
     b \in {"cli", "client"}, q \in {"words", Blank}, k \in 0..1, m \in {"hybrid", "fuzzy"}}
    \cup {[Plain EXCEPT !.weight = WholeWeight + 1], [Plain EXCEPT !.near = Blank],
          [Plain EXCEPT !.from = Unparseable], [Plain EXCEPT !.model = ModelB],
          [Plain EXCEPT !.model = ModelB, !.mode = "lexical"],
          [Plain EXCEPT !.model = ModelB, !.from = 7]}

Ask(asks, scores) ==
  {[ask |-> a, bm25 |-> s[1], cosine |-> s[2]] : a \in asks, s \in scores}
NoScores == {<<<<>>, <<>>>>}

(* Dated and linked vaults have edges or rows, the others none.            *)
MCQuestions(ix) ==
  IF ix = NoIndex THEN Ask({Plain}, NoScores)
  ELSE IF ix.edges = {} /\ ix.temporal = {}
  THEN Ask(Orders, AnyScores(ix.chunks)) \cup Ask(Faulty, SomeScores(ix.chunks))
  ELSE Ask(Filters \cup {[Plain EXCEPT !.model = ModelB, !.from = 7]}, SomeScores(ix.chunks))
=============================================================================
