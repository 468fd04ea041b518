--------------------------- MODULE GraphProjection ---------------------------
(***************************************************************************)
(* Entity nodes, entity edges and tasks: L3 tables re-derived from the     *)
(* vault's notes and, for the edges, from the entity_merged events of the  *)
(* memory log.  A rebuild derives the three tables one after the other in  *)
(* one transaction, listing the vault anew for each; the projectors can    *)
(* also be run alone, every statement then committing by itself.  Notes    *)
(* are edited by hand, and merges confirmed by hand, at any time.          *)
(*                                                                         *)
(* Entities are the numbers of their notes: ULIDs sort, and listNotes      *)
(* returns the notes in that order.  The facts of a rebuild are FactStore. *)
(***************************************************************************)
EXTENDS Naturals, Sequences, FiniteSets

CONSTANTS
  Proc,         \* processes
  NoProc,       \* nobody holds SQLite's write lock
  NumNotes,     \* bound: notes of the vault
  NoNote,
  NoteChoices,  \* contents a note may have
  Vaults,       \* the vaults to begin with
  MaxEdits,     \* bound: edits of the vault
  MaxChanges    \* bound: edits and recorded merges together

Ids == 1..NumNotes

(* What a note's frontmatter decides: type entity, a title, a status, and  *)
(* its references to entities.                                             *)
Note == [entity : BOOLEAN, titled : BOOLEAN, status : BOOLEAN, refs : SUBSET Ids]

ASSUME SizeAssumption == NumNotes \in Nat \ {0} /\ MaxEdits \in Nat /\ MaxChanges \in Nat
ASSUME NullAssumption == NoProc \notin Proc /\ NoNote \notin Note
ASSUME ChoiceAssumption == NoteChoices \subseteq Note \cup {NoNote}
ASSUME VaultAssumption == Vaults \subseteq [Ids -> NoteChoices]

Edge == [from : Ids, to : Ids, source : Ids]
Merge == [into : Ids, dup : Ids]
Tables == {"nodes", "edges", "tasks"}
NoRows == [t \in Tables |-> {}]
Blank == [i \in Ids |-> NoNote]
NoMerge == [into |-> 1, dup |-> 1]

VARIABLES
  notes,    \* the vault
  merges,   \* the entity_merged events of the log, in order
  tables,   \* the committed rows
  lock,     \* holder of the write lock: the process of a rebuild
  pc,       \* where each process is
  agenda,   \* tables a projection has still to derive
  snap,     \* the notes as listed for the current table
  work,     \* rows derived and not yet committed
  arg,      \* the merge a process is asked to record
  edits,    \* edits made
  (* history *)
  touched,  \* the sources have changed since the process began its rebuild
  seen      \* entities that have been projected

sources == <<notes, merges, edits>>
history == <<touched, seen>>
vars == <<notes, merges, tables, lock, pc, agenda, snap, work, arg, edits, touched, seen>>

Init ==
  /\ notes \in Vaults
  /\ merges = <<>>
  /\ tables = NoRows
  /\ lock = NoProc
  /\ pc = [p \in Proc |-> "idle"]
  /\ agenda = [p \in Proc |-> <<>>]
  /\ snap = [p \in Proc |-> Blank]
  /\ work = [p \in Proc |-> NoRows]
  /\ arg = [p \in Proc |-> NoMerge]
  /\ edits = 0
  /\ touched = [p \in Proc |-> FALSE]
  /\ seen = {}

-----------------------------------------------------------------------------
(* Folding and resolving merges.                                           *)

(* The map of projectEvents: a later merge of a duplicate replaces an      *)
(* earlier one.                                                            *)
MergeMap(ms) ==
  LET Last(d) == CHOOSE k \in DOMAIN ms : /\ ms[k].dup = d
                                          /\ \A j \in DOMAIN ms : ms[j].dup = d => j <= k
  IN [d \in {ms[k].dup : k \in DOMAIN ms} |-> ms[Last(d)].into]

(* resolveEntity: follow the map until it ends or comes round.  A walk is  *)
(* at one entity and has passed others.                                    *)
Walk == [cur : Ids, passed : SUBSET Ids]

Resolve(m, id) ==
  LET end[w \in Walk] ==
        IF w.cur \in DOMAIN m /\ w.cur \notin w.passed
        THEN end[[cur |-> m[w.cur], passed |-> w.passed \cup {w.cur}]]
        ELSE w.cur
  IN end[[cur |-> id, passed |-> {}]]

-----------------------------------------------------------------------------
(* What each projector derives from a listing of the notes.                *)

EntityNotes(ns) == {i \in Ids : ns[i] # NoNote /\ ns[i].entity}

(* projectEntities stops at the first entity note without a title.         *)
Untitled(ns) == {i \in EntityNotes(ns) : ~ns[i].titled}
NodeRows(ns) == {i \in EntityNotes(ns) : \A j \in Untitled(ns) : i < j}

(* projectEdges: both ends resolved, self-references skipped, and the      *)
(* first note in order gives a duplicate edge its source.                  *)
EdgeRows(ns, ms) ==
  LET m == MergeMap(ms)
      found == {e \in Edge : /\ e.source \in EntityNotes(ns)
                             /\ e.from = Resolve(m, e.source)
                             /\ \E r \in ns[e.source].refs : e.to = Resolve(m, r)
                             /\ e.from # e.to}
  IN {e \in found : \A g \in found : (g.from = e.from /\ g.to = e.to) => e.source <= g.source}

TaskRows(ns) == {i \in Ids : ns[i] # NoNote /\ ns[i].status /\ ns[i].titled}

Rows(t, ns, ms) ==
  CASE t = "nodes" -> NodeRows(ns)
    [] t = "edges" -> EdgeRows(ns, ms)
    [] t = "tasks" -> TaskRows(ns)

-----------------------------------------------------------------------------
(* The sources may change once more.                                       *)
Room == Len(merges) + edits < MaxChanges

(* The vault is edited: a note is written, changed or deleted.             *)
Edit(i) ==
  /\ edits < MaxEdits /\ Room
  /\ edits' = edits + 1
  /\ \E n \in NoteChoices \ {notes[i]} : notes' = [notes EXCEPT ![i] = n]
  /\ touched' = [p \in Proc |-> TRUE]
  /\ UNCHANGED <<merges, tables, lock, pc, agenda, snap, work, arg, seen>>

-----------------------------------------------------------------------------
(* A process goes back to idle, without its lock and what it had in hand.  *)
Ends(p) ==
  /\ pc' = [pc EXCEPT ![p] = "idle"]
  /\ lock' = IF lock = p THEN NoProc ELSE lock
  /\ agenda' = [agenda EXCEPT ![p] = <<>>]
  /\ snap' = [snap EXCEPT ![p] = Blank]
  /\ work' = [work EXCEPT ![p] = NoRows]
  /\ arg' = [arg EXCEPT ![p] = NoMerge]

(* It fails (a busy or full database, an unreadable file, a note that      *)
(* vanished between readdir and readFile) or dies; a transaction rolls     *)
(* back, what was committed or appended stays.                             *)
Abandon(p) ==
  /\ pc[p] # "idle"
  /\ Ends(p)
  /\ UNCHANGED <<sources, tables, history>>

-----------------------------------------------------------------------------
(* mergeEntities: two SELECTs on a store closed again before the append.   *)

StartMerge(p) ==
  /\ pc[p] = "idle"
  /\ Room
  /\ \E m \in Merge : m.into # m.dup /\ arg' = [arg EXCEPT ![p] = m]
  /\ pc' = [pc EXCEPT ![p] = "canonical"]
  /\ UNCHANGED <<sources, tables, lock, agenda, snap, work, history>>

(* An entity that is no projected node ends the command (Abandon).         *)
Exists(id) == id \in tables["nodes"]

FindCanonical(p) ==
  /\ pc[p] = "canonical"
  /\ Exists(arg[p].into)
  /\ pc' = [pc EXCEPT ![p] = "duplicate"]
  /\ UNCHANGED <<sources, tables, lock, agenda, snap, work, arg, history>>

FindDuplicate(p) ==
  /\ pc[p] = "duplicate"
  /\ Exists(arg[p].dup)
  /\ pc' = [pc EXCEPT ![p] = "append"]
  /\ UNCHANGED <<sources, tables, lock, agenda, snap, work, arg, history>>

AppendMerge(p) ==
  /\ pc[p] = "append"
  /\ Room
  /\ merges' = Append(merges, arg[p])
  /\ touched' = [q \in Proc |-> TRUE]
  /\ Ends(p)
  /\ UNCHANGED <<notes, edits, tables, seen>>

-----------------------------------------------------------------------------
(* A rebuild, or one projector run alone.                                  *)

StartRebuild(p) ==
  /\ pc[p] = "idle"
  /\ lock = NoProc
  /\ lock' = p
  /\ agenda' = [agenda EXCEPT ![p] = <<"nodes", "edges", "tasks">>]
  /\ touched' = [touched EXCEPT ![p] = FALSE]
  /\ pc' = [pc EXCEPT ![p] = "list"]
  /\ UNCHANGED <<sources, tables, snap, work, arg, seen>>

StartAlone(p) ==
  /\ pc[p] = "idle"
  /\ \E t \in Tables : agenda' = [agenda EXCEPT ![p] = <<t>>]
  /\ pc' = [pc EXCEPT ![p] = "list"]
  /\ UNCHANGED <<sources, tables, lock, snap, work, arg, history>>

(* listNotes.                                                              *)
ListNotes(p) ==
  /\ pc[p] = "list"
  /\ snap' = [snap EXCEPT ![p] = notes]
  /\ pc' = [pc EXCEPT ![p] = "derive"]
  /\ UNCHANGED <<sources, tables, lock, agenda, work, arg, history>>

(* The next table of a rebuild is emptied and filled inside the            *)
(* transaction, where an untitled entity note ends it all; the edges read  *)
(* the log here, after the notes.                                          *)
DeriveNext_Upserts(p) ==
  LET t == Head(agenda[p])
  IN /\ pc[p] = "derive" /\ lock = p
     /\ t = "nodes" => Untitled(snap[p]) = {}
     /\ work' = [work EXCEPT ![p][t] = tables[t] \cup Rows(t, snap[p], merges)]
     /\ snap' = [snap EXCEPT ![p] = Blank]
     /\ agenda' = [agenda EXCEPT ![p] = Tail(@)]
     /\ pc' = [pc EXCEPT ![p] = IF Tail(agenda[p]) = <<>> THEN "commit" ELSE "list"]
     /\ UNCHANGED <<sources, tables, lock, arg, history>>
DeriveNext(p) ==
  LET t == Head(agenda[p])
  IN /\ pc[p] = "derive" /\ lock = p
     /\ t = "nodes" => Untitled(snap[p]) = {}
     /\ work' = [work EXCEPT ![p][t] = Rows(t, snap[p], merges)]
     /\ snap' = [snap EXCEPT ![p] = Blank]
     /\ agenda' = [agenda EXCEPT ![p] = Tail(@)]
     /\ pc' = [pc EXCEPT ![p] = IF Tail(agenda[p]) = <<>> THEN "commit" ELSE "list"]
     /\ UNCHANGED <<sources, tables, lock, arg, history>>

Commit(p) ==
  /\ pc[p] = "commit"
  /\ tables' = work[p]
  /\ seen' = seen \cup work[p]["nodes"]
  /\ Ends(p)
  /\ UNCHANGED <<sources, touched>>

(* Run alone, a projector derives its rows (an untitled entity note only   *)
(* cuts them short), empties the table, and inserts them one by one.       *)
DeriveAlone(p) ==
  LET t == Head(agenda[p])
  IN /\ pc[p] = "derive" /\ lock # p
     /\ work' = [work EXCEPT ![p][t] = Rows(t, snap[p], merges)]
     /\ snap' = [snap EXCEPT ![p] = Blank]
     /\ pc' = [pc EXCEPT ![p] = "delete"]
     /\ UNCHANGED <<sources, tables, lock, agenda, arg, history>>

DeleteAll(p) ==
  /\ pc[p] = "delete"
  /\ lock = NoProc
  /\ tables' = [tables EXCEPT ![Head(agenda[p])] = {}]
  /\ pc' = [pc EXCEPT ![p] = "insert"]
  /\ UNCHANGED <<sources, lock, agenda, snap, work, arg, history>>

(* A node or a task replaces a row of the same id; a second edge between   *)
(* the same entities is refused by the unique index (Abandon).             *)
Conflicts_NoIndex(t, row) == FALSE
Conflicts(t, row) ==
  t = "edges" /\ \E e \in tables[t] : e.from = row.from /\ e.to = row.to

(* The note a row comes from: rows are inserted in the order of the notes. *)
RowNote(t, row) == IF t = "edges" THEN row.source ELSE row

InsertNext(p) ==
  LET t == Head(agenda[p])
  IN /\ pc[p] = "insert"
     /\ lock = NoProc
     /\ \E row \in work[p][t] :
          /\ \A other \in work[p][t] : RowNote(t, row) <= RowNote(t, other)
          /\ ~Conflicts(t, row)
          /\ tables' = [tables EXCEPT ![t] = @ \cup {row}]
          /\ work' = [work EXCEPT ![p][t] = @ \ {row}]
          /\ seen' = IF t = "nodes" THEN seen \cup {row} ELSE seen
     /\ UNCHANGED <<sources, lock, pc, agenda, snap, arg, touched>>

FinishAlone(p) ==
  /\ pc[p] = "insert"
  /\ work[p][Head(agenda[p])] = {}
  /\ Ends(p)
  /\ UNCHANGED <<sources, tables, history>>

-----------------------------------------------------------------------------
Next ==
  \/ \E i \in Ids : Edit(i)
  \/ \E p \in Proc :
       \/ StartMerge(p) \/ FindCanonical(p) \/ FindDuplicate(p) \/ AppendMerge(p)
       \/ StartRebuild(p) \/ StartAlone(p) \/ ListNotes(p)
       \/ DeriveNext(p) \/ Commit(p)
       \/ DeriveAlone(p) \/ DeleteAll(p) \/ InsertNext(p) \/ FinishAlone(p)
       \/ Abandon(p)

Spec == Init /\ [][Next]_vars

-----------------------------------------------------------------------------
(* Properties.                                                             *)

Locations == {"idle", "canonical", "duplicate", "append", "list", "derive",
              "commit", "delete", "insert"}
IsRows(rows) ==
  /\ DOMAIN rows = Tables
  /\ rows["nodes"] \subseteq Ids
  /\ rows["tasks"] \subseteq Ids
  /\ rows["edges"] \subseteq Edge

(* Every variable has its type.                                            *)
TypeOK ==
  /\ notes \in [Ids -> NoteChoices]
  /\ merges \in Seq(Merge)
  /\ IsRows(tables)
  /\ lock \in Proc \cup {NoProc}
  /\ pc \in [Proc -> Locations]
  /\ agenda \in [Proc -> Seq(Tables)]
  /\ snap \in [Proc -> [Ids -> NoteChoices \cup {NoNote}]]
  /\ \A p \in Proc : IsRows(work[p])
  /\ arg \in [Proc -> Merge]
  /\ edits \in 0..MaxEdits
  /\ touched \in [Proc -> BOOLEAN]
  /\ seen \subseteq Ids

(* At every moment, and with projectors run alone side by side, two        *)
(* entities are joined by at most one edge in a direction, and none to     *)
(* itself.                                                                 *)
SimpleGraph ==
  \A e \in tables["edges"] :
    /\ e.from # e.to
    /\ \A g \in tables["edges"] : (g.from = e.from /\ g.to = e.to) => g = e

(* A merge is only ever recorded between two different entities that had   *)
(* been projected: mergeEntities never creates one.                        *)
MergesGrounded ==
  \A k \in DOMAIN merges :
    /\ merges[k].into # merges[k].dup
    /\ {merges[k].into, merges[k].dup} \subseteq seen

(* Resolving is idempotent for every log of merges, cyclic ones included:  *)
(* the node an edge is repointed to is not itself redirected again.        *)
ResolveSettles ==
  LET m == MergeMap(merges)
  IN \A x \in Ids : Resolve(m, Resolve(m, x)) = Resolve(m, x)

(* What every reader of the graph relies on, at any moment and whatever    *)
(* was merged: simple edges, merges of entities that exist, and entities   *)
(* that resolve to one that stays.                                         *)
GraphSound == TypeOK /\ SimpleGraph /\ MergesGrounded /\ ResolveSettles

(* The reference meaning of a merge map without a cycle: x stands for the  *)
(* one entity in every set that holds x and is closed under merging, and   *)
(* which is not itself merged away.                                        *)
Reaches(m, x, y) ==
  \A S \in SUBSET Ids :
    (x \in S /\ \A d \in S \cap DOMAIN m : m[d] \in S) => y \in S
Acyclic(m) == \A d \in DOMAIN m : ~Reaches(m, m[d], d)
StandsFor(m, x, y) == Reaches(m, x, y) /\ y \notin DOMAIN m

(* What rows mean that are exact: a node for every entity note, a task for *)
(* every titled note with a status, and, merges being acyclic, an edge     *)
(* between the entities two notes stand for exactly where one refers to    *)
(* the other.                                                              *)
Exact(rows) ==
  /\ rows["nodes"] = EntityNotes(notes)
  /\ rows["tasks"] = {i \in Ids : notes[i] # NoNote /\ notes[i].status /\ notes[i].titled}
  /\ LET m == MergeMap(merges)
         Joined(x, y) == \E i \in EntityNotes(notes) : \E r \in notes[i].refs :
                            StandsFor(m, i, x) /\ StandsFor(m, r, y)
     IN Acyclic(m) => \A x, y \in Ids :
          (\E e \in rows["edges"] : e.from = x /\ e.to = y) <=> (x # y /\ Joined(x, y))

(* A rebuild during which no note was edited and no merge recorded commits *)
(* what the sources mean.                                                  *)
RebuildExact ==
  [][\A p \in Proc : Commit(p) /\ ~touched[p] => Exact(tables')]_vars
=============================================================================
