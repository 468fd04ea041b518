------------------------------ MODULE FactStore ------------------------------
(***************************************************************************)
(* The L3 fact path: `fact add`, `fact supersede`, `fact accept` and       *)
(* `rebuild`, every one of them an operating-system process of its own     *)
(* with its own SQLite connection, over two stores that no transaction     *)
(* covers:                                                                 *)
(*                                                                         *)
(*   events/memory_events.jsonl  the append-only source of truth  (log)    *)
(*   db/memory.sqlite            the rebuildable projection       (rows)   *)
(*                                                                         *)
(* One action is one step another process can see: an SQLite statement, an *)
(* append, a file read, or the end of an item.  What runs between two      *)
(* awaits and touches only local variables is part of the step before it.  *)
(*                                                                         *)
(* SQLite is external: one holder of the write lock, a transaction nobody  *)
(* else sees before it commits.  The connections run with the driver's     *)
(* default busy timeout of 0, so a statement that needs a lock somebody    *)
(* else holds fails at once and nothing ever waits.  Every statement may   *)
(* also fail by itself (a busy reader, a full disk, an I/O error).         *)
(*                                                                         *)
(* db/ is disposable and may be deleted at any moment.  A connection stays *)
(* with the file it was opened on: the next command to open the store      *)
(* makes a new file, and the two know nothing of each other's locks and    *)
(* rows.  SQLite begins no new write in a file that has lost its name      *)
(* (SQLITE_READONLY_DBMOVED), but a transaction that has written already   *)
(* may still commit to it.                                                 *)
(***************************************************************************)
EXTENDS Naturals, Sequences, FiniteSets

CONSTANTS
  Proc,         \* CLI processes (and concurrent dashboard requests)
  FactIds,      \* ULIDs drawn by recordFact, bounds the facts of a behaviour
  NoFact,       \* "supersedes" is absent
  NoProc,       \* nobody holds the write lock
  Junk,         \* a line of the log that JSON.parse rejects
  MaxItems,     \* bound: items of one accepted proposal
  MaxRebuilds,  \* bound: no rebuild starts once this many have committed
  TornWrites    \* TRUE when an append may fail half way through (ENOSPC)

ASSUME NullAssumption == NoFact \notin FactIds /\ NoProc \notin Proc
ASSUME BoundAssumption == MaxItems \in Nat \ {0} /\ MaxRebuilds \in Nat
ASSUME TornAssumption == TornWrites \in BOOLEAN

(* A fact as far as its identity and its provenance chain go; statement,   *)
(* timestamps and confidence never change and decide nothing.              *)
Fact == [id : FactIds, supersedes : FactIds \cup {NoFact}]

ASSUME JunkAssumption == Junk \notin Fact

VARIABLES
  log,        \* lines of memory_events.jsonl
  openLine,   \* the last line of the file has no "\n" yet
  rows,       \* committed rows of the table facts of the database in db/
  lock,       \* holder of SQLite's RESERVED lock
  orphans,    \* processes whose connection is to a deleted database
  pc,         \* where each process is
  todo,       \* items the process has still to write, the current one first
  work,       \* rows a rebuild has inserted inside its transaction
  plog,       \* projection_events.jsonl
  (* history *)
  outcome,    \* what the command reported for each fact
  forgotten,  \* facts reported as written before db/ was deleted, until a rebuild
  commits     \* number of fact rows of each committed rebuild

files == <<log, openLine>>
history == <<forgotten, commits>>
vars == <<log, openLine, rows, lock, orphans, pc, todo, work, plog,
          outcome, forgotten, commits>>

Recording == {"open", "append", "insert"}
InTransaction == {"read", "commit"}
Reporting == {"reset", "rebuilt"}
Connected == {"append", "insert"} \cup InTransaction
Locations == {"idle", "begin"} \cup Recording \cup InTransaction \cup Reporting

(* Three errors, supersede_target_not_found, the failed opening and the    *)
(* failed append, say the same of a fact: it is not recorded.              *)
Outcomes == {"unused", "pending", "ok", "not_recorded", "projection_write_failed", "crashed"}

PlogEntry == [kind : {"projection_reset", "projection_rebuilt"}, facts : Nat]

Ids(S) == {f.id : f \in S}
Minted == {f \in FactIds : outcome[f] # "unused"}

(* The facts a replay of the log finds: projectEvents keeps every          *)
(* fact_added / fact_superseded event, in a map keyed by the fact's id.    *)
LogFacts == {log[i] : i \in {j \in DOMAIN log : log[j] # Junk}}

(* readMemoryEvents maps JSON.parse over every non-empty line, so one bad  *)
(* line makes the whole log unreadable.                                    *)
LogReadable == \A i \in DOMAIN log : log[i] # Junk

(* The current view, all that `fact list` reads: rows no other row         *)
(* supersedes.  The SQL subquery drops NULLs, without which NOT IN would   *)
(* be unknown for every row.                                               *)
Current_NullInSubquery(S) ==
  IF \E g \in S : g.supersedes = NoFact THEN {}
  ELSE {f \in S : \A g \in S : g.supersedes # f.id}
Current(S) == {f \in S : \A g \in S : g.supersedes # f.id}

Init ==
  /\ log = <<>>
  /\ openLine = FALSE
  /\ rows = {}
  /\ lock = NoProc
  /\ orphans = {}
  /\ pc = [p \in Proc |-> "idle"]
  /\ todo = [p \in Proc |-> <<>>]
  /\ work = [p \in Proc |-> {}]
  /\ plog = <<>>
  /\ outcome = [f \in FactIds |-> "unused"]
  /\ forgotten = {}
  /\ commits = <<>>

-----------------------------------------------------------------------------
(* Appending to the log: one appendFile in mode "a".                       *)

(* A whole line goes to the end of the file.  When the file ends in a      *)
(* partial line, the two become one unreadable line.                       *)
WriteLine(f) ==
  /\ log' = IF openLine THEN log ELSE Append(log, f)
  /\ openLine' = FALSE

(* The write stops half way: part of the line is in the file.              *)
TearLine ==
  /\ TornWrites
  /\ log' = IF openLine THEN log ELSE Append(log, Junk)
  /\ openLine' = TRUE

-----------------------------------------------------------------------------
(* Recording facts: recordFact, run once per item by runFactAdd (one item) *)
(* and by runFactAccept (each item of a validated proposal in turn, a      *)
(* failed one not stopping the rest).                                      *)

(* The ulid() of an item is private until it is appended, so drawing the   *)
(* ids of a whole batch up front changes nothing; nor does it matter which *)
(* new id is drawn, so they are drawn in a fixed order.                    *)
NextId(i, items) ==
  CHOOSE f \in FactIds \ (Minted \cup {items[j].id : j \in 1..(i - 1)}) : TRUE

(* A target is an id that exists, whether its own recording succeeded or   *)
(* not.                                                                    *)
Batch(items) ==
  /\ \A i \in DOMAIN items : /\ items[i].id \notin Minted
                             /\ items[i].supersedes \in Minted \cup {NoFact}
  /\ \A i, j \in DOMAIN items : items[i].id = items[j].id => i = j
  /\ \A i \in DOMAIN items : items[i].id = NextId(i, items)

StartRecord(p) ==
  /\ pc[p] = "idle"
  /\ \E n \in 1..MaxItems : \E items \in [1..n -> Fact] :
       /\ Batch(items)
       /\ todo' = [todo EXCEPT ![p] = items]
       /\ outcome' = [f \in FactIds |->
                        IF \E i \in 1..n : items[i].id = f THEN "pending" ELSE outcome[f]]
  /\ pc' = [pc EXCEPT ![p] = "open"]
  /\ UNCHANGED <<files, rows, lock, orphans, work, plog, history>>

(* The item is over, well or not, and its connection closed; the loop goes *)
(* on with the next one.                                                   *)
EndItem_Retried(p, result) ==
  /\ outcome' = [outcome EXCEPT ![Head(todo[p]).id] = result]
  /\ todo' = IF result = "ok" THEN [todo EXCEPT ![p] = Tail(@)] ELSE todo
  /\ pc' = [pc EXCEPT ![p] = IF todo'[p] = <<>> THEN "idle" ELSE "open"]
  /\ orphans' = orphans \ {p}
EndItem(p, result) ==
  /\ outcome' = [outcome EXCEPT ![Head(todo[p]).id] = result]
  /\ todo' = [todo EXCEPT ![p] = Tail(@)]
  /\ pc' = [pc EXCEPT ![p] = IF Tail(todo[p]) = <<>> THEN "idle" ELSE "open"]
  /\ orphans' = orphans \ {p}

TargetExists_Unchecked(f) == TRUE
TargetExists(f) == f.supersedes = NoFact \/ f.supersedes \in Ids(rows)

(* openProjectionStore, then the SELECT of the supersede target, before    *)
(* anything is recorded.                                                   *)
OpenStore(p) ==
  /\ pc[p] = "open"
  /\ \/ /\ TargetExists(Head(todo[p]))
        /\ pc' = [pc EXCEPT ![p] = "append"]
        /\ UNCHANGED <<orphans, todo, outcome>>
     \/ /\ ~TargetExists(Head(todo[p]))
        /\ EndItem(p, "not_recorded")
  /\ UNCHANGED <<files, rows, lock, work, plog, history>>

(* The database does not open or does not migrate.                         *)
OpenFails(p) ==
  /\ pc[p] = "open"
  /\ EndItem(p, "not_recorded")
  /\ UNCHANGED <<files, rows, lock, work, plog, history>>

AppendEvent(p) ==
  /\ pc[p] = "append"
  /\ WriteLine(Head(todo[p]))
  /\ pc' = [pc EXCEPT ![p] = "insert"]
  /\ UNCHANGED <<rows, lock, orphans, todo, work, plog, outcome, history>>

(* The append fails, with nothing or with part of the line written; the    *)
(* error leaves recordFact before the insert.                              *)
AppendFails_Swallowed(p) ==
  /\ pc[p] = "append"
  /\ TearLine \/ UNCHANGED files
  /\ pc' = [pc EXCEPT ![p] = "insert"]
  /\ UNCHANGED <<rows, lock, orphans, todo, work, plog, outcome, history>>
AppendFails(p) ==
  /\ pc[p] = "append"
  /\ TearLine \/ UNCHANGED files
  /\ EndItem(p, "not_recorded")
  /\ UNCHANGED <<rows, lock, work, plog, history>>

(* insertFact: one autocommitted INSERT; the primary key is the fact's id. *)
InsertRow(p) ==
  /\ pc[p] = "insert"
  /\ p \notin orphans
  /\ lock = NoProc
  /\ Head(todo[p]).id \notin Ids(rows)
  /\ rows' = rows \cup {Head(todo[p])}
  /\ EndItem(p, "ok")
  /\ UNCHANGED <<files, lock, work, plog, history>>

(* The insert fails: SQLITE_BUSY, a row a rebuild has projected from the   *)
(* event in the meantime (a duplicate primary key), a deleted db/, a full  *)
(* disk.                                                                   *)
InsertFails_ReportedOk(p) ==
  /\ pc[p] = "insert"
  /\ EndItem(p, "ok")
  /\ UNCHANGED <<files, rows, lock, work, plog, history>>
InsertFails(p) ==
  /\ pc[p] = "insert"
  /\ EndItem(p, "projection_write_failed")
  /\ UNCHANGED <<files, rows, lock, work, plog, history>>

-----------------------------------------------------------------------------
(* `rebuild`: withTransaction around DELETE, replay and re-derivation, and *)
(* the two projection events once it has committed.                        *)

StartRebuild(p) ==
  /\ pc[p] = "idle"
  /\ Len(commits) < MaxRebuilds
  /\ pc' = [pc EXCEPT ![p] = "begin"]
  /\ UNCHANGED <<files, rows, lock, orphans, todo, work, plog, outcome, history>>

(* BEGIN IMMEDIATE takes the write lock before the log is read.  The       *)
(* DELETE that follows is seen by this connection alone.                   *)
Begin_NoLock(p) ==
  /\ pc[p] = "begin"
  /\ lock = NoProc
  /\ UNCHANGED <<lock, orphans>>
  /\ work' = [work EXCEPT ![p] = {}]
  /\ pc' = [pc EXCEPT ![p] = "read"]
  /\ UNCHANGED <<files, rows, todo, plog, outcome, history>>
Begin(p) ==
  /\ pc[p] = "begin"
  /\ lock = NoProc
  /\ lock' = p
  /\ work' = [work EXCEPT ![p] = {}]
  /\ pc' = [pc EXCEPT ![p] = "read"]
  /\ UNCHANGED <<files, rows, orphans, todo, plog, outcome, history>>

(* The database does not open, or another rebuild holds the lock.          *)
BeginFails(p) ==
  /\ pc[p] = "begin"
  /\ pc' = [pc EXCEPT ![p] = "idle"]
  /\ UNCHANGED <<files, rows, lock, orphans, todo, work, plog, outcome, history>>

(* readMemoryEvents, the fold, and one INSERT per folded fact.             *)
ReadLog(p) ==
  /\ pc[p] = "read"
  /\ LogReadable
  /\ work' = [work EXCEPT ![p] = LogFacts]
  /\ pc' = [pc EXCEPT ![p] = "commit"]
  /\ UNCHANGED <<files, rows, lock, orphans, todo, plog, outcome, history>>

(* The transaction ends: its lock and its connection are given up.         *)
LeavesTransaction(p) ==
  /\ lock' = IF lock = p THEN NoProc ELSE lock
  /\ orphans' = orphans \ {p}

(* COMMIT to the database in db/, or to one that has been deleted under    *)
(* the rebuild, which the command cannot tell from the other.              *)
Commit(p) ==
  /\ pc[p] = "commit"
  /\ \/ /\ p \notin orphans
        /\ rows' = work[p]
        /\ forgotten' = {}
     \/ /\ p \in orphans
        /\ UNCHANGED <<rows, forgotten>>
  /\ LeavesTransaction(p)
  /\ commits' = Append(commits, Cardinality(work[p]))
  /\ pc' = [pc EXCEPT ![p] = "reset"]
  /\ UNCHANGED <<files, todo, work, plog, outcome>>

(* A throw inside the transaction: the log does not parse, a vault note    *)
(* cannot be projected, the database is gone, or COMMIT finds a reader.    *)
(* ROLLBACK, no event.                                                     *)
RollBack_ThenReports(p) ==
  /\ pc[p] \in InTransaction
  /\ pc[p] = "read" => ~LogReadable \/ p \in orphans
  /\ LeavesTransaction(p)
  /\ pc' = [pc EXCEPT ![p] = "reset"]
  /\ UNCHANGED <<files, rows, todo, work, plog, outcome, history>>
RollBack(p) ==
  /\ pc[p] \in InTransaction
  /\ pc[p] = "read" => ~LogReadable \/ p \in orphans
  /\ LeavesTransaction(p)
  /\ work' = [work EXCEPT ![p] = {}]
  /\ pc' = [pc EXCEPT ![p] = "idle"]
  /\ UNCHANGED <<files, rows, todo, plog, outcome, history>>

AppendReset(p) ==
  /\ pc[p] = "reset"
  /\ plog' = Append(plog, [kind |-> "projection_reset", facts |-> 0])
  /\ pc' = [pc EXCEPT ![p] = "rebuilt"]
  /\ UNCHANGED <<files, rows, lock, orphans, todo, work, outcome, history>>

AppendRebuilt(p) ==
  /\ pc[p] = "rebuilt"
  /\ plog' = Append(plog, [kind |-> "projection_rebuilt", facts |-> Cardinality(work[p])])
  /\ work' = [work EXCEPT ![p] = {}]
  /\ pc' = [pc EXCEPT ![p] = "idle"]
  /\ UNCHANGED <<files, rows, lock, orphans, todo, outcome, history>>

AppendProjectionFails(p) ==
  /\ pc[p] \in Reporting
  /\ work' = [work EXCEPT ![p] = {}]
  /\ pc' = [pc EXCEPT ![p] = "idle"]
  /\ UNCHANGED <<files, rows, lock, orphans, todo, plog, outcome, history>>

-----------------------------------------------------------------------------
(* The process dies between two steps.  Its lock goes with it and SQLite   *)
(* rolls its transaction back; what it appended stays.                     *)
Crash(p) ==
  /\ pc[p] # "idle"
  /\ pc' = [pc EXCEPT ![p] = "idle"]
  /\ LeavesTransaction(p)
  /\ outcome' = [f \in FactIds |->
                   IF \E i \in DOMAIN todo[p] : todo[p][i].id = f
                   THEN "crashed" ELSE outcome[f]]
  /\ todo' = [todo EXCEPT ![p] = <<>>]
  /\ work' = [work EXCEPT ![p] = {}]
  /\ UNCHANGED <<files, rows, plog, history>>

(* The owner deletes db/, which the code declares disposable, while        *)
(* commands run or not.  The rows are gone; a connection that is open      *)
(* keeps the deleted file, and with it its lock.                           *)
DisposeDb ==
  /\ rows' = {}
  /\ forgotten' = {f \in FactIds : outcome[f] = "ok"}
  /\ lock' = NoProc
  /\ orphans' = {p \in Proc : pc[p] \in Connected}
  /\ UNCHANGED <<files, pc, todo, work, plog, outcome, commits>>

-----------------------------------------------------------------------------
(* What a running process does next of its own accord.                     *)
Step(p) ==
  \/ OpenStore(p) \/ OpenFails(p)
  \/ AppendEvent(p) \/ AppendFails(p)
  \/ InsertRow(p) \/ InsertFails(p)
  \/ Begin(p) \/ BeginFails(p) \/ ReadLog(p) \/ Commit(p) \/ RollBack(p)
  \/ AppendReset(p) \/ AppendRebuilt(p) \/ AppendProjectionFails(p)

Next ==
  \/ \E p \in Proc : \/ StartRecord(p) \/ StartRebuild(p)
                     \/ Step(p)
                     \/ Crash(p)
  \/ DisposeDb

Spec == Init /\ [][Next]_vars

(* The operating system keeps scheduling a running process; nobody has to  *)
(* start a command, crash or delete db/.                                   *)
FairSpec == Spec /\ \A p \in Proc : WF_vars(Step(p))
-----------------------------------------------------------------------------
(* Properties.                                                             *)

(* Every variable has its type.                                            *)
TypeOK ==
  /\ log \in Seq(Fact \cup {Junk})
  /\ openLine \in BOOLEAN
  /\ rows \subseteq Fact
  /\ lock \in Proc \cup {NoProc}
  /\ orphans \subseteq Proc
  /\ pc \in [Proc -> Locations]
  /\ todo \in [Proc -> Seq(Fact)]
  /\ work \in [Proc -> SUBSET Fact]
  /\ plog \in Seq(PlogEntry)
  /\ outcome \in [FactIds -> Outcomes]
  /\ forgotten \subseteq FactIds
  /\ commits \in Seq(Nat)

(* The projection never runs ahead of the source of truth: every row, and  *)
(* every row a rebuild is about to commit, is a fact a replay of the log   *)
(* would find (recordFact appends before it inserts).                      *)
RowsFromLog ==
  /\ rows \subseteq LogFacts
  /\ \A p \in Proc : work[p] \subseteq LogFacts

(* A fact reported as written is in the database in db/, whatever rebuilds *)
(* ran beside its recording, unless db/ was deleted after it and no        *)
(* rebuild that opened the store since then has committed.  (One that was  *)
(* under way when db/ was deleted may report success and restore nothing.) *)
AckedProjected ==
  \A f \in FactIds : outcome[f] = "ok" => f \in Ids(rows) \cup forgotten

(* A fact reported as written can be replayed: its event is a readable     *)
(* line of the log.                                                        *)
AckedReplayable ==
  \A f \in FactIds : outcome[f] = "ok" => f \in Ids(LogFacts)

(* The error a command reports tells the truth about the log: with         *)
(* projection_write_failed the event is recorded, with every other code    *)
(* nothing is.                                                             *)
ReportTruthful ==
  \A f \in FactIds :
    /\ outcome[f] = "projection_write_failed" => f \in Ids(LogFacts)
    /\ outcome[f] = "not_recorded" => f \notin Ids(LogFacts)

(* What a command reports of a fact is what the log holds, in the log's    *)
(* own terms: replayable when it said ok, recorded or not recorded         *)
(* according to its error.                                                 *)
ReportsTrue == TypeOK /\ AckedReplayable /\ ReportTruthful

(* A fact corrects only a fact recorded before it, so the supersede chains *)
(* of the log are acyclic; the check of the target and the append are two  *)
(* steps, with rebuilds and deletions of db/ between them.                 *)
SupersedesEarlier ==
  \A i \in DOMAIN log :
    (log[i] # Junk /\ log[i].supersedes # NoFact)
       => \E j \in 1..(i - 1) : log[j] # Junk /\ log[j].id = log[i].supersedes

(* Correcting never loses the subject: any set of rows that holds the      *)
(* superseders of its members holds a current fact, so every superseded    *)
(* fact has a current successor in listCurrentFacts' view.                 *)
CurrentSuccessor ==
  \A T \in SUBSET rows :
    (T # {} /\ \A f \in T : \A g \in rows : g.supersedes = f.id => g \in T)
       => T \cap Current(rows) # {}

(* A rebuild that is about to commit to db/ takes no confirmed fact and no *)
(* visible row away: its snapshot of the log, read once inside the         *)
(* transaction, already holds them all.                                    *)
SnapshotCovers ==
  \A p \in Proc : pc[p] = "commit" /\ p \notin orphans =>
    /\ rows \subseteq work[p]
    /\ \A f \in FactIds : outcome[f] = "ok" => f \in Ids(work[p])

(* Projection events record committed outcomes only: at every point of the *)
(* stream no more rebuilds than resets, no more resets than commits, and   *)
(* a count only as often as a rebuild committed it.                        *)
CommittedOutcomesOnly ==
  LET Kind(k, m) == Cardinality({i \in 1..m : plog[i].kind = k})
  IN /\ \A m \in DOMAIN plog : Kind("projection_rebuilt", m) <= Kind("projection_reset", m)
     /\ Kind("projection_reset", Len(plog)) <= Len(commits)
     /\ \A n \in {plog[i].facts : i \in DOMAIN plog} :
          Cardinality({i \in DOMAIN plog : plog[i] = [kind |-> "projection_rebuilt", facts |-> n]})
            <= Cardinality({i \in DOMAIN commits : commits[i] = n})

(* Rows are ADD-only for every reader: no step but the deletion of db/     *)
(* takes a committed row away, not even a rebuild that deletes them all.   *)
RowsOnlyGrow == [][rows \subseteq rows' \/ DisposeDb]_rows

(* The refinement mapping: the source of truth is what a replay finds, the *)
(* view is the committed table, confirmed is what commands reported.       *)
Ledger == INSTANCE FactLedger
            WITH recorded <- LogFacts, view <- rows,
                 confirmed <- {f \in FactIds : outcome[f] = "ok"}

(* Every behaviour is one of the abstract ledger.                          *)
ImplementsLedger == Ledger!Spec

(* Every command ends, with SQLite's locks contended or not: nothing waits *)
(* for a lock, and a failed item of a proposal is not tried again.         *)
CommandsEnd == \A p \in Proc : pc[p] # "idle" ~> pc[p] = "idle"
=============================================================================
