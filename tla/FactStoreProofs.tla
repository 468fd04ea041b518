--------------------------- MODULE FactStoreProofs ---------------------------
(***************************************************************************)
(* What holds of FactStore for every number of processes, facts, items and *)
(* rebuilds.  The first part needs nothing of the disk; the second assumes *)
(* that an append writes a whole line or nothing (TornWrites = FALSE).     *)
(***************************************************************************)
EXTENDS FactStore, FiniteSetTheorems, WellFoundedInduction, TLAPS

(* A step ending an item leaves its process with well-typed work.          *)
LEMMA EndItemType ==
  ASSUME NEW p \in Proc, NEW result \in Outcomes, TypeOK,
         todo[p] # <<>>, EndItem(p, result)
  PROVE  /\ outcome' \in [FactIds -> Outcomes]
         /\ todo' \in [Proc -> Seq(Fact)]
         /\ pc' \in [Proc -> Locations]
<1>1. Tail(todo[p]) \in Seq(Fact) /\ Head(todo[p]) \in Fact
  BY DEF TypeOK
<1>2. Head(todo[p]).id \in FactIds
  BY <1>1 DEF Fact
<1> QED
  BY <1>1, <1>2 DEF EndItem, TypeOK, Locations, Recording

(* The log keeps its type, and a line that went in whole is found by a     *)
(* replay unless the log is unreadable anyway.                             *)
LEMMA WriteLineFacts ==
  ASSUME NEW f \in Fact, TypeOK, openLine => ~LogReadable, WriteLine(f)
  PROVE  /\ log' \in Seq(Fact \cup {Junk})
         /\ openLine' = FALSE
         /\ LogFacts \subseteq LogFacts'
         /\ LogFacts' \subseteq LogFacts \cup {f}
         /\ LogReadable' => LogReadable
         /\ LogReadable' => f \in LogFacts'
<1>1. CASE openLine
  BY <1>1 DEF WriteLine, TypeOK, LogFacts, LogReadable
<1>2. CASE ~openLine
  <2>1. /\ log' = Append(log, f) /\ openLine' = FALSE
        /\ log \in Seq(Fact \cup {Junk})
    BY <1>2 DEF WriteLine, TypeOK
  <2>2. /\ log' \in Seq(Fact \cup {Junk})
        /\ DOMAIN log' = 1..(Len(log) + 1)
        /\ DOMAIN log = 1..Len(log)
        /\ Len(log) \in Nat
        /\ \A i \in 1..Len(log) : log'[i] = log[i]
        /\ log'[Len(log) + 1] = f
    BY <2>1
  <2>3. f # Junk
    BY JunkAssumption
  <2> QED
    BY <2>1, <2>2, <2>3 DEF LogFacts, LogReadable
<1> QED
  BY <1>1, <1>2

(* A torn line makes the log unreadable and takes no fact away.            *)
LEMMA TearLineFacts ==
  ASSUME TypeOK, openLine => ~LogReadable, TearLine
  PROVE  /\ log' \in Seq(Fact \cup {Junk})
         /\ openLine' = TRUE
         /\ LogFacts' = LogFacts
         /\ ~LogReadable'
<1>1. CASE openLine
  BY <1>1 DEF TearLine, TypeOK, LogFacts, LogReadable
<1>2. CASE ~openLine
  <2>1. /\ log' = Append(log, Junk) /\ openLine' = TRUE
        /\ log \in Seq(Fact \cup {Junk})
    BY <1>2 DEF TearLine, TypeOK
  <2>2. /\ log' \in Seq(Fact \cup {Junk})
        /\ DOMAIN log' = 1..(Len(log) + 1)
        /\ DOMAIN log = 1..Len(log)
        /\ Len(log) \in Nat
        /\ \A i \in 1..Len(log) : log'[i] = log[i]
        /\ log'[Len(log) + 1] = Junk
    BY <2>1
  <2> QED
    BY <2>1, <2>2 DEF LogFacts, LogReadable
<1> QED
  BY <1>1, <1>2

LEMMA LogFactsType == TypeOK => LogFacts \subseteq Fact
  BY DEF TypeOK, LogFacts

LEMMA LogFactsFinite == TypeOK => IsFiniteSet(LogFacts)
<1> SUFFICES ASSUME TypeOK PROVE IsFiniteSet(LogFacts)
  OBVIOUS
<1> DEFINE lines == {j \in DOMAIN log : log[j] # Junk}
           pick == [j \in lines |-> log[j]]
<1>1. DOMAIN log = 1..Len(log) /\ Len(log) \in Nat
  BY DEF TypeOK
<1>2. IsFiniteSet(lines)
  <2>1. IsFiniteSet(1..Len(log))
    BY <1>1, FS_Interval
  <2>2. lines \in SUBSET (1..Len(log))
    BY <1>1
  <2> HIDE DEF lines
  <2> QED
    BY <2>1, <2>2, FS_Subset
<1>3. pick \in Surjection(lines, LogFacts)
  BY DEF LogFacts, Surjection
<1> QED
  BY <1>2, <1>3, FS_Surjection

-----------------------------------------------------------------------------
(* What every step of every run preserves, torn writes included.           *)

(* A recording process has an item in hand.                                *)
Busy == \A p \in Proc : pc[p] \in Recording => todo[p] # <<>>

(* At most one rebuild is inside a transaction of the database in db/: the *)
(* one SQLite let in.                                                      *)
OneTransaction ==
  \A p \in Proc : pc[p] \in InTransaction /\ p \notin orphans <=> lock = p

(* Only an open connection is left to a deleted database.                  *)
Attached == \A p \in orphans : pc[p] \in Connected

(* Only a torn line leaves the file without its final newline.             *)
TornLine == openLine => ~LogReadable

(* While the log can be read it holds every event somebody is about to     *)
(* project, every row, and every fact reported as written.                 *)
Logged ==
  LogReadable =>
    /\ \A p \in Proc : pc[p] = "insert" => Head(todo[p]) \in LogFacts
    /\ rows \subseteq LogFacts
    /\ \A p \in Proc : work[p] \subseteq LogFacts
    /\ \A f \in FactIds : outcome[f] = "ok" => f \in Ids(LogFacts)

(* A replay finds finitely many facts, so their number can be reported.    *)
FiniteWork == \A p \in Proc : IsFiniteSet(work[p])

IInv ==
  /\ TypeOK
  /\ FiniteWork
  /\ Busy
  /\ OneTransaction
  /\ Attached
  /\ TornLine
  /\ Logged
  /\ SnapshotCovers
  /\ AckedProjected

USE DEF Recording, InTransaction, Reporting, Connected

(* An item ends: the process has another item in hand or is idle, and only *)
(* the outcome of this item's fact changes.                                *)
LEMMA EndItemFacts ==
  ASSUME NEW p \in Proc, NEW result \in Outcomes, IInv,
         pc[p] \in Recording, EndItem(p, result)
  PROVE  /\ outcome' \in [FactIds -> Outcomes]
         /\ todo' \in [Proc -> Seq(Fact)]
         /\ pc' \in [Proc -> Locations]
         /\ Busy'
         /\ pc'[p] \in {"idle", "open"}
         /\ orphans' = orphans \ {p}
         /\ \A q \in Proc \ {p} : pc'[q] = pc[q] /\ todo'[q] = todo[q]
         /\ Head(todo[p]) \in Fact /\ Head(todo[p]).id \in FactIds
         /\ outcome'[Head(todo[p]).id] = result
         /\ \A f \in FactIds \ {Head(todo[p]).id} : outcome'[f] = outcome[f]
<1>1. todo[p] # <<>> /\ todo[p] \in Seq(Fact)
  BY DEF IInv, Busy, TypeOK
<1>2. Head(todo[p]) \in Fact /\ Tail(todo[p]) \in Seq(Fact)
  BY <1>1
<1>3. Head(todo[p]).id \in FactIds
  BY <1>2 DEF Fact
<1>4. /\ outcome' \in [FactIds -> Outcomes]
      /\ todo' \in [Proc -> Seq(Fact)]
      /\ pc' \in [Proc -> Locations]
  BY <1>1, EndItemType DEF IInv
<1>5. /\ pc'[p] = IF Tail(todo[p]) = <<>> THEN "idle" ELSE "open"
      /\ todo'[p] = Tail(todo[p])
      /\ \A q \in Proc \ {p} : pc'[q] = pc[q] /\ todo'[q] = todo[q]
  BY DEF EndItem, IInv, TypeOK
<1>6. Busy'
  BY <1>5 DEF IInv, Busy
<1> QED
  BY <1>2, <1>3, <1>4, <1>5, <1>6 DEF EndItem, IInv, TypeOK

(* An item ends without a row: the bookkeeping of processes changes, the   *)
(* two stores do not.                                                      *)
LEMMA EndItemFailed ==
  ASSUME NEW p \in Proc, NEW result \in Outcomes \ {"ok"}, IInv,
         pc[p] \in Recording, EndItem(p, result),
         UNCHANGED <<files, rows, lock, work, plog, history>>
  PROVE  IInv'
<1>1. LogFacts' = LogFacts /\ LogReadable' = LogReadable
  BY DEF files, LogFacts, LogReadable
<1>2. \A f \in FactIds : outcome'[f] = "ok" => outcome[f] = "ok"
  BY EndItemFacts
<1>3. \A q \in Proc : pc'[q] \in {"insert"} \cup InTransaction
                        => pc'[q] = pc[q] /\ todo'[q] = todo[q]
  BY EndItemFacts
<1>4. TypeOK' /\ FiniteWork' /\ Busy'
  BY EndItemFacts DEF IInv, TypeOK, FiniteWork, files, history
<1>5. OneTransaction' /\ Attached'
  BY EndItemFacts DEF IInv, TypeOK, OneTransaction, Attached
<1>6. TornLine'
  BY <1>1 DEF IInv, TornLine, files
<1>7. Logged'
  BY <1>1, <1>2, <1>3 DEF IInv, Logged
<1>8. SnapshotCovers'
  BY EndItemFacts, <1>2, <1>3 DEF IInv, SnapshotCovers
<1>9. AckedProjected'
  BY <1>2 DEF IInv, AckedProjected, history
<1> QED
  BY <1>4, <1>5, <1>6, <1>7, <1>8, <1>9 DEF IInv

LEMMA InitIInv == Init => IInv
<1> SUFFICES ASSUME Init PROVE IInv
  OBVIOUS
<1>0. /\ <<>> \in Seq(Fact \cup {Junk}) /\ <<>> \in Seq(Fact)
      /\ <<>> \in Seq(PlogEntry) /\ <<>> \in Seq(Nat)
  OBVIOUS
<1>1. TypeOK
  <2>1. /\ log \in Seq(Fact \cup {Junk}) /\ plog \in Seq(PlogEntry)
        /\ commits \in Seq(Nat) /\ todo \in [Proc -> Seq(Fact)]
    BY <1>0, Zenon DEF Init
  <2>2. /\ openLine \in BOOLEAN /\ rows \subseteq Fact
        /\ lock \in Proc \cup {NoProc} /\ orphans \subseteq Proc /\ forgotten \subseteq FactIds
        /\ pc \in [Proc -> Locations] /\ work \in [Proc -> SUBSET Fact]
        /\ outcome \in [FactIds -> Outcomes]
    BY DEF Init, Locations, Outcomes
  <2> QED
    BY <2>1, <2>2 DEF TypeOK
<1>2. LogFacts = {} /\ LogReadable
  BY DEF Init, LogFacts, LogReadable
<1>3. FiniteWork /\ Busy /\ OneTransaction /\ Attached /\ TornLine
  BY NullAssumption, FS_EmptySet DEF Init, FiniteWork, Busy, OneTransaction, Attached, TornLine
<1>4. Logged /\ SnapshotCovers /\ AckedProjected
  BY <1>2 DEF Init, Logged, SnapshotCovers, AckedProjected
<1> QED
  BY <1>1, <1>3, <1>4 DEF IInv

LEMMA StartRecordIInv ==
  ASSUME NEW p \in Proc, IInv, StartRecord(p)
  PROVE  IInv'
<1>0. PICK n \in 1..MaxItems : \E items \in [1..n -> Fact] :
        /\ Batch(items)
        /\ todo' = [todo EXCEPT ![p] = items]
        /\ outcome' = [f \in FactIds |->
                         IF \E i \in 1..n : items[i].id = f THEN "pending" ELSE outcome[f]]
  BY DEF StartRecord
<1>1. PICK items \in [1..n -> Fact] :
        /\ Batch(items)
        /\ todo' = [todo EXCEPT ![p] = items]
        /\ outcome' = [f \in FactIds |->
                         IF \E i \in 1..n : items[i].id = f THEN "pending" ELSE outcome[f]]
  BY <1>0
<1>2. n \in Nat \ {0} /\ items \in Seq(Fact) /\ items # <<>>
  BY <1>1, BoundAssumption
<1>3. LogFacts' = LogFacts /\ LogReadable' = LogReadable
  BY DEF StartRecord, files, LogFacts, LogReadable
<1>4. /\ pc' = [pc EXCEPT ![p] = "open"] /\ pc[p] = "idle"
      /\ UNCHANGED <<files, rows, lock, orphans, work, plog, history>>
  BY DEF StartRecord
<1>5. \A f \in FactIds : outcome'[f] = "ok" => outcome[f] = "ok"
  BY <1>1
<1>6. TypeOK' /\ FiniteWork'
  BY <1>1, <1>2, <1>4 DEF IInv, TypeOK, FiniteWork, files, history, Locations, Outcomes
<1>7. Busy' /\ OneTransaction' /\ Attached'
  BY <1>1, <1>2, <1>4 DEF IInv, TypeOK, Busy, OneTransaction, Attached
<1>8. TornLine'
  BY <1>3, <1>4 DEF IInv, TornLine, files
<1>9. Logged'
  BY <1>1, <1>3, <1>4, <1>5 DEF IInv, TypeOK, Logged
<1>10. SnapshotCovers'
  BY <1>4, <1>5 DEF IInv, TypeOK, SnapshotCovers
<1>11. AckedProjected'
  BY <1>4, <1>5 DEF IInv, AckedProjected, history
<1> QED
  BY <1>6, <1>7, <1>8, <1>9, <1>10, <1>11 DEF IInv

LEMMA AppendEventIInv ==
  ASSUME NEW p \in Proc, IInv, AppendEvent(p)
  PROVE  IInv'
<1>1. /\ pc[p] = "append" /\ pc' = [pc EXCEPT ![p] = "insert"]
      /\ WriteLine(Head(todo[p]))
      /\ UNCHANGED <<rows, lock, orphans, todo, work, plog, outcome, history>>
  BY DEF AppendEvent
<1>2. Head(todo[p]) \in Fact
  BY <1>1 DEF IInv, Busy, TypeOK
<1>3. /\ log' \in Seq(Fact \cup {Junk})
      /\ openLine' = FALSE
      /\ LogFacts \subseteq LogFacts'
      /\ LogReadable' => LogReadable
      /\ LogReadable' => Head(todo[p]) \in LogFacts'
  BY <1>1, <1>2, WriteLineFacts DEF IInv, TornLine
<1>4. TypeOK' /\ FiniteWork'
  BY <1>1, <1>3 DEF IInv, TypeOK, FiniteWork, history, Locations
<1>5. Busy' /\ OneTransaction' /\ Attached'
  BY <1>1 DEF IInv, TypeOK, Busy, OneTransaction, Attached
<1>6. TornLine'
  BY <1>3 DEF TornLine
<1>7. Logged'
  BY <1>1, <1>3 DEF IInv, TypeOK, Logged, Ids
<1>8. SnapshotCovers' /\ AckedProjected'
  BY <1>1 DEF IInv, TypeOK, SnapshotCovers, AckedProjected, history
<1> QED
  BY <1>4, <1>5, <1>6, <1>7, <1>8 DEF IInv

LEMMA AppendFailsIInv ==
  ASSUME NEW p \in Proc, IInv, AppendFails(p)
  PROVE  IInv'
<1>1. /\ pc[p] = "append"
      /\ TearLine \/ UNCHANGED files
      /\ EndItem(p, "not_recorded")
      /\ UNCHANGED <<rows, lock, work, plog, history>>
  BY DEF AppendFails
<1>2. CASE UNCHANGED files
  BY <1>1, <1>2, EndItemFailed DEF Outcomes
<1>3. CASE TearLine
  <2>1. /\ log' \in Seq(Fact \cup {Junk})
        /\ openLine' = TRUE
        /\ ~LogReadable'
    BY <1>3, TearLineFacts DEF IInv, TornLine
  <2>2. /\ outcome' \in [FactIds -> Outcomes]
        /\ todo' \in [Proc -> Seq(Fact)]
        /\ pc' \in [Proc -> Locations]
        /\ Busy'
        /\ pc'[p] \in {"idle", "open"}
        /\ orphans' = orphans \ {p}
        /\ \A q \in Proc \ {p} : pc'[q] = pc[q]
        /\ \A f \in FactIds : outcome'[f] = "ok" => outcome[f] = "ok"
    BY <1>1, EndItemFacts DEF Outcomes
  <2>3. TypeOK' /\ FiniteWork'
    BY <1>1, <2>1, <2>2 DEF IInv, TypeOK, FiniteWork, history
  <2>4. OneTransaction' /\ Attached'
    BY <1>1, <2>2 DEF IInv, TypeOK, OneTransaction, Attached
  <2>5. TornLine' /\ Logged'
    BY <2>1 DEF TornLine, Logged
  <2>6. SnapshotCovers' /\ AckedProjected'
    BY <1>1, <2>2 DEF IInv, SnapshotCovers, AckedProjected, history
  <2> QED
    BY <2>2, <2>3, <2>4, <2>5, <2>6 DEF IInv
<1> QED
  BY <1>1, <1>2, <1>3

LEMMA InsertRowIInv ==
  ASSUME NEW p \in Proc, IInv, InsertRow(p)
  PROVE  IInv'
<1> DEFINE f == Head(todo[p])
<1>1. /\ pc[p] = "insert"
      /\ lock = NoProc /\ p \notin orphans
      /\ rows' = rows \cup {f}
      /\ EndItem(p, "ok")
      /\ UNCHANGED <<files, lock, work, plog, history>>
  BY DEF InsertRow
<1>2. /\ outcome' \in [FactIds -> Outcomes]
      /\ todo' \in [Proc -> Seq(Fact)]
      /\ pc' \in [Proc -> Locations]
      /\ Busy'
      /\ pc'[p] \in {"idle", "open"}
      /\ orphans' = orphans \ {p}
      /\ \A q \in Proc \ {p} : pc'[q] = pc[q] /\ todo'[q] = todo[q]
      /\ f \in Fact /\ f.id \in FactIds
      /\ \A g \in FactIds \ {f.id} : outcome'[g] = outcome[g]
  BY <1>1, EndItemFacts DEF Outcomes
<1> HIDE DEF f
<1>3. LogFacts' = LogFacts /\ LogReadable' = LogReadable
  BY <1>1 DEF files, LogFacts, LogReadable
<1>4. \A q \in Proc : pc[q] \in InTransaction => q \in orphans
  BY <1>1, NullAssumption DEF IInv, OneTransaction
<1>5. TypeOK' /\ FiniteWork'
  BY <1>1, <1>2 DEF IInv, TypeOK, FiniteWork, files, history
<1>6. OneTransaction' /\ Attached'
  BY <1>1, <1>2, <1>4, NullAssumption DEF IInv, TypeOK, OneTransaction, Attached
<1>7. TornLine'
  BY <1>1, <1>3 DEF IInv, TornLine, files
<1>8. LogReadable => f \in LogFacts
  BY <1>1 DEF IInv, Logged, f
<1>9. Logged'
  BY <1>1, <1>2, <1>3, <1>8 DEF IInv, Logged, Ids
<1>10. SnapshotCovers'
  BY <1>1, <1>2, <1>4 DEF SnapshotCovers
<1>11. AckedProjected'
  BY <1>1, <1>2 DEF IInv, AckedProjected, history, Ids
<1> QED
  BY <1>2, <1>5, <1>6, <1>7, <1>9, <1>10, <1>11 DEF IInv

(* Commands that only move: they change pc and nothing else.               *)
LEMMA MoveIInv ==
  ASSUME NEW p \in Proc, IInv, NEW to \in Locations \ Connected,
         to = "open" => pc[p] \in Recording,
         pc[p] \notin Connected, pc' = [pc EXCEPT ![p] = to],
         UNCHANGED <<files, rows, lock, orphans, todo, work, plog, outcome, history>>
  PROVE  IInv'
<1>1. LogFacts' = LogFacts /\ LogReadable' = LogReadable
  BY DEF files, LogFacts, LogReadable
<1>2. TypeOK' /\ FiniteWork'
  BY DEF IInv, TypeOK, FiniteWork, files, history
<1>3. Busy' /\ OneTransaction' /\ Attached'
  BY DEF IInv, TypeOK, Busy, OneTransaction, Attached
<1>4. TornLine' /\ Logged'
  BY <1>1 DEF IInv, TypeOK, TornLine, Logged, files
<1>5. SnapshotCovers' /\ AckedProjected'
  BY DEF IInv, TypeOK, SnapshotCovers, AckedProjected, history
<1> QED
  BY <1>2, <1>3, <1>4, <1>5 DEF IInv

LEMMA OpenStoreIInv ==
  ASSUME NEW p \in Proc, IInv, OpenStore(p)
  PROVE  IInv'
<1>1. /\ pc[p] = "open"
      /\ UNCHANGED <<files, rows, lock, work, plog, history>>
  BY DEF OpenStore
<1>2. CASE EndItem(p, "not_recorded")
  BY <1>1, <1>2, EndItemFailed DEF Outcomes
<1>3. CASE pc' = [pc EXCEPT ![p] = "append"] /\ UNCHANGED <<orphans, todo, outcome>>
  <2>1. LogFacts' = LogFacts /\ LogReadable' = LogReadable
    BY <1>1 DEF files, LogFacts, LogReadable
  <2>2. TypeOK' /\ FiniteWork' /\ Busy' /\ OneTransaction' /\ Attached'
    BY <1>1, <1>3 DEF IInv, TypeOK, FiniteWork, Busy, OneTransaction, Attached, files, history, Locations
  <2>3. TornLine' /\ Logged'
    BY <1>1, <1>3, <2>1 DEF IInv, TypeOK, TornLine, Logged, files
  <2>4. SnapshotCovers' /\ AckedProjected'
    BY <1>1, <1>3 DEF IInv, TypeOK, SnapshotCovers, AckedProjected, history
  <2> QED
    BY <2>2, <2>3, <2>4 DEF IInv
<1> QED
  BY <1>2, <1>3 DEF OpenStore

(* The lock is taken before anything is read.                              *)
LEMMA BeginIInv ==
  ASSUME NEW p \in Proc, IInv, Begin(p)
  PROVE  IInv'
<1>1. /\ pc[p] = "begin" /\ lock = NoProc /\ lock' = p
      /\ work' = [work EXCEPT ![p] = {}]
      /\ pc' = [pc EXCEPT ![p] = "read"]
      /\ UNCHANGED <<files, rows, orphans, todo, plog, outcome, history>>
  BY DEF Begin
<1>2. LogFacts' = LogFacts /\ LogReadable' = LogReadable
  BY <1>1 DEF files, LogFacts, LogReadable
<1>3. TypeOK' /\ FiniteWork' /\ Busy'
  BY <1>1, FS_EmptySet DEF IInv, TypeOK, FiniteWork, Busy, files, history, Locations
<1>4. OneTransaction' /\ Attached'
  BY <1>1, NullAssumption DEF IInv, TypeOK, OneTransaction, Attached
<1>5. TornLine' /\ Logged'
  BY <1>1, <1>2 DEF IInv, TypeOK, TornLine, Logged, files
<1>6. SnapshotCovers' /\ AckedProjected'
  BY <1>1 DEF IInv, TypeOK, SnapshotCovers, AckedProjected, history
<1> QED
  BY <1>3, <1>4, <1>5, <1>6 DEF IInv

(* The snapshot is the whole log, hence every row and every confirmed fact. *)
LEMMA ReadLogIInv ==
  ASSUME NEW p \in Proc, IInv, ReadLog(p)
  PROVE  IInv'
<1>1. /\ pc[p] = "read" /\ LogReadable
      /\ work' = [work EXCEPT ![p] = LogFacts]
      /\ pc' = [pc EXCEPT ![p] = "commit"]
      /\ UNCHANGED <<files, rows, lock, orphans, todo, plog, outcome, history>>
  BY DEF ReadLog
<1>2. LogFacts' = LogFacts /\ LogReadable' = LogReadable
  BY <1>1 DEF files, LogFacts, LogReadable
<1>3. TypeOK' /\ FiniteWork' /\ Busy'
  BY <1>1, LogFactsType, LogFactsFinite
  DEF IInv, TypeOK, FiniteWork, Busy, files, history, Locations
<1>4. OneTransaction' /\ Attached'
  BY <1>1 DEF IInv, TypeOK, OneTransaction, Attached
<1>5. TornLine' /\ Logged'
  BY <1>1, <1>2 DEF IInv, TypeOK, TornLine, Logged, files
<1>6. SnapshotCovers'
  BY <1>1 DEF IInv, TypeOK, SnapshotCovers, Logged
<1>7. AckedProjected'
  BY <1>1 DEF IInv, AckedProjected, history
<1> QED
  BY <1>3, <1>4, <1>5, <1>6, <1>7 DEF IInv

LEMMA CommitIInv ==
  ASSUME NEW p \in Proc, IInv, Commit(p)
  PROVE  IInv'
<1>1. /\ pc[p] = "commit"
      /\ lock' = IF lock = p THEN NoProc ELSE lock
      /\ orphans' = orphans \ {p}
      /\ commits' = Append(commits, Cardinality(work[p]))
      /\ pc' = [pc EXCEPT ![p] = "reset"]
      /\ UNCHANGED <<files, todo, work, plog, outcome>>
  BY DEF Commit, LeavesTransaction
<1>2. LogFacts' = LogFacts /\ LogReadable' = LogReadable
  BY <1>1 DEF files, LogFacts, LogReadable
<1>3. \/ p \notin orphans /\ lock = p /\ rows' = work[p] /\ forgotten' = {}
      \/ p \in orphans /\ lock # p /\ UNCHANGED <<rows, forgotten>>
  BY DEF Commit, IInv, OneTransaction
<1>4. Cardinality(work[p]) \in Nat
  BY FS_CardinalityType DEF IInv, FiniteWork
<1>5. TypeOK' /\ FiniteWork' /\ Busy'
  BY <1>1, <1>3, <1>4 DEF IInv, TypeOK, FiniteWork, Busy, files, Locations
<1>6. OneTransaction' /\ Attached'
  BY <1>1, <1>3, NullAssumption DEF IInv, TypeOK, OneTransaction, Attached
<1>7. TornLine' /\ Logged'
  BY <1>1, <1>2, <1>3 DEF IInv, TypeOK, TornLine, Logged, files
<1>8. SnapshotCovers'
  BY <1>1, <1>3 DEF IInv, TypeOK, OneTransaction, SnapshotCovers
<1>9. AckedProjected'
  BY <1>1, <1>3 DEF IInv, SnapshotCovers, AckedProjected
<1> QED
  BY <1>5, <1>6, <1>7, <1>8, <1>9 DEF IInv

(* Leaving a rebuild without a commit: the lock, if held, is released and  *)
(* the rows the transaction had inserted are gone.                         *)
LEMMA LeaveRebuildIInv ==
  ASSUME NEW p \in Proc, IInv, pc[p] \in InTransaction \cup Reporting,
         LeavesTransaction(p),
         plog' \in Seq(PlogEntry),
         work' = [work EXCEPT ![p] = {}], pc' = [pc EXCEPT ![p] = "idle"],
         UNCHANGED <<files, rows, todo, outcome, history>>
  PROVE  IInv'
<1>1. LogFacts' = LogFacts /\ LogReadable' = LogReadable
  BY DEF files, LogFacts, LogReadable
<1>2. TypeOK' /\ FiniteWork' /\ Busy'
  BY FS_EmptySet DEF LeavesTransaction, IInv, TypeOK, FiniteWork, Busy, files, history, Locations
<1>3. OneTransaction' /\ Attached'
  BY NullAssumption DEF LeavesTransaction, IInv, TypeOK, OneTransaction, Attached
<1>4. TornLine' /\ Logged'
  BY <1>1 DEF IInv, TypeOK, TornLine, Logged, files
<1>5. SnapshotCovers' /\ AckedProjected'
  BY DEF LeavesTransaction, IInv, TypeOK, SnapshotCovers, AckedProjected, history
<1> QED
  BY <1>2, <1>3, <1>4, <1>5 DEF IInv

LEMMA RollBackIInv ==
  ASSUME NEW p \in Proc, IInv, RollBack(p)
  PROVE  IInv'
  BY LeaveRebuildIInv DEF RollBack, IInv, TypeOK

LEMMA AppendRebuiltIInv ==
  ASSUME NEW p \in Proc, IInv, AppendRebuilt(p)
  PROVE  IInv'
<1>1. LeavesTransaction(p)
  BY DEF AppendRebuilt, LeavesTransaction, IInv, OneTransaction, Attached
<1>2. Cardinality(work[p]) \in Nat
  BY FS_CardinalityType DEF IInv, FiniteWork
<1>3. [kind |-> "projection_rebuilt", facts |-> Cardinality(work[p])] \in PlogEntry
  BY <1>2 DEF PlogEntry
<1>4. plog' \in Seq(PlogEntry)
  BY <1>3 DEF AppendRebuilt, IInv, TypeOK
<1> QED
  BY <1>1, <1>4, LeaveRebuildIInv DEF AppendRebuilt

LEMMA AppendProjectionFailsIInv ==
  ASSUME NEW p \in Proc, IInv, AppendProjectionFails(p)
  PROVE  IInv'
<1>1. LeavesTransaction(p)
  BY DEF AppendProjectionFails, LeavesTransaction, IInv, OneTransaction, Attached
<1> QED
  BY <1>1, LeaveRebuildIInv DEF AppendProjectionFails, IInv, TypeOK

LEMMA AppendResetIInv ==
  ASSUME NEW p \in Proc, IInv, AppendReset(p)
  PROVE  IInv'
<1>1. /\ pc[p] = "reset" /\ pc' = [pc EXCEPT ![p] = "rebuilt"]
      /\ plog' = Append(plog, [kind |-> "projection_reset", facts |-> 0])
      /\ UNCHANGED <<files, rows, lock, orphans, todo, work, outcome, history>>
  BY DEF AppendReset
<1>2. plog' \in Seq(PlogEntry)
  BY <1>1 DEF IInv, TypeOK, PlogEntry
<1>3. LogFacts' = LogFacts /\ LogReadable' = LogReadable
  BY <1>1 DEF files, LogFacts, LogReadable
<1>4. TypeOK' /\ FiniteWork' /\ Busy' /\ OneTransaction' /\ Attached'
  BY <1>1, <1>2 DEF IInv, TypeOK, FiniteWork, Busy, OneTransaction, Attached, files, history, Locations
<1>5. TornLine' /\ Logged'
  BY <1>1, <1>3 DEF IInv, TypeOK, TornLine, Logged, files
<1>6. SnapshotCovers' /\ AckedProjected'
  BY <1>1 DEF IInv, TypeOK, SnapshotCovers, AckedProjected, history
<1> QED
  BY <1>4, <1>5, <1>6 DEF IInv

LEMMA CrashIInv ==
  ASSUME NEW p \in Proc, IInv, Crash(p)
  PROVE  IInv'
<1>1. /\ pc' = [pc EXCEPT ![p] = "idle"]
      /\ lock' = IF lock = p THEN NoProc ELSE lock
      /\ orphans' = orphans \ {p}
      /\ outcome' = [f \in FactIds |->
                       IF \E i \in DOMAIN todo[p] : todo[p][i].id = f
                       THEN "crashed" ELSE outcome[f]]
      /\ todo' = [todo EXCEPT ![p] = <<>>]
      /\ work' = [work EXCEPT ![p] = {}]
      /\ UNCHANGED <<files, rows, plog, history>>
  BY DEF Crash, LeavesTransaction
<1>2. LogFacts' = LogFacts /\ LogReadable' = LogReadable
  BY <1>1 DEF files, LogFacts, LogReadable
<1>3. \A f \in FactIds : outcome'[f] = "ok" => outcome[f] = "ok"
  BY <1>1
<1>4. <<>> \in Seq(Fact)
  OBVIOUS
<1>5. todo' \in [Proc -> Seq(Fact)]
  BY <1>1, <1>4, Zenon DEF IInv, TypeOK
<1>6. TypeOK' /\ FiniteWork' /\ Busy'
  BY <1>1, <1>5, FS_EmptySet
  DEF IInv, TypeOK, FiniteWork, Busy, files, history, Locations, Outcomes
<1>7. OneTransaction' /\ Attached'
  BY <1>1, NullAssumption DEF IInv, TypeOK, OneTransaction, Attached
<1>8. TornLine' /\ Logged'
  BY <1>1, <1>2, <1>3 DEF IInv, TypeOK, TornLine, Logged, files
<1>9. SnapshotCovers' /\ AckedProjected'
  BY <1>1, <1>3 DEF IInv, TypeOK, SnapshotCovers, AckedProjected, history
<1> QED
  BY <1>6, <1>7, <1>8, <1>9 DEF IInv

LEMMA DisposeDbIInv ==
  ASSUME IInv, DisposeDb
  PROVE  IInv'
<1>1. LogFacts' = LogFacts /\ LogReadable' = LogReadable
  BY DEF DisposeDb, files, LogFacts, LogReadable
<1>2. TypeOK' /\ FiniteWork' /\ Busy'
  BY DEF DisposeDb, IInv, TypeOK, FiniteWork, Busy, files
<1>3. OneTransaction' /\ Attached'
  BY NullAssumption DEF DisposeDb, OneTransaction, Attached
<1>4. TornLine' /\ Logged'
  BY <1>1 DEF DisposeDb, IInv, TornLine, Logged, files
<1>5. SnapshotCovers'
  BY DEF DisposeDb, SnapshotCovers
<1>6. AckedProjected'
  BY DEF DisposeDb, AckedProjected
<1> QED
  BY <1>2, <1>3, <1>4, <1>5, <1>6 DEF IInv

LEMMA StepIInv ==
  ASSUME NEW p \in Proc, IInv, Step(p)
  PROVE  IInv'
<1>1. CASE OpenFails(p)
  BY <1>1, EndItemFailed DEF OpenFails, Outcomes
<1>2. CASE InsertFails(p)
  BY <1>2, EndItemFailed DEF InsertFails, Outcomes
<1>3. CASE BeginFails(p)
  BY <1>3, MoveIInv DEF BeginFails, Locations
<1> QED
  BY <1>1, <1>2, <1>3, OpenStoreIInv, AppendEventIInv, AppendFailsIInv,
     InsertRowIInv, BeginIInv, ReadLogIInv, CommitIInv, RollBackIInv,
     AppendResetIInv, AppendRebuiltIInv, AppendProjectionFailsIInv
  DEF Step

LEMMA NextIInv == IInv /\ [Next]_vars => IInv'
<1> SUFFICES ASSUME IInv, [Next]_vars PROVE IInv'
  OBVIOUS
<1>1. ASSUME NEW p \in Proc, StartRebuild(p) PROVE IInv'
  BY <1>1, MoveIInv DEF StartRebuild, Locations
<1>2. CASE UNCHANGED vars
  <2>1. LogFacts' = LogFacts /\ LogReadable' = LogReadable
    BY <1>2 DEF vars, LogFacts, LogReadable
  <2> QED
    BY <1>2, <2>1 DEF vars, IInv, TypeOK, FiniteWork, Busy, OneTransaction, Attached,
       TornLine, Logged, SnapshotCovers, AckedProjected
<1> QED
  BY <1>1, <1>2, StartRecordIInv, StepIInv, CrashIInv, DisposeDbIInv DEF Next

(* The inductive invariant holds of every behaviour.                       *)
THEOREM Invariance == Spec => []IInv
  BY InitIInv, NextIInv, PTL DEF Spec

(* Type correctness of the fact store.                                     *)
THEOREM TypeCorrect == Spec => []TypeOK
<1>1. IInv => TypeOK
  BY DEF IInv
<1> QED
  BY <1>1, Invariance, PTL

(* Whatever commands run beside each other, fail or crash, and whether or  *)
(* not appends tear the log, a fact reported as written is in the database *)
(* in db/, unless db/ was deleted after it and no rebuild that opened the  *)
(* store since then has committed (recordFact, rebuildProjection).         *)
THEOREM AckedStaysProjected == Spec => []AckedProjected
<1>1. IInv => AckedProjected
  BY DEF IInv
<1> QED
  BY <1>1, Invariance, PTL

(* A rebuild about to commit covers every visible row and every confirmed  *)
(* fact: the log is read once, under the write lock.                       *)
THEOREM SnapshotIsComplete == Spec => []SnapshotCovers
<1>1. IInv => SnapshotCovers
  BY DEF IInv
<1> QED
  BY <1>1, Invariance, PTL

(* ADD-only for every reader: only deleting db/ takes a committed row      *)
(* away; a rebuild, which deletes every row, never does.                   *)
THEOREM RowsAreAddOnly == Spec => RowsOnlyGrow
<1>1. IInv /\ [Next]_vars => [rows \subseteq rows' \/ DisposeDb]_rows
  <2> SUFFICES ASSUME IInv, [Next]_vars, ~DisposeDb
               PROVE  rows \subseteq rows'
    OBVIOUS
  <2>1. ASSUME NEW p \in Proc, Commit(p) PROVE rows \subseteq rows'
    BY <2>1 DEF Commit, IInv, SnapshotCovers
  <2>2. ASSUME NEW p \in Proc, InsertRow(p) PROVE rows \subseteq rows'
    BY <2>2 DEF InsertRow
  <2>3. ASSUME NEW p \in Proc, Step(p), ~Commit(p), ~InsertRow(p)
        PROVE  UNCHANGED rows
    BY <2>3 DEF Step, OpenStore, OpenFails, AppendEvent, AppendFails, InsertFails,
       Begin, BeginFails, ReadLog, RollBack, AppendReset, AppendRebuilt, AppendProjectionFails
  <2>4. ASSUME NEW p \in Proc, StartRecord(p) \/ StartRebuild(p) \/ Crash(p)
        PROVE  UNCHANGED rows
    BY <2>4 DEF StartRecord, StartRebuild, Crash
  <2>5. CASE UNCHANGED vars
    BY <2>5 DEF vars
  <2> QED
    BY <2>1, <2>2, <2>3, <2>4, <2>5 DEF Next
<1> QED
  BY <1>1, Invariance, PTL DEF Spec, RowsOnlyGrow

-----------------------------------------------------------------------------
(* Corrections, torn writes included.                                      *)

(* A set of numbers has a least one.  (Intervals from 0 are finite sets,   *)
(* and inclusion of finite sets is well-founded.)                          *)
LEMMA LeastNumber ==
  ASSUME NEW S, S \subseteq Nat, S # {}
  PROVE  \E n \in S : \A m \in S : n <= m
<1> DEFINE T == {0..n : n \in S}
<1>1. \A n \in Nat : IsFiniteSet(0..n) /\ 0..n \subseteq Nat
  BY FS_Interval
<1>2. T \subseteq FiniteSubsetsOf(Nat) /\ T # {}
  BY <1>1 DEF FiniteSubsetsOf
<1> HIDE DEF T
<1>3. PICK X \in T : \A Y \in T : <<Y, X>> \notin StrictSubsetOrdering(Nat)
  BY <1>2, FS_StrictSubsetOrderingWellFounded, WFMin
<1>4. PICK n \in S : X = 0..n
  BY DEF T
<1>5. ASSUME NEW m \in S, ~(n <= m) PROVE FALSE
  <2>1. 0..m \in T /\ 0..m \in SUBSET Nat /\ X \in SUBSET Nat
    BY <1>1, <1>4 DEF T
  <2>2. 0..m \subseteq X /\ n \in X /\ n \notin 0..m
    BY <1>4, <1>5
  <2>3. <<0..m, X>> \in StrictSubsetOrdering(Nat)
    BY <2>1, <2>2 DEF StrictSubsetOrdering
  <2> QED
    BY <1>3, <2>1, <2>3
<1> QED
  BY <1>5

(* Every fact there is: recorded, projected, about to be committed, or in  *)
(* hand.                                                                   *)
InHand == UNION {{todo[p][i] : i \in DOMAIN todo[p]} : p \in Proc}
Known == rows \cup LogFacts \cup (UNION {work[p] : p \in Proc}) \cup InHand

(* A fact and what it corrects have drawn their ids.                       *)
Drawn == \A f \in Known : f.id \in Minted /\ f.supersedes \in Minted \cup {NoFact}

(* Ids can be dated so that every fact is younger than what it corrects.   *)
Dated(n, date) ==
  /\ n \in Nat
  /\ date \in [FactIds -> 0..n]
  /\ \A f \in Known : f.supersedes # NoFact => date[f.supersedes] < date[f.id]
Datable == \E n, date : Dated(n, date)

DInv == Drawn /\ Datable

(* Steps that draw no id know no new fact.                                 *)
LEMMA NothingNew ==
  ASSUME DInv, Known' \subseteq Known, Minted \subseteq Minted'
  PROVE  DInv'
<1>1. Drawn'
  BY DEF DInv, Drawn
<1>2. PICK n, date : Dated(n, date)
  BY DEF DInv, Datable
<1>3. Dated(n, date)'
  BY <1>2 DEF Dated
<1> QED
  BY <1>1, <1>3 DEF DInv, Datable

(* What is in hand after an item has ended was so before.                  *)
LEMMA EndItemKnows ==
  ASSUME TypeOK, NEW p \in Proc, todo[p] # <<>>, NEW result \in Outcomes \ {"unused"},
         EndItem(p, result), LogFacts' \subseteq LogFacts, UNCHANGED work,
         rows' \subseteq rows \cup {Head(todo[p])}
  PROVE  Known' \subseteq Known /\ Minted \subseteq Minted'
<1>1. /\ todo[p] \in Seq(Fact) /\ todo' = [todo EXCEPT ![p] = Tail(todo[p])]
      /\ todo \in [Proc -> Seq(Fact)]
  BY DEF TypeOK, EndItem
<1>2. /\ Head(todo[p]) = todo[p][1] /\ 1 \in DOMAIN todo[p]
      /\ \A i \in DOMAIN Tail(todo[p]) : i + 1 \in DOMAIN todo[p] /\ Tail(todo[p])[i] = todo[p][i + 1]
  BY <1>1
<1>3. InHand' \subseteq InHand
  BY <1>1, <1>2 DEF InHand
<1>4. Head(todo[p]) \in InHand
  BY <1>2 DEF InHand
<1>5. Known' \subseteq Known
  BY <1>3, <1>4 DEF Known
<1>6. Minted \subseteq Minted'
  BY DEF Minted, EndItem, TypeOK
<1> QED
  BY <1>5, <1>6

(* A new batch: what it corrects has drawn its id before, so all of it can *)
(* be dated one later than everything else.                                *)
LEMMA StartRecordDInv ==
  ASSUME IInv, DInv, NEW p \in Proc, StartRecord(p)
  PROVE  DInv'
<1>0. PICK n \in 1..MaxItems : \E items \in [1..n -> Fact] :
        /\ Batch(items)
        /\ todo' = [todo EXCEPT ![p] = items]
        /\ outcome' = [f \in FactIds |->
                         IF \E i \in 1..n : items[i].id = f THEN "pending" ELSE outcome[f]]
  BY DEF StartRecord
<1>1. PICK items \in [1..n -> Fact] :
        /\ Batch(items)
        /\ todo' = [todo EXCEPT ![p] = items]
        /\ outcome' = [f \in FactIds |->
                         IF \E i \in 1..n : items[i].id = f THEN "pending" ELSE outcome[f]]
  BY <1>0
<1> DEFINE new == {items[i] : i \in 1..n}
<1>2. LogFacts' = LogFacts /\ UNCHANGED <<rows, work>>
  BY DEF StartRecord, files, LogFacts
<1>3. InHand' \subseteq InHand \cup new
  BY <1>1 DEF InHand, IInv, TypeOK
<1>4. Known' \subseteq Known \cup new
  BY <1>2, <1>3 DEF Known
<1>5. /\ Minted' = Minted \cup {f.id : f \in new}
      /\ \A f \in new : f \in Fact /\ f.id \in FactIds \ Minted /\ f.supersedes \in Minted \cup {NoFact}
  <2>1. \A i \in 1..n : items[i] \in Fact /\ items[i].id \in FactIds \ Minted
                        /\ items[i].supersedes \in Minted \cup {NoFact}
    BY <1>1 DEF Batch, Fact
  <2> QED
    BY <1>1, <2>1 DEF Minted
<1>6. Drawn'
  BY <1>4, <1>5 DEF DInv, Drawn
<1>7. PICK m, date : Dated(m, date)
  BY DEF DInv, Datable
<1>8. PICK later \in [FactIds -> 0..m + 1] :
        \A i \in FactIds : later[i] = IF i \in Minted THEN date[i] ELSE m + 1
  <2>1. [i \in FactIds |-> IF i \in Minted THEN date[i] ELSE m + 1] \in [FactIds -> 0..m + 1]
    BY <1>7 DEF Dated
  <2> QED
    BY <2>1
<1>9. ASSUME NEW f \in Known', f.supersedes # NoFact PROVE later[f.supersedes] < later[f.id]
  <2>1. Minted \subseteq FactIds /\ \A i \in FactIds : date[i] \in 0..m
    BY <1>7 DEF Minted, Dated
  <2>2. CASE f \in Known
    BY <1>7, <1>8, <1>9, <2>1, <2>2 DEF DInv, Drawn, Dated
  <2>3. CASE f \in new
    BY <1>5, <1>7, <1>8, <1>9, <2>1, <2>3 DEF Dated
  <2> QED
    BY <1>4, <2>2, <2>3
<1>10. Dated(m + 1, later)'
  BY <1>7, <1>8, <1>9 DEF Dated
<1> QED
  BY <1>6, <1>10 DEF DInv, Datable

LEMMA StepDInv ==
  ASSUME IInv, DInv, NEW p \in Proc, Step(p)
  PROVE  DInv'
<1> USE DEF IInv
<1>1. ASSUME NEW result \in Outcomes \ {"unused"}, EndItem(p, result), pc[p] \in Recording,
             LogFacts' \subseteq LogFacts, UNCHANGED work, rows' \subseteq rows \cup {Head(todo[p])}
      PROVE  DInv'
  BY <1>1, EndItemKnows, NothingNew DEF Busy
<1>2. ASSUME UNCHANGED <<todo, outcome>>, LogFacts' \subseteq Known,
             \A q \in Proc : work'[q] \subseteq Known, rows' \subseteq Known
      PROVE  DInv'
  <2>1. InHand' = InHand /\ Minted' = Minted
    BY <1>2 DEF InHand, Minted
  <2>2. Known' \subseteq Known
    BY <1>2, <2>1 DEF Known
  <2> QED
    BY <2>1, <2>2, NothingNew
<1>3. UNCHANGED files => LogFacts' = LogFacts
  BY DEF files, LogFacts
<1>4. LogFacts \subseteq Known /\ rows \subseteq Known /\ \A q \in Proc : work[q] \subseteq Known
  BY DEF Known
<1>5. CASE OpenStore(p)
  BY <1>1, <1>2, <1>3, <1>4, <1>5 DEF OpenStore, Outcomes
<1>6. CASE OpenFails(p)
  BY <1>1, <1>3, <1>6 DEF OpenFails, Outcomes
<1>7. CASE AppendEvent(p)
  <2>1. /\ todo[p] # <<>> /\ todo[p] \in Seq(Fact) /\ WriteLine(Head(todo[p]))
        /\ UNCHANGED <<rows, todo, work, outcome>>
    BY <1>7 DEF AppendEvent, Busy, TypeOK
  <2>2. Head(todo[p]) = todo[p][1] /\ 1 \in DOMAIN todo[p] /\ Head(todo[p]) \in Fact
    BY <2>1
  <2>3. LogFacts' \subseteq LogFacts \cup {Head(todo[p])}
    BY <2>1, <2>2, WriteLineFacts DEF TornLine
  <2>4. Head(todo[p]) \in Known
    BY <2>2 DEF Known, InHand
  <2> QED
    BY <1>2, <1>4, <2>1, <2>3, <2>4
<1>8. CASE AppendFails(p)
  <2>1. LogFacts' \subseteq LogFacts
    BY <1>3, <1>8, TearLineFacts DEF AppendFails, TornLine
  <2> QED
    BY <1>1, <1>8, <2>1 DEF AppendFails, Outcomes
<1>9. CASE InsertRow(p) \/ InsertFails(p)
  BY <1>1, <1>3, <1>9 DEF InsertRow, InsertFails, Outcomes
<1>10. CASE ReadLog(p)
  BY <1>2, <1>3, <1>4, <1>10 DEF ReadLog, TypeOK
<1>11. CASE Commit(p)
  BY <1>2, <1>3, <1>4, <1>11 DEF Commit
<1>12. CASE BeginFails(p) \/ AppendReset(p)
  BY <1>2, <1>3, <1>4, <1>12 DEF BeginFails, AppendReset
<1>13. CASE Begin(p) \/ RollBack(p) \/ AppendRebuilt(p) \/ AppendProjectionFails(p)
  BY <1>2, <1>3, <1>4, <1>13
  DEF Begin, RollBack, AppendRebuilt, AppendProjectionFails, TypeOK
<1> QED
  BY <1>5, <1>6, <1>7, <1>8, <1>9, <1>10, <1>11, <1>12, <1>13 DEF Step

LEMMA NextDInv == IInv /\ DInv /\ [Next]_vars => DInv'
<1> SUFFICES ASSUME IInv, DInv, [Next]_vars PROVE DInv'
  OBVIOUS
<1>1. UNCHANGED files => LogFacts' = LogFacts
  BY DEF files, LogFacts
<1>2. ASSUME NEW p \in Proc, Crash(p) PROVE DInv'
  <2>1. InHand' \subseteq InHand
    BY <1>2 DEF Crash, InHand, IInv, TypeOK
  <2>2. \A q \in Proc : work'[q] \subseteq work[q]
    BY <1>2 DEF Crash, IInv, TypeOK
  <2>3. Known' \subseteq Known
    BY <1>1, <1>2, <2>1, <2>2 DEF Crash, Known
  <2>4. Minted \subseteq Minted'
    BY <1>2 DEF Crash, Minted
  <2> QED
    BY <2>3, <2>4, NothingNew
<1>3. CASE DisposeDb
  BY <1>1, <1>3, NothingNew DEF DisposeDb, Known, InHand, Minted
<1>4. ASSUME NEW p \in Proc, StartRebuild(p) PROVE DInv'
  BY <1>1, <1>4, NothingNew DEF StartRebuild, Known, InHand, Minted
<1>5. CASE UNCHANGED vars
  BY <1>5, NothingNew DEF vars, LogFacts, Known, InHand, Minted
<1> QED
  BY <1>2, <1>3, <1>4, <1>5, StartRecordDInv, StepDInv DEF Next

LEMMA InitDInv == Init => DInv
<1> SUFFICES ASSUME Init PROVE DInv
  OBVIOUS
<1>1. Known = {}
  BY DEF Init, Known, InHand, LogFacts
<1>2. Dated(0, [f \in FactIds |-> 0])
  BY <1>1 DEF Dated
<1> QED
  BY <1>1, <1>2 DEF DInv, Drawn, Datable

(* The youngest of a set of facts that holds their superseders is current. *)
LEMMA YoungestIsCurrent == TypeOK /\ DInv => CurrentSuccessor
<1> SUFFICES ASSUME TypeOK, DInv, NEW T \in SUBSET rows, T # {},
                    \A f \in T : \A g \in rows : g.supersedes = f.id => g \in T
             PROVE  T \cap Current(rows) # {}
  BY DEF CurrentSuccessor
<1>1. PICK n, date : Dated(n, date)
  BY DEF DInv, Datable
<1>2. \A f \in T : f \in Known /\ f \in Fact /\ f.id \in FactIds
  BY DEF TypeOK, Known, Fact
<1> DEFINE ages == {n - date[f.id] : f \in T}
<1>3. ages \subseteq Nat /\ ages # {}
  BY <1>1, <1>2 DEF Dated
<1> HIDE DEF ages
<1>4. PICK a \in ages : \A b \in ages : a <= b
  BY <1>3, LeastNumber
<1>5. PICK f \in T : a = n - date[f.id]
  BY DEF ages
<1>6. ASSUME NEW g \in T PROVE date[g.id] <= date[f.id]
  <2>1. n \in Nat /\ date[f.id] \in 0..n /\ date[g.id] \in 0..n
    BY <1>1, <1>2 DEF Dated
  <2>2. n - date[f.id] <= n - date[g.id]
    BY <1>4, <1>5 DEF ages
  <2> QED
    BY <2>1, <2>2
<1>7. ASSUME NEW g \in rows, g.supersedes = f.id PROVE FALSE
  <2>1. g \in T /\ f.id # NoFact
    BY <1>2, <1>7, NullAssumption
  <2> QED
    BY <1>1, <1>2, <1>6, <1>7, <2>1 DEF Dated
<1> QED
  BY <1>7 DEF Current

(* Correcting never loses the subject: every set of rows that holds the    *)
(* superseders of its members holds a current one, whatever was deleted,   *)
(* rebuilt or torn in between (recordFact checks its target first, and     *)
(* listCurrentFacts drops superseded rows).                                *)
THEOREM SuccessorsStay == Spec => []CurrentSuccessor
<1>1. IInv => TypeOK
  BY DEF IInv
<1>2. Spec => []DInv
  BY InitDInv, NextDInv, Invariance, PTL DEF Spec
<1> QED
  BY <1>1, <1>2, YoungestIsCurrent, Invariance, PTL

-----------------------------------------------------------------------------
(* Projection events against commits.                                      *)

(* Where a sequence has a member of V.                                     *)
Hits(s, V) == {i \in DOMAIN s : s[i] \in V}

LEMMA HitsFinite ==
  ASSUME NEW S, NEW s \in Seq(S), NEW V
  PROVE  IsFiniteSet(Hits(s, V)) /\ Cardinality(Hits(s, V)) \in Nat
<1>1. IsFiniteSet(1..Len(s)) /\ Hits(s, V) \in SUBSET (1..Len(s))
  BY FS_Interval DEF Hits
<1> QED
  BY <1>1, FS_Subset, FS_CardinalityType

LEMMA HitsAppend ==
  ASSUME NEW S, NEW s \in Seq(S), NEW x \in S, NEW V
  PROVE  Cardinality(Hits(Append(s, x), V)) = Cardinality(Hits(s, V)) + IF x \in V THEN 1 ELSE 0
<1>1. Hits(Append(s, x), V) = IF x \in V THEN Hits(s, V) \cup {Len(s) + 1} ELSE Hits(s, V)
  BY DEF Hits
<1>2. Len(s) + 1 \notin Hits(s, V)
  BY DEF Hits
<1>3. IsFiniteSet(Hits(s, V)) /\ Cardinality(Hits(s, V)) \in Nat
  BY HitsFinite
<1>4. CASE x \in V
  BY <1>1, <1>2, <1>3, <1>4, FS_AddElement
<1>5. CASE x \notin V
  BY <1>1, <1>3, <1>5
<1> QED
  BY <1>4, <1>5

Resets == [kind : {"projection_reset"}, facts : Nat]
Rebuilts(F) == [kind : {"projection_rebuilt"}, facts : F]

(* Processes that have committed a rebuild and not yet reported it.        *)
At(here) == {p \in Proc : pc[p] \in here}
Owing(n) == {p \in At(Reporting) : Cardinality(work[p]) = n}

(* Each of them accounts for a commit, or for a reset, that is not yet     *)
(* answered by an event.                                                   *)
AllReset == Cardinality(Hits(plog, Resets)) + Cardinality(At({"reset"})) <= Len(commits)
AllRebuilt ==
  Cardinality(Hits(plog, Rebuilts(Nat))) + Cardinality(At({"rebuilt"})) <= Cardinality(Hits(plog, Resets))
AllCounted ==
  \A n \in Nat : Cardinality(Hits(plog, Rebuilts({n}))) + Cardinality(Owing(n))
                   <= Cardinality(Hits(commits, {n}))
Until(m, V) == {i \in 1..m : plog[i] \in V}
Prefixes ==
  \A m \in DOMAIN plog : Cardinality(Until(m, Rebuilts(Nat))) <= Cardinality(Until(m, Resets))

Tally == IsFiniteSet(At(Reporting)) /\ AllReset /\ AllRebuilt /\ AllCounted /\ Prefixes

(* Whatever is finite among the reporting processes can be counted.        *)
LEMMA Reporters ==
  ASSUME IsFiniteSet(At(Reporting)), NEW T \in SUBSET At(Reporting)
  PROVE  IsFiniteSet(T) /\ Cardinality(T) \in Nat
  BY FS_Subset, FS_CardinalityType

LEMMA Sizes ==
  ASSUME TypeOK
  PROVE  /\ Len(commits) \in Nat
         /\ \A V : IsFiniteSet(Hits(plog, V)) /\ Cardinality(Hits(plog, V)) \in Nat
         /\ \A V : IsFiniteSet(Hits(commits, V)) /\ Cardinality(Hits(commits, V)) \in Nat
  BY HitsFinite DEF TypeOK

(* No event, no commit, and nobody new to report.                          *)
LEMMA NothingToReport ==
  ASSUME TypeOK, Tally, UNCHANGED <<plog, commits>>,
         \A p \in Proc : pc'[p] \in Reporting => pc'[p] = pc[p] /\ work'[p] = work[p]
  PROVE  Tally'
<1>1. At(Reporting)' \in SUBSET At(Reporting) /\ At({"reset"})' \in SUBSET At({"reset"})
      /\ At({"rebuilt"})' \in SUBSET At({"rebuilt"})
  BY DEF At
<1>2. \A n \in Nat : Owing(n)' \in SUBSET Owing(n)
  BY <1>1 DEF Owing, At
<1>3. At({"reset"}) \in SUBSET At(Reporting) /\ At({"rebuilt"}) \in SUBSET At(Reporting)
      /\ \A n \in Nat : Owing(n) \in SUBSET At(Reporting)
  BY DEF At, Owing
<1>4. IsFiniteSet(At(Reporting))'
  BY <1>1, FS_Subset DEF Tally
<1>5. AllReset'
  <2>1. /\ Cardinality(At({"reset"}))' <= Cardinality(At({"reset"}))
        /\ Cardinality(At({"reset"})) \in Nat /\ Cardinality(At({"reset"}))' \in Nat
    BY <1>1, <1>3, Reporters, FS_Subset, FS_CardinalityType DEF Tally
  <2> QED
    BY <2>1, Sizes DEF Tally, AllReset
<1>6. AllRebuilt'
  <2>1. /\ Cardinality(At({"rebuilt"}))' <= Cardinality(At({"rebuilt"}))
        /\ Cardinality(At({"rebuilt"})) \in Nat /\ Cardinality(At({"rebuilt"}))' \in Nat
    BY <1>1, <1>3, Reporters, FS_Subset, FS_CardinalityType DEF Tally
  <2> QED
    BY <2>1, Sizes DEF Tally, AllRebuilt
<1>7. ASSUME NEW n \in Nat
      PROVE  Cardinality(Hits(plog, Rebuilts({n})))' + Cardinality(Owing(n))' <= Cardinality(Hits(commits, {n}))'
  <2>1. /\ Cardinality(Owing(n))' <= Cardinality(Owing(n))
        /\ Cardinality(Owing(n)) \in Nat /\ Cardinality(Owing(n))' \in Nat
    BY <1>2, <1>3, Reporters, FS_Subset, FS_CardinalityType DEF Tally
  <2> QED
    BY <2>1, Sizes DEF Tally, AllCounted
<1>8. Prefixes'
  BY DEF Tally, Prefixes, Until
<1> QED
  BY <1>4, <1>5, <1>6, <1>7, <1>8 DEF Tally, AllCounted

(* An entry is appended: it counts in what it belongs to, and earlier      *)
(* prefixes keep their counts.                                             *)
LEMMA PrefixesGrow ==
  ASSUME TypeOK, Prefixes, NEW e \in PlogEntry, plog' = Append(plog, e),
         Cardinality(Hits(plog, Rebuilts(Nat)))' <= Cardinality(Hits(plog, Resets))'
  PROVE  Prefixes'
<1>1. /\ plog \in Seq(PlogEntry) /\ DOMAIN plog = 1..Len(plog) /\ Len(plog) \in Nat
      /\ DOMAIN plog' = 1..Len(plog) + 1
      /\ \A i \in 1..Len(plog) : plog'[i] = plog[i]
  BY DEF TypeOK
<1>2. ASSUME NEW m \in DOMAIN plog'
      PROVE  Cardinality(Until(m, Rebuilts(Nat)))' <= Cardinality(Until(m, Resets))'
  <2>1. CASE m \in DOMAIN plog
    <3>1. \A V : Until(m, V)' = Until(m, V)
      BY <1>1, <2>1 DEF Until
    <3> QED
      BY <2>1, <3>1 DEF Prefixes, Rebuilts, Resets
  <2>2. CASE m = Len(plog) + 1
    <3>1. \A V : Until(m, V)' = Hits(plog, V)'
      BY <1>1, <2>2 DEF Until, Hits
    <3> QED
      BY <3>1 DEF Rebuilts, Resets
  <2> QED
    BY <1>1, <2>1, <2>2
<1> QED
  BY <1>2 DEF Prefixes

LEMMA CommitTally ==
  ASSUME IInv, Tally, NEW p \in Proc, Commit(p)
  PROVE  Tally'
<1>1. /\ pc[p] = "commit" /\ pc' = [pc EXCEPT ![p] = "reset"]
      /\ commits' = Append(commits, Cardinality(work[p]))
      /\ UNCHANGED <<work, plog>> /\ pc \in [Proc -> Locations]
      /\ TypeOK /\ commits \in Seq(Nat)
  BY DEF Commit, IInv, TypeOK
<1>2. Cardinality(work[p]) \in Nat
  BY FS_CardinalityType DEF IInv, FiniteWork
<1>3. /\ Len(commits') = Len(commits) + 1
      /\ \A n \in Nat : Cardinality(Hits(commits, {n}))'
            = Cardinality(Hits(commits, {n})) + IF Cardinality(work[p]) = n THEN 1 ELSE 0
  BY <1>1, <1>2, HitsAppend
<1>4. /\ At(Reporting)' = At(Reporting) \cup {p} /\ p \notin At(Reporting)
      /\ At({"reset"})' = At({"reset"}) \cup {p} /\ At({"rebuilt"})' = At({"rebuilt"})
      /\ \A n \in Nat : Owing(n)' = IF Cardinality(work[p]) = n THEN Owing(n) \cup {p} ELSE Owing(n)
  <2>1. /\ At(Reporting)' = At(Reporting) \cup {p} /\ p \notin At(Reporting)
        /\ At({"reset"})' = At({"reset"}) \cup {p} /\ At({"rebuilt"})' = At({"rebuilt"})
    BY <1>1 DEF At
  <2> QED
    BY <1>1, <2>1 DEF Owing
<1>5. At({"reset"}) \in SUBSET At(Reporting) /\ At({"rebuilt"}) \in SUBSET At(Reporting)
      /\ \A n \in Nat : Owing(n) \in SUBSET At(Reporting)
  BY DEF At, Owing
<1>6. IsFiniteSet(At(Reporting))'
  BY <1>4, FS_AddElement DEF Tally
<1>7. AllReset'
  <2>1. Cardinality(At({"reset"}))' = Cardinality(At({"reset"})) + 1 /\ Cardinality(At({"reset"})) \in Nat
    BY <1>4, <1>5, Reporters, FS_AddElement DEF Tally
  <2> QED
    BY <1>1, <1>3, <2>1, Sizes DEF Tally, AllReset
<1>8. AllRebuilt' /\ Prefixes'
  BY <1>1, <1>4 DEF Tally, AllRebuilt, Prefixes, Until
<1>9. ASSUME NEW n \in Nat
      PROVE  Cardinality(Hits(plog, Rebuilts({n})))' + Cardinality(Owing(n))' <= Cardinality(Hits(commits, {n}))'
  <2>1. /\ Cardinality(Owing(n))' = Cardinality(Owing(n)) + (IF Cardinality(work[p]) = n THEN 1 ELSE 0)
        /\ Cardinality(Owing(n)) \in Nat
    <3>1. IsFiniteSet(Owing(n)) /\ Cardinality(Owing(n)) \in Nat /\ p \notin Owing(n)
      BY <1>4, <1>5, Reporters DEF Tally
    <3>2. CASE Cardinality(work[p]) = n
      BY <1>4, <3>1, <3>2, FS_AddElement
    <3>3. CASE Cardinality(work[p]) # n
      BY <1>4, <3>1, <3>3
    <3> QED
      BY <3>1, <3>2, <3>3
  <2>2. /\ Cardinality(Hits(plog, Rebuilts({n}))) \in Nat /\ Cardinality(Hits(commits, {n})) \in Nat
        /\ Cardinality(Hits(plog, Rebuilts({n})))' = Cardinality(Hits(plog, Rebuilts({n})))
        /\ Cardinality(Hits(plog, Rebuilts({n}))) + Cardinality(Owing(n)) <= Cardinality(Hits(commits, {n}))
    BY <1>1, Sizes DEF Tally, AllCounted, Rebuilts
  <2> QED
    BY <1>3, <2>1, <2>2
<1> QED
  BY <1>6, <1>7, <1>8, <1>9 DEF Tally, AllCounted

LEMMA AppendResetTally ==
  ASSUME IInv, Tally, NEW p \in Proc, AppendReset(p)
  PROVE  Tally'
<1> DEFINE e == [kind |-> "projection_reset", facts |-> 0]
<1>1. /\ pc[p] = "reset" /\ pc' = [pc EXCEPT ![p] = "rebuilt"]
      /\ plog' = Append(plog, e)
      /\ UNCHANGED <<work, commits>> /\ pc \in [Proc -> Locations]
      /\ TypeOK /\ plog \in Seq(PlogEntry)
  BY DEF AppendReset, IInv, TypeOK, history
<1>2. /\ e \in PlogEntry /\ e \in Resets /\ e \notin Rebuilts(Nat)
      /\ \A n \in Nat : e \notin Rebuilts({n})
  BY DEF PlogEntry, Resets, Rebuilts
<1>3. /\ Cardinality(Hits(plog, Resets))' = Cardinality(Hits(plog, Resets)) + 1
      /\ Cardinality(Hits(plog, Rebuilts(Nat)))' = Cardinality(Hits(plog, Rebuilts(Nat)))
      /\ \A n \in Nat : Cardinality(Hits(plog, Rebuilts({n})))' = Cardinality(Hits(plog, Rebuilts({n})))
  <2>1. \A V : Cardinality(Hits(plog', V)) = Cardinality(Hits(plog, V)) + IF e \in V THEN 1 ELSE 0
    BY <1>1, <1>2, HitsAppend
  <2>2. \A V : Cardinality(Hits(plog, V)) \in Nat
    BY <1>1, Sizes
  <2> HIDE DEF e
  <2>3. Cardinality(Hits(plog', Resets)) = Cardinality(Hits(plog, Resets)) + 1
    BY <1>2, <2>1
  <2>4. ASSUME NEW V, e \notin V PROVE Cardinality(Hits(plog', V)) = Cardinality(Hits(plog, V))
    BY <2>1, <2>2, <2>4
  <2>5. Cardinality(Hits(plog', Rebuilts(Nat))) = Cardinality(Hits(plog, Rebuilts(Nat)))
    BY <1>2, <2>4
  <2>6. \A n \in Nat : Cardinality(Hits(plog', Rebuilts({n}))) = Cardinality(Hits(plog, Rebuilts({n})))
    BY <1>2, <2>4
  <2> QED
    BY <2>3, <2>5, <2>6 DEF Resets, Rebuilts
<1>4. /\ At(Reporting)' = At(Reporting) /\ At({"reset"})' = At({"reset"}) \ {p}
      /\ At({"rebuilt"})' = At({"rebuilt"}) \cup {p} /\ p \in At({"reset"})
      /\ \A n \in Nat : Owing(n)' = Owing(n)
  <2>1. /\ At(Reporting)' = At(Reporting) /\ At({"reset"})' = At({"reset"}) \ {p}
        /\ At({"rebuilt"})' = At({"rebuilt"}) \cup {p} /\ p \in At({"reset"})
    BY <1>1 DEF At
  <2> QED
    BY <1>1, <2>1 DEF Owing
<1>5. At({"reset"}) \in SUBSET At(Reporting) /\ At({"rebuilt"}) \in SUBSET At(Reporting)
  BY DEF At
<1>6. /\ Cardinality(At({"reset"}))' = Cardinality(At({"reset"})) - 1
      /\ Cardinality(At({"rebuilt"}))' <= Cardinality(At({"rebuilt"})) + 1
      /\ Cardinality(At({"reset"})) \in Nat /\ Cardinality(At({"rebuilt"})) \in Nat
      /\ Cardinality(At({"rebuilt"}))' \in Nat
  <2>1. /\ IsFiniteSet(At({"reset"})) /\ Cardinality(At({"reset"})) \in Nat
        /\ IsFiniteSet(At({"rebuilt"})) /\ Cardinality(At({"rebuilt"})) \in Nat
    BY <1>5, Reporters DEF Tally
  <2>2. Cardinality(At({"reset"}))' = Cardinality(At({"reset"})) - 1
    BY <1>4, <2>1, FS_RemoveElement
  <2>3. Cardinality(At({"rebuilt"}))' \in {Cardinality(At({"rebuilt"})), Cardinality(At({"rebuilt"})) + 1}
    BY <1>4, <2>1, FS_AddElement
  <2> QED
    BY <2>1, <2>2, <2>3
<1>7. AllReset' /\ AllRebuilt'
  BY <1>1, <1>3, <1>6, Sizes DEF Tally, AllReset, AllRebuilt
<1>8. Prefixes'
  <2>1. Cardinality(Hits(plog, Rebuilts(Nat)))' <= Cardinality(Hits(plog, Resets))'
    BY <1>1, <1>3, <1>6, Sizes DEF Tally, AllRebuilt
  <2> QED
    BY <1>1, <1>2, <2>1, PrefixesGrow DEF Tally
<1>9. AllCounted'
  BY <1>1, <1>3, <1>4 DEF Tally, AllCounted
<1> QED
  BY <1>4, <1>7, <1>8, <1>9 DEF Tally

LEMMA AppendRebuiltTally ==
  ASSUME IInv, Tally, NEW p \in Proc, AppendRebuilt(p)
  PROVE  Tally'
<1> DEFINE k == Cardinality(work[p])
           e == [kind |-> "projection_rebuilt", facts |-> k]
<1>1. /\ pc[p] = "rebuilt" /\ pc' = [pc EXCEPT ![p] = "idle"]
      /\ plog' = Append(plog, e)
      /\ work' = [work EXCEPT ![p] = {}]
      /\ UNCHANGED commits /\ pc \in [Proc -> Locations] /\ work \in [Proc -> SUBSET Fact]
      /\ TypeOK /\ plog \in Seq(PlogEntry)
  BY DEF AppendRebuilt, IInv, TypeOK, history
<1>2. k \in Nat
  BY FS_CardinalityType DEF IInv, FiniteWork
<1>3. /\ e \in PlogEntry /\ e \notin Resets /\ e \in Rebuilts(Nat)
      /\ \A n \in Nat : e \in Rebuilts({n}) <=> k = n
  BY <1>2 DEF PlogEntry, Resets, Rebuilts
<1>4. /\ Cardinality(Hits(plog, Resets))' = Cardinality(Hits(plog, Resets))
      /\ Cardinality(Hits(plog, Rebuilts(Nat)))' = Cardinality(Hits(plog, Rebuilts(Nat))) + 1
      /\ \A n \in Nat : Cardinality(Hits(plog, Rebuilts({n})))'
            = Cardinality(Hits(plog, Rebuilts({n}))) + IF k = n THEN 1 ELSE 0
  <2>1. \A V : Cardinality(Hits(plog', V)) = Cardinality(Hits(plog, V)) + IF e \in V THEN 1 ELSE 0
    BY <1>1, <1>3, HitsAppend
  <2>2. \A V : Cardinality(Hits(plog, V)) \in Nat
    BY <1>1, Sizes
  <2> HIDE DEF e, k
  <2> QED
    <3>1. Cardinality(Hits(plog', Resets)) = Cardinality(Hits(plog, Resets))
      BY <1>3, <2>1, <2>2
    <3>2. Cardinality(Hits(plog', Rebuilts(Nat))) = Cardinality(Hits(plog, Rebuilts(Nat))) + 1
      BY <1>3, <2>1, <2>2
    <3>3. ASSUME NEW n \in Nat
          PROVE  Cardinality(Hits(plog', Rebuilts({n})))
                   = Cardinality(Hits(plog, Rebuilts({n}))) + IF k = n THEN 1 ELSE 0
      BY <1>3, <2>1, <2>2
    <3> QED
      BY <3>1, <3>2, <3>3 DEF Resets, Rebuilts
<1>5. /\ At(Reporting)' = At(Reporting) \ {p} /\ p \in At(Reporting)
      /\ At({"reset"})' = At({"reset"})
      /\ At({"rebuilt"})' = At({"rebuilt"}) \ {p} /\ p \in At({"rebuilt"})
      /\ \A n \in Nat : Owing(n)' = Owing(n) \ {p} /\ (p \in Owing(n) <=> k = n)
  <2>1. /\ At(Reporting)' = At(Reporting) \ {p} /\ p \in At(Reporting)
        /\ At({"reset"})' = At({"reset"})
        /\ At({"rebuilt"})' = At({"rebuilt"}) \ {p} /\ p \in At({"rebuilt"})
    BY <1>1 DEF At
  <2>2. \A q \in At(Reporting) \ {p} : work'[q] = work[q]
    BY <1>1 DEF At
  <2> QED
    BY <2>1, <2>2 DEF Owing
<1>6. At({"reset"}) \in SUBSET At(Reporting) /\ At({"rebuilt"}) \in SUBSET At(Reporting)
      /\ \A n \in Nat : Owing(n) \in SUBSET At(Reporting)
  BY DEF At, Owing
<1>7. IsFiniteSet(At(Reporting))'
  BY <1>5, FS_RemoveElement DEF Tally
<1>8. /\ Cardinality(At({"rebuilt"}))' = Cardinality(At({"rebuilt"})) - 1
      /\ Cardinality(At({"reset"})) \in Nat /\ Cardinality(At({"rebuilt"})) \in Nat
  BY <1>5, <1>6, Reporters, FS_RemoveElement DEF Tally
<1> HIDE DEF e, k
<1>9. AllReset' /\ AllRebuilt'
  <2>1. AllReset'
    BY <1>1, <1>4, <1>5 DEF Tally, AllReset
  <2> QED
    BY <1>1, <1>4, <1>8, <2>1, Sizes DEF Tally, AllRebuilt
<1>10. Prefixes'
  <2>1. Cardinality(At({"rebuilt"}))' \in Nat
    BY <1>5, <1>6, Reporters, FS_Subset, FS_CardinalityType DEF Tally
  <2>2. Cardinality(Hits(plog, Rebuilts(Nat)))' <= Cardinality(Hits(plog, Resets))'
    BY <1>1, <1>4, <1>8, <2>1, Sizes DEF Tally, AllRebuilt
  <2> QED
    BY <1>1, <1>3, <2>2, PrefixesGrow DEF Tally
<1>11. ASSUME NEW n \in Nat
       PROVE  Cardinality(Hits(plog, Rebuilts({n})))' + Cardinality(Owing(n))' <= Cardinality(Hits(commits, {n}))'
  <2>1. /\ Cardinality(Owing(n))' = Cardinality(Owing(n)) - (IF k = n THEN 1 ELSE 0)
        /\ Cardinality(Owing(n)) \in Nat
    BY <1>5, <1>6, Reporters, FS_RemoveElement DEF Tally
  <2>2. /\ Cardinality(Hits(plog, Rebuilts({n}))) \in Nat /\ Cardinality(Hits(commits, {n})) \in Nat
        /\ Cardinality(Hits(commits, {n}))' = Cardinality(Hits(commits, {n}))
        /\ Cardinality(Hits(plog, Rebuilts({n}))) + Cardinality(Owing(n)) <= Cardinality(Hits(commits, {n}))
    BY <1>1, Sizes DEF Tally, AllCounted
  <2>3. Cardinality(Hits(plog, Rebuilts({n})))' = Cardinality(Hits(plog, Rebuilts({n}))) + IF k = n THEN 1 ELSE 0
    BY <1>4
  <2> QED
    BY <2>1, <2>2, <2>3
<1> QED
  BY <1>7, <1>9, <1>10, <1>11 DEF Tally, AllCounted

LEMMA NextTally == IInv /\ Tally /\ [Next]_vars => Tally'
<1> SUFFICES ASSUME IInv, Tally, [Next]_vars PROVE Tally'
  OBVIOUS
<1>0. TypeOK
  BY DEF IInv
<1>1. ASSUME NEW p \in Proc, UNCHANGED <<plog, commits>>, pc[p] # "commit" \/ pc'[p] # "reset",
             \A q \in Proc \ {p} : pc'[q] = pc[q] /\ work'[q] = work[q],
             pc'[p] \notin Reporting
      PROVE  Tally'
  BY <1>0, <1>1, NothingToReport
<1>2. ASSUME NEW p \in Proc, NEW result, EndItem(p, result), UNCHANGED <<plog, commits, work>>
      PROVE  Tally'
  BY <1>0, <1>1, <1>2 DEF EndItem, TypeOK
<1>3. ASSUME NEW p \in Proc, Step(p) PROVE Tally'
  <2>1. CASE OpenStore(p) \/ OpenFails(p) \/ AppendFails(p) \/ InsertRow(p) \/ InsertFails(p)
    BY <1>0, <1>1, <1>2, <2>1
    DEF OpenStore, OpenFails, AppendFails, InsertRow, InsertFails, history, TypeOK
  <2>2. CASE AppendEvent(p) \/ Begin(p) \/ BeginFails(p) \/ ReadLog(p)
    BY <1>0, <1>1, <2>2 DEF AppendEvent, Begin, BeginFails, ReadLog, history, TypeOK
  <2>3. CASE RollBack(p) \/ AppendProjectionFails(p)
    BY <1>0, <1>1, <2>3 DEF RollBack, AppendProjectionFails, history, TypeOK
  <2> QED
    BY <1>3, <2>1, <2>2, <2>3, CommitTally, AppendResetTally, AppendRebuiltTally DEF Step
<1>4. ASSUME NEW p \in Proc, StartRecord(p) \/ StartRebuild(p) \/ Crash(p)
      PROVE  Tally'
  BY <1>0, <1>1, <1>4 DEF StartRecord, StartRebuild, Crash, history, TypeOK
<1>5. CASE DisposeDb \/ UNCHANGED vars
  BY <1>0, <1>5, NothingToReport DEF DisposeDb, vars
<1> QED
  BY <1>3, <1>4, <1>5 DEF Next

LEMMA InitTally == Init => Tally
<1> SUFFICES ASSUME Init PROVE Tally
  OBVIOUS
<1>1. \A V : Hits(plog, V) = {} /\ Hits(commits, V) = {}
  BY DEF Init, Hits
<1>2. \A V \in SUBSET Reporting : At(V) = {}
  BY DEF Init, At
<1>3. \A n \in Nat : Owing(n) = {}
  BY <1>2 DEF Owing
<1>4. Cardinality({}) = 0 /\ IsFiniteSet({}) /\ Len(commits) = 0 /\ DOMAIN plog = {}
  BY FS_EmptySet DEF Init
<1>5. IsFiniteSet(At(Reporting)) /\ AllReset /\ AllRebuilt
  <2>1. /\ At(Reporting) = {} /\ At({"reset"}) = {} /\ At({"rebuilt"}) = {}
        /\ Hits(plog, Resets) = {} /\ Hits(plog, Rebuilts(Nat)) = {}
    BY <1>1, <1>2
  <2>2. /\ Cardinality(At({"reset"})) = 0 /\ Cardinality(At({"rebuilt"})) = 0
        /\ Cardinality(Hits(plog, Resets)) = 0 /\ Cardinality(Hits(plog, Rebuilts(Nat))) = 0
    BY <1>4, <2>1, Zenon
  <2>3. IsFiniteSet(At(Reporting))
    BY <1>4, <2>1, Zenon
  <2>4. AllReset
    BY <1>4, <2>2 DEF AllReset
  <2>5. AllRebuilt
    BY <2>2 DEF AllRebuilt
  <2> QED
    BY <2>3, <2>4, <2>5
<1>6. ASSUME NEW n \in Nat
      PROVE  Cardinality(Hits(plog, Rebuilts({n}))) + Cardinality(Owing(n)) <= Cardinality(Hits(commits, {n}))
  <2>1. Hits(plog, Rebuilts({n})) = {} /\ Owing(n) = {} /\ Hits(commits, {n}) = {}
    BY <1>1, <1>3
  <2>2. /\ Cardinality(Hits(plog, Rebuilts({n}))) = 0 /\ Cardinality(Owing(n)) = 0
        /\ Cardinality(Hits(commits, {n})) = 0
    BY <1>4, <2>1, Zenon
  <2> QED
    BY <2>2
<1>7. Prefixes
  BY <1>4 DEF Prefixes
<1> QED
  BY <1>5, <1>6, <1>7 DEF Tally, AllCounted

LEMMA TallyCounts == TypeOK /\ Tally => CommittedOutcomesOnly
<1> SUFFICES ASSUME TypeOK, Tally PROVE CommittedOutcomesOnly
  OBVIOUS
<1>1. plog \in Seq(PlogEntry) /\ commits \in Seq(Nat)
  BY DEF TypeOK
<1>2. ASSUME NEW m \in DOMAIN plog
      PROVE  Cardinality({i \in 1..m : plog[i].kind = "projection_rebuilt"})
               <= Cardinality({i \in 1..m : plog[i].kind = "projection_reset"})
  <2>1. \A i \in 1..m : plog[i] \in PlogEntry
    BY <1>1
  <2>2. /\ Until(m, Rebuilts(Nat)) = {i \in 1..m : plog[i].kind = "projection_rebuilt"}
        /\ Until(m, Resets) = {i \in 1..m : plog[i].kind = "projection_reset"}
    BY <2>1 DEF Until, Rebuilts, Resets, PlogEntry
  <2> QED
    BY <2>2 DEF Tally, Prefixes
<1>3. Cardinality({i \in 1..Len(plog) : plog[i].kind = "projection_reset"}) <= Len(commits)
  <2>1. Hits(plog, Resets) = {i \in 1..Len(plog) : plog[i].kind = "projection_reset"}
    <3>1. ASSUME NEW i \in 1..Len(plog) PROVE plog[i] \in Resets <=> plog[i].kind = "projection_reset"
      <4>1. plog[i] \in PlogEntry
        BY <1>1
      <4> QED
        BY <4>1 DEF Resets, PlogEntry
    <3> QED
      BY <1>1, <3>1 DEF Hits
  <2>2. Cardinality(At({"reset"})) \in Nat
    BY Reporters DEF At, Tally
  <2>3. /\ Cardinality(Hits(plog, Resets)) \in Nat /\ Len(commits) \in Nat
        /\ Cardinality(Hits(plog, Resets)) + Cardinality(At({"reset"})) <= Len(commits)
    BY Sizes DEF Tally, AllReset
  <2> QED
    BY <2>1, <2>2, <2>3
<1>4. ASSUME NEW n \in {plog[i].facts : i \in DOMAIN plog}
      PROVE  Cardinality({i \in DOMAIN plog : plog[i] = [kind |-> "projection_rebuilt", facts |-> n]})
               <= Cardinality({i \in DOMAIN commits : commits[i] = n})
  <2>1. n \in Nat
    <3>1. PICK i \in DOMAIN plog : n = plog[i].facts
      BY <1>4
    <3>2. plog[i] \in PlogEntry
      BY <1>1
    <3> QED
      BY <3>1, <3>2 DEF PlogEntry
  <2>2. /\ Hits(plog, Rebuilts({n})) = {i \in DOMAIN plog : plog[i] = [kind |-> "projection_rebuilt", facts |-> n]}
        /\ Hits(commits, {n}) = {i \in DOMAIN commits : commits[i] = n}
    BY DEF Hits, Rebuilts
  <2>3. Owing(n) \in SUBSET At(Reporting)
    BY DEF Owing
  <2>4. Cardinality(Owing(n)) \in Nat
    BY <2>3, Reporters DEF Tally
  <2>5. /\ Cardinality(Hits(plog, Rebuilts({n}))) \in Nat /\ Cardinality(Hits(commits, {n})) \in Nat
        /\ Cardinality(Hits(plog, Rebuilts({n}))) + Cardinality(Owing(n)) <= Cardinality(Hits(commits, {n}))
    BY <2>1, Sizes DEF Tally, AllCounted
  <2>6. Cardinality(Hits(plog, Rebuilts({n}))) <= Cardinality(Hits(commits, {n}))
    BY <2>4, <2>5
  <2> QED
    BY <2>2, <2>6
<1> QED
  BY <1>2, <1>3, <1>4 DEF CommittedOutcomesOnly

(* Projection events record committed rebuilds only, in order and with the *)
(* counts that were committed, however many processes rebuild, fail        *)
(* between two events or crash (rebuildProjection).                        *)
THEOREM EventsMatchCommits == Spec => []CommittedOutcomesOnly
<1>1. IInv => TypeOK
  BY DEF IInv
<1>2. Spec => []Tally
  BY InitTally, NextTally, Invariance, PTL DEF Spec
<1> QED
  BY <1>1, <1>2, TallyCounts, Invariance, PTL

-----------------------------------------------------------------------------
(* What holds when an append writes a whole line or nothing.               *)

Clean == ~openLine /\ LogReadable

(* The target an item was checked against is in the log, though its row    *)
(* may be gone by the time the event is appended.                          *)
TargetLogged ==
  \A p \in Proc : pc[p] = "append" => Head(todo[p]).supersedes \in Ids(LogFacts) \cup {NoFact}

(* Items in hand are pending, and no id is in hand twice.                  *)
InHandPending ==
  \A p \in Proc : \A i \in DOMAIN todo[p] : outcome[todo[p][i].id] = "pending"
InHandOnce ==
  \A p, q \in Proc : \A i \in DOMAIN todo[p] : \A j \in DOMAIN todo[q] :
    todo[p][i].id = todo[q][j].id => p = q /\ i = j

(* A logged fact has been reported, or its recorder died, or is about to   *)
(* insert it; a fact whose projection failed is logged.                    *)
LoggedOutcome ==
  /\ \A f \in LogFacts :
       \/ outcome[f.id] \in {"ok", "projection_write_failed", "crashed"}
       \/ \E p \in Proc : pc[p] = "insert" /\ Head(todo[p]) = f
  /\ \A f \in FactIds : outcome[f] = "projection_write_failed" => f \in Ids(LogFacts)

CInv ==
  /\ Clean
  /\ TargetLogged
  /\ InHandPending
  /\ InHandOnce
  /\ LoggedOutcome
  /\ SupersedesEarlier

(* Items in hand after an item has ended: those in hand before, less one.  *)
LEMMA EndItemTodo ==
  ASSUME NEW p \in Proc, NEW result \in Outcomes, IInv, CInv,
         pc[p] \in Recording, EndItem(p, result)
  PROVE  /\ InHandPending'
         /\ InHandOnce'
         /\ outcome[Head(todo[p]).id] = "pending"
         /\ \A q \in Proc \ {p} : pc[q] \in Recording
               => Head(todo[q]).id # Head(todo[p]).id
<1>1. /\ todo[p] # <<>> /\ todo[p] \in Seq(Fact)
      /\ todo' = [todo EXCEPT ![p] = Tail(@)]
      /\ todo \in [Proc -> Seq(Fact)]
      /\ outcome \in [FactIds -> Outcomes]
  BY DEF IInv, Busy, TypeOK, EndItem
<1>2. /\ 1 \in DOMAIN todo[p] /\ Head(todo[p]) = todo[p][1]
      /\ todo'[p] = Tail(todo[p])
      /\ \A i \in DOMAIN todo'[p] : /\ i + 1 \in DOMAIN todo[p] /\ i + 1 # 1
                                    /\ todo'[p][i] = todo[p][i + 1]
                                    /\ i \in Nat
      /\ \A q \in Proc \ {p} : todo'[q] = todo[q]
  BY <1>1
<1>3. outcome' = [outcome EXCEPT ![todo[p][1].id] = result]
  BY <1>2 DEF EndItem
<1>4. \A q \in Proc : \A i \in DOMAIN todo[q] : todo[q][i].id \in FactIds
  <2> SUFFICES ASSUME NEW q \in Proc, NEW i \in DOMAIN todo[q]
               PROVE  todo[q][i].id \in FactIds
    OBVIOUS
  <2>1. todo[q] \in Seq(Fact)
    BY <1>1
  <2>2. todo[q][i] \in Fact
    BY <2>1
  <2> QED
    BY <2>2 DEF Fact
<1>5. \A q \in Proc : \A i \in DOMAIN todo'[q] :
        \E j \in DOMAIN todo[q] : /\ todo'[q][i] = todo[q][j]
                                  /\ todo[q][j].id # todo[p][1].id
  <2> SUFFICES ASSUME NEW q \in Proc, NEW i \in DOMAIN todo'[q]
               PROVE  \E j \in DOMAIN todo[q] : /\ todo'[q][i] = todo[q][j]
                                                /\ todo[q][j].id # todo[p][1].id
    OBVIOUS
  <2>1. CASE q = p
    <3>1. i + 1 \in DOMAIN todo[p] /\ i + 1 # 1 /\ todo'[p][i] = todo[p][i + 1]
      BY <1>2, <2>1
    <3>2. todo[p][i + 1].id # todo[p][1].id
      BY <1>2, <3>1 DEF CInv, InHandOnce
    <3> QED
      BY <2>1, <3>1, <3>2
  <2>2. CASE q # p
    <3>1. i \in DOMAIN todo[q] /\ todo'[q][i] = todo[q][i]
      BY <1>2, <2>2
    <3>2. todo[q][i].id # todo[p][1].id
      BY <1>2, <2>2, <3>1 DEF CInv, InHandOnce
    <3> QED
      BY <3>1, <3>2
  <2> QED
    BY <2>1, <2>2
<1>6. InHandPending'
  BY <1>1, <1>3, <1>4, <1>5 DEF CInv, InHandPending
<1>7. InHandOnce'
  <2> SUFFICES ASSUME NEW q \in Proc, NEW r \in Proc,
                      NEW i \in DOMAIN todo'[q], NEW j \in DOMAIN todo'[r],
                      todo'[q][i].id = todo'[r][j].id
               PROVE  q = r /\ i = j
    BY DEF InHandOnce
  <2>1. q = r
    BY <1>5 DEF CInv, InHandOnce
  <2>2. CASE q = p
    <3>1. /\ i + 1 \in DOMAIN todo[p] /\ todo'[p][i] = todo[p][i + 1] /\ i \in Nat
          /\ j + 1 \in DOMAIN todo[p] /\ todo'[p][j] = todo[p][j + 1] /\ j \in Nat
      BY <1>2, <2>1, <2>2
    <3>2. todo[p][i + 1].id = todo[p][j + 1].id
      BY <2>1, <2>2, <3>1
    <3>3. i + 1 = j + 1
      BY <3>1, <3>2 DEF CInv, InHandOnce
    <3> QED
      BY <2>1, <3>1, <3>3
  <2>3. CASE q # p
    <3>1. todo'[q] = todo[q] /\ todo'[r] = todo[r]
      BY <1>2, <2>1, <2>3
    <3> QED
      BY <3>1 DEF CInv, InHandOnce
  <2> QED
    BY <2>1, <2>2, <2>3
<1>8. \A q \in Proc \ {p} : pc[q] \in Recording => Head(todo[q]).id # Head(todo[p]).id
  <2> SUFFICES ASSUME NEW q \in Proc \ {p}, pc[q] \in Recording
               PROVE  Head(todo[q]).id # Head(todo[p]).id
    OBVIOUS
  <2>1. todo[q] # <<>> /\ todo[q] \in Seq(Fact)
    BY DEF IInv, Busy, TypeOK
  <2>2. 1 \in DOMAIN todo[q] /\ Head(todo[q]) = todo[q][1]
    BY <2>1
  <2> QED
    BY <1>2, <2>2 DEF CInv, InHandOnce
<1> QED
  BY <1>2, <1>6, <1>7, <1>8 DEF CInv, InHandPending

(* An item ends without touching the log: its fact is not logged, unless   *)
(* it was about to be inserted.                                            *)
LEMMA EndItemCInv ==
  ASSUME NEW p \in Proc, NEW result \in Outcomes \ {"unused", "pending"}, IInv, CInv,
         pc[p] \in Recording, EndItem(p, result), UNCHANGED files,
         \/ pc[p] = "insert" /\ result \in {"ok", "projection_write_failed"}
         \/ pc[p] # "insert" /\ result = "not_recorded"
  PROVE  CInv'
<1>1. LogFacts' = LogFacts /\ LogReadable' = LogReadable /\ log' = log /\ openLine' = openLine
  BY DEF files, LogFacts, LogReadable
<1>2. /\ pc'[p] \in {"idle", "open"}
      /\ \A q \in Proc \ {p} : pc'[q] = pc[q] /\ todo'[q] = todo[q]
      /\ Head(todo[p]).id \in FactIds
      /\ outcome'[Head(todo[p]).id] = result
      /\ \A f \in FactIds \ {Head(todo[p]).id} : outcome'[f] = outcome[f]
  BY EndItemFacts
<1>3. Clean'
  BY <1>1 DEF CInv, Clean
<1>4. TargetLogged'
  BY <1>1, <1>2 DEF CInv, TargetLogged
<1>5. SupersedesEarlier'
  BY <1>1 DEF CInv, SupersedesEarlier
<1>6. InHandPending' /\ InHandOnce'
  BY EndItemTodo
<1>7. LogFacts \subseteq Fact
  BY LogFactsType DEF IInv
<1>8. pc[p] = "insert" => Head(todo[p]) \in LogFacts
  BY DEF IInv, Logged, CInv, Clean
<1>9. LoggedOutcome'
  <2>1. \A f \in FactIds : outcome'[f] = "projection_write_failed" => f \in Ids(LogFacts)
    BY <1>2, <1>8 DEF CInv, LoggedOutcome, Ids
  <2>2. ASSUME NEW f \in LogFacts
        PROVE  \/ outcome'[f.id] \in {"ok", "projection_write_failed", "crashed"}
               \/ \E q \in Proc : pc'[q] = "insert" /\ Head(todo'[q]) = f
    <3>1. f.id \in FactIds
      BY <1>7 DEF Fact
    <3>2. CASE f.id = Head(todo[p]).id
      <4>1. outcome[f.id] = "pending"
        BY <3>2, EndItemTodo
      <4>2. PICK q \in Proc : pc[q] = "insert" /\ Head(todo[q]) = f
        BY <4>1 DEF CInv, LoggedOutcome
      <4>3. q = p
        BY <4>2, <3>2, EndItemTodo
      <4> QED
        BY <4>2, <4>3, <1>2, <3>2
    <3>3. CASE f.id # Head(todo[p]).id
      <4>1. outcome'[f.id] = outcome[f.id]
        BY <1>2, <3>1, <3>3
      <4>2. CASE outcome[f.id] \in {"ok", "projection_write_failed", "crashed"}
        BY <4>1, <4>2
      <4>3. CASE \E q \in Proc : pc[q] = "insert" /\ Head(todo[q]) = f
        BY <4>3, <1>2, <3>3
      <4> QED
        BY <4>2, <4>3 DEF CInv, LoggedOutcome
    <3> QED
      BY <3>2, <3>3
  <2> QED
    BY <1>1, <2>1, <2>2 DEF LoggedOutcome
<1> QED
  BY <1>3, <1>4, <1>5, <1>6, <1>9 DEF CInv

LEMMA InitCInv == Init => CInv
<1> SUFFICES ASSUME Init PROVE CInv
  OBVIOUS
<1>1. DOMAIN log = {} /\ \A p \in Proc : DOMAIN todo[p] = {}
  BY DEF Init
<1> QED
  BY <1>1 DEF Init, CInv, Clean, LogReadable, LogFacts, TargetLogged,
     InHandPending, InHandOnce, LoggedOutcome, SupersedesEarlier

(* Steps that touch neither the log, nor items, nor outcomes.              *)
LEMMA QuietCInv ==
  ASSUME IInv, CInv, UNCHANGED <<files, todo, outcome>>,
         \A q \in Proc : \/ pc'[q] = pc[q]
                         \/ pc[q] \notin Recording /\ pc'[q] \notin Recording
  PROVE  CInv'
<1>1. LogFacts' = LogFacts /\ LogReadable' = LogReadable /\ log' = log /\ openLine' = openLine
  BY DEF files, LogFacts, LogReadable
<1>2. Clean' /\ SupersedesEarlier'
  BY <1>1 DEF CInv, Clean, SupersedesEarlier
<1>3. TargetLogged' /\ LoggedOutcome'
  BY <1>1 DEF CInv, TargetLogged, LoggedOutcome
<1>4. InHandPending' /\ InHandOnce'
  BY DEF CInv, InHandPending, InHandOnce
<1> QED
  BY <1>2, <1>3, <1>4 DEF CInv

LEMMA StartRecordCInv ==
  ASSUME NEW p \in Proc, IInv, CInv, StartRecord(p)
  PROVE  CInv'
<1>0. PICK n \in 1..MaxItems : \E items \in [1..n -> Fact] :
        /\ Batch(items)
        /\ todo' = [todo EXCEPT ![p] = items]
        /\ outcome' = [f \in FactIds |->
                         IF \E i \in 1..n : items[i].id = f THEN "pending" ELSE outcome[f]]
  BY DEF StartRecord
<1>1. PICK items \in [1..n -> Fact] :
        /\ Batch(items)
        /\ todo' = [todo EXCEPT ![p] = items]
        /\ outcome' = [f \in FactIds |->
                         IF \E i \in 1..n : items[i].id = f THEN "pending" ELSE outcome[f]]
  BY <1>0
<1>2. /\ \A i \in 1..n : items[i].id \in FactIds /\ outcome[items[i].id] = "unused"
      /\ \A i, j \in 1..n : items[i].id = items[j].id => i = j
      /\ DOMAIN items = 1..n
  BY <1>1 DEF Batch, Minted, Fact
<1>3. /\ todo'[p] = items
      /\ \A q \in Proc \ {p} : todo'[q] = todo[q] /\ pc'[q] = pc[q]
      /\ pc[p] = "idle" /\ pc'[p] = "open"
  BY <1>1 DEF StartRecord, IInv, TypeOK
<1>4. \A f \in FactIds : outcome[f] # "unused" => outcome'[f] = outcome[f]
  BY <1>1, <1>2
<1>5. \A q \in Proc : \A i \in DOMAIN todo[q] :
        todo[q][i].id \in FactIds /\ outcome[todo[q][i].id] = "pending"
  <2> SUFFICES ASSUME NEW q \in Proc, NEW i \in DOMAIN todo[q]
               PROVE  todo[q][i].id \in FactIds /\ outcome[todo[q][i].id] = "pending"
    OBVIOUS
  <2>1. todo[q] \in Seq(Fact)
    BY DEF IInv, TypeOK
  <2>2. todo[q][i] \in Fact
    BY <2>1
  <2> QED
    BY <2>2 DEF Fact, CInv, InHandPending
<1>6. LogFacts' = LogFacts /\ LogReadable' = LogReadable /\ log' = log /\ openLine' = openLine
  BY DEF StartRecord, files, LogFacts, LogReadable
<1>7. Clean' /\ SupersedesEarlier'
  BY <1>6 DEF CInv, Clean, SupersedesEarlier
<1>8. TargetLogged'
  BY <1>3, <1>6 DEF CInv, TargetLogged
<1>9. InHandPending'
  BY <1>1, <1>2, <1>3, <1>4, <1>5 DEF InHandPending
<1>10. InHandOnce'
  BY <1>2, <1>3, <1>5 DEF CInv, InHandOnce
<1>11. LoggedOutcome'
  <2>1. LogFacts \subseteq Fact
    BY LogFactsType DEF IInv
  <2>2. \A f \in LogFacts : f.id \in FactIds
    BY <2>1 DEF Fact
  <2>3. \A f \in FactIds : outcome'[f] = "projection_write_failed" =>
                             outcome[f] = "projection_write_failed"
    BY <1>1
  <2> QED
    BY <1>3, <1>4, <1>6, <2>2, <2>3 DEF CInv, LoggedOutcome
<1> QED
  BY <1>7, <1>8, <1>9, <1>10, <1>11 DEF CInv

(* The new line's target, if any, is one of the lines before it.           *)
LEMMA AppendEventCInv ==
  ASSUME NEW p \in Proc, IInv, CInv, AppendEvent(p)
  PROVE  CInv'
<1> DEFINE f == Head(todo[p])
<1>1. /\ pc[p] = "append" /\ pc' = [pc EXCEPT ![p] = "insert"]
      /\ UNCHANGED <<todo, outcome>>
      /\ log' = Append(log, f) /\ openLine' = FALSE
      /\ log \in Seq(Fact \cup {Junk})
  BY DEF AppendEvent, WriteLine, CInv, Clean, IInv, TypeOK
<1>2. f \in Fact
  BY <1>1 DEF IInv, Busy, TypeOK
<1>3. f.supersedes \in Ids(LogFacts) \cup {NoFact}
  BY <1>1 DEF CInv, TargetLogged
<1> HIDE DEF f
<1>4. /\ DOMAIN log' = 1..(Len(log) + 1) /\ DOMAIN log = 1..Len(log) /\ Len(log) \in Nat
      /\ \A i \in 1..Len(log) : log'[i] = log[i]
      /\ log'[Len(log) + 1] = f
  BY <1>1, <1>2
<1>5. f # Junk /\ \A i \in DOMAIN log : log[i] # Junk
  BY <1>2, JunkAssumption DEF CInv, Clean, LogReadable
<1>6. LogFacts' = LogFacts \cup {f} /\ LogReadable'
  BY <1>4, <1>5 DEF LogFacts, LogReadable
<1>7. Clean'
  BY <1>1, <1>6 DEF Clean
<1>8. TargetLogged'
  BY <1>1, <1>6 DEF IInv, TypeOK, CInv, TargetLogged, Ids
<1>9. InHandPending' /\ InHandOnce'
  BY <1>1 DEF CInv, InHandPending, InHandOnce
<1>10. pc'[p] = "insert" /\ \A q \in Proc : pc[q] = "insert" => pc'[q] = "insert"
  BY <1>1 DEF IInv, TypeOK
<1>11. LoggedOutcome'
  BY <1>1, <1>6, <1>10 DEF CInv, LoggedOutcome, Ids, f
<1>12. SupersedesEarlier'
  <2> SUFFICES ASSUME NEW i \in DOMAIN log', log'[i].supersedes # NoFact
               PROVE  \E j \in 1..(i - 1) : log'[j] # Junk /\ log'[j].id = log'[i].supersedes
    BY DEF SupersedesEarlier
  <2>1. CASE i = Len(log) + 1
    <3>1. PICK g \in LogFacts : g.id = f.supersedes
      BY <1>3, <1>4, <2>1 DEF Ids
    <3>2. PICK j \in DOMAIN log : log[j] = g
      BY <3>1 DEF LogFacts
    <3> QED
      BY <1>4, <1>5, <2>1, <3>1, <3>2
  <2>2. CASE i \in DOMAIN log
    <3>1. log'[i] = log[i] /\ log[i] # Junk
      BY <1>4, <1>5, <2>2
    <3>2. PICK j \in 1..(i - 1) : log[j] # Junk /\ log[j].id = log[i].supersedes
      BY <2>2, <3>1 DEF CInv, SupersedesEarlier
    <3>3. log'[j] = log[j]
      BY <1>4, <2>2
    <3> QED
      BY <3>1, <3>2, <3>3
  <2> QED
    BY <1>4, <2>1, <2>2
<1> QED
  BY <1>7, <1>8, <1>9, <1>11, <1>12 DEF CInv

LEMMA OpenStoreCInv ==
  ASSUME NEW p \in Proc, IInv, CInv, OpenStore(p)
  PROVE  CInv'
<1>1. CASE EndItem(p, "not_recorded")
  BY <1>1, EndItemCInv DEF OpenStore, Outcomes
<1>2. CASE TargetExists(Head(todo[p])) /\ pc' = [pc EXCEPT ![p] = "append"]
             /\ UNCHANGED <<todo, outcome>>
  <2>1. LogFacts' = LogFacts /\ LogReadable' = LogReadable /\ log' = log /\ openLine' = openLine
    BY DEF OpenStore, files, LogFacts, LogReadable
  <2>2. rows \subseteq LogFacts
    BY DEF IInv, Logged, CInv, Clean
  <2>3. Clean' /\ SupersedesEarlier'
    BY <2>1 DEF CInv, Clean, SupersedesEarlier
  <2>4. TargetLogged'
    BY <1>2, <2>1, <2>2 DEF IInv, TypeOK, CInv, TargetLogged, TargetExists, Ids
  <2>5. InHandPending' /\ InHandOnce'
    BY <1>2 DEF CInv, InHandPending, InHandOnce
  <2>6. pc[p] = "open" /\ \A q \in Proc : pc[q] = "insert" => pc'[q] = "insert"
    BY <1>2 DEF OpenStore, IInv, TypeOK
  <2>7. LoggedOutcome'
    BY <1>2, <2>1, <2>6 DEF CInv, LoggedOutcome
  <2> QED
    BY <2>3, <2>4, <2>5, <2>7 DEF CInv
<1> QED
  BY <1>1, <1>2 DEF OpenStore

LEMMA CrashCInv ==
  ASSUME NEW p \in Proc, IInv, CInv, Crash(p)
  PROVE  CInv'
<1>1. /\ pc' = [pc EXCEPT ![p] = "idle"]
      /\ outcome' = [f \in FactIds |->
                       IF \E i \in DOMAIN todo[p] : todo[p][i].id = f
                       THEN "crashed" ELSE outcome[f]]
      /\ todo' = [todo EXCEPT ![p] = <<>>]
      /\ UNCHANGED files
  BY DEF Crash
<1>2. /\ DOMAIN todo'[p] = {}
      /\ \A q \in Proc \ {p} : todo'[q] = todo[q] /\ pc'[q] = pc[q]
      /\ pc'[p] = "idle"
  BY <1>1 DEF IInv, TypeOK
<1>3. LogFacts' = LogFacts /\ LogReadable' = LogReadable /\ log' = log /\ openLine' = openLine
  BY <1>1 DEF files, LogFacts, LogReadable
<1>4. Clean' /\ SupersedesEarlier'
  BY <1>3 DEF CInv, Clean, SupersedesEarlier
<1>5. TargetLogged'
  BY <1>2, <1>3 DEF CInv, TargetLogged
<1>6. InHandOnce'
  BY <1>2 DEF CInv, InHandOnce
<1>7. InHandPending'
  <2> SUFFICES ASSUME NEW q \in Proc, NEW i \in DOMAIN todo'[q]
               PROVE  outcome'[todo'[q][i].id] = "pending"
    BY DEF InHandPending
  <2>1. q # p /\ i \in DOMAIN todo[q] /\ todo'[q][i] = todo[q][i]
    BY <1>2
  <2>2. todo[q] \in Seq(Fact)
    BY DEF IInv, TypeOK
  <2>3. todo[q][i] \in Fact
    BY <2>1, <2>2
  <2>4. todo[q][i].id \in FactIds
    BY <2>3 DEF Fact
  <2>5. outcome'[todo[q][i].id] = outcome[todo[q][i].id]
    BY <1>1, <2>1, <2>4 DEF CInv, InHandOnce
  <2> QED
    BY <2>1, <2>5 DEF CInv, InHandPending
<1>8. LoggedOutcome'
  <2>1. \A f \in FactIds : outcome'[f] = "projection_write_failed" =>
                             outcome[f] = "projection_write_failed"
    BY <1>1
  <2>2. ASSUME NEW f \in LogFacts
        PROVE  \/ outcome'[f.id] \in {"ok", "projection_write_failed", "crashed"}
               \/ \E q \in Proc : pc'[q] = "insert" /\ Head(todo'[q]) = f
    <3>1. f.id \in FactIds
      BY LogFactsType DEF IInv, Fact
    <3>2. CASE outcome[f.id] \in {"ok", "projection_write_failed", "crashed"}
      BY <1>1, <3>1, <3>2
    <3>3. CASE \E q \in Proc : pc[q] = "insert" /\ Head(todo[q]) = f
      <4>1. PICK q \in Proc : pc[q] = "insert" /\ Head(todo[q]) = f
        BY <3>3
      <4>2. CASE q = p
        <5>1. todo[p] # <<>> /\ todo[p] \in Seq(Fact)
          BY <4>1, <4>2 DEF IInv, Busy, TypeOK
        <5>2. 1 \in DOMAIN todo[p] /\ todo[p][1] = f
          BY <4>1, <4>2, <5>1
        <5> QED
          BY <1>1, <3>1, <5>2
      <4>3. CASE q # p
        BY <1>2, <4>1, <4>3
      <4> QED
        BY <4>2, <4>3
    <3> QED
      BY <3>2, <3>3 DEF CInv, LoggedOutcome
  <2> QED
    BY <1>3, <2>1, <2>2 DEF CInv, LoggedOutcome
<1> QED
  BY <1>4, <1>5, <1>6, <1>7, <1>8 DEF CInv

LEMMA NextCInv ==
  ASSUME ~TornWrites
  PROVE  IInv /\ CInv /\ [Next]_vars => CInv'
<1> SUFFICES ASSUME IInv, CInv, [Next]_vars PROVE CInv'
  OBVIOUS
<1>1. ASSUME NEW p \in Proc, Step(p) PROVE CInv'
  <2>1. CASE OpenFails(p)
    BY <2>1, EndItemCInv DEF OpenFails, Outcomes
  <2>2. CASE AppendFails(p)
    BY <2>2, EndItemCInv DEF AppendFails, TearLine, Outcomes
  <2>3. CASE InsertRow(p)
    BY <2>3, EndItemCInv DEF InsertRow, Outcomes
  <2>4. CASE InsertFails(p)
    BY <2>4, EndItemCInv DEF InsertFails, Outcomes
  <2>5. CASE Begin(p) \/ BeginFails(p) \/ ReadLog(p)
    BY <2>5, QuietCInv DEF Begin, BeginFails, ReadLog, IInv, TypeOK
  <2>6. CASE Commit(p) \/ RollBack(p)
    BY <2>6, QuietCInv DEF Commit, RollBack, IInv, TypeOK
  <2>7. CASE AppendReset(p) \/ AppendRebuilt(p) \/ AppendProjectionFails(p)
    BY <2>7, QuietCInv DEF AppendReset, AppendRebuilt, AppendProjectionFails, IInv, TypeOK
  <2> QED
    BY <1>1, <2>1, <2>2, <2>3, <2>4, <2>5, <2>6, <2>7, OpenStoreCInv, AppendEventCInv
    DEF Step
<1>2. ASSUME NEW p \in Proc, StartRebuild(p) PROVE CInv'
  BY <1>2, QuietCInv DEF StartRebuild, IInv, TypeOK
<1>3. CASE DisposeDb
  BY <1>3, QuietCInv DEF DisposeDb
<1>4. CASE UNCHANGED vars
  BY <1>4, QuietCInv DEF vars, files
<1> QED
  BY <1>1, <1>2, <1>3, <1>4, StartRecordCInv, CrashCInv DEF Next

THEOREM CleanInvariance ==
  ASSUME ~TornWrites
  PROVE  Spec => [](IInv /\ CInv)
<1>1. IInv /\ CInv /\ [Next]_vars => CInv'
  BY NextCInv
<1> QED
  BY <1>1, InitIInv, NextIInv, InitCInv, PTL DEF Spec

(* The projection never runs ahead of the source of truth.                 *)
THEOREM RowsComeFromLog ==
  ASSUME ~TornWrites
  PROVE  Spec => []RowsFromLog
<1>1. IInv /\ CInv => RowsFromLog
  BY DEF IInv, CInv, Clean, Logged, RowsFromLog
<1> QED
  BY <1>1, CleanInvariance, PTL

(* A fact reported as written can be replayed.                             *)
THEOREM AckedCanBeReplayed ==
  ASSUME ~TornWrites
  PROVE  Spec => []AckedReplayable
<1>1. IInv /\ CInv => AckedReplayable
  BY DEF IInv, CInv, Clean, Logged, AckedReplayable
<1> QED
  BY <1>1, CleanInvariance, PTL

(* A fact corrects only a fact recorded before it: no supersede cycle ever. *)
THEOREM SupersedeChainsAcyclic ==
  ASSUME ~TornWrites
  PROVE  Spec => []SupersedesEarlier
<1>1. IInv /\ CInv => SupersedesEarlier
  BY DEF CInv
<1> QED
  BY <1>1, CleanInvariance, PTL

(* The error a command reports tells the truth about the log.              *)
THEOREM ReportsAreTruthful ==
  ASSUME ~TornWrites
  PROVE  Spec => []ReportTruthful
<1>1. IInv /\ CInv => ReportTruthful
  <2> SUFFICES ASSUME IInv, CInv, NEW g \in LogFacts
               PROVE  outcome[g.id] # "not_recorded"
    BY DEF CInv, LoggedOutcome, ReportTruthful, Ids
  <2>1. CASE outcome[g.id] \in {"ok", "projection_write_failed", "crashed"}
    BY <2>1
  <2>2. CASE \E p \in Proc : pc[p] = "insert" /\ Head(todo[p]) = g
    <3>1. PICK p \in Proc : pc[p] = "insert" /\ Head(todo[p]) = g
      BY <2>2
    <3>2. todo[p] # <<>> /\ todo[p] \in Seq(Fact)
      BY <3>1 DEF IInv, Busy, TypeOK
    <3>3. 1 \in DOMAIN todo[p] /\ todo[p][1] = g
      BY <3>1, <3>2
    <3>4. outcome[g.id] = "pending"
      BY <3>3 DEF CInv, InHandPending
    <3> QED
      BY <3>4
  <2> QED
    BY <2>1, <2>2 DEF CInv, LoggedOutcome
<1> QED
  BY <1>1, CleanInvariance, PTL

-----------------------------------------------------------------------------
(* The refinement: an append records, an insert confirms, a commit to db/  *)
(* restores, the deletion of db/ forgets; every other step stutters, the   *)
(* commit to a deleted database among them.                                *)

Confirmed == {f \in FactIds : outcome[f] = "ok"}

LEMMA InsertConfirms ==
  ASSUME NEW p \in Proc, IInv, CInv, InsertRow(p)
  PROVE  Ledger!Next
<1>1. LET f == Head(todo[p])
      IN /\ f \in Fact /\ f.id \in FactIds
         /\ outcome'[f.id] = "ok"
         /\ \A g \in FactIds \ {f.id} : outcome'[g] = outcome[g]
  BY EndItemFacts DEF InsertRow, Outcomes
<1>2. PICK e \in Fact : e = Head(todo[p])
  BY <1>1
<1>3. LogFacts' = LogFacts /\ rows' = rows \cup {e}
  BY <1>2 DEF InsertRow, files, LogFacts
<1>4. e \in LogFacts
  BY <1>2 DEF InsertRow, IInv, Logged, CInv, Clean
<1>5. Confirmed' = Confirmed \cup {e.id}
  BY <1>1, <1>2 DEF Confirmed
<1>6. Ledger!Confirm(e)
  BY <1>3, <1>4, <1>5 DEF Ledger!Confirm, Confirmed
<1> QED
  BY <1>2, <1>6 DEF Ledger!Next, Ledger!Fact, Fact

LEMMA AppendRecords ==
  ASSUME NEW p \in Proc, IInv, CInv, AppendEvent(p)
  PROVE  Ledger!Next
<1> DEFINE f == Head(todo[p])
<1>1. /\ pc[p] = "append" /\ todo[p] # <<>> /\ todo[p] \in Seq(Fact)
      /\ UNCHANGED <<rows, outcome>>
      /\ log' = Append(log, f) /\ log \in Seq(Fact \cup {Junk})
  BY DEF AppendEvent, WriteLine, IInv, Busy, TypeOK, CInv, Clean, history
<1>2. f \in Fact /\ 1 \in DOMAIN todo[p] /\ todo[p][1] = f
  BY <1>1
<1>3. f.supersedes \in Ids(LogFacts) \cup {NoFact}
  BY <1>1 DEF CInv, TargetLogged
<1>4. f.id \notin Ids(LogFacts)
  <2> SUFFICES ASSUME NEW g \in LogFacts, g.id = f.id PROVE FALSE
    BY DEF Ids
  <2>1. outcome[g.id] = "pending"
    BY <1>2 DEF CInv, InHandPending
  <2>2. PICK q \in Proc : pc[q] = "insert" /\ Head(todo[q]) = g
    BY <2>1 DEF CInv, LoggedOutcome
  <2>3. todo[q] # <<>> /\ todo[q] \in Seq(Fact)
    BY <2>2 DEF IInv, Busy, TypeOK
  <2>4. 1 \in DOMAIN todo[q] /\ todo[q][1] = g
    BY <2>2, <2>3
  <2>5. q = p
    BY <1>2, <2>4 DEF CInv, InHandOnce
  <2> QED
    BY <1>1, <2>2, <2>5
<1> HIDE DEF f
<1>5. /\ DOMAIN log' = 1..(Len(log) + 1) /\ DOMAIN log = 1..Len(log) /\ Len(log) \in Nat
      /\ \A i \in 1..Len(log) : log'[i] = log[i]
      /\ log'[Len(log) + 1] = f /\ f # Junk
  BY <1>1, <1>2, JunkAssumption
<1>6. LogFacts' = LogFacts \cup {f}
  BY <1>5 DEF LogFacts
<1>7. Ledger!Record(f)
  BY <1>1, <1>3, <1>4, <1>6 DEF Ledger!Record, Ledger!Ids, Ids
<1> QED
  BY <1>2, <1>7 DEF Ledger!Next, Ledger!Fact, Fact

LEMMA CommitRestores ==
  ASSUME NEW p \in Proc, IInv, CInv, Commit(p), p \notin orphans
  PROVE  Ledger!Next
<1>1. LogFacts' = LogFacts /\ rows' = work[p] /\ outcome' = outcome
  BY DEF Commit, files, LogFacts
<1>2. work[p] \subseteq LogFacts
  BY DEF IInv, Logged, CInv, Clean
<1>3. rows \subseteq work[p] /\ Confirmed \subseteq Ids(work[p])
  BY DEF Commit, IInv, SnapshotCovers, Confirmed
<1>4. Ledger!Restore(work[p])
  BY <1>1, <1>2, <1>3 DEF Ledger!Restore, Ledger!Ids, Ids, Confirmed
<1> QED
  BY <1>2, <1>4 DEF Ledger!Next

(* A step that records, confirms and restores nothing stutters.            *)
LEMMA QuietStutters ==
  ASSUME IInv, UNCHANGED files, UNCHANGED rows,
         \A f \in FactIds : outcome'[f] = "ok" <=> outcome[f] = "ok"
  PROVE  UNCHANGED Ledger!vars
  BY DEF files, LogFacts, Ledger!vars

(* A fact of which an item is in hand has not been reported.               *)
LEMMA EndItemNotConfirmed ==
  ASSUME NEW p \in Proc, NEW result \in Outcomes \ {"ok"}, IInv, CInv,
         pc[p] \in Recording, EndItem(p, result)
  PROVE  \A f \in FactIds : outcome'[f] = "ok" <=> outcome[f] = "ok"
  BY EndItemFacts, EndItemTodo

LEMMA NextRefines ==
  ASSUME ~TornWrites
  PROVE  IInv /\ CInv /\ [Next]_vars => [Ledger!Next]_(Ledger!vars)
<1> SUFFICES ASSUME IInv, CInv, [Next]_vars
             PROVE  Ledger!Next \/ UNCHANGED Ledger!vars
  OBVIOUS
<1>1. ASSUME NEW p \in Proc, Step(p)
      PROVE  Ledger!Next \/ UNCHANGED Ledger!vars
  <2>1. CASE OpenFails(p)
    BY <2>1, EndItemNotConfirmed, QuietStutters DEF OpenFails, Outcomes
  <2>2. CASE AppendFails(p)
    BY <2>2, EndItemNotConfirmed, QuietStutters
    DEF AppendFails, TearLine, Outcomes
  <2>3. CASE InsertFails(p)
    BY <2>3, EndItemNotConfirmed, QuietStutters DEF InsertFails, Outcomes
  <2>4. CASE OpenStore(p)
    BY <2>4, EndItemNotConfirmed, QuietStutters DEF OpenStore, Outcomes
  <2>5. CASE Begin(p) \/ BeginFails(p) \/ ReadLog(p) \/ RollBack(p)
    BY <2>5, QuietStutters DEF Begin, BeginFails, ReadLog, RollBack
  <2>6. CASE AppendReset(p) \/ AppendRebuilt(p) \/ AppendProjectionFails(p)
    BY <2>6, QuietStutters DEF AppendReset, AppendRebuilt, AppendProjectionFails
  <2>7. CASE Commit(p)
    <3>1. CASE p \in orphans
      BY <2>7, <3>1, QuietStutters DEF Commit
    <3> QED
      BY <2>7, <3>1, CommitRestores
  <2> QED
    BY <1>1, <2>1, <2>2, <2>3, <2>4, <2>5, <2>6, <2>7, InsertConfirms, AppendRecords
    DEF Step
<1>2. ASSUME NEW p \in Proc, StartRebuild(p)
      PROVE  UNCHANGED Ledger!vars
  BY <1>2, QuietStutters DEF StartRebuild
<1>3. ASSUME NEW p \in Proc, StartRecord(p)
      PROVE  UNCHANGED Ledger!vars
  <2>1. UNCHANGED files /\ UNCHANGED rows
    BY <1>3 DEF StartRecord
  <2>2. \A f \in FactIds : outcome'[f] = "ok" <=> outcome[f] = "ok"
    BY <1>3 DEF StartRecord, Batch, Minted
  <2> QED
    BY <2>1, <2>2, QuietStutters
<1>4. ASSUME NEW p \in Proc, Crash(p)
      PROVE  UNCHANGED Ledger!vars
  <2>1. UNCHANGED files /\ UNCHANGED rows
    BY <1>4 DEF Crash
  <2>2. \A f \in FactIds : outcome'[f] = "ok" <=> outcome[f] = "ok"
    BY <1>4 DEF Crash, CInv, InHandPending
  <2> QED
    BY <2>1, <2>2, QuietStutters
<1>5. CASE DisposeDb
  <2>1. Ledger!Forget
    BY <1>5 DEF DisposeDb, Ledger!Forget, files, LogFacts
  <2> QED
    BY <2>1 DEF Ledger!Next
<1>6. CASE UNCHANGED vars
  BY <1>6, QuietStutters DEF vars, files
<1> QED
  BY <1>1, <1>2, <1>3, <1>4, <1>5, <1>6 DEF Next

(* What commands report of a fact is what the log holds.                   *)
THEOREM ReportsHold ==
  ASSUME ~TornWrites
  PROVE  Spec => []ReportsTrue
<1>1. TypeOK /\ AckedReplayable /\ ReportTruthful => ReportsTrue
  BY DEF ReportsTrue
<1> QED
  BY <1>1, TypeCorrect, AckedCanBeReplayed, ReportsAreTruthful, PTL

(* The fact store implements the abstract ledger.                          *)
THEOREM Refinement ==
  ASSUME ~TornWrites
  PROVE  Spec => ImplementsLedger
<1>1. Init => Ledger!Init
  BY DEF Init, Ledger!Init, LogFacts
<1>2. IInv /\ CInv /\ [Next]_vars => [Ledger!Next]_(Ledger!vars)
  BY NextRefines
<1> QED
  BY <1>1, <1>2, CleanInvariance, PTL DEF Spec, ImplementsLedger, Ledger!Spec
=============================================================================
