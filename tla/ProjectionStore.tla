---------------------------- MODULE ProjectionStore ----------------------------
(***************************************************************************)
(* Opening the projection store db/memory.sqlite of a workspace            *)
(* (packages/memory-kernel/src/store.ts), by several processes at once,    *)
(* next to those that make, check and use the workspace.                   *)
(*                                                                         *)
(* SQLite is external: every statement is a transaction of its own, which  *)
(* may fail, being locked out, and a deleted file stays with the processes *)
(* that have it open.                                                      *)
(***************************************************************************)
EXTENDS Workspace, FiniteSets

CONSTANTS
  Tables,         \* the tables of SCHEMA_V1, in order
  SchemaVersion,  \* SCHEMA_VERSION
  Corrupt,        \* a version that is no integer
  OldStores,      \* what there may be before the first command
  NoStore         \* no database file

Version == 1 .. SchemaVersion + 1 \cup {Corrupt}
Inode == 1 .. Cardinality(Proc) + 1

(* A database: its tables, the unique index on the edges, the rows of      *)
(* schema_version, and whether there are duplicate edges.                  *)
Database == [tables : SUBSET {Tables[i] : i \in DOMAIN Tables}, unique : BOOLEAN,
             versions : Seq(Version), doubled : BOOLEAN]
Empty == [tables |-> {}, unique |-> FALSE, versions |-> <<>>, doubled |-> FALSE]

(* What older versions of this code left behind: rows that agree, and the  *)
(* current version only in a current store.                                *)
Complete(s) == s.tables = {Tables[i] : i \in DOMAIN Tables} /\ s.unique /\ ~s.doubled
Agree(s) == \A j, k \in DOMAIN s.versions : s.versions[j] = s.versions[k]
Stamped(s) == \E k \in DOMAIN s.versions : s.versions[k] = SchemaVersion
Sound(s) == Agree(s) /\ (Stamped(s) => Complete(s)) /\ ~(s.unique /\ s.doubled)

ASSUME ProcAssumption == IsFiniteSet(Proc)
ASSUME NoStoreAssumption == NoStore \notin Inode
ASSUME SchemaAssumption == /\ SchemaVersion \in Nat \ {0}
                           /\ Tables \in Seq({Tables[i] : i \in DOMAIN Tables})
                           /\ OldStores \subseteq Database
                           /\ \A s \in OldStores : Sound(s)

VARIABLES
  link,   \* the file under the name db/memory.sqlite, or NoStore
  store,  \* the files
  held,   \* the file a process has open, or NoStore
  row     \* what it has read of schema_version

stores == <<link, store, held, row>>
allVars == <<vars, stores>>

StoreInit ==
  /\ Init
  /\ held = [p \in Proc |-> NoStore]
  /\ row = [p \in Proc |-> {}]
  /\ \/ link = NoStore /\ store = [i \in Inode |-> Empty]
     \/ /\ Exists(Db) /\ tree[Db].kind = "dir"
        /\ link = 1
        /\ \E s \in OldStores : store = [i \in Inode |-> IF i = 1 THEN s ELSE Empty]

-----------------------------------------------------------------------------
(* openProjectionStore.                                                    *)

Mine(p) == store[held[p]]
Sets(p, database) == store' = [store EXCEPT ![held[p]] = database]

StartOpen(p) == Begin(p, "mkdir") /\ UNCHANGED stores

MakeDb(p) ==
  /\ Goes(p, "mkdir", "connect")
  /\ MayMakeDir(Db)
  /\ tree' = MadeDir(Db)
  /\ UNCHANGED <<at, starts, disturbed, told, ready, stores>>

(* new DatabaseSync: the file is created if there is none.                 *)
Unused == {i \in Inode : i # link /\ \A p \in Proc : held[p] # i}
Connect_TrustsVersion(p) ==
  /\ Exists(Db) /\ tree[Db].kind = "dir"
  /\ LET i == IF link # NoStore THEN link ELSE CHOOSE x \in Unused : TRUE
     IN /\ Goes(p, "connect", IF store[i].versions = <<>> THEN "schema" ELSE "select")
        /\ link' = i /\ held' = [held EXCEPT ![p] = i]
  /\ UNCHANGED <<tree, at, starts, disturbed, told, ready, store, row>>
Connect(p) ==
  /\ Goes(p, "connect", "schema")
  /\ Exists(Db) /\ tree[Db].kind = "dir"
  /\ LET i == IF link # NoStore THEN link ELSE CHOOSE x \in Unused : TRUE
     IN link' = i /\ held' = [held EXCEPT ![p] = i]
  /\ UNCHANGED <<tree, at, starts, disturbed, told, ready, store, row>>

(* SCHEMA_V1: a CREATE TABLE IF NOT EXISTS for each.                       *)
CreateTable(p) ==
  /\ pc[p] = "schema"
  /\ at[p] <= Len(Tables)
  /\ Sets(p, [Mine(p) EXCEPT !.tables = @ \cup {Tables[at[p]]}])
  /\ at' = [at EXCEPT ![p] = @ + 1]
  /\ UNCHANGED <<tree, pc, starts, disturbed, told, ready, link, held, row>>

(* SCHEMA_V2: CREATE UNIQUE INDEX IF NOT EXISTS, refused while there are   *)
(* duplicate edges.                                                        *)
CreateIndex(p) ==
  /\ Goes(p, "schema", "select")
  /\ at[p] > Len(Tables)
  /\ Mine(p).unique \/ ~Mine(p).doubled
  /\ Sets(p, [Mine(p) EXCEPT !.unique = TRUE])
  /\ UNCHANGED <<tree, at, starts, disturbed, told, ready, link, held, row>>

(* SELECT ... LIMIT 1: the first row, if any.                              *)
SelectVersion(p) ==
  /\ Goes(p, "select", "stamp")
  /\ row' = [row EXCEPT ![p] = {Mine(p).versions[k] : k \in DOMAIN Mine(p).versions \cap {1}}]
  /\ UNCHANGED <<tree, at, starts, disturbed, told, ready, link, store, held>>

(* The first row of the table is written ...                               *)
InsertVersion(p) ==
  /\ Goes(p, "stamp", "use")
  /\ row[p] = {}
  /\ Sets(p, [Mine(p) EXCEPT !.versions = Append(@, SchemaVersion)])
  /\ UNCHANGED <<tree, at, starts, disturbed, told, ready, link, held, row>>

(* ... an older version raised in every row, a current one left alone.     *)
Supported(v) == v \in 1..SchemaVersion
Raised_First(versions) == [versions EXCEPT ![1] = SchemaVersion]
Raised(versions) == [k \in DOMAIN versions |-> SchemaVersion]
UpdateVersion(p) ==
  /\ Goes(p, "stamp", "use")
  /\ \E v \in row[p] :
       /\ Supported(v)
       /\ IF v = SchemaVersion THEN UNCHANGED store
          ELSE Sets(p, [Mine(p) EXCEPT !.versions = Raised(@)])
  /\ UNCHANGED <<tree, at, starts, disturbed, told, ready, link, held, row>>

(* The store is closed: after its use, or because a statement failed, the  *)
(* version is not supported, or the process died.  A file without a name   *)
(* goes with the last process that has it open.                            *)
CloseStore(p) ==
  /\ held[p] # NoStore
  /\ Ends(p)
  /\ held' = [held EXCEPT ![p] = NoStore]
  /\ row' = [row EXCEPT ![p] = {}]
  /\ store' = IF held[p] = link \/ \E q \in Proc \ {p} : held[q] = held[p] THEN store
              ELSE [store EXCEPT ![held[p]] = Empty]
  /\ UNCHANGED <<tree, starts, ready, link>>

(* db/ is deleted, the database with it.                                   *)
DisposeStore ==
  /\ DisposeDb
  /\ link' = NoStore
  /\ store' = [i \in Inode |-> IF i = link /\ \A p \in Proc : held[p] # i THEN Empty ELSE store[i]]
  /\ UNCHANGED <<held, row>>

StoreNext ==
  \/ DisposeStore
  \/ \E p \in Proc :
       \/ Start(p) /\ UNCHANGED stores
       \/ InitSteps(p) /\ UNCHANGED stores
       \/ VerifySteps(p) /\ UNCHANGED stores
       \/ AppendSteps(p) /\ UNCHANGED stores
       \/ held[p] = NoStore /\ Abandon(p) /\ UNCHANGED stores
       \/ StartOpen(p) \/ MakeDb(p) \/ Connect(p) \/ CreateTable(p) \/ CreateIndex(p)
       \/ SelectVersion(p) \/ InsertVersion(p) \/ UpdateVersion(p) \/ CloseStore(p)

Spec == StoreInit /\ [][StoreNext]_allVars

-----------------------------------------------------------------------------
(* Properties.                                                             *)

StorePlaces == Places \cup {"mkdir", "connect", "schema", "select", "stamp", "use"}

(* Every variable has its type.                                            *)
StoreTypeOK ==
  /\ TypeOK
  /\ pc \in [Proc -> StorePlaces]
  /\ link \in Inode \cup {NoStore}
  /\ store \in [Inode -> Database]
  /\ held \in [Proc -> Inode \cup {NoStore}]
  /\ row \in [Proc -> SUBSET Version]

(* The version is stamped last: a database that says it is current has     *)
(* every table and the unique index, whoever died or was locked out while  *)
(* making it.                                                              *)
StampTrue == \A i \in Inode : Stamped(store[i]) => Complete(store[i])

(* A store that has been opened is complete and current, even if another   *)
(* process is opening it too or has deleted it.                            *)
OpenedCurrent ==
  \A p \in Proc : pc[p] = "use" =>
    /\ Complete(Mine(p))
    /\ Mine(p).versions # <<>>
    /\ \A k \in DOMAIN Mine(p).versions : Mine(p).versions[k] = SchemaVersion

(* No command works on half a schema.                                      *)
SchemaWhole == StampTrue /\ OpenedCurrent

(* Rows of schema_version, though there may be two after a race of two     *)
(* first openers, never disagree, so that it does not matter which one     *)
(* LIMIT 1 returns.                                                        *)
RowsAgree == \A i \in Inode : Agree(store[i])

(* "A db written by NEWER code (or holding a corrupt version) is not       *)
(* silently downgraded."                                                   *)
NotDowngraded ==
  \A k \in DOMAIN store[1].versions :
    (link = 1 /\ link' = 1 /\ store[1].versions[k] \notin 1..SchemaVersion)
      => store'[1].versions[k] = store[1].versions[k]

(* No step makes the rows of schema_version disagree or lose a version     *)
(* that this code does not know.                                           *)
VersionSound == [][RowsAgree' /\ NotDowngraded]_stores

(* A workspace is what commands have reported of it, and a command works   *)
(* in no other than it was told.                                           *)
WorkspaceSound == StoreTypeOK /\ ReadyIsWhole /\ WorksWhereTold
=============================================================================
