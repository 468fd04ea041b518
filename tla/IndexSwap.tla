------------------------------ MODULE IndexSwap ------------------------------
(***************************************************************************)
(* Building and querying the L4 retrieval index.  A command `index' has    *)
(* its own sidecar scan the vault, build a new DuckDB file under a fixed   *)
(* temporary name and rename it over the index; the command gives up after *)
(* its timeout, and then kills a sidecar that goes on working.  A command  *)
(* `query' has its sidecar open the index read-only.                       *)
(*                                                                         *)
(* Files are inodes with names: a file that was unlinked or renamed while  *)
(* it is open is still written and read through the open handle.           *)
(***************************************************************************)
EXTENDS Naturals, FiniteSets

CONSTANTS
  Builder,      \* processes that run `index'
  Querier,      \* processes that run `query'
  MaxEdits,     \* bound: edits of the vault
  MaxFiles,     \* bound: index files ever created
  MaxSteps,     \* writes that make up a whole build
  Nobody

Proc == Builder \cup Querier
Inode == 1..MaxFiles
NoFile == 0
Version == 0..MaxEdits

ASSUME SizeAssumption == MaxEdits \in Nat /\ MaxFiles \in Nat /\ MaxSteps \in Nat \ {0}
ASSUME ProcAssumption == Builder \cap Querier = {} /\ Nobody \notin Proc

(* An index file: the vault version it is built from, how much of it is    *)
(* there, and the sidecar that has it open for writing.                    *)
File == [version : Version, built : 0..MaxSteps, writer : Builder \cup {Nobody}]
Whole(f) == f.built = MaxSteps /\ f.writer = Nobody

VARIABLES
  vault,      \* version of the vault
  file,       \* the index files
  index,      \* the file under the name retrieval.duckdb, or NoFile
  tmp,        \* the file under the name retrieval.duckdb.tmp, or NoFile
  indexed,    \* the versions of the indexed events
  cli,        \* the command of each process
  sidecar,    \* its sidecar
  scanned,    \* the vault version a sidecar has read
  open,       \* the file a sidecar has open, or NoFile
  (* history *)
  since,      \* vault version when the last successful `index' began
  began,      \* vault version when a process's command began
  committed,  \* versions of the builds that became the index
  floor,      \* what `since' was when a query began
  result,     \* the file and version a query is answered from
  crowded     \* two builds have run at the same time

disk == <<file, index, tmp>>
history == <<since, began, committed, floor, result, crowded>>
vars == <<vault, file, index, tmp, indexed, cli, sidecar, scanned, open,
          since, began, committed, floor, result, crowded>>

Init ==
  /\ vault = 0
  /\ file = [i \in {} |-> NoFile]
  /\ index = NoFile
  /\ tmp = NoFile
  /\ indexed = {}
  /\ cli = [p \in Proc |-> "idle"]
  /\ sidecar = [p \in Proc |-> "none"]
  /\ scanned = [p \in Proc |-> 0]
  /\ open = [p \in Proc |-> NoFile]
  /\ since = 0
  /\ began = [p \in Proc |-> 0]
  /\ committed = {}
  /\ floor = [p \in Proc |-> 0]
  /\ result = [p \in Proc |-> {}]
  /\ crowded = FALSE

-----------------------------------------------------------------------------
SidecarGoes(p, here, there) ==
  sidecar[p] = here /\ sidecar' = [sidecar EXCEPT ![p] = there]

(* A sidecar lets go of the file it has open.                              *)
Releases(p) ==
  /\ open' = [open EXCEPT ![p] = NoFile]
  /\ file' = [i \in DOMAIN file |-> IF file[i].writer = p
                                    THEN [file[i] EXCEPT !.writer = Nobody]
                                    ELSE file[i]]

(* A note of the vault is written or edited.                               *)
Edit ==
  /\ vault < MaxEdits
  /\ vault' = vault + 1
  /\ UNCHANGED <<disk, indexed, cli, sidecar, scanned, open, history>>

-----------------------------------------------------------------------------
(* The command: request, wait for the answer or the timeout, close.        *)

Request(p) ==
  /\ cli[p] = "idle"
  /\ cli' = [cli EXCEPT ![p] = "waiting"]
  /\ sidecar' = [sidecar EXCEPT ![p] = "scan"]
  /\ began' = [began EXCEPT ![p] = vault]
  /\ floor' = [floor EXCEPT ![p] = IF p \in Querier THEN since ELSE 0]
  /\ crowded' = (crowded \/ (p \in Builder /\ \E q \in Builder : cli[q] # "idle"))
  /\ UNCHANGED <<vault, disk, indexed, scanned, open, since, committed, result>>

(* The command is over, and what it knew is forgotten.                     *)
Ends(p) ==
  /\ cli' = [cli EXCEPT ![p] = "idle"]
  /\ scanned' = [scanned EXCEPT ![p] = 0]
  /\ began' = [began EXCEPT ![p] = 0]
  /\ floor' = [floor EXCEPT ![p] = 0]
  /\ result' = [result EXCEPT ![p] = {}]

(* Success: the sidecar, having answered, ends with its stdin.             *)
Answered(p) ==
  /\ cli[p] = "waiting"
  /\ SidecarGoes(p, "answered", "none")
  /\ \/ /\ p \in Builder
        /\ cli' = [cli EXCEPT ![p] = "append"]
        /\ UNCHANGED <<scanned, began, floor, result>>
     \/ p \in Querier /\ Ends(p)
  /\ UNCHANGED <<vault, disk, indexed, open, since, committed, crowded>>

(* The sidecar has answered with an error.                                 *)
Refused(p) ==
  /\ cli[p] = "waiting"
  /\ SidecarGoes(p, "failed", "none")
  /\ Ends(p)
  /\ UNCHANGED <<vault, disk, indexed, open, since, committed, crowded>>

(* The request times out, and close() begins to wait for the sidecar (as   *)
(* does a sidecar whose command has been killed, for itself).              *)
Timeout(p) ==
  /\ cli[p] = "waiting"
  /\ cli' = [cli EXCEPT ![p] = "closing"]
  /\ UNCHANGED <<vault, disk, indexed, sidecar, scanned, open, history>>

(* The sidecar is done by itself within the grace period ...               *)
Closed(p) ==
  /\ cli[p] = "closing"
  /\ sidecar[p] \in {"answered", "failed"}
  /\ sidecar' = [sidecar EXCEPT ![p] = "none"]
  /\ Ends(p)
  /\ UNCHANGED <<vault, disk, indexed, open, since, committed, crowded>>

(* ... or dies: killed after it, or by a fault at any other time.          *)
SidecarDies(p) ==
  /\ sidecar[p] # "none"
  /\ sidecar' = [sidecar EXCEPT ![p] = "none"]
  /\ Ends(p)
  /\ Releases(p)
  /\ UNCHANGED <<vault, index, tmp, indexed, since, committed, crowded>>

(* The indexed event; the append may fail (event_append_failed).           *)
AppendIndexed(p) ==
  /\ cli[p] = "append"
  /\ Ends(p)
  /\ \/ /\ indexed' = indexed \cup {scanned[p]}
        /\ since' = IF began[p] > since THEN began[p] ELSE since
     \/ UNCHANGED <<indexed, since>>
  /\ UNCHANGED <<vault, disk, sidecar, open, committed, crowded>>

-----------------------------------------------------------------------------
(* index_vault.                                                            *)

Fails(p) ==
  /\ sidecar' = [sidecar EXCEPT ![p] = "failed"]
  /\ Releases(p)

(* The whole vault is read, and embedded; the model may be unavailable.    *)
Scan_Cached(p) ==
  /\ p \in Builder
  /\ SidecarGoes(p, "scan", "clear")
  /\ scanned' = [scanned EXCEPT ![p] = IF index = NoFile THEN vault ELSE file[index].version]
  /\ UNCHANGED <<vault, disk, indexed, cli, open, history>>
Scan(p) ==
  /\ p \in Builder
  /\ SidecarGoes(p, "scan", "clear")
  /\ scanned' = [scanned EXCEPT ![p] = vault]
  /\ UNCHANGED <<vault, disk, indexed, cli, open, history>>

EmbedFails(p) ==
  /\ p \in Builder
  /\ sidecar[p] = "scan"
  /\ Fails(p)
  /\ UNCHANGED <<vault, index, tmp, indexed, cli, scanned, history>>

(* What an earlier build left under the temporary name is deleted (a WAL   *)
(* next to an index is only there while the index is open for writing).    *)
ClearTmp(p) ==
  /\ SidecarGoes(p, "clear", "create")
  /\ tmp' = NoFile
  /\ UNCHANGED <<vault, file, index, indexed, cli, scanned, open, history>>

(* DuckDB creates the file.  Had another build put one there since, it     *)
(* would be open elsewhere, or have the tables already (BuildFails).       *)
CreateTmp(p) ==
  /\ SidecarGoes(p, "create", "build")
  /\ tmp = NoFile
  /\ \E i \in Inode :
       /\ i = Cardinality(DOMAIN file) + 1
       /\ file' = [x \in DOMAIN file \cup {i} |->
                     IF x = i THEN [version |-> scanned[p], built |-> 0, writer |-> p]
                     ELSE file[x]]
       /\ tmp' = i
       /\ open' = [open EXCEPT ![p] = i]
  /\ UNCHANGED <<vault, index, indexed, cli, scanned, history>>

(* An error deletes whatever has the temporary name.                       *)
BuildFails(p) ==
  /\ sidecar[p] \in {"create", "build"}
  /\ tmp' = NoFile
  /\ Fails(p)
  /\ UNCHANGED <<vault, index, indexed, cli, scanned, history>>

Write(p) ==
  /\ sidecar[p] = "build"
  /\ file[open[p]].built < MaxSteps
  /\ file' = [file EXCEPT ![open[p]].built = @ + 1]
  /\ UNCHANGED <<vault, index, tmp, indexed, cli, sidecar, scanned, open, history>>

(* The tables and both search indexes are all in, and the file is closed.  *)
CloseFile_HalfWay(p) ==
  /\ SidecarGoes(p, "build", "swap")
  /\ file' = [file EXCEPT ![open[p]].writer = Nobody]
  /\ open' = [open EXCEPT ![p] = NoFile]
  /\ UNCHANGED <<vault, index, tmp, indexed, cli, scanned, history>>
CloseFile(p) ==
  /\ SidecarGoes(p, "build", "swap")
  /\ file[open[p]].built = MaxSteps
  /\ file' = [file EXCEPT ![open[p]].writer = Nobody]
  /\ open' = [open EXCEPT ![p] = NoFile]
  /\ UNCHANGED <<vault, index, tmp, indexed, cli, scanned, history>>

(* tmp_path.replace(db_path): whatever has the temporary name becomes the  *)
(* index, in one step; without such a file the operation fails.            *)
Swap_UnlinksFirst(p) ==
  /\ sidecar[p] = "swap"
  /\ IF index # NoFile
     THEN index' = NoFile /\ UNCHANGED <<tmp, sidecar, committed, crowded>>
     ELSE /\ tmp # NoFile
          /\ index' = tmp
          /\ tmp' = NoFile
          /\ committed' = committed \cup {file[tmp].version}
          /\ sidecar' = [sidecar EXCEPT ![p] = "answered"]
  /\ UNCHANGED <<vault, file, indexed, cli, scanned, open, since, began, floor, result, crowded>>
Swap(p) ==
  /\ SidecarGoes(p, "swap", "answered")
  /\ tmp # NoFile
  /\ index' = tmp
  /\ tmp' = NoFile
  /\ committed' = committed \cup {file[tmp].version}
  /\ UNCHANGED <<vault, file, indexed, cli, scanned, open, since, began, floor, result, crowded>>

SwapFails(p) ==
  /\ sidecar[p] = "swap"
  /\ tmp = NoFile
  /\ Fails(p)
  /\ UNCHANGED <<vault, index, tmp, indexed, cli, scanned, history>>

-----------------------------------------------------------------------------
(* query: open the index, which nobody must have open for writing, answer  *)
(* from it, and close it.                                                  *)

OpenIndex(p) ==
  /\ p \in Querier
  /\ SidecarGoes(p, "scan", "read")
  /\ index # NoFile
  /\ file[index].writer = Nobody
  /\ open' = [open EXCEPT ![p] = index]
  /\ UNCHANGED <<vault, disk, indexed, cli, scanned, history>>

(* index_missing, or query_failed.                                         *)
QueryFails(p) ==
  /\ p \in Querier
  /\ sidecar[p] \in {"scan", "read"}
  /\ Fails(p)
  /\ UNCHANGED <<vault, index, tmp, indexed, cli, scanned, history>>

Answer(p) ==
  /\ SidecarGoes(p, "read", "answered")
  /\ result' = [result EXCEPT ![p] = {file[open[p]]}]
  /\ open' = [open EXCEPT ![p] = NoFile]
  /\ UNCHANGED <<vault, disk, indexed, cli, scanned, since, began, committed, floor, crowded>>

-----------------------------------------------------------------------------
Next ==
  \/ Edit
  \/ \E p \in Proc :
       \/ Request(p) \/ Answered(p) \/ Refused(p) \/ Timeout(p) \/ Closed(p)
       \/ SidecarDies(p)
       \/ OpenIndex(p) \/ QueryFails(p) \/ Answer(p)
  \/ \E p \in Builder :
       \/ AppendIndexed(p)
       \/ Scan(p) \/ EmbedFails(p) \/ ClearTmp(p) \/ CreateTmp(p) \/ BuildFails(p)
       \/ Write(p) \/ CloseFile(p) \/ Swap(p) \/ SwapFails(p)

Spec == Init /\ [][Next]_vars

-----------------------------------------------------------------------------
(* Properties.                                                             *)

Commands == {"idle", "waiting", "closing", "append"}
Sidecars == {"none", "scan", "clear", "create", "build", "swap", "read", "answered", "failed"}

(* Every variable has its type.                                            *)
TypeOK ==
  /\ vault \in Version
  /\ DOMAIN file \subseteq Inode /\ \A i \in DOMAIN file : file[i] \in File
  /\ {index, tmp} \subseteq DOMAIN file \cup {NoFile}
  /\ indexed \subseteq Version
  /\ cli \in [Proc -> Commands]
  /\ sidecar \in [Proc -> Sidecars]
  /\ scanned \in [Proc -> Version]
  /\ open \in [Proc -> Inode \cup {NoFile}]
  /\ since \in Version
  /\ committed \subseteq Version
  /\ began \in [Proc -> Version]
  /\ floor \in [Proc -> Version]
  /\ \A p \in Proc : result[p] \subseteq File
  /\ crowded \in BOOLEAN

(* "No index-less window": once there is an index there always is one,     *)
(* however many builds fail, are killed or run at the same time.           *)
IndexStays == [][index # NoFile => index' # NoFile]_index

(* The file under the index's name is a complete build.                    *)
IndexWhole == index # NoFile => Whole(file[index])

(* As long as builds do not overlap, a build that fails, times out or is   *)
(* killed at any step leaves a complete index in place.                    *)
LoneBuildsWhole == ~crowded => IndexWhole

(* A query that began after `index' had succeeded answers from notes no    *)
(* older than those that command found when it began, and from a complete  *)
(* index (builds not overlapping).                                         *)
QueriesFresh ==
  ~crowded => \A p \in Querier : \A f \in result[p] : Whole(f) /\ f.version >= floor[p]

(* "Events record only committed outcomes": every indexed event tells of a *)
(* build that became the index, however timeouts, failures and kills fall  *)
(* (builds not overlapping).                                               *)
EventsCommitted == ~crowded => indexed \subseteq committed

(* What a lone build leaves behind, on disk and in the log: a complete     *)
(* index, and an event only for a build that became one.                   *)
LoneBuildsSound == TypeOK /\ LoneBuildsWhole /\ EventsCommitted

-----------------------------------------------------------------------------
(* The register that is seen from outside: the version under the index's   *)
(* name, and, of a query, the version of the file it has open.             *)
Current == {file[i].version : i \in {index} \ {NoFile}}
Asking == {q \in Querier : cli[q] # "idle"}
Views == [q \in Querier |-> IF sidecar[q] = "read" THEN {file[open[q]].version} ELSE {}]
Answers == [q \in Querier |-> {f.version : f \in result[q]}]

Register ==
  INSTANCE IndexRegister WITH
    Readers <- Querier, Versions <- Version,
    current <- Current, told <- indexed, assured <- since,
    asking <- Asking, view <- Views, answer <- Answers, loose <- crowded

(* The index is a register of versions (IndexRegister): replaced in one    *)
(* step and never taken away, however builds fail or overlap; a query,     *)
(* even if the index is swapped under it, is answered with what the index  *)
(* was at one moment of the query; and, builds not overlapping, the index  *)
(* is never older than the last `index' found, and events tell of it.      *)
ImplementsRegister == Register!Spec
=============================================================================
