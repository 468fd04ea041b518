------------------------------ MODULE Workspace ------------------------------
(***************************************************************************)
(* Making a workspace (scripts/init_workspace.ts), checking it with        *)
(* --verify, and appending to one of its event logs meanwhile, each as an  *)
(* operating system process of its own that may die at any step, while the *)
(* owner deletes db/, which the code declares disposable.                  *)
(*                                                                         *)
(* One action is one call of the file system that another process can see. *)
(***************************************************************************)
EXTENDS Naturals, Sequences

CONSTANTS
  Proc,       \* processes
  Root,       \* the workspace
  Dirs,       \* WORKSPACE_PLAN.directories, in order
  Files,      \* WORKSPACE_PLAN.files, in order: event logs, then READMEs
  Logs,       \* those that are event logs
  Log,        \* the one that other commands append to
  Db,         \* the directory db/ of the plan
  Parent,     \* the directory of every path but the root
  Stray,      \* an entry of the workspace that is not in the plan
  Disks,      \* what there may be before the first command
  Unfit,      \* values that are no absolute path outside the repository
  Absent,     \* the variable is not set
  MaxStarts   \* bound: commands

Plan == <<Root>> \o Dirs \o Files
Planned == {Plan[i] : i \in DOMAIN Plan}
Path == Planned \cup {Stray}
InDirs(path) == path = Root \/ \E i \in DOMAIN Dirs : Dirs[i] = path

Folder == {path \in Planned : InDirs(path)}

ASSUME PlanAssumption == /\ Dirs \in Seq(Planned) /\ Files \in Seq(Planned)
                         /\ Log \in Logs /\ Logs \subseteq Planned \ Folder
                         /\ Db \in Folder
                         /\ Stray \notin Planned
                         /\ Parent \in [Path \ {Root} -> Folder]
ASSUME ValueAssumption == Root \notin Unfit /\ Absent \notin Unfit \cup {Root}
ASSUME StartsAssumption == MaxStarts \in Nat

(* A directory, or a file with so much in it.                              *)
Entry == [kind : {"dir", "file"}, size : Nat]
Dir == [kind |-> "dir", size |-> 0]
File(n) == [kind |-> "file", size |-> n]
IsTree(t) == DOMAIN t \subseteq Path /\ \A path \in DOMAIN t : t[path] \in Entry

ASSUME DisksAssumption == \A t \in Disks : IsTree(t)

VARIABLES
  tree,       \* the entries of the workspace
  pc,         \* where each process is
  at,         \* the entry of the plan it has come to
  starts,     \* commands begun
  (* history *)
  disturbed,  \* what happened beside its command: "no", "raced" or "removed"
  told,       \* its environment did not name another place than it works in
  ready       \* what a command has reported since: "no", "present", "verified"

mine == <<pc, at, disturbed, told>>
vars == <<tree, pc, at, starts, disturbed, told, ready>>

Init ==
  /\ tree \in Disks
  /\ pc = [p \in Proc |-> "idle"]
  /\ at = [p \in Proc |-> 1]
  /\ starts = 0
  /\ disturbed = [p \in Proc |-> "no"]
  /\ told = [p \in Proc |-> TRUE]
  /\ ready = "no"

-----------------------------------------------------------------------------
(* The tree.                                                               *)

Exists(path) == path \in DOMAIN tree
With(path, entry) == [x \in DOMAIN tree \cup {path} |-> IF x = path THEN entry ELSE tree[x]]

(* A path and the directories above it.                                    *)
Chain[path \in Path] == IF path = Root THEN {Root} ELSE {path} \cup Chain[Parent[path]]

(* The tree is one, and the logs are not below db/.                        *)
ASSUME ChainAssumption ==
  /\ \A path \in Path : path \in Chain[path] /\ Chain[path] \subseteq {path} \cup Folder
  /\ \A f \in Logs : Db \notin Chain[f]

(* mkdir with recursive: true.                                             *)
MayMakeDir(path) == \A x \in Chain[path] : Exists(x) => tree[x].kind = "dir"
MadeDir(path) == [x \in DOMAIN tree \cup Chain[path] |-> IF Exists(x) THEN tree[x] ELSE Dir]

(* A file is created in a directory that is there.                         *)
MayHold(path) == Exists(Parent[path]) /\ tree[Parent[path]].kind = "dir"

-----------------------------------------------------------------------------
(* resolveWorkspaceConfig.                                                 *)

Value == {Root, Absent} \cup Unfit
Setting == [process : Value, dotenv : Value]

(* The variable of the process counts as soon as it is set, even to        *)
(* nothing; .env is asked only when it is not.                             *)
Raw(s) == IF s.process # Absent THEN s.process ELSE s.dotenv

Resolves(s) == Raw(s) = Root /\ (Exists(Root) => tree[Root].kind = "dir")

(* A command begins; with another setting it ends at once with an error.   *)
FirstSteps == {"look", "inspect", "ensure"}
Begin(p, step) ==
  /\ pc[p] = "idle"
  /\ starts < MaxStarts
  /\ starts' = starts + 1
  /\ \E s \in Setting :
       /\ Resolves(s)
       /\ told' = [told EXCEPT ![p] = s.process \in {Root, Absent}]
  /\ pc' = [pc EXCEPT ![p] = step]
  /\ disturbed' = [q \in Proc |->
                     IF q = p THEN (IF \E r \in Proc \ {p} : pc[r] # "idle" THEN "raced" ELSE "no")
                     ELSE IF pc[q] # "idle" /\ disturbed[q] = "no" THEN "raced" ELSE disturbed[q]]
  /\ UNCHANGED <<tree, at, ready>>

Start(p) == \E step \in FirstSteps : Begin(p, step)

(* A command ends, having reported something or not.                       *)
Ends(p) ==
  /\ pc' = [pc EXCEPT ![p] = "idle"]
  /\ at' = [at EXCEPT ![p] = 1]
  /\ disturbed' = [disturbed EXCEPT ![p] = "no"]
  /\ told' = [told EXCEPT ![p] = TRUE]
Reports(p, what) == ready' = IF disturbed[p] = "removed" \/ ready = "verified" THEN ready ELSE what

(* It throws, or dies.                                                     *)
Abandon(p) ==
  /\ pc[p] # "idle"
  /\ Ends(p)
  /\ UNCHANGED <<tree, starts, ready>>

Goes(p, here, there) == pc[p] = here /\ pc' = [pc EXCEPT ![p] = there]

-----------------------------------------------------------------------------
(* init_workspace without flags: createDirectories, createEventFiles and   *)
(* createReadmeFiles go through the plan in its order.                     *)

Target(p) == Plan[at[p]]
Finished(p) == at[p] > Len(Plan)

(* On to the next entry.                                                   *)
Moves(p) ==
  /\ pc' = [pc EXCEPT ![p] = "look"]
  /\ at' = [at EXCEPT ![p] = @ + 1]
  /\ UNCHANGED <<disturbed, told>>

(* existsSync: whatever is there is left as it is.                         *)
LookFinds_OnlyDirs(p) ==
  /\ pc[p] = "look"
  /\ ~Finished(p)
  /\ Exists(Target(p))
  /\ IF InDirs(Target(p)) THEN Moves(p)
     ELSE pc' = [pc EXCEPT ![p] = "make"] /\ UNCHANGED <<at, disturbed, told>>
  /\ UNCHANGED <<tree, starts, ready>>
LookFinds_RootWillDo(p) ==
  /\ pc[p] = "look"
  /\ ~Finished(p)
  /\ Exists(Target(p))
  /\ at' = [at EXCEPT ![p] = IF Target(p) = Root THEN Len(Plan) + 1 ELSE @ + 1]
  /\ UNCHANGED <<tree, pc, starts, disturbed, told, ready>>
LookFinds(p) ==
  /\ pc[p] = "look"
  /\ ~Finished(p)
  /\ Exists(Target(p))
  /\ Moves(p)
  /\ UNCHANGED <<tree, starts, ready>>

LookMisses(p) ==
  /\ ~Finished(p)
  /\ ~Exists(Target(p))
  /\ Goes(p, "look", "make")
  /\ UNCHANGED <<tree, at, starts, disturbed, told, ready>>

(* mkdirSync of the directory, or of the one the file goes into.           *)
Needed(p) == IF InDirs(Target(p)) THEN Target(p) ELSE Parent[Target(p)]

Make(p) ==
  /\ pc[p] = "make"
  /\ MayMakeDir(Needed(p))
  /\ tree' = MadeDir(Needed(p))
  /\ IF InDirs(Target(p)) THEN Moves(p)
     ELSE pc' = [pc EXCEPT ![p] = "open"] /\ UNCHANGED <<at, disturbed, told>>
  /\ UNCHANGED <<starts, ready>>

MakeRefused(p) ==
  /\ pc[p] = "make"
  /\ ~MayMakeDir(Needed(p))
  /\ Ends(p)
  /\ UNCHANGED <<tree, starts, ready>>

(* writeFileSync with the flag wx creates the file, and only creates; an   *)
(* event log is then complete, being empty.                                *)
Open_Truncates(p) ==
  /\ pc[p] = "open"
  /\ MayHold(Target(p))
  /\ tree' = With(Target(p), File(0))
  /\ IF Target(p) \in Logs THEN Moves(p)
     ELSE pc' = [pc EXCEPT ![p] = "fill"] /\ UNCHANGED <<at, disturbed, told>>
  /\ UNCHANGED <<starts, ready>>
Open(p) ==
  /\ pc[p] = "open"
  /\ ~Exists(Target(p))
  /\ MayHold(Target(p))
  /\ tree' = With(Target(p), File(0))
  /\ IF Target(p) \in Logs THEN Moves(p)
     ELSE pc' = [pc EXCEPT ![p] = "fill"] /\ UNCHANGED <<at, disturbed, told>>
  /\ UNCHANGED <<starts, ready>>

OpenRefused(p) ==
  /\ pc[p] = "open"
  /\ Exists(Target(p)) \/ ~MayHold(Target(p))
  /\ Ends(p)
  /\ UNCHANGED <<tree, starts, ready>>

(* The text of a README.                                                   *)
Fill(p) ==
  /\ pc[p] = "fill"
  /\ tree' = [tree EXCEPT ![Target(p)].size = 1]
  /\ Moves(p)
  /\ UNCHANGED <<starts, ready>>

(* Exit 0.                                                                 *)
Initialized(p) ==
  /\ pc[p] = "look"
  /\ Finished(p)
  /\ Reports(p, "present")
  /\ Ends(p)
  /\ UNCHANGED <<tree, starts>>

-----------------------------------------------------------------------------
(* --verify: verifyWorkspace collects problems; the first decides the exit *)
(* code.                                                                   *)

Fits(path) == Exists(path) /\ tree[path].kind = (IF InDirs(path) THEN "dir" ELSE "file")

Inspect(p) ==
  /\ pc[p] = "inspect"
  /\ ~Finished(p)
  /\ Fits(Target(p))
  /\ at' = [at EXCEPT ![p] = @ + 1]
  /\ UNCHANGED <<tree, pc, starts, disturbed, told, ready>>

(* readdirSync: nothing that the plan does not know.                       *)
VerifiedOk(p) ==
  /\ pc[p] = "inspect"
  /\ Finished(p)
  /\ ~Exists(Stray)
  /\ Reports(p, "verified")
  /\ Ends(p)
  /\ UNCHANGED <<tree, starts>>

VerifyFails(p) ==
  /\ pc[p] = "inspect"
  /\ IF Finished(p) THEN Exists(Stray) ELSE ~Fits(Target(p))
  /\ Ends(p)
  /\ UNCHANGED <<tree, starts, ready>>

-----------------------------------------------------------------------------
(* Another command appends an event: mkdir, then appendFile, which creates *)
(* a log that is not there.                                                *)

Ensure(p) ==
  /\ Goes(p, "ensure", "append")
  /\ MayMakeDir(Parent[Log])
  /\ tree' = MadeDir(Parent[Log])
  /\ UNCHANGED <<at, starts, disturbed, told, ready>>

AppendEvent(p) ==
  /\ pc[p] = "append"
  /\ IF Exists(Log) THEN tree[Log].kind = "file" ELSE MayHold(Log)
  /\ tree' = With(Log, File(IF Exists(Log) THEN tree[Log].size + 1 ELSE 1))
  /\ Ends(p)
  /\ UNCHANGED <<starts, ready>>

-----------------------------------------------------------------------------
(* The owner deletes db/ with all that is in it.                           *)
DisposeDb ==
  /\ Exists(Db)
  /\ tree' = [path \in {x \in DOMAIN tree : Db \notin Chain[x]} |-> tree[path]]
  /\ disturbed' = [p \in Proc |-> IF pc[p] = "idle" THEN disturbed[p] ELSE "removed"]
  /\ ready' = "no"
  /\ UNCHANGED <<pc, at, starts, told>>

InitSteps(p) ==
  \/ LookFinds(p) \/ LookMisses(p) \/ Make(p) \/ MakeRefused(p)
  \/ Open(p) \/ OpenRefused(p) \/ Fill(p) \/ Initialized(p)
VerifySteps(p) == Inspect(p) \/ VerifiedOk(p) \/ VerifyFails(p)
AppendSteps(p) == Ensure(p) \/ AppendEvent(p)

-----------------------------------------------------------------------------
(* Properties.                                                             *)

Places == {"idle", "look", "make", "open", "fill", "inspect", "ensure", "append"}

(* Every variable has its type.                                            *)
TypeOK ==
  /\ IsTree(tree)
  /\ at \in [Proc -> Nat \ {0}]
  /\ starts \in 0..MaxStarts
  /\ disturbed \in [Proc -> {"no", "raced", "removed"}]
  /\ told \in [Proc -> BOOLEAN]
  /\ ready \in {"no", "present", "verified"}

(* An entry of the plan is there, but as something else.                   *)
Blocked == \E path \in Planned : Exists(path) /\ ~Fits(path)

(* What a command has reported holds until something is deleted: after     *)
(* exit 0 of an initialisation every entry of the plan is there, after     *)
(* that of --verify they are what they should be, whoever else initialised *)
(* the same workspace or died doing so.                                    *)
ReadyIsWhole ==
  /\ ready # "no" => \A path \in Planned : Exists(path)
  /\ ready = "verified" => ~Blocked

(* "It never overwrites or truncates an existing file": no step takes      *)
(* anything out of an event log, and a log that an append creates between  *)
(* existsSync and writeFileSync keeps its event.                           *)
EventsStay ==
  \A f \in Logs : Exists(f) => f \in DOMAIN tree' /\ tree'[f].size >= tree[f].size
LogsKept == [][EventsStay]_tree

(* "An explicit empty value is an explicit (invalid) choice": no command   *)
(* works in the workspace of .env when its environment names another.      *)
WorksWhereTold == \A p \in Proc : told[p]

(* A workspace that an initialisation left half made is no obstacle to the *)
(* next: one that runs alone is refused only for an entry of the wrong     *)
(* kind.                                                                   *)
RerunSucceeds ==
  [][\A p \in Proc : (disturbed[p] = "no" /\ (MakeRefused(p) \/ OpenRefused(p))) => Blocked]_vars
=============================================================================
