------------------------------ MODULE CallerGate ------------------------------
(***************************************************************************)
(* How the command dispatch (apps/cli/src/index.ts) admits its callers.    *)
(*                                                                         *)
(* A caller runs a workflow, a series of commands each of which goes       *)
(* through main() on its own: it loads the grant file when the caller is a *)
(* domain app, checks every scope the command needs, and then does its     *)
(* work.  A person may save another grant file at any moment.  Dashboard   *)
(* requests, surfaces and apps run at the same time.                       *)
(***************************************************************************)
EXTENDS Grants

CONSTANTS
  Proc,           \* invocations of a workflow at one time
  File,           \* grant files that a person may save
  Scope           \* scopes that somebody may ask for

ASSUME FileAssumption == NoFile \in File

VARIABLES
  file,     \* the grant file
  pc,       \* where each invocation is
  caller,   \* on whose behalf it runs
  todo,     \* the commands it has left
  config,   \* the grants that its current command has loaded
  asof      \* history: the file when its current command was dispatched

mine == <<pc, caller, todo, config, asof>>
vars == <<file, pc, caller, todo, config, asof>>

-----------------------------------------------------------------------------
(* Commands and what they need.                                            *)

(* The operations' contracts.                                              *)
Contract(op) ==
  CASE op = "capture" -> <<"write", "capture">>
    [] op \in {"getNote", "listNotes", "proposeDistillation"} -> <<"read", "notes">>
    [] op = "acceptDistillation" -> <<"write", "distill">>
    [] op \in {"addFact", "supersedeFact"} -> <<"write", "facts">>
    [] op = "listFacts" -> <<"read", "facts">>
    [] op = "rebuildProjections" -> <<"rebuild", "projections">>
    [] op = "indexVault" -> <<"write", "index">>
    [] op = "queryMemory" -> <<"read", "index">>
    [] op = "composeOutput" -> <<"write", "outputs">>

(* The scopes that a command's handler enforces before it does anything.   *)
Enforced_AcceptAsPropose(command) ==
  CASE command = "capture" -> {Contract("capture")}
    [] command = "note list" -> {Contract("listNotes")}
    [] command = "note get" -> {Contract("getNote")}
    [] command = "note promote" -> {<<"write", "notes">>}
    [] command = "distill propose" -> {Contract("proposeDistillation")}
    [] command = "distill accept" -> {Contract("proposeDistillation")}
    [] command = "fact list" -> {Contract("listFacts")}
    [] command = "fact add" -> {Contract("addFact")}
    [] command = "fact accept" -> {Contract("addFact"), Contract("supersedeFact")}
    [] command = "secref add" -> {<<"write", "secure_refs">>}
    [] command = "secref list" -> {<<"read", "notes">>}
    [] command = "output create" -> {Contract("composeOutput")}
    [] command = "rebuild" -> {Contract("rebuildProjections")}
    [] command = "index" -> {Contract("indexVault")}
    [] command = "query" -> {Contract("queryMemory")}
Enforced(command) ==
  CASE command = "capture" -> {Contract("capture")}
    [] command = "note list" -> {Contract("listNotes")}
    [] command = "note get" -> {Contract("getNote")}
    [] command = "note promote" -> {<<"write", "notes">>}
    [] command = "distill propose" -> {Contract("proposeDistillation")}
    [] command = "distill accept" -> {Contract("acceptDistillation")}
    [] command = "fact list" -> {Contract("listFacts")}
    [] command = "fact add" -> {Contract("addFact")}
    [] command = "fact accept" -> {Contract("addFact"), Contract("supersedeFact")}
    [] command = "secref add" -> {<<"write", "secure_refs">>}
    [] command = "secref list" -> {<<"read", "notes">>}
    [] command = "output create" -> {Contract("composeOutput")}
    [] command = "rebuild" -> {Contract("rebuildProjections")}
    [] command = "index" -> {Contract("indexVault")}
    [] command = "query" -> {Contract("queryMemory")}

(* The stores that a command may write to by what it is for.               *)
Writes(command) ==
  CASE command = "capture" -> {"raw", "capture log"}
    [] command = "note promote" -> {"inbox"}
    [] command = "distill accept" -> {"wiki", "memory log"}
    [] command \in {"fact add", "fact accept"} -> {"memory log", "projections"}
    [] command = "secref add" -> {"secure refs"}
    [] command = "output create" -> {"outputs", "memory log"}
    [] command = "rebuild" -> {"projections", "projection log"}
    [] command = "index" -> {"index", "projection log"}
    [] OTHER -> {}

(* The commands that open the projection store, if only to read from it:   *)
(* openProjectionStore makes db/ and its tables, or migrates them.         *)
Opening == {"fact list", "fact add", "fact accept", "output create", "rebuild"}

(* The stores that a command may change.                                   *)
Changes(command) ==
  Writes(command) \cup {store \in {"schema"} : command \in Opening}

Commands == {"capture", "note list", "note get", "note promote", "distill propose",
             "distill accept", "fact list", "fact add", "fact accept", "secref add",
             "secref list", "output create", "rebuild", "index", "query"}

(* The workflows of the surfaces and apps; a person at the shell and an    *)
(* app's escape hatch run any single command.                              *)
Single(names) == {<<s>> : s \in names}
Viewing == {"distill propose", "distill accept", "fact accept", "capture",
            "note list", "note get", "fact list"}
Workflows(c) ==
  CASE c = "surface:obsidian-helper" -> {<<"note list", "note get">>, <<"capture">>}
    [] c = "surface:media-intake" ->
         {<<"note list", "note get", "secref add", "capture", "note promote">>}
    [] c = "surface:dashboard" -> Single(Viewing)
    [] c \in Domain ->
         Single(Commands) \cup {<<"fact list", "note list", "note get">>, <<"capture", "note promote">>}
    [] OTHER -> Single(Commands)

Init ==
  /\ file = NoFile
  /\ pc = [p \in Proc |-> "idle"]
  /\ caller = [p \in Proc |-> None]
  /\ todo = [p \in Proc |-> <<>>]
  /\ config = [p \in Proc |-> None]
  /\ asof = [p \in Proc |-> None]

-----------------------------------------------------------------------------
Goes(p, here, there) == pc[p] = here /\ pc' = [pc EXCEPT ![p] = there]
Command(p) == Head(todo[p])

(* A person saves a grant file.                                            *)
Save ==
  /\ file' \in File \ {file}
  /\ UNCHANGED mine

Start(p) ==
  /\ Goes(p, "idle", "dispatch")
  /\ \E c \in Caller : \E w \in Workflows(c) :
       /\ caller' = [caller EXCEPT ![p] = c]
       /\ todo' = [todo EXCEPT ![p] = w]
  /\ config' = [config EXCEPT ![p] = None]
  /\ asof' = [asof EXCEPT ![p] = None]
  /\ UNCHANGED file

(* The workflow is over.                                                   *)
Stop(p, how) ==
  /\ pc' = [pc EXCEPT ![p] = how]
  /\ UNCHANGED <<file, caller, todo, config, asof>>

(* main(): a domain app's command begins by loading the grant file.        *)
Reads(c) == c \in Domain

Dispatch_Once(p) ==
  /\ Goes(p, "dispatch", "enforce")
  /\ Reads(caller[p]) => LoadGrantConfig(file) # Rejected
  /\ config' = [config EXCEPT ![p] =
       IF ~Reads(caller[p]) THEN None ELSE IF @ = None THEN LoadGrantConfig(file) ELSE @]
  /\ asof' = [asof EXCEPT ![p] = file]
  /\ UNCHANGED <<file, caller, todo>>
Dispatch(p) ==
  /\ Goes(p, "dispatch", "enforce")
  /\ Reads(caller[p]) => LoadGrantConfig(file) # Rejected
  /\ config' = [config EXCEPT ![p] = IF Reads(caller[p]) THEN LoadGrantConfig(file) ELSE None]
  /\ asof' = [asof EXCEPT ![p] = file]
  /\ UNCHANGED <<file, caller, todo>>

(* grant_config_invalid: the command does nothing, and the workflow stops, *)
(* unless it only skips the notes it cannot get.                           *)
Tolerant(p) == Command(p) = "note get"

Advance(p) ==
  /\ todo' = [todo EXCEPT ![p] = Tail(@)]
  /\ pc' = [pc EXCEPT ![p] = IF Len(todo[p]) = 1 THEN "idle" ELSE "dispatch"]
  /\ UNCHANGED <<file, caller, config, asof>>

FailDispatch(p) ==
  /\ pc[p] = "dispatch"
  /\ Reads(caller[p]) /\ LoadGrantConfig(file) = Rejected
  /\ IF Tolerant(p) THEN Advance(p) ELSE Stop(p, "failed")

(* enforceScope, for every scope of the command.                           *)
Permitted(p) ==
  \A scope \in Enforced(Command(p)) : GrantAllows(ResolveGrant(caller[p], config[p]), scope)

Enforce(p) ==
  /\ Goes(p, "enforce", "work")
  /\ Permitted(p)
  /\ UNCHANGED <<file, caller, todo, config, asof>>

(* scope_denied.                                                           *)
Deny(p) ==
  /\ pc[p] = "enforce"
  /\ ~Permitted(p)
  /\ IF Tolerant(p) THEN Advance(p) ELSE Stop(p, "denied")

Work(p) == pc[p] = "work" /\ Advance(p)

(* The command fails at its work.                                          *)
Fail(p) ==
  /\ pc[p] = "work"
  /\ IF Tolerant(p) THEN Advance(p) ELSE Stop(p, "failed")

(* The caller has seen the outcome.                                        *)
Return(p) ==
  /\ pc[p] \in {"denied", "failed"}
  /\ Stop(p, "idle")

Next ==
  \/ Save
  \/ \E p \in Proc :
       \/ Start(p) \/ Dispatch(p) \/ FailDispatch(p) \/ Enforce(p) \/ Deny(p)
       \/ Work(p) \/ Fail(p) \/ Return(p)

Spec == Init /\ [][Next]_vars

-----------------------------------------------------------------------------
(* Properties.                                                             *)

Locations == {"idle", "dispatch", "enforce", "work", "denied", "failed"}

(* Every variable has its type.                                            *)
TypeOK ==
  /\ file \in File
  /\ pc \in [Proc -> Locations]
  /\ caller \in [Proc -> Caller \cup {None}]
  /\ todo \in [Proc -> Seq(Commands)]
  /\ config \in [Proc -> [Domain -> [allow : SUBSET Grantable, deny : SUBSET Grantable]] \cup {None}]
  /\ asof \in [Proc -> File \cup {None}]
  /\ \A p \in Proc : pc[p] # "idle" => caller[p] \in Caller /\ todo[p] # <<>>

Working(p) == pc[p] = "work"

(* Beyond the first parties a command works only for a domain app, on the  *)
(* strength of the app's own entry in the grant file as it was when this   *)
(* very command was dispatched; that file was sound as a whole, and the    *)
(* entry allows and does not deny what the command needs.  A grant that    *)
(* was taken back before the command began is gone, whatever the workflow  *)
(* has done before.                                                        *)
OnOwnGrant ==
  \A p \in Proc : Working(p) /\ caller[p] \notin FirstParty =>
    /\ GoodFile(asof[p])
    /\ \E i \in 1..Len(asof[p].grants) :
         LET e == asof[p].grants[i]
         IN /\ e.app = caller[p]
            /\ \A scope \in Enforced(Command(p)) :
                 Covers(Elements(e.allow), scope) /\ ~Covers(Elements(e.deny), scope)

(* The scopes that own each store.  The schema of the disposable database  *)
(* belongs to whoever may use it at all, a reader of facts included.       *)
Owner(store) ==
  CASE store \in {"raw", "capture log"} -> {<<"write", "capture">>}
    [] store = "inbox" -> {<<"write", "notes">>}
    [] store = "wiki" -> {<<"write", "distill">>}
    [] store = "outputs" -> {<<"write", "outputs">>}
    [] store = "secure refs" -> {<<"write", "secure_refs">>}
    [] store = "memory log" -> {<<"write", "distill">>, <<"write", "facts">>, <<"write", "outputs">>}
    [] store = "projections" -> {<<"write", "facts">>, <<"rebuild", "projections">>}
    [] store = "projection log" -> {<<"rebuild", "projections">>, <<"write", "index">>}
    [] store = "index" -> {<<"write", "index">>}
    [] store = "schema" -> {<<"read", "facts">>, <<"write", "facts">>,
                            <<"write", "outputs">>, <<"rebuild", "projections">>}

(* Nobody changes a store without a scope that owns it.  A caller that may *)
(* only read changes no note, no log, no row and no index; with read:facts *)
(* it may still make or migrate db/, which fact list opens to read it.     *)
ChangesOwned ==
  \A p \in Proc : Working(p) => \A store \in Changes(Command(p)) :
    \E scope \in Owner(store) : GrantAllows(ResolveGrant(caller[p], config[p]), scope)

(* The registry grants every surface all that its code invokes, and the    *)
(* shell everything, whatever the grant file says.                         *)
SurfacesServed ==
  \A p \in Proc : pc[p] = "enforce" /\ caller[p] \in FirstParty \ {"sidecar:retrieval"} => Permitted(p)

(* No grant file makes an app more powerful than the shell.                *)
ConfinedToCli ==
  LoadGrantConfig(file) # Rejected =>
    \A app \in Domain : \A scope \in Scope :
      GrantAllows(ResolveGrant(app, LoadGrantConfig(file)), scope)
        => GrantAllows(FirstPartyGrants["cli"], scope)
=============================================================================
